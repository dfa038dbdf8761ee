------------------------------ MODULE Reconnect ------------------------------
(***************************************************************************)
(* Disk and Studio move apart while no plugin is connected, and a connect  *)
(* merges them (ConnectPlan), records what is agreed (`commit_sync_base`,  *)
(* src/server/divergence.rs) and pushes what disk won.                     *)
(*                                                                         *)
(* The model is about what a connect decides, so a connect is one step and *)
(* neither side is edited while a plugin is connected (ConflictSession and *)
(* SyncSession are about that).                                            *)
(*                                                                         *)
(* A setting names the paths in use and the mishaps a behaviour includes:  *)
(*   "lost push"   the link goes down with pushes under way                *)
(*   "unsettled"   it goes down before the writer has taken its snapshot   *)
(*   "overloaded"  the pushes find the plugin's frame queue full           *)
(*   "old plugin"  the plugin sends no source hashes                       *)
(*   "retyped"     an edit changes the class of an instance                *)
(*   "truncated"   it cuts the descendants of what only Studio has         *)
(***************************************************************************)
EXTENDS ConnectPlan

CONSTANTS
    Settings,
    MaxDiskEdits,   \* bounds on the edits of each side and on the connects
    MaxStudioEdits,
    MaxConnects

ASSUME ReconnectAssumption ==
    /\ MaxDiskEdits \in Nat /\ MaxStudioEdits \in Nat /\ MaxConnects \in Nat
    /\ \A choice \in Settings : choice.paths \subseteq Path

VARIABLES
    setting,
    disk, studio,   \* what each side holds, by path
    base,           \* the sync base: no view or one
    linked,         \* a plugin is connected
    pushes,         \* differences the disk won, on their way to Studio
    settled,        \* the writer has recorded the tree since the connect
    backlog,        \* copies of disk files, by path
    budget,
    shared,         \* history: the contents both sides have held at a time
    agreed          \* history: what both sides last held at a time

vars == <<setting, disk, studio, base, linked, pushes, settled, backlog, budget, shared, agreed>>

Happens(mishap) == mishap \in setting.races

\* What an edit may put at p
Allowed(p) ==
    IF Happens("retyped") THEN Content
    ELSE IF \E q \in setting.paths : IsStrictPrefix(p, q) THEN Folder ELSE Script

\* commit_sync_base: the tree is agreed, except what is held.  A path that left
\* the tree is held as well
Record(b, t, held) ==
    LET snapshot == SnapshotTree(Keys(t), held)
    IN  Some(Merge(b, [snapshot EXCEPT !.held = held], None))

\* Both histories after a step of the daemon
Meet(d, s) ==
    /\ shared' = [p \in Path |-> shared[p] \cup (Get(d, p) \cap Get(s, p))]
    /\ agreed' = LET met == {p \in Path : Get(d, p) = Get(s, p)}
                 IN  [p \in (DOMAIN agreed \ met) \cup (met \cap DOMAIN d) |->
                         IF p \in met THEN d[p] ELSE agreed[p]]

-----------------------------------------------------------------------------
Init ==
    /\ setting \in Settings
    /\ disk \in {t \in Tree : DOMAIN t \subseteq setting.paths /\ \A p \in DOMAIN t : t[p] \in Allowed(p)}
    /\ studio = disk
    /\ base \in {{}, Record({}, disk, {})}
    /\ linked = FALSE /\ pushes = {} /\ settled = TRUE
    /\ backlog = {}
    /\ budget = [disk |-> MaxDiskEdits, studio |-> MaxStudioEdits, connect |-> MaxConnects]
    /\ shared = [p \in Path |-> Get(disk, p)]
    /\ agreed = disk

Edits(t) ==
    {Without(t, {p}) : p \in DOMAIN t}
    \cup UNION {{u \in {With(Without(t, IF c \in Folder THEN {} ELSE {p}), p, c) :
                           c \in Allowed(p)} : IsTree(u)} : p \in setting.paths}

\* External: a user, apart from the daemon or the plugin
DiskEdit(t) ==
    /\ ~linked /\ budget.disk > 0 /\ t \in Edits(disk) \ {disk}
    /\ disk' = t
    /\ budget' = [budget EXCEPT !.disk = @ - 1]
    /\ UNCHANGED <<setting, studio, base, linked, pushes, settled, backlog, shared, agreed>>

StudioEdit(t) ==
    /\ ~linked /\ budget.studio > 0 /\ t \in Edits(studio) \ {studio}
    /\ studio' = t
    /\ budget' = [budget EXCEPT !.studio = @ - 1]
    /\ UNCHANGED <<setting, disk, base, linked, pushes, settled, backlog, shared, agreed>>

\* The compare and its commit.  Pushes that find the frame queue full are only
\* warned about
Connect(hashes, truncated, queued) ==
    /\ ~linked /\ budget.connect > 0
    /\ hashes \/ Happens("old plugin")
    /\ truncated => Happens("truncated")
    /\ queued \/ Happens("overloaded")
    /\ LET winners == Decide(base, Diff(disk, studio), disk, studio, hashes, truncated)
           pushed == ToPush(winners, disk, studio)
           merged == Merged(winners, disk, studio)
       IN  /\ disk' = merged
           /\ backlog' = backlog \cup Backlogged(winners, disk, studio)
           /\ pushes' = IF queued THEN pushed ELSE {}
           /\ base' = Record(base, merged, {item.path : item \in pushed})
           /\ settled' = (pushed = {})
           /\ Meet(merged, studio)
    /\ linked' = TRUE
    /\ budget' = [budget EXCEPT !.connect = @ - 1]
    /\ UNCHANGED <<setting, studio>>

\* The plugin applies the pushes
Deliver ==
    /\ linked /\ pushes # {}
    /\ studio' = Applied(pushes, disk, studio)
    /\ pushes' = {}
    /\ Meet(disk, studio')
    /\ UNCHANGED <<setting, disk, base, linked, settled, backlog, budget>>

\* Two ticks of the writer on a link that held (`settle` makes it take a
\* snapshot though the tree did not move)
Settle ==
    /\ linked /\ ~settled /\ pushes = {}
    /\ base' = Record(base, disk, {})
    /\ settled' = TRUE
    /\ UNCHANGED <<setting, disk, studio, linked, pushes, backlog, budget, shared, agreed>>

\* The plugin goes away; what it had not applied is gone with its queue
Disconnect ==
    /\ linked
    /\ pushes = {} \/ Happens("lost push")
    /\ settled \/ Happens("unsettled") \/ pushes # {}
    /\ linked' = FALSE /\ pushes' = {} /\ settled' = TRUE
    /\ UNCHANGED <<setting, disk, studio, base, backlog, budget, shared, agreed>>

Next ==
    \/ \E t \in Edits(disk) : DiskEdit(t)
    \/ \E t \in Edits(studio) : StudioEdit(t)
    \/ \E hashes, truncated, queued \in BOOLEAN : Connect(hashes, truncated, queued)
    \/ Deliver \/ Settle \/ Disconnect

Spec == Init /\ [][Next]_vars

-----------------------------------------------------------------------------
(* Properties *)

TypeOK ==
    /\ disk \in Tree /\ studio \in Tree
    /\ \A view \in base : DOMAIN view.entries \subseteq Path /\ Range(view.entries) \subseteq Key
    /\ Cardinality(base) <= 1
    /\ linked \in BOOLEAN /\ settled \in BOOLEAN
    /\ pushes \subseteq [state : {OnlyOnDisk, Differs, MissingOnDisk}, path : Path]
    /\ backlog \subseteq Path \X [class : {"Folder"} \cup ScriptClass,
                                 source : Source \cup {NoSource}, rest : Rest \cup {Plain}]

\* A connect never takes a disk file that Studio has not held without leaving a
\* copy in the backlog (Winner::Studio: "Nothing on disk is lost: the disk side
\* is either absent or exactly what both sides last agreed on")
DiskKeptStep ==
    \A p \in DOMAIN disk :
        ~linked /\ linked' =>
            \/ Get(disk', p) = {disk[p]} \/ disk[p] \in shared[p]
            \/ <<p, disk[p]>> \in backlog'

DiskKept == [][DiskKeptStep]_vars

\* Whatever a plugin reports, the side that a connect takes without a copy is one
\* that has not moved since the base, whole subtrees included (classify: "The
\* deletion only wins when Studio's whole subtree is still exactly what was agreed")
WinnersYield ==
    \A hashes, truncated \in BOOLEAN :
        LET items == Diff(disk, studio)
        IN  \A item \in items :
               Yields(base, InputOf(item, items, disk, studio, hashes, truncated))

\* When a connect has been applied and its pushes have arrived, both sides hold
\* the same (connect_commit: "The tree now holds the agreed state, except where
\* disk won")
Converged == linked /\ pushes = {} => disk = studio

\* What disk has at p is below something that disk won
OnItsWay(p) == p \in DOMAIN disk /\ \E item \in pushes : Within(item.path, p)

\* Only what both sides have held is recorded as agreed, or what the plugin is about
\* to apply (sync_base: "An edit that was queued but never delivered therefore cannot
\* be recorded as agreed")
AgreedWasDelivered ==
    \A view \in base : \A p \in DOMAIN view.entries :
        \/ \E c \in shared[p] : KeyOf(c) = view.entries[p]
        \/ OnItsWay(p) /\ KeyOf(disk[p]) = view.entries[p]

\* Links hold until the writer has recorded a connect, and plugins tell everything
Reliable ==
    \A mishap \in {"lost push", "unsettled", "overloaded", "old plugin", "truncated"} : ~Happens(mishap)

\* No instance has changed its class on one side
Comparable == \A p \in DOMAIN disk \cap DOMAIN studio : disk[p].class = studio[p].class

\* When one side only has moved, it wins: nothing of the disk is replaced, or nothing
\* is pushed to Studio (sync_base: "only disk changed since the base -> disk wins,
\* pushed to Studio"; "only Studio changed -> Studio wins, written to disk")
SoleMoverStep ==
    ~linked /\ linked' /\ base # {} /\ Reliable /\ Comparable =>
        /\ studio = agreed => disk' = disk
        /\ disk = agreed => pushes' = {}

SoleMoverWins == [][SoleMoverStep]_vars
=============================================================================
