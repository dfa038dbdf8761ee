------------------------------ MODULE ConnectPlan ------------------------------
(***************************************************************************)
(* What a connect does with the differences between disk and Studio: the   *)
(* plugin's diff (plugin/src/Core/Processor, Core/Divergence), the         *)
(* decision of every difference (`decide`), the apply (`connect_commit`,   *)
(* src/server/divergence.rs; `prepare_stage` and `overlay_unclaimed`,      *)
(* src/server/bulk.rs) and what it pushes to Studio.                       *)
(*                                                                         *)
(* A side is a map from paths to contents.  One root is served.  Siblings  *)
(* have different names and scripts have no children: an instance is one   *)
(* file or directory and a sidecar, present iff `rest # Plain`.            *)
(***************************************************************************)
EXTENDS SyncBase, Functions

CONSTANTS
    Path,           \* instance paths below the root, closed under prefixes
    ScriptClass,    \* the classes of scripts
    Source,         \* the normalized sources of scripts
    Rest,           \* everything outside the key: properties, attributes
    Plain           \* the rest that needs no sidecar

ASSUME PlanAssumption ==
    /\ IsFiniteSet(Path) /\ Path \subseteq Seq(UNION {Range(p) : p \in Path})
    /\ \A p \in Path : p # << >> /\ (Len(p) > 1 => Front(p) \in Path)
    /\ "Folder" \notin ScriptClass

NoSource == "none"

Folder == [class : {"Folder"}, source : {NoSource}, rest : Rest]
Script == [class : ScriptClass, source : Source, rest : Rest]
Content == Folder \cup Script

\* The class and the hash of the source
KeyOf(c) == [class |-> c.class, source |-> c.source]
Key == {KeyOf(c) : c \in Content}

\* What a plugin without source hashes can say of c
FromStudio(c, hashes) == IF hashes \/ c \in Folder THEN {KeyOf(c)} ELSE {}

IsTree(t) ==
    \A p \in DOMAIN t : Len(p) > 1 => Front(p) \in DOMAIN t /\ t[Front(p)] \in Folder
Tree == {t \in UNION {[D -> Content] : D \in SUBSET Path} : IsTree(t)}

Within(p, q) == IsPrefix(p, q)

Without(t, P) == Restrict(t, {q \in DOMAIN t : \A p \in P : ~Within(p, q)})
With(t, p, c) == [q \in DOMAIN t \cup {p} |-> IF q = p THEN c ELSE t[q]]
Keys(t) == [p \in DOMAIN t |-> KeyOf(t[p])]

-----------------------------------------------------------------------------
(* The plugin's diff *)

\* hydrate pairs instances by name and class, from the root down
Paired(d, s, p) ==
    \A q \in Path : Within(q, p) => /\ q \in DOMAIN d \cap DOMAIN s
                                    /\ d[q].class = s[q].class

\* p is the topmost unpaired path
Unpaired(d, s, p) == ~Paired(d, s, p) /\ (Len(p) > 1 => Paired(d, s, Front(p)))

\* diff and mapEntries: additions, updates and removals
Diff(d, s) ==
    {[state |-> OnlyOnDisk, path |-> p] : p \in {q \in DOMAIN d : Unpaired(d, s, q)}}
    \cup {[state |-> Differs, path |-> p] :
             p \in {q \in DOMAIN d : Paired(d, s, q) /\ d[q] # s[q]}}
    \cup {[state |-> MissingOnDisk, path |-> p] : p \in {q \in DOMAIN s : Unpaired(d, s, q)}}

-----------------------------------------------------------------------------
(* decide *)

\* What is known of one difference: the disk side from the tree, the Studio side
\* as the plugin reported it
InputOf(item, items, d, s, hashes, truncated) ==
    [state |-> item.state, path |-> item.path,
     disk |-> IF item.state = MissingOnDisk THEN None ELSE Get(Keys(d), item.path),
     studio |-> IF item.state = OnlyOnDisk THEN {}
                ELSE FromStudio(s[item.path], hashes),
     below |-> IF item.state # MissingOnDisk \/ truncated THEN {}
               ELSE {LET u == Under(s, item.path)
                     IN  [r \in DOMAIN u |-> FromStudio(u[r], hashes)]},
     ambiguous |-> \E other \in items : other # item /\ other.path = item.path]

Decide(b, items, d, s, hashes, truncated) ==
    [item \in items |-> Classify(b, InputOf(item, items, d, s, hashes, truncated))]

-----------------------------------------------------------------------------
(* connect_commit *)

\* Something Studio wins exists in Studio: its whole projection of the root is
\* pulled and staged
Staged(winners) ==
    \E item \in DOMAIN winners : winners[item] # ToStudio /\ item.state # OnlyOnDisk

\* prepare_stage: disk wins, but the two sides lay the instance out differently
\* (a sidecar only one side writes), so Studio's version takes the path after all
Demoted(winners, d, s) ==
    {item \in DOMAIN winners :
        /\ item.state = Differs /\ winners[item] = ToStudio /\ Staged(winners)
        /\ item.path \in DOMAIN d
        /\ (d[item.path].rest = Plain) # (s[item.path].rest = Plain)}

ToPush(winners, d, s) ==
    {item \in DOMAIN winners : winners[item] = ToStudio} \ Demoted(winners, d, s)

\* Differences whose disk side leaves the disk
Leaving(winners) ==
    {item.path : item \in {i \in DOMAIN winners : i.state = OnlyOnDisk /\ winners[i] # ToStudio}}

\* Mutant: what disk deleted is staged all the same
StagedPathsAll(winners, s) == DOMAIN s

\* Paths that are in the stage: Studio's projection without what disk deleted
StagedPaths(winners, s) ==
    DOMAIN Without(s, {item.path : item \in {i \in DOMAIN winners :
                          i.state = MissingOnDisk /\ winners[i] = ToStudio}})

\* overlay_unclaimed: a sidecar the stage does not have is carried over
Overlay(live, staged) == IF staged.rest = Plain THEN [staged EXCEPT !.rest = live.rest] ELSE staged

\* The disk after the swap and the moves to the backlog.  keep_live puts the disk
\* version of what disk won into the stage
Merged(winners, d, s) ==
    LET left == Without(d, Leaving(winners))
        won == {item.path : item \in {i \in ToPush(winners, d, s) : i.state = Differs}}
        taken == StagedPaths(winners, s) \ won
    IN  IF Staged(winners)
        THEN [p \in DOMAIN left \cup taken |->
                CASE p \in taken \cap DOMAIN left -> Overlay(d[p], s[p])
                  [] p \in taken \ DOMAIN left -> s[p]
                  [] OTHER -> d[p]]
        ELSE left

\* Mutant: nothing is kept of a clash
BackloggedNoClash(winners, d, s) ==
    {<<p, d[p]>> : p \in DOMAIN d \ DOMAIN Without(d, Leaving(winners))}

\* What goes to the backlog: the source file of a clash (a directory is not
\* copied, nor is a sidecar), the files of what was demoted, and all of what
\* leaves the disk
Backlogged(winners, d, s) ==
    {<<p, d[p]>> : p \in DOMAIN d \ DOMAIN Without(d, Leaving(winners))}
    \cup {<<item.path, d[item.path]>> : item \in Demoted(winners, d, s)}
    \cup {<<item.path, [d[item.path] EXCEPT !.rest = Plain]>> :
             item \in {i \in DOMAIN winners : /\ i.state = Differs
                                              /\ winners[i] = ToDiskKeepDisk
                                              /\ i.path \in DOMAIN d /\ d[i.path] \in Script}}

\* build_disk_apply on the plugin's side: removals, updates and whole new subtrees
Applied(pushed, d, s) ==
    LET paths(state) == {item.path : item \in {i \in pushed : i.state = state}}
        left == Without(s, paths(MissingOnDisk))
        from == {q \in DOMAIN d : \/ q \in paths(Differs)
                                  \/ \E p \in paths(OnlyOnDisk) : Within(p, q)}
    IN  [q \in DOMAIN left \cup from |-> IF q \in from THEN d[q] ELSE left[q]]
=============================================================================
