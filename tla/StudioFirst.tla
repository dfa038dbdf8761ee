---------------------------- MODULE StudioFirst ----------------------------
(***************************************************************************)
(* What a connect does to the files that lose to Studio: the fenced apply  *)
(* of the staged roots (bulk.rs apply_roots), the move of what was         *)
(* displaced into the backlog (divergence.rs connect_commit), and the      *)
(* backlog with its endpoints (backlog.rs).  Which side wins is decided    *)
(* before (ConnectPlan); here every decision may arrive.                   *)
(*                                                                         *)
(* A path holds a version: 0 is no file, StudioBytes is what Studio has,   *)
(* the others are the user's.  The user may save at any moment the         *)
(* constant EditWindow lists, every call to the file system may fail, and  *)
(* the daemon may crash between two steps.                                 *)
(***************************************************************************)
EXTENDS Naturals, FiniteSetsExt, Functions

CONSTANTS
    Path,
    RootOf,             \* by path: the served root, a number, that holds it
    MaxSaves,           \* the user's versions
    EditWindow,         \* the steps of a connect during which the user saves
    SourceBytes, ReadChunk,     \* the bytes of a script, SOURCE_READ_CHUNK_BYTES
    KeepCount, KeepDays,        \* BACKUP_KEEP_COUNT, BACKUP_KEEP_DAYS
    EntryTtl,           \* ttl_seconds, in days
    MaxDays, MaxConnects, MaxEntries, MaxCrashes,
    MaxPending          \* snapshots of the index that wait to be written

Version == 0 .. MaxSaves + 1
StudioBytes == MaxSaves + 1
UserBytes == 1 .. MaxSaves
Roots == Range(RootOf)
Connect == 1 .. MaxConnects
EntryId == 1 .. MaxEntries

StudioFirstAssumption ==
    /\ DOMAIN RootOf = Path /\ Roots \subseteq Nat /\ IsFiniteSet(Path)
    /\ {MaxSaves, SourceBytes, KeepCount, KeepDays, MaxDays, MaxConnects, MaxEntries, MaxCrashes, MaxPending} \subseteq Nat
    /\ ReadChunk \in Nat \ {0} /\ EntryTtl \in Nat \ {0}

VARIABLES
    live,               \* by path: the version on disk
    watched,            \* the roots the watcher watches
    paused,             \* the watcher is paused
    op,                 \* the connect that runs
    backup,             \* by connect: its transfer directory
    staging,            \* by connect and path: the copy in backlog-staging
    entries,            \* the backlog in memory
    stored,             \* by entry: the version in its directory
    index,              \* index.json
    written,            \* snapshots of the backlog that are still to be persisted
    today, saves, crashes,
    owed                \* history: by path, the user's version nobody gave up

files == <<live, backup, staging, stored>>
firstVars == <<live, watched, paused, op, backup, staging, entries, stored, index, written, today, saves, crashes, owed>>

Nothing == [p \in Path |-> 0]
In(root) == {p \in Path : RootOf[p] = root}
NoTransfer == [made |-> FALSE, complete |-> FALSE, day |-> 0, saved |-> Nothing]
Resting == [pc |-> "idle", n |-> 0, item |-> [p \in Path |-> "none"], roots |-> {}, root |-> 0, fence |-> Nothing,
            got |-> 0, torn |-> FALSE, stage |-> Nothing, preserved |-> {}, demoted |-> {}, claimed |-> {}, path |-> "none", held |-> 0]

FirstInit ==
    /\ live \in [Path -> {0, 1} \cap Version] /\ watched = Roots /\ paused = FALSE /\ op = Resting
    /\ backup = [n \in Connect |-> NoTransfer] /\ staging = [n \in Connect |-> Nothing]
    /\ entries = {} /\ stored = [e \in EntryId |-> 0] /\ index = {} /\ written = {}
    /\ today = 0 /\ saves = 0 /\ crashes = 0 /\ owed = live

Goes(pc) == op' = [op EXCEPT !.pc = pc]

-----------------------------------------------------------------------------
(* The connect is decided *)

\* What a decision may be, by what disk and Studio hold: connect_commit's options
Items(p) == IF live[p] = 0 THEN {"none", "missing studio", "missing disk"}
            ELSE {"none", "differs disk", "differs studio", "differs keep", "only disk", "only studio"}
InStudio(item) == item \notin {"only disk", "only studio"}

\* staged_roots: a root with something to take from Studio
StagedRoots(item) == {RootOf[p] : p \in {q \in Path : item[q] \in {"missing studio", "differs studio", "differs keep"}}}
Preserve(item) == {p \in Path : item[p] = "differs keep"}
DiskOnly(item) == {p \in Path : ~InStudio(item[p])}
KeepLive(item) == {p \in Path : item[p] = "differs disk"}
DropStaged(item) == {p \in Path : item[p] = "missing disk"}

\* The transfers prune_backups removes: complete, and too many or too old
TransferAge(n) == today - backup[n].day
Completed == {n \in Connect : backup[n].made /\ backup[n].complete}
PrunedOf(done) == {n \in done : Cardinality({m \in done : m > n}) >= KeepCount \/ TransferAge(n) > KeepDays}

\* Mutant: a transfer without its marker counts like the others
PrunesAny == PrunedOf({n \in Connect : backup[n].made /\ n # op.n})

PruneBackups == PrunedOf(Completed)

\* What the user gives up when a copy of it is dropped by a rule or on request
ByRule(n) == backup[n].complete
GiveUpBackups(ns) == [p \in Path |-> IF \E n \in ns : ByRule(n) /\ backup[n].saved[p] = owed[p] THEN 0 ELSE owed[p]]
Without(ns) == [n \in Connect |-> IF n \in ns THEN NoTransfer ELSE backup[n]]

\* connect_commit up to apply_roots: nothing staged makes no transfer
Begin(item) ==
    /\ op.pc = "idle" /\ op.n < MaxConnects
    /\ op' = [Resting EXCEPT !.pc = IF StagedRoots(item) = {} THEN "keep" ELSE "transfer", !.n = op.n + 1,
                             !.item = item, !.roots = StagedRoots(item)]
    /\ paused' = (StagedRoots(item) = {})
    /\ UNCHANGED <<live, watched, backup, staging, entries, stored, index, written, today, saves, crashes, owed>>

\* apply_roots: the old transfers go, this one gets a directory
OpenTransfer ==
    /\ op.pc = "transfer"
    /\ owed' = GiveUpBackups(PruneBackups)
    /\ \/ backup' = [Without(PruneBackups) EXCEPT ![op.n] = [NoTransfer EXCEPT !.made = TRUE, !.day = today]] /\ Goes("root")
       \/ backup' = Without(PruneBackups) /\ Goes("failed")
    /\ UNCHANGED <<live, watched, paused, staging, entries, stored, index, written, today, saves, crashes>>

-----------------------------------------------------------------------------
(* apply_root *)

\* resolve_root, the live directory, the fence: the roots go in order
ResolveRoot ==
    /\ op.pc = "root"
    /\ IF op.roots = {} THEN Goes("marker")
       ELSE \/ op' = [op EXCEPT !.pc = "pull", !.root = Min(op.roots), !.roots = @ \ {Min(op.roots)}, !.fence = live,
                                !.got = 0, !.torn = FALSE]
            \/ Goes("failed")
    /\ UNCHANGED <<live, watched, paused, backup, staging, entries, stored, index, written, today, saves, crashes, owed>>

\* What pull_source says of the next answer: the text may have changed since the claim (torn)
PullSource(part, total, eof, torn) ==
    IF \/ total # SourceBytes \/ part > ReadChunk \/ (part = 0 /\ ~eof) \/ op.got + part > SourceBytes
       \/ (eof /\ (op.got + part # SourceBytes \/ op.torn \/ torn))
    THEN "failed" ELSE IF eof THEN "stage" ELSE "pull"

\* plugin_request: an answer, or none
PluginRequest(part, total, eof, torn) ==
    /\ op.pc = "pull"
    /\ \/ op' = [op EXCEPT !.pc = PullSource(part, total, eof, torn), !.got = @ + part, !.torn = @ \/ torn]
       \/ Goes("failed")
    /\ UNCHANGED <<live, watched, paused, backup, staging, entries, stored, index, written, today, saves, crashes, owed>>

\* to_snapshot and materialize_stage: what Studio has in this root, written to the stage
MaterializeStage ==
    /\ op.pc = "stage"
    /\ \/ op' = [op EXCEPT !.pc = "recheck", !.got = 0, !.torn = FALSE,
                           !.stage = [p \in Path |-> IF RootOf[p] = op.root /\ InStudio(op.item[p]) /\ (op.item[p] # "none" \/ live[p] # 0)
                                                     THEN StudioBytes ELSE 0]]
       \/ Goes("failed")
    /\ UNCHANGED <<live, watched, paused, backup, staging, entries, stored, index, written, today, saves, crashes, owed>>

\* fingerprint_dir against the fence, with the watcher paused
Recheck ==
    /\ op.pc = "recheck" /\ paused' = (\A p \in In(op.root) : live[p] = op.fence[p])
    /\ Goes(IF paused' THEN "prepare" ELSE "failed")
    /\ UNCHANGED <<live, watched, backup, staging, entries, stored, index, written, today, saves, crashes, owed>>

\* prepare_stage: copies for the backlog, the disk version where the layout is the same,
\* else a demotion; then overlay_unclaimed
PrepareStage(relaid) ==
    LET here == In(op.root)
        keeps == KeepLive(op.item) \cap here
        copied == {p \in ((Preserve(op.item) \cup DiskOnly(op.item)) \cap here) \cup (keeps \cap relaid) : live[p] # 0}
        staged(p) == IF p \in keeps \ relaid THEN live[p] ELSE IF p \in DropStaged(op.item) THEN 0 ELSE op.stage[p]
    IN  /\ op.pc = "prepare" /\ relaid \subseteq keeps
        /\ \/ /\ staging' = [staging EXCEPT ![op.n] = [p \in Path |-> IF p \in copied THEN live[p] ELSE @[p]]]
              /\ op' = [op EXCEPT !.pc = "away", !.preserved = @ \cup copied, !.demoted = @ \cup relaid,
                                  !.claimed = @ \cup {p \in DiskOnly(op.item) \cap here : op.stage[p] # 0},
                                  !.stage = [p \in Path |-> IF p \in here /\ staged(p) = 0 THEN live[p] ELSE staged(p)]]
              /\ UNCHANGED paused
           \/ Goes("failed") /\ paused' = FALSE /\ UNCHANGED staging
        /\ UNCHANGED <<live, watched, backup, entries, stored, index, written, today, saves, crashes, owed>>

Moved(root, to) == [p \in Path |-> IF RootOf[p] = root THEN to[p] ELSE live[p]]

\* A rename needs its target to be empty
Free(root) == \A p \in In(root) : live[p] = 0

\* The watch moves off, the live root goes into the backup
SwapAway ==
    /\ op.pc = "away" /\ watched' = watched \ {op.root}
    /\ \/ /\ backup' = [backup EXCEPT ![op.n].saved = [p \in Path |-> IF RootOf[p] = op.root THEN live[p] ELSE @[p]]]
          /\ live' = Moved(op.root, Nothing) /\ Goes("in") /\ UNCHANGED paused
       \/ Goes("failed") /\ paused' = FALSE /\ UNCHANGED <<live, backup>>
    /\ UNCHANGED <<staging, entries, stored, index, written, today, saves, crashes, owed>>

\* The stage becomes the live root; when that fails the backup is renamed back, which may fail too
SwapIn ==
    /\ op.pc = "in" /\ watched' = watched \cup {op.root}
    /\ \/ Free(op.root) /\ live' = Moved(op.root, op.stage) /\ Goes("refresh") /\ UNCHANGED <<backup, paused>>
       \/ /\ Free(op.root) /\ live' = Moved(op.root, backup[op.n].saved) /\ Goes("failed") /\ paused' = FALSE
          /\ backup' = [backup EXCEPT ![op.n].saved = [p \in Path |-> IF RootOf[p] = op.root THEN 0 ELSE @[p]]]
       \/ Goes("failed") /\ paused' = FALSE /\ UNCHANGED <<live, backup>>
    /\ UNCHANGED <<staging, entries, stored, index, written, today, saves, crashes, owed>>

\* process_changes and the stamps, then the watcher goes on
Refresh ==
    /\ op.pc = "refresh" /\ op' = [op EXCEPT !.pc = "root", !.fence = Nothing, !.stage = Nothing] /\ paused' = FALSE
    /\ UNCHANGED <<live, watched, backup, staging, entries, stored, index, written, today, saves, crashes, owed>>

\* The end of apply_roots: the marker may not be written, and the old transfers go
CompleteTransfer(marked) ==
    /\ op.pc = "marker"
    /\ LET with == IF marked THEN Completed \cup {op.n} ELSE Completed
           old == PrunedOf(with)
       IN  /\ backup' = [n \in Connect |-> IF n \in old THEN NoTransfer ELSE [backup[n] EXCEPT !.complete = n \in with]]
           /\ owed' = [p \in Path |-> IF \E n \in old : backup[n].saved[p] = owed[p] THEN 0 ELSE owed[p]]
    /\ Goes("keep") /\ paused' = TRUE
    /\ UNCHANGED <<live, watched, staging, entries, stored, index, written, today, saves, crashes>>

\* connect_commit on an error: the copies are dropped, the roots that were applied stay
FailConnect ==
    /\ op.pc = "failed" /\ staging' = [staging EXCEPT ![op.n] = Nothing] /\ op' = [Resting EXCEPT !.n = op.n]
    /\ UNCHANGED <<live, watched, paused, backup, entries, stored, index, written, today, saves, crashes, owed>>

-----------------------------------------------------------------------------
(* What lost goes to the backlog *)

\* The copy that is captured: from staging, or the live file itself outside the staged roots
Leaves(p) == op.item[p] = "only studio" /\ p \notin op.claimed
FromStaging(p) == p \in op.preserved
Source(p) == IF FromStaging(p) THEN staging[op.n][p] ELSE live[p]
ToKeep == {p \in op.preserved : \/ op.item[p] = "differs keep" \/ p \in op.demoted \/ Leaves(p)
                                \/ (p \in op.claimed /\ staging[op.n][p] # live[p])}
          \cup {p \in Path \ op.preserved : Leaves(p) /\ live[p] # 0}

\* capture moves the copy out: from staging, or from the workspace
Taken(p) == IF FromStaging(p) THEN staging' = [staging EXCEPT ![op.n][p] = 0] /\ UNCHANGED live
            ELSE live' = [live EXCEPT ![p] = 0] /\ UNCHANGED staging

Identical(p) == {e \in entries : e.path = p /\ stored[e.id] = Source(p)}
\* Ids are not used again
FreeIds == {i \in EntryId : stored[i] = 0 /\ \A e \in entries \cup index \cup UNION written : e.id # i}

\* keep: one path after the other
Keep(p) ==
    /\ op.pc = "keep" /\ p \in ToKeep
    /\ \/ Identical(p) = {} /\ op' = [op EXCEPT !.pc = "move", !.path = p]
       \/ \E e \in Identical(p) : op' = [op EXCEPT !.pc = "same", !.path = p, !.held = e.id]
    /\ UNCHANGED <<live, watched, paused, backup, staging, entries, stored, index, written, today, saves, crashes, owed>>

\* capture, the bytes are held already: the copy is removed before the entry is refreshed
DropCopy ==
    /\ op.pc = "same" /\ Taken(op.path) /\ Goes("refresh entry")
    /\ UNCHANGED <<watched, paused, backup, entries, stored, index, written, today, saves, crashes, owed>>

Persisted == Cardinality(written) < MaxPending /\ written' = written \cup {entries'}

Refreshed(e) == IF e.id = op.held THEN [e EXCEPT !.at = today] ELSE e

RefreshEntry ==
    /\ op.pc = "refresh entry" /\ entries' = {Refreshed(e) : e \in entries} /\ Persisted /\ Goes("kept")
    /\ UNCHANGED <<live, watched, paused, backup, staging, stored, index, today, saves, crashes, owed>>

\* capture, new bytes: rename or copy; then the entry
MoveCopy ==
    /\ op.pc = "move"
    /\ \/ \E id \in FreeIds :
            /\ id = Min(FreeIds) /\ stored' = [stored EXCEPT ![id] = Source(op.path)] /\ Taken(op.path)
            /\ op' = [op EXCEPT !.pc = "push entry", !.held = id]
       \/ Goes("kept") /\ UNCHANGED <<live, staging, stored>>
    /\ UNCHANGED <<watched, paused, backup, entries, index, written, today, saves, crashes, owed>>

PushEntry ==
    /\ op.pc = "push entry" /\ entries' = entries \cup {[id |-> op.held, path |-> op.path, at |-> today, pinned |-> FALSE]}
    /\ Persisted /\ Goes("kept")
    /\ UNCHANGED <<live, watched, paused, backup, staging, stored, index, today, saves, crashes, owed>>

\* The rest of the loop's body: a file that leaves the disk is removed
RemoveLive ==
    /\ op.pc = "kept"
    /\ live' = IF FromStaging(op.path) /\ Leaves(op.path) THEN [live EXCEPT ![op.path] = 0] ELSE live
    /\ op' = [op EXCEPT !.pc = "keep", !.item[op.path] = "none", !.preserved = @ \ {op.path}, !.path = "none", !.held = 0]
    /\ UNCHANGED <<watched, paused, backup, staging, entries, stored, index, written, today, saves, crashes, owed>>

\* The copies are dropped, the watcher goes on, Studio gets what disk won
FinishConnect ==
    /\ op.pc = "keep" /\ ToKeep = {} /\ staging' = [staging EXCEPT ![op.n] = Nothing] /\ paused' = FALSE /\ op' = [Resting EXCEPT !.n = op.n]
    /\ UNCHANGED <<live, watched, backup, entries, stored, index, written, today, saves, crashes, owed>>

-----------------------------------------------------------------------------
(* The backlog *)

Expired(e) == ~e.pinned /\ e.at + EntryTtl <= today
Emptied(gone) == [i \in EntryId |-> IF \E e \in gone : e.id = i THEN 0 ELSE stored[i]]
GiveUp(gone) == [p \in Path |-> IF \E e \in gone : e.path = p /\ stored[e.id] = owed[p] THEN 0 ELSE owed[p]]

\* sweep, in list, get and load: the index is written only when something went
Sweep ==
    /\ \E e \in entries : Expired(e)
    /\ LET gone == {e \in entries : Expired(e)} IN
         entries' = entries \ gone /\ stored' = Emptied(gone) /\ owed' = GiveUp(gone)
    /\ Persisted
    /\ UNCHANGED <<live, watched, paused, op, backup, staging, index, today, saves, crashes>>

\* persist: outside the lock, so an older snapshot may be written after a newer one
Persist(snapshot) ==
    /\ snapshot \in written /\ written' = written \ {snapshot}
    /\ index' \in {snapshot, index}
    /\ UNCHANGED <<live, watched, paused, op, backup, staging, entries, stored, today, saves, crashes, owed>>

\* pin and set_pinned
Pin(e, pinned) ==
    /\ e \in entries /\ ~Expired(e) /\ e.pinned # pinned
    /\ entries' = (entries \ {e}) \cup {[e EXCEPT !.pinned = pinned]} /\ Persisted
    /\ UNCHANGED <<live, watched, paused, op, backup, staging, stored, index, today, saves, crashes, owed>>

\* restore, with a plugin connected: the copy replaces the live file, then the entry is forgotten.
\* The user asked for it, so what was live is his to lose.
Restore(e) ==
    /\ e \in entries /\ ~Expired(e) /\ stored[e.id] # 0 /\ op.pc \in EditWindow
    /\ \/ /\ live' = [live EXCEPT ![e.path] = stored[e.id]] /\ owed' = [owed EXCEPT ![e.path] = stored[e.id]]
          /\ entries' = entries \ {e} /\ stored' = [stored EXCEPT ![e.id] = 0] /\ Persisted
       \/ UNCHANGED <<live, owed, entries, stored, written>>
    /\ UNCHANGED <<watched, paused, op, backup, staging, index, today, saves, crashes>>

\* drop_entry: one entry, or clear, which removes the whole directory and persists nothing
DropEntry(e) ==
    /\ e \in entries /\ entries' = entries \ {e} /\ stored' = Emptied({e}) /\ owed' = GiveUp({e}) /\ Persisted
    /\ UNCHANGED <<live, watched, paused, op, backup, staging, index, today, saves, crashes>>

Clear ==
    /\ entries # {} /\ entries' = {} /\ stored' = [i \in EntryId |-> 0] /\ index' = {}
    /\ owed' = [p \in Path |-> IF \E i \in EntryId : stored[i] = owed[p] THEN 0 ELSE owed[p]]
    /\ UNCHANGED <<live, watched, paused, op, backup, staging, written, today, saves, crashes>>

-----------------------------------------------------------------------------
(* The user, the clock, a crash *)

Save(p, version) ==
    /\ saves < MaxSaves /\ op.pc \in EditWindow /\ saves' = saves + 1 /\ version # live[p]
    /\ live' = [live EXCEPT ![p] = version] /\ owed' = [owed EXCEPT ![p] = version]
    /\ UNCHANGED <<watched, paused, op, backup, staging, entries, stored, index, written, today, crashes>>

Day ==
    /\ today < MaxDays /\ today' = today + 1
    /\ UNCHANGED <<live, watched, paused, op, backup, staging, entries, stored, index, written, saves, crashes, owed>>

\* The next daemon walks the roots anew and loads the index; the copies of the old one stay
Crash ==
    /\ crashes < MaxCrashes /\ op.pc # "idle" /\ crashes' = crashes + 1
    /\ op' = [Resting EXCEPT !.n = op.n] /\ paused' = FALSE /\ watched' = Roots /\ entries' = index /\ written' = {}
    /\ UNCHANGED <<live, backup, staging, stored, index, today, saves, owed>>

ConnectStep ==
    \/ \E item \in [Path -> UNION {Items(p) : p \in Path}] : (\A p \in Path : item[p] \in Items(p)) /\ Begin(item)
    \/ OpenTransfer \/ ResolveRoot \/ MaterializeStage \/ Recheck \/ SwapAway \/ SwapIn \/ Refresh \/ FailConnect
    \/ \E part \in 0 .. ReadChunk + 1, total \in {SourceBytes, SourceBytes + 1}, eof, torn \in BOOLEAN :
         PluginRequest(part, total, eof, torn)
    \/ \E relaid \in SUBSET Path : PrepareStage(relaid)
    \/ \E marked \in BOOLEAN : CompleteTransfer(marked)
    \/ \E p \in Path : Keep(p)
    \/ DropCopy \/ RefreshEntry \/ MoveCopy \/ PushEntry \/ RemoveLive \/ FinishConnect

BacklogStep ==
    \/ Sweep \/ Clear
    \/ \E snapshot \in written : Persist(snapshot)
    \/ \E e \in entries : Restore(e) \/ DropEntry(e) \/ \E pinned \in BOOLEAN : Pin(e, pinned)

FirstNext == ConnectStep \/ BacklogStep \/ Day \/ Crash \/ \E p \in Path, version \in UserBytes : Save(p, version)

FirstSpec == FirstInit /\ [][FirstNext]_firstVars

-----------------------------------------------------------------------------
(* Properties *)

Copies(p) == {live[p]} \cup {staging[n][p] : n \in Connect} \cup {backup[n].saved[p] : n \in Connect} \cup {stored[i] : i \in EntryId}

\* Whatever fails, crashes or is saved in between, the user's version of a file is on disk
\* somewhere until he overwrites or drops it, it expires, or it is pruned from a transfer that
\* completed (bulk.rs apply_root, prune_backups, backlog.rs capture).
NothingDestroyed == \A p \in Path : owed[p] # 0 => owed[p] \in Copies(p)
=============================================================================
