------------------------------- MODULE SyncBase -------------------------------
(***************************************************************************)
(* The sync base of the daemon (src/server/sync_base.rs): what both sides  *)
(* last agreed on, as one value behind one mutex.                          *)
(*                                                                         *)
(* Every method is one critical section and so an operator on that value,  *)
(* except `tick`, which is two: TickHead commits the snapshot taken last   *)
(* and TickTail stores the one just taken.  An `Option` is a set of at     *)
(* most one element.  The file always holds one whole Stored (written to   *)
(* a temporary file and renamed) or nothing that can be read.              *)
(***************************************************************************)
EXTENDS ThreeWay

None == {}
Some(x) == {x}
Unwrap(opt) == CHOOSE x \in opt : TRUE
Or(opt, default) == IF opt = None THEN default ELSE opt

\* Mutant: what is held counts as agreed
SnapshotTreeWhole(keys, hold) == [entries |-> keys, ambiguous |-> {}, held |-> {}]

\* Keys the tree; `hold` are paths whose instances are not agreed right now
SnapshotTree(keys, hold) ==
    [entries |-> [p \in DOMAIN keys \ hold |-> keys[p]],
     ambiguous |-> {},
     held |-> hold \cap DOMAIN keys]

\* A snapshot folded into the stored base: held paths keep what they had
Merge(previous, snapshot, place) ==
    LET kept == {p \in snapshot.held : \E old \in previous : p \in DOMAIN old.entries}
    IN  [entries |-> [p \in DOMAIN snapshot.entries \cup kept |->
                         IF p \in kept THEN Unwrap(previous).entries[p]
                                       ELSE snapshot.entries[p]],
         ambiguous |-> snapshot.ambiguous,
         place |-> Or(place, UNION {old.place : old \in previous})]

\* SyncBase::load
Load(file) ==
    [stored |-> file, synced |-> FALSE, epoch |-> 0, place |-> None,
     pending |-> None, lastGeneration |-> None, resumeGeneration |-> None]

\* Mutant: any base will do
ViewAny(b, place) == b.stored

\* The base for a connect from `place`
View(b, place) == {old \in b.stored : old.place = None \/ old.place = place}

BeginCompare(b, place) ==
    [b EXCEPT !.synced = FALSE, !.epoch = @ + 1, !.pending = None,
              !.resumeGeneration = None, !.place = Or(place, @)]

\* Mutant: the writer is not asked to record what was held
CommitUnsettled(b, snapshot, generation, settle) ==
    [b EXCEPT !.stored = Some(Merge(@, snapshot, b.place)),
              !.synced = TRUE, !.epoch = @ + 1, !.pending = None,
              !.lastGeneration = Some(generation),
              !.resumeGeneration = None]

Commit(b, snapshot, generation, settle) ==
    [b EXCEPT !.stored = Some(Merge(@, snapshot, b.place)),
              !.synced = TRUE, !.epoch = @ + 1, !.pending = None,
              !.lastGeneration = IF settle THEN None ELSE Some(generation),
              !.resumeGeneration = None]

\* Recording stops
Pause(b, generation) ==
    [b EXCEPT !.synced = FALSE, !.epoch = @ + 1, !.pending = None,
              !.resumeGeneration = Some(generation)]

OnDisconnect(b, generation) == IF b.synced THEN Pause(b, generation) ELSE b

\* Mutant: a reconnect always resumes
OnReconnectResumes(b, generation) ==
    IF b.resumeGeneration = None THEN b
    ELSE [b EXCEPT !.resumeGeneration = None, !.synced = TRUE, !.epoch = @ + 1]

\* A reconnect without a compare resumes when the tree has not moved meanwhile
OnReconnect(b, generation) ==
    IF b.resumeGeneration = Some(generation)
    THEN [b EXCEPT !.resumeGeneration = None, !.synced = TRUE, !.epoch = @ + 1]
    ELSE [b EXCEPT !.resumeGeneration = None]

\* The first section of `tick`
TickHead(b, generation, present) ==
    LET here == IF b.synced /\ ~present THEN Pause(b, generation) ELSE b
        due == {pending \in here.pending : here.synced /\ pending.epoch = here.epoch}
    IN  [here EXCEPT !.stored = IF due = None THEN @
                                ELSE Some(Merge(@, Unwrap(due).snapshot, here.place)),
                     !.pending = None]

\* ... after which it takes a snapshot if the tree moved
TickTakes(b, generation) == b.synced /\ b.lastGeneration # Some(generation)

\* Mutant: a snapshot is stored whatever happened while it was taken
TickTailBlind(b, epoch, snapshot, takenAt) ==
    [b EXCEPT !.lastGeneration = Some(takenAt),
              !.pending = Some([epoch |-> b.epoch, snapshot |-> snapshot])]

\* The second section of `tick`
TickTail(b, epoch, snapshot, takenAt) ==
    IF b.synced /\ b.epoch = epoch
    THEN [b EXCEPT !.lastGeneration = Some(takenAt),
                   !.pending = Some([epoch |-> epoch, snapshot |-> snapshot])]
    ELSE b
=============================================================================
