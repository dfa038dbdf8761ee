---------------------------- MODULE ConflictEngine ----------------------------
(***************************************************************************)
(* The baseline conflict engine of the daemon (src/core/conflict/mod.rs).  *)
(*                                                                         *)
(* The engine is one value behind one mutex, and each of its methods is    *)
(* one critical section, so a method is an operator from an engine value   *)
(* (and its arguments) to an outcome: the decision, the new engine value   *)
(* and what is handed to the notifier.  The modules that own the engine    *)
(* turn outcomes into steps.                                               *)
(*                                                                         *)
(* Abstractions.  A content hash is a member of Content; two contents are  *)
(* the same iff their hashes are (SHA-256 is taken to be injective on what *)
(* a session holds).  A hash map is a function with a partial domain.  An  *)
(* `Instant` is only ever compared with the race window, so an entry holds *)
(* the outcome of that comparison, `expired`, and the owner of the engine  *)
(* sets it when the window elapses.  The raw Studio state of a record      *)
(* (`studio_apply`) is Some exactly when its Studio side is present, with  *)
(* the same content: one field stands for both.                            *)
(***************************************************************************)
EXTENDS Naturals, SequencesExt

CONSTANTS
    Instance,   \* the refs of the synced instances
    Content,    \* content hashes
    Absent,     \* the content of a side on which the instance does not exist
    ParkLimit   \* CONFLICT_PARK_LIMIT

ASSUME EngineAssumption == /\ Absent \notin Content
                           /\ ParkLimit \in Nat

Side == Content \cup {Absent}

BothEdited == "both-edited"
FsDeleted == "fs-deleted-studio-edited"
StudioDeleted == "studio-deleted-fs-edited"
Classification == {BothEdited, FsDeleted, StudioDeleted}

\* An FS edit on its way to Studio, whose agreement is not confirmed yet
PendingEdit == [prior : Content, sent : Content, expired : BOOLEAN]

\* An applied FS removal: the contents that merely echo the deleted state
Tombstone == [hashes : SUBSET Content, expired : BOOLEAN]

Parked == [id : Nat, instance : Instance, classification : Classification,
           fs : Side, studio : Side]

\* A hash map keyed by instance
MapTo(V) == UNION {[D -> V] : D \in SUBSET Instance}

EngineState ==
    [baselines : MapTo(Content), pending : MapTo(PendingEdit),
     tombstones : MapTo(Tombstone), parked : Seq(Parked), nextId : Nat]

-----------------------------------------------------------------------------
(* Maps *)

Put(f, i, v) == [j \in DOMAIN f \cup {i} |-> IF j = i THEN v ELSE f[j]]

Drop(f, i) == Restrict(f, DOMAIN f \ {i})

Expired(f) == {i \in DOMAIN f : f[i].expired}

-----------------------------------------------------------------------------
(* Bookkeeping *)

NewEngine ==
    [baselines |-> << >>, pending |-> << >>, tombstones |-> << >>,
     parked |-> << >>, nextId |-> 1]

\* Both sides now hold h for i
Stamp(e, i, h) ==
    [e EXCEPT !.baselines = Put(@, i, h),
              !.pending = Drop(@, i),
              !.tombstones = Drop(@, i)]

Forget(e, i) ==
    [e EXCEPT !.baselines = Drop(@, i),
              !.pending = Drop(@, i),
              !.tombstones = Drop(@, i)]

\* Expired pending edits commit to what was sent, expired tombstones go.
\* Every decision starts with it
Prune(e) ==
    [e EXCEPT
        !.baselines = [i \in DOMAIN @ \cup Expired(e.pending) |->
                          IF i \in Expired(e.pending) THEN e.pending[i].sent
                                                      ELSE @[i]],
        !.pending = Restrict(@, DOMAIN @ \ Expired(@)),
        !.tombstones = Restrict(@, DOMAIN @ \ Expired(@))]

IsParked(e, i) == \E k \in DOMAIN e.parked : e.parked[k].instance = i

\* Where the first record of i is
ParkedIndex(e, i) == SelectInSeq(e.parked, LAMBDA rec : rec.instance = i)

ParkedRecord(e, i) == e.parked[ParkedIndex(e, i)]

Unpark(e, i) == [e EXCEPT !.parked = RemoveAt(@, ParkedIndex(e, i))]

\* `take` by record id
Take(e, id) == [e EXCEPT !.parked = RemoveFirstMatch(@, LAMBDA rec : rec.id = id)]

Restore(e, rec) == [e EXCEPT !.parked = Append(@, rec)]

\* entry(id).or_insert(pre)
Baseline(e, i, pre) == IF i \in DOMAIN e.baselines THEN e.baselines[i] ELSE pre

Seed(e, i, pre) == [e EXCEPT !.baselines = Put(@, i, Baseline(e, i, pre))]

\* What a method answers: `notice` holds the record given to the notifier
Outcome(d, e) == [decision |-> d, engine |-> e, notice |-> {}]

\* Mutant: the unconfirmed edit outlives the record
ParkKeepsPending(e, i, class, fs, studio) ==
    LET rec == [id |-> e.nextId, instance |-> i, classification |-> class,
                fs |-> fs, studio |-> studio]
    IN  [decision |-> "Conflict",
         engine |-> [e EXCEPT !.parked = Append(@, rec), !.nextId = @ + 1],
         notice |-> {rec}]

\* Parks i; beyond the limit the record is dropped, silently
Park(e, i, class, fs, studio) ==
    LET rec == [id |-> e.nextId, instance |-> i, classification |-> class,
                fs |-> fs, studio |-> studio]
    IN  IF Len(e.parked) >= ParkLimit
        THEN Outcome("Conflict", e)
        ELSE [decision |-> "Conflict",
              engine |-> [e EXCEPT !.parked = Append(@, rec),
                                   !.nextId = @ + 1,
                                   !.pending = Drop(@, i),
                                   !.tombstones = Drop(@, i)],
              notice |-> {rec}]

\* Overwrites the record of i; a change of classification is notified, except
\* where the caller says it is quiet
Fold(e, i, rec, quiet) ==
    [decision |-> "Conflict",
     engine |-> [e EXCEPT !.parked[ParkedIndex(e, i)] = rec],
     notice |-> IF quiet \/ rec.classification = ParkedRecord(e, i).classification
                THEN {} ELSE {rec}]

-----------------------------------------------------------------------------
(* FS-side decisions: Propagate, NoChange or Conflict *)

OnFsAddition(e0, i, content) ==
    LET e == Prune(e0)
    IN  Outcome("Propagate", [e EXCEPT !.baselines = Put(@, i, content),
                                       !.tombstones = Drop(@, i)])

\* Mutant: a propagated edit counts as agreed at once
OnFsUpdateCommits(e0, i, pre, post) ==
    Outcome("Propagate", [Prune(e0) EXCEPT !.baselines = Put(@, i, post)])

\* pre is the tree's content before the change, post the content after it
OnFsUpdate(e0, i, pre, post) ==
    LET e == Prune(e0)
        rec == ParkedRecord(e, i)
        seeded == Seed(e, i, pre)
        edit == e.pending[i]
    IN  CASE IsParked(e, i) /\ rec.studio = post ->
                \* disk converged onto Studio's version
                Outcome("NoChange", [Unpark(e, i) EXCEPT !.baselines = Put(@, i, post)])
          [] IsParked(e, i) /\ rec.studio # post ->
                Fold(e, i, [rec EXCEPT !.fs = post,
                                       !.classification = IF @ = FsDeleted
                                                          THEN BothEdited ELSE @],
                     TRUE)
          [] ~IsParked(e, i) /\ i \in DOMAIN e.pending /\ post = edit.prior ->
                \* reverted to the old agreement while the frame is unconfirmed
                Outcome("Propagate", [seeded EXCEPT !.pending = Drop(@, i),
                                                    !.baselines = Put(@, i, edit.prior)])
          [] ~IsParked(e, i) /\ i \in DOMAIN e.pending /\ post # edit.prior ->
                Outcome("Propagate", [seeded EXCEPT !.pending =
                                         Put(@, i, [edit EXCEPT !.sent = post])])
          [] ~IsParked(e, i) /\ i \notin DOMAIN e.pending
                             /\ post = Baseline(e, i, pre) ->
                \* Studio already holds this content
                Outcome("NoChange", seeded)
          [] OTHER ->
                Outcome("Propagate",
                        [seeded EXCEPT !.pending =
                            Put(@, i, [prior |-> Baseline(e, i, pre),
                                       sent |-> post, expired |-> FALSE])])

OnFsRemoval(e0, i, pre) ==
    LET e == Prune(e0)
        rec == ParkedRecord(e, i)
        echoes == {pre}
                  \cup {e.baselines[j] : j \in DOMAIN e.baselines \cap {i}}
                  \cup {e.pending[j].prior : j \in DOMAIN e.pending \cap {i}}
    IN  CASE IsParked(e, i) /\ rec.studio = Absent ->
                \* both sides agree that it is gone
                Outcome("NoChange", [Unpark(e, i) EXCEPT !.baselines = Drop(@, i),
                                                         !.pending = Drop(@, i)])
          [] IsParked(e, i) /\ rec.studio # Absent ->
                Fold(e, i, [rec EXCEPT !.fs = Absent, !.classification = FsDeleted],
                     FALSE)
          [] OTHER ->
                Outcome("Propagate",
                        [e EXCEPT !.baselines = Drop(@, i),
                                  !.pending = Drop(@, i),
                                  !.tombstones = Put(@, i, [hashes |-> echoes,
                                                            expired |-> FALSE])])

-----------------------------------------------------------------------------
(* Studio-push decisions: Apply, NoChange or Conflict *)

OnPushAddition(e0, i) ==
    Outcome("Apply", [Prune(e0) EXCEPT !.tombstones = Drop(@, i)])

\* Mutant: a push that clashes is dropped instead of parked
OnPushUpdateDrops(e0, i, pre, pushed) ==
    LET e == Seed(Prune(e0), i, pre)
    IN  Outcome(IF i \notin DOMAIN e.pending /\ e.baselines[i] = pre
                THEN "Apply" ELSE "NoChange", e)

\* pre is the tree's content, pushed the content Studio reports
OnPushUpdate(e0, i, pre, pushed) ==
    LET e == Prune(e0)
        rec == ParkedRecord(e, i)
        seeded == Seed(e, i, pre)
        edit == e.pending[i]
        parkHere == Park(seeded, i, BothEdited, pre, pushed)
    IN  CASE IsParked(e, i) /\ rec.fs = pushed ->
                \* Studio caught up with the disk content
                Outcome("NoChange", [Unpark(e, i) EXCEPT !.baselines = Put(@, i, pushed)])
          [] IsParked(e, i) /\ rec.fs # pushed ->
                Fold(e, i, [rec EXCEPT !.studio = pushed,
                                       !.classification = IF @ = StudioDeleted
                                                          THEN BothEdited ELSE @],
                     FALSE)
          [] ~IsParked(e, i) /\ i \in DOMAIN e.pending /\ pushed = edit.sent ->
                \* Studio reports what was sent: agreement
                Outcome("NoChange", [seeded EXCEPT !.pending = Drop(@, i),
                                                   !.baselines = Put(@, i, edit.sent)])
          [] ~IsParked(e, i) /\ i \in DOMAIN e.pending
                             /\ pushed # edit.sent /\ pushed = edit.prior ->
                \* a stale echo from before the frame applied
                Outcome("NoChange", seeded)
          [] ~IsParked(e, i) /\ i \in DOMAIN e.pending
                             /\ pushed \notin {edit.sent, edit.prior} ->
                parkHere
          [] ~IsParked(e, i) /\ i \notin DOMAIN e.pending /\ pushed = pre ->
                Outcome("NoChange", [seeded EXCEPT !.baselines = Put(@, i, pushed)])
          [] ~IsParked(e, i) /\ i \notin DOMAIN e.pending
                             /\ pushed # pre /\ Baseline(e, i, pre) = pre ->
                \* disk still matches the last agreed state
                Outcome("Apply", seeded)
          [] OTHER -> parkHere

\* An update of an instance that the tree no longer has
OnPushUpdateMissing(e0, i, pushed) ==
    LET e == Prune(e0)
        rec == ParkedRecord(e, i)
    IN  CASE IsParked(e, i) ->
                Fold(e, i, [rec EXCEPT !.studio = IF @ = Absent THEN @ ELSE pushed],
                     TRUE)
          [] ~IsParked(e, i) /\ i \notin DOMAIN e.tombstones ->
                Outcome("NoChange", e)
          [] ~IsParked(e, i) /\ i \in DOMAIN e.tombstones
                             /\ pushed \in e.tombstones[i].hashes ->
                Outcome("NoChange", e)
          [] OTHER ->
                Park([e EXCEPT !.tombstones = Drop(@, i)], i, FsDeleted, Absent, pushed)

OnPushRemoval(e0, i, pre) ==
    LET e == Prune(e0)
        rec == ParkedRecord(e, i)
        seeded == Seed(e, i, pre)
    IN  CASE IsParked(e, i) /\ rec.fs = Absent ->
                Outcome("NoChange", [Unpark(e, i) EXCEPT !.baselines = Drop(@, i)])
          [] IsParked(e, i) /\ rec.fs # Absent ->
                Fold(e, i, [rec EXCEPT !.studio = Absent,
                                       !.classification = StudioDeleted],
                     FALSE)
          [] ~IsParked(e, i) /\ (i \in DOMAIN e.pending \/ Baseline(e, i, pre) # pre) ->
                \* deleting it would destroy an edit Studio has not seen
                Park(seeded, i, StudioDeleted, pre, Absent)
          [] OTHER -> Outcome("Apply", seeded)

OnPushRemovalMissing(e0, i) ==
    LET e == Prune(e0)
    IN  Outcome("NoChange",
                [(IF IsParked(e, i) THEN Unpark(e, i) ELSE e)
                    EXCEPT !.tombstones = Drop(@, i), !.baselines = Drop(@, i)])

-----------------------------------------------------------------------------
(* What every method keeps *)

OneRecordEach(e) ==
    \A j, k \in DOMAIN e.parked :
        e.parked[j].instance = e.parked[k].instance => j = k

FreshIds(e) ==
    /\ \A j, k \in DOMAIN e.parked : e.parked[j].id = e.parked[k].id => j = k
    /\ \A k \in DOMAIN e.parked : e.parked[k].id < e.nextId

ClassifiedBySides(e) ==
    \A k \in DOMAIN e.parked :
        /\ (e.parked[k].fs = Absent) <=> (e.parked[k].classification = FsDeleted)
        /\ (e.parked[k].studio = Absent) <=> (e.parked[k].classification = StudioDeleted)

ParkedIsSettled(e) ==
    \A i \in DOMAIN e.pending \cup DOMAIN e.tombstones : ~IsParked(e, i)

PendingOverBaseline(e) ==
    \A i \in DOMAIN e.pending :
        i \in DOMAIN e.baselines /\ e.baselines[i] = e.pending[i].prior

Disciplined(e) ==
    /\ OneRecordEach(e) /\ FreshIds(e) /\ ClassifiedBySides(e)
    /\ ParkedIsSettled(e) /\ PendingOverBaseline(e)
=============================================================================
