------------------------------ MODULE Workflow ------------------------------
(***************************************************************************)
(* `wsync run` (cli/workflow.rs): a workflow is validated as a whole, then *)
(* its steps run in order over the daemon's session, atomic groups inside  *)
(* one recording of Studio's change history, and the outcome of a workflow *)
(* with a key is journalled and replayed.  Several runs with the same key  *)
(* may be started; a run may be killed, an answer may be lost, and the     *)
(* plugin may drop its connection, which cancels the open recording.       *)
(*                                                                         *)
(* A step is one request to the plugin or one file operation.  A write is  *)
(* known by the number of the step that makes it; of values only the kind  *)
(* and a number are kept.  Reports and timings are left out.               *)
(***************************************************************************)
EXTENDS Naturals, Sequences, FiniteSets

CONSTANTS
    Run,                \* processes
    Keyed,              \* those whose workflow has the idempotency key
    Group,              \* declared transaction groups
    AtomicGroup,        \* those with atomic: true
    Plans,              \* sequences of steps a workflow file may hold
    MaxKills, MaxBlips  \* killed processes, dropped connections

WorkflowAssumption == Keyed \subseteq Run /\ AtomicGroup \subseteq Group /\ MaxKills \in Nat /\ MaxBlips \in Nat

None == "none"

\* StepOperation, one of a kind each
WireOps == {"get", "set", "eval"}
LocalOps == {"assert", "wait", "capture", "playtest", "upload"}
AtomicSafe == {"get", "set", "assert"}
SupportsVerify == {"set"}

\* Values: null, what a property may hold, and text that names the property Parent
Null == [kind |-> "null", n |-> 0]
Number(n) == [kind |-> "number", n |-> n]
Parent == [kind |-> "text", n |-> 0]
Name == [kind |-> "text", n |-> 1]
Value == {Null, Number(1), Parent}

VARIABLES
    plan,               \* the steps of the workflow
    run,                \* by process: what it does next and what it knows
    lockFile,           \* the process whose lock file is there, or None
    record,             \* the journal: the content hash it was written for, or 0
    studio,             \* a recording is open, the writes in it, the writes that stand
    kills, blips

workflowVars == <<plan, run, lockFile, record, studio, kills, blips>>

-----------------------------------------------------------------------------
(* Validation *)

\* validate_operation: Parent is moved, never set
ValidOperation(s) == s.op = "set" /\ s.ref = 0 => s.property # Parent

\* validate_step
ValidStep(s) == (s.verify => s.op \in SupportsVerify) /\ ValidOperation(s)

Members(steps, g) == {i \in DOMAIN steps : steps[i].group = g}

Contiguous(steps, g) ==
    \A i, k \in Members(steps, g) : \A j \in i .. k : j \in Members(steps, g)

\* scan_references and the three refusals of a reference
ValidReference(steps, i) == steps[i].ref < i

\* validation_issues, none of them
Valid(steps) ==
    /\ Len(steps) > 0
    /\ \A i \in DOMAIN steps :
         /\ ValidStep(steps[i]) /\ ValidReference(steps, i)
         /\ steps[i].group \in AtomicGroup => steps[i].op \in AtomicSafe
    /\ \A g \in Group : g \in AtomicGroup => Contiguous(steps, g)

-----------------------------------------------------------------------------
(* References and assertions *)

\* resolve_references: the earlier step's answer, error answers hold a null
Resolved(steps, i, results) == IF steps[i].ref = 0 THEN steps[i].property ELSE results[steps[i].ref].value

\* resolve: the checks of a step once more on the resolved one
ResolvedStep(steps, i, results) ==
    steps[i].op = "set" => Resolved(steps, i, results) # Parent

Truthy(v) == v # Null /\ v # [kind |-> "bool", n |-> 0]

\* Assertion::check
Check(check, actual) ==
    CASE check.op = "equals" -> actual = check.expected
      [] check.op = "not-equals" -> actual # check.expected
      [] check.op = "exists" -> (actual # Null) = check.yes
      [] check.op = "truthy" -> Truthy(actual) = check.yes
      [] check.op = "greater-than" -> actual.kind = "number" /\ actual.n > check.expected.n
      [] check.op = "less-than-or-equal" -> actual.kind = "number" /\ actual.n <= check.expected.n

-----------------------------------------------------------------------------
(* Studio, the one recording of its plugin *)

NoStudio == [open |-> FALSE, during |-> {}, applied |-> {}]

Written(i) ==
    [studio EXCEPT !.applied = @ \cup {i},
                   !.during = IF studio.open /\ i \notin studio.applied THEN @ \cup {i} ELSE @]

Begun == [studio EXCEPT !.open = TRUE, !.during = {}]
Committed == [studio EXCEPT !.open = FALSE, !.during = {}]
Cancelled == [open |-> FALSE, during |-> {}, applied |-> studio.applied \ studio.during]

\* A request: done and answered, refused, or its answer lost with or without its effect
Answers(effect) == {<<TRUE, effect>>, <<FALSE, studio>>, <<FALSE, effect>>}

BeginAnswers == IF studio.open THEN {<<FALSE, studio>>} ELSE Answers(Begun)
FinishAnswers(commit) ==
    IF studio.open THEN Answers(IF commit THEN Committed ELSE Cancelled) ELSE {<<FALSE, studio>>}

-----------------------------------------------------------------------------
(* A process *)

Idle == [pc |-> "idle", at |-> 1, active |-> None, failed |-> FALSE, results |-> <<>>, content |-> 1,
         keepGoing |-> FALSE, ends |-> None]

WorkflowInit ==
    /\ plan \in {steps \in Plans : Valid(steps)}
    /\ run = [p \in Run |-> Idle] /\ lockFile = None /\ record = 0 /\ studio = NoStudio
    /\ kills = 0 /\ blips = 0

Go(p, pc) == run' = [run EXCEPT ![p].pc = pc]

\* The end of main: the lock is dropped
Ends(p, how) ==
    /\ run' = [run EXCEPT ![p].pc = "ended", ![p].ends = how]
    /\ lockFile' = IF lockFile = p THEN None ELSE lockFile

files == <<lockFile, record>>
world == <<studio, kills, blips>>

\* main: a dry run prints the plan; without a key nothing is journalled
Starts(p, content, keepGoing) ==
    /\ run[p].pc = "idle"
    /\ run' = [run EXCEPT ![p] = [Idle EXCEPT !.pc = IF p \in Keyed THEN "replay" ELSE "connect",
                                              !.content = content, !.keepGoing = keepGoing]]
    /\ UNCHANGED <<plan, files, world>>

DryRun(p) ==
    /\ run[p].pc = "idle" /\ Ends(p, "dry") /\ UNCHANGED <<plan, record, world>>

\* replay: the record of the same content is the outcome, of another an error
Replays(p) ==
    /\ record # 0
    /\ Ends(p, IF record = run[p].content THEN "replayed" ELSE "collision")

Replay(p) ==
    /\ run[p].pc = "replay"
    /\ Replays(p) \/ (record = 0 /\ Go(p, "lock") /\ UNCHANGED lockFile)
    /\ UNCHANGED <<plan, record, world>>

\* IdempotencyLock::acquire, create_new
AcquireLock(p) ==
    /\ run[p].pc = "lock"
    /\ IF lockFile = None THEN lockFile' = p /\ Go(p, "again") ELSE Ends(p, "locked")
    /\ UNCHANGED <<plan, record, world>>

SecondReplay(p) == Replays(p) \/ (record = 0 /\ Go(p, "connect") /\ UNCHANGED lockFile)

ReplayAgain(p) ==
    /\ run[p].pc = "again" /\ SecondReplay(p) /\ UNCHANGED <<plan, record, world>>

\* Client::connect and check_environment
Connects(p) ==
    /\ run[p].pc = "connect"
    /\ (Go(p, "resolve") /\ UNCHANGED lockFile) \/ Ends(p, "unavailable")
    /\ UNCHANGED <<plan, record, world>>

-----------------------------------------------------------------------------
(* execute *)

Here(p) == plan[run[p].at]
Desired(p) == IF Here(p).group \in AtomicGroup THEN Here(p).group ELSE None
Result(p, ok, value) == Append(run[p].results, [ok |-> ok, value |-> IF ok THEN value ELSE Null])

\* After a step that failed: an atomic group is rolled back and ends the run, and
\* without --keep-going any failure does
AfterFailure(p, inside) ==
    IF run[p].active # None THEN "rollback" ELSE IF inside \/ ~run[p].keepGoing THEN "outcome" ELSE "resolve"

\* The head of the loop: the references of the next step
Resolves(p) ==
    /\ run[p].pc = "resolve"
    /\ IF run[p].at > Len(plan) THEN Go(p, "finish")
       ELSE IF ResolvedStep(plan, run[p].at, run[p].results)
       THEN Go(p, IF run[p].active # Desired(p) THEN "leave" ELSE "execute")
       ELSE run' = [run EXCEPT ![p].pc = AfterFailure(p, Desired(p) # None), ![p].failed = TRUE,
                               ![p].at = @ + 1, ![p].results = Result(p, FALSE, Null)]
    /\ UNCHANGED <<plan, files, world>>

\* The group that is left is committed; when that fails it is rolled back and the run ends
Leaves(p) ==
    /\ run[p].pc = "leave"
    /\ \/ run[p].active = None /\ Go(p, IF Desired(p) = None THEN "execute" ELSE "begin") /\ UNCHANGED studio
       \/ /\ run[p].active # None
          /\ \E a \in FinishAnswers(TRUE) :
               /\ studio' = a[2]
               /\ IF a[1] THEN run' = [run EXCEPT ![p].active = None]
                  ELSE run' = [run EXCEPT ![p].pc = "rollback", ![p].failed = TRUE]
    /\ UNCHANGED <<plan, files, kills, blips>>

\* A recording that cannot be opened ends the command without an outcome
Begins(p) ==
    /\ run[p].pc = "begin"
    /\ \E a \in BeginAnswers :
         /\ studio' = a[2]
         /\ IF a[1] THEN run' = [run EXCEPT ![p].pc = "execute", ![p].active = Desired(p)] /\ UNCHANGED lockFile
            ELSE Ends(p, "refused")
    /\ UNCHANGED <<plan, record, kills, blips>>

\* check_step_preconditions and execute_step: a wire operation is a request, wait reads
\* until its check holds or its time is up, an upload is not available
StepAnswers(p) ==
    LET s == Here(p)
    IN  CASE s.op = "set" -> {<<a[1], Number(1), a[2]>> : a \in Answers(Written(run[p].at))}
          [] s.op \in {"get", "eval"} -> {<<TRUE, v, studio>> : v \in Value} \cup {<<FALSE, Null, studio>>}
          [] s.op \in {"wait", "capture", "playtest"} -> {<<b, Null, studio>> : b \in BOOLEAN}
          [] s.op = "assert" -> {<<Check(s.check, Resolved(plan, run[p].at, run[p].results)), Null, studio>>}
          [] s.op = "upload" -> {<<FALSE, Null, studio>>}

\* A step that is done is verified by what reads back
Steps(p, answer) ==
    \E verified \in BOOLEAN :
        LET ok == answer[1] /\ (Here(p).verify => verified)
        IN  run' = [run EXCEPT ![p].pc = IF ok THEN "resolve" ELSE AfterFailure(p, FALSE),
                               ![p].failed = @ \/ ~ok, ![p].at = @ + 1, ![p].results = Result(p, ok, answer[2])]

Executes(p) ==
    /\ run[p].pc = "execute"
    /\ \E answer \in StepAnswers(p) : studio' = answer[3] /\ Steps(p, answer)
    /\ UNCHANGED <<plan, files, kills, blips>>

\* Mutant: a commit that fails is not the run's failure
FinishesAnyway(p) ==
    /\ run[p].pc = "finish"
    /\ \E a \in FinishAnswers(TRUE) \cup {<<TRUE, studio>>} : studio' = a[2]
    /\ run' = [run EXCEPT ![p].pc = "outcome", ![p].active = None]
    /\ UNCHANGED <<plan, files, kills, blips>>

\* finish_transaction: after the last step the open group is committed
Finishes(p) ==
    /\ run[p].pc = "finish"
    /\ \/ run[p].active = None /\ Go(p, "outcome") /\ UNCHANGED studio
       \/ /\ run[p].active # None
          /\ \E a \in FinishAnswers(TRUE) :
               /\ studio' = a[2]
               /\ run' = [run EXCEPT ![p].pc = IF a[1] THEN "outcome" ELSE "rollback",
                                     ![p].failed = @ \/ ~a[1], ![p].active = IF a[1] THEN None ELSE @]
    /\ UNCHANGED <<plan, files, kills, blips>>

RollsBack(p) ==
    /\ run[p].pc = "rollback"
    /\ \E a \in FinishAnswers(FALSE) : studio' = a[2]
    /\ run' = [run EXCEPT ![p].pc = "outcome", ![p].active = None]
    /\ UNCHANGED <<plan, files, kills, blips>>

\* A run that went well is journalled, write_json_atomic; that may fail
Outcome(p) ==
    /\ run[p].pc = "outcome"
    /\ IF run[p].failed THEN Ends(p, "failed") /\ UNCHANGED record
       ELSE IF p \notin Keyed THEN Ends(p, "ok") /\ UNCHANGED record
       ELSE \/ record' = run[p].content /\ Ends(p, "ok")
            \/ Ends(p, "unrecorded") /\ UNCHANGED record
    /\ UNCHANGED <<plan, world>>

-----------------------------------------------------------------------------
(* Faults *)

Live(p) == run[p].pc \notin {"idle", "ended", "killed"}

Killed(p) ==
    /\ Live(p) /\ kills < MaxKills /\ kills' = kills + 1 /\ Go(p, "killed")
    /\ UNCHANGED <<plan, files, studio, blips>>

\* A user removes the lock of a run that is gone, after confirming that none is active
LockRemoved ==
    /\ lockFile # None /\ \A p \in Run : ~Live(p)
    /\ lockFile' = None /\ UNCHANGED <<plan, run, record, world>>

\* Remote.onTransportDisconnect: the plugin cancels the open recording
Disconnects ==
    /\ blips < MaxBlips /\ blips' = blips + 1 /\ studio' = IF studio.open THEN Cancelled ELSE studio
    /\ UNCHANGED <<plan, run, files, kills>>

WorkflowNext ==
    \/ LockRemoved \/ Disconnects
    \/ \E p \in Run :
         \/ \E content \in 1 .. 2, keepGoing \in BOOLEAN : Starts(p, content, keepGoing)
         \/ DryRun(p) \/ Replay(p) \/ AcquireLock(p) \/ ReplayAgain(p) \/ Connects(p) \/ Resolves(p) \/ Leaves(p)
         \/ Begins(p) \/ Executes(p) \/ Finishes(p) \/ RollsBack(p) \/ Outcome(p) \/ Killed(p)

WorkflowSpec == WorkflowInit /\ [][WorkflowNext]_workflowVars

-----------------------------------------------------------------------------
(* Properties *)

\* Once an outcome is journalled nothing of a workflow with that key is executed again,
\* however many runs were waiting for the lock (workflow.rs main and replay).
NothingAfterRecord == \A p \in Run : record # 0 => ~(p \in Keyed /\ run[p].pc \in {"connect", "execute", "begin"})

\* The first run, when it is reported ok, has all its writes in Studio, groups included, whatever
\* answers were lost and although a dropped connection cancels the recording it was in.
Writes == {i \in DOMAIN plan : plan[i].op = "set"}
OkMeansWritten ==
    \A p \in Run : run[p].ends = "ok" /\ (\A o \in Run \ {p} : run[o].ends \in {None, "dry"} /\ run[o].pc # "killed")
                   => Writes \subseteq studio.applied
=============================================================================
