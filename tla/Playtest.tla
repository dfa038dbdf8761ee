------------------------------ MODULE Playtest ------------------------------
(***************************************************************************)
(* `wsync playtest` (cli/live/playtest.rs) and the playtest step of a      *)
(* workflow: commands that start, page, steer and stop the one playtest of *)
(* a Studio.  The plugin keeps the jobs and, for a job started by `run`,   *)
(* a bounded queue of records; a poll acknowledges what the last page      *)
(* held and takes the next page.  Any answer may be lost.  A run ends in   *)
(* steps: its end is requested, the playtest is torn down, and only then   *)
(* the terminal record is queued.                                          *)
(*                                                                         *)
(* Of a record its kind is kept, of a log whether it repeats an earlier    *)
(* one (the parity of its number), of a script its outcome.                *)
(***************************************************************************)
EXTENDS Naturals, Sequences, FiniteSets, FiniteSetsExt, SequencesExt

CONSTANTS
    Tester,             \* processes
    Uses,               \* what a process may be: one of Commands
    MaxQueue, Page,     \* LIMITS.maxRecords and pollMaxRecords of the plugin
    PollRetries,        \* RUN_POLL_RETRIES
    FailuresMax,        \* CLIENT_FAILURE_RESULTS_MAX and CLIENT_FAILURE_LOGS_MAX
    MaxEmitted,         \* records a script produces
    MaxLost             \* answers that are lost

PlaytestAssumption ==
    /\ MaxQueue \in Nat \ {0} /\ Page \in Nat \ {0} /\ PollRetries \in Nat /\ FailuresMax \in Nat
    /\ MaxEmitted \in Nat /\ MaxLost \in Nat

Commands == {"run", "keepOpen", "step", "start", "startForce", "stop", "stopForce", "status", "contexts", "wait",
             "exec", "logs", "ui", "input", "capture", "clip", "request"}

VARIABLES
    tests,              \* the plugin's jobs in the order they were started
    tester,             \* by process: its command, what it does next, what it has read
    stoppedBy,          \* history: by job the processes whose stop ended it
    lost

playtestVars == <<tests, tester, stoppedBy, lost>>

Latest == Len(tests)
Active(j) == j # 0 /\ tests[j].active

-----------------------------------------------------------------------------
(* The queue of a run, RunState.luau *)

Important == {"started", "clientResult", "dropped", "result", "aborted"}
Terminals == {"result", "aborted"}

QueueFull(t, slots) == Len(t.queue) + slots > MaxQueue

\* appendRecord
Appended(t, kind, count) ==
    [t EXCEPT !.queue = Append(@, [seq |-> t.nextSeq, kind |-> kind, count |-> count]), !.nextSeq = @ + 1]

Droppable(t) == {i \in DOMAIN t.queue : t.queue[i].kind \notin Important}

\* evictForRoom: the oldest droppable record goes, and is counted
Evicted(t, slots) ==
    IF QueueFull(t, slots) /\ Droppable(t) # {}
    THEN [t EXCEPT !.queue = RemoveAt(@, Min(Droppable(t))), !.dropped = @ + 1] ELSE t

\* flushQueueDropped
Flushed(t) ==
    IF t.dropped = 0 \/ QueueFull(t, 1) THEN t ELSE [Appended(t, "dropped", t.dropped) EXCEPT !.dropped = 0]

\* rawEnqueue
Enqueued(t, kind) ==
    IF ~QueueFull(t, 1) THEN Appended(t, kind, 0)
    ELSE IF kind \in Important THEN Appended(Evicted(t, 1), kind, 0)
    ELSE [t EXCEPT !.dropped = @ + 1]

\* enqueue: nothing comes after the terminal record
Enqueues(t, kind) == IF t.terminal THEN t ELSE Enqueued(Flushed(t), kind)

\* finalize: room for the marker and for the terminal record, at most two evictions
Reserved(t) == Evicted(t, IF t.dropped > 0 THEN 2 ELSE 1)

Finalized(t, kind) ==
    LET r == Reserved(Reserved(t))
        marked == IF r.dropped > 0 THEN [Appended(r, "dropped", r.dropped) EXCEPT !.dropped = 0] ELSE r
    IN  IF t.terminal THEN t ELSE [Appended(marked, kind, 0) EXCEPT !.terminal = TRUE, !.pending = "none"]

\* requestTerminal: refused while an end is pending or a completion is being read
Requested(t, kind) == IF t.terminal \/ t.pending # "none" \/ t.claimed THEN t ELSE [t EXCEPT !.pending = kind]

\* Mutant: a page acknowledges itself
AckedEarly(t, since) == [t EXCEPT !.queue = SelectSeq(@, LAMBDA r : r.seq > since + Page)]

\* poll, first half: the acknowledged records are gone
Acked(t, since) == [t EXCEPT !.queue = SelectSeq(@, LAMBDA r : r.seq > since)]

\* poll, second half: the marker of what was dropped finds room again
Polled(t, since) == IF t.terminal THEN Acked(t, since) ELSE Flushed(Acked(t, since))
PageOf(t) == SubSeq(t.queue, 1, Min({Page, Len(t.queue)}))

-----------------------------------------------------------------------------
(* Client failures, ClientFailures *)

NoFailures == [entries |-> {}, omitted |-> 0, high |-> 0]

\* client_failure_source
Source(r) == IF r.kind \in {"clientResult", "log"} THEN r.kind ELSE "none"

\* observe: once per record, a repeated log is counted on its entry, past the cap only the number is kept
Observe(f, r) ==
    LET same == {e \in f.entries : e.source = "log" /\ r.kind = "log" /\ e.seq % 2 = r.seq % 2}
        full == Cardinality({e \in f.entries : e.source = r.kind}) >= FailuresMax
        kept == IF same # {} THEN (f.entries \ same) \cup {[e EXCEPT !.count = @ + 1] : e \in same}
                ELSE f.entries \cup {[source |-> r.kind, seq |-> r.seq, count |-> 1]}
    IN  IF r.seq <= f.high THEN f
        ELSE IF Source(r) = "none" THEN [f EXCEPT !.high = r.seq]
        ELSE IF same = {} /\ full THEN [f EXCEPT !.high = r.seq, !.omitted = @ + 1]
        ELSE [f EXCEPT !.high = r.seq, !.entries = kept]

ObserveAll(f, page) == FoldSeq(LAMBDA r, g : IF r.kind \in Terminals THEN g ELSE Observe(g, r), f, page)

-----------------------------------------------------------------------------
(* Processes *)

Fresh == [pc |-> "idle", use |-> "run", pin |-> 0, job |-> 0, since |-> 0, retries |-> 0, seen |-> 0,
          counted |-> 0, terminal |-> "none", failures |-> NoFailures, exit |-> "none"]

PlaytestInit ==
    /\ tests = <<>> /\ stoppedBy = <<>> /\ lost = 0
    /\ \E use \in [Tester -> Uses] : tester = [p \in Tester |-> [Fresh EXCEPT !.use = use[p]]]

Moves(p, pc) == tester' = [tester EXCEPT ![p].pc = pc]
Exits(p, code) == tester' = [tester EXCEPT ![p].pc = "ended", ![p].exit = code]
Lost == lost < MaxLost /\ lost' = lost + 1

NewJob(owned, keepOpen) ==
    LET t == [active |-> TRUE, owned |-> owned, keepOpen |-> keepOpen, queue |-> <<>>, nextSeq |-> 1, dropped |-> 0,
              emitted |-> 1, fetching |-> 0, claimed |-> FALSE, pending |-> "none", terminal |-> FALSE, unread |-> 0]
    IN  IF owned THEN Enqueued(t, "started") ELSE t

\* startRun and startJob: refused while a job is active
Launched(owned, keepOpen) == tests' = Append(tests, NewJob(owned, keepOpen)) /\ stoppedBy' = Append(stoppedBy, {})

\* onJobEnded: the end of a job takes a run along that is not ending by itself
Ended(j) ==
    [tests EXCEPT ![j] = [(IF @.owned /\ @.pending = "none" /\ ~ @.claimed THEN Finalized(@, "aborted") ELSE @) EXCEPT !.active = FALSE]]

\* Playtest.stop: the job that is named or the latest, never a stale one; a stop that is not forced may fail
StopEffects(p, j, force) ==
    \/ Latest # 0 /\ j \in {0, Latest} /\ Active(Latest)
       /\ tests' = Ended(Latest) /\ stoppedBy' = [stoppedBy EXCEPT ![Latest] = @ \cup {p}]
    \/ (~force \/ ~Active(Latest) \/ j \notin {0, Latest}) /\ UNCHANGED <<tests, stoppedBy>>

\* A job that is not started, and one whose start is not known to have been
Boots(p) ==
    \/ Active(Latest) /\ Exits(p, "boot") /\ UNCHANGED <<tests, stoppedBy, lost>>
    \/ /\ ~Active(Latest) /\ Launched(TRUE, tester[p].use = "keepOpen")
       /\ \/ tester' = [tester EXCEPT ![p].pc = "poll", ![p].job = Latest + 1] /\ UNCHANGED lost
          \/ Lost /\ Exits(p, "error")

\* PlaytestRun.main: options are checked and scripts read before the start is sent
RunStart(p) ==
    /\ tester[p].pc = "idle" /\ tester[p].use \in {"run", "keepOpen"}
    /\ Boots(p) \/ (Exits(p, "invalid") /\ UNCHANGED <<tests, stoppedBy, lost>>)

\* execute_playtest, the same for a workflow's step
StepStart(p) ==
    /\ tester[p].pc = "idle" /\ tester[p].use = "step"
    /\ Boots(p) \/ (Exits(p, "invalid") /\ UNCHANGED <<tests, stoppedBy, lost>>)

\* Where a run goes whose stream did not end: it cancels first, a step stops first
GivesUp(p) == IF tester[p].use = "step" THEN "stop" ELSE "cancel"

\* poll_run_observed, an answer: each record is observed, the terminal one is kept for the end
PollAnswered(p) ==
    LET j == tester[p].job
        t == Polled(tests[j], tester[p].since)
        page == PageOf(t)
        count == FoldSeq(LAMBDA r, n : n + r.count, 0, page)
        last == IF page = <<>> THEN tester[p].since ELSE page[Len(page)].seq
        ends == {r.kind : r \in {page[i] : i \in DOMAIN page}} \cap Terminals
        done == t.terminal /\ Len(t.queue) <= Page
    IN  /\ tests' = [tests EXCEPT ![j] = t]
        /\ tester' = [tester EXCEPT ![p] =
             [@ EXCEPT !.retries = 0, !.since = last, !.counted = @ + count,
                       !.seen = @ + Len(SelectSeq(page, LAMBDA r : r.kind \notin Terminals \cup {"dropped"})),
                       !.failures = ObserveAll(@, page),
                       !.terminal = IF ends = {} THEN @ ELSE CHOOSE k \in ends : TRUE,
                       !.pc = IF done THEN "stop" ELSE "poll"]]

\* ... a refusal or a lost answer: again with the same number, a few times
PollFailed(p) ==
    /\ Lost
    /\ \/ UNCHANGED tests
       \/ tests' = [tests EXCEPT ![tester[p].job] = Polled(@, tester[p].since)]
    /\ tester' = [tester EXCEPT ![p].retries = @ + 1,
                                ![p].pc = IF tester[p].retries + 1 > PollRetries THEN GivesUp(p) ELSE "poll"]

Poll(p) ==
    /\ tester[p].pc = "poll"
    /\ (PollAnswered(p) /\ UNCHANGED lost) \/ PollFailed(p)
    /\ UNCHANGED stoppedBy

\* The command's own deadline
Deadline(p) ==
    /\ tester[p].pc = "poll" /\ Moves(p, GivesUp(p))
    /\ UNCHANGED <<tests, stoppedBy, lost>>

\* playtest_run_cancel by name: it asks for the end, and waits a while for it
CancelSent(p) ==
    \/ tests' = [tests EXCEPT ![tester[p].job] = Requested(@, "aborted")] /\ UNCHANGED lost
    \/ Lost /\ UNCHANGED tests

\* After the deadline or a lost stream
Cancel(p) ==
    /\ tester[p].pc = "cancel" /\ CancelSent(p) /\ Moves(p, "stop") /\ UNCHANGED stoppedBy

\* record_exit_code
ExitCode(p) == IF tester[p].terminal = "result" THEN "result" ELSE "aborted"

StopSent(p, j) ==
    \/ StopEffects(p, j, FALSE) /\ UNCHANGED lost
    \/ Lost /\ UNCHANGED <<tests, stoppedBy>>

\* The run stops the job it started, unless it is to be kept open
RunStop(p) ==
    /\ tester[p].pc = "stop" /\ tester[p].use \in {"run", "keepOpen"}
    /\ IF tester[p].use = "keepOpen" THEN UNCHANGED <<tests, stoppedBy, lost>> ELSE StopSent(p, tester[p].job)
    /\ Exits(p, ExitCode(p))

\* execute_playtest: whatever runs is stopped, then an unfinished run is cancelled
StepStop(p) ==
    /\ tester[p].pc = "stop" /\ tester[p].use = "step" /\ StopSent(p, 0)
    /\ IF tester[p].terminal = "none" THEN Moves(p, "stepCancel") ELSE Exits(p, ExitCode(p))

StepCancel(p) ==
    /\ tester[p].pc = "stepCancel" /\ CancelSent(p) /\ Exits(p, "aborted") /\ UNCHANGED stoppedBy

-----------------------------------------------------------------------------
(* The single operations *)

\* PlaytestStart.main: --force first stops what runs
ForceStop(p) ==
    /\ tester[p].pc = "idle" /\ tester[p].use = "startForce"
    /\ Moves(p, "start") /\ StopEffects(p, 0, TRUE) /\ UNCHANGED lost

Start(p) ==
    /\ \/ tester[p].pc = "idle" /\ tester[p].use = "start"
       \/ tester[p].pc = "start"
    /\ \/ Active(Latest) /\ Exits(p, "refused") /\ UNCHANGED <<tests, stoppedBy, lost>>
       \/ /\ ~Active(Latest) /\ Launched(FALSE, FALSE)
          /\ \/ tester' = [tester EXCEPT ![p].pc = "settle", ![p].job = Latest + 1] /\ UNCHANGED lost
             \/ Lost /\ Exits(p, "error")

\* settle_check, by the name of the job: it failed, it did not, or that is not known
SettleCheck(p) == {IF tests[tester[p].job].active THEN "ok" ELSE "failed", "unverified"}

\* With --wait the contexts are awaited, and the check explains a wait that failed
Settle(p) ==
    /\ tester[p].pc = "settle"
    /\ \/ \E code \in SettleCheck(p) : Exits(p, code)
       \/ tests[tester[p].job].active /\ Exits(p, "ok")
       \/ \E code \in SettleCheck(p) : Exits(p, IF code = "failed" THEN code ELSE "error")
    /\ UNCHANGED <<tests, stoppedBy, lost>>

StopCommand(p) ==
    /\ tester[p].pc = "idle" /\ tester[p].use \in {"stop", "stopForce"}
    /\ \E pin \in 0 .. Latest : StopEffects(p, pin, tester[p].use = "stopForce")
    /\ \E code \in {"ok", "error"} : Exits(p, code)
    /\ UNCHANGED lost

\* Common.run_op: one request, pinned to a job or not; a stale job is refused
RunOp(p, use, valid) ==
    /\ tester[p].pc = "idle" /\ tester[p].use = use
    /\ \E pin \in 0 .. Latest :
         \E code \in (IF ~valid THEN {"invalid"} ELSE IF pin \in {0, Latest} THEN {"ok", "error"} ELSE {"error"}) :
             tester' = [tester EXCEPT ![p].pc = "ended", ![p].pin = pin, ![p].exit = code,
                                      ![p].job = IF code = "ok" THEN Latest ELSE 0]
    /\ UNCHANGED <<tests, stoppedBy, lost>>

\* check_context and check_client_context
Contexts == {"none", "server", "client", "malformed"}
CheckContext(c) == c \in {"server", "client"}
CheckClientContext(c) == c = "client"

Status(p) == RunOp(p, "status", TRUE)
ContextsCommand(p) == RunOp(p, "contexts", TRUE)
WaitCommand(p) == \E c \in Contexts : RunOp(p, "wait", c = "none" \/ CheckContext(c))
Exec(p) == \E c \in Contexts : RunOp(p, "exec", CheckContext(c))
Logs(p) == \E c \in Contexts : RunOp(p, "logs", CheckContext(c))
Ui(p) == \E c \in Contexts : RunOp(p, "ui", CheckContext(c))
Capture(p) == \E c \in Contexts : RunOp(p, "capture", CheckClientContext(c))
Clip(p) == \E c \in Contexts : RunOp(p, "clip", CheckClientContext(c))
RequestCommand(p) == \E c \in Contexts, object \in BOOLEAN : RunOp(p, "request", CheckContext(c) /\ object)

\* One to INPUT_MAX_ACTIONS objects
InputCommand(p) ==
    \E c \in Contexts, size \in {"empty", "few", "many"}, objects \in BOOLEAN :
        RunOp(p, "input", CheckContext(c) /\ size = "few" /\ objects)

-----------------------------------------------------------------------------
(* Studio: the script of the latest job *)

Produces == Active(Latest) /\ tests[Latest].owned /\ ~tests[Latest].terminal /\ tests[Latest].emitted < MaxEmitted

\* An event or a log, also while the run is torn down
Emits(kind) ==
    /\ Produces /\ tests' = [tests EXCEPT ![Latest] = [Enqueues(@, kind) EXCEPT !.emitted = @ + 1]]
    /\ UNCHANGED <<tester, stoppedBy, lost>>

\* handleCompletionFrame, a client's result: fetched by a task of its own, or discarded
ClientResult ==
    /\ Produces
    /\ tests' = [tests EXCEPT ![Latest] =
                    [@ EXCEPT !.emitted = @ + 1,
                              !.fetching = IF tests[Latest].pending = "none" THEN @ + 1 ELSE @,
                              !.unread = IF tests[Latest].pending = "none" THEN @ ELSE @ + 1]]
    /\ UNCHANGED <<tester, stoppedBy, lost>>

\* resolveCompletion of it: read or not, it is a record
ResultFetched(j) ==
    /\ tests[j].fetching > 0
    /\ tests' = [tests EXCEPT ![j] =
                    [Enqueues(@, "clientResult") EXCEPT !.fetching = @ - 1, !.unread = IF tests[j].terminal THEN @ + 1 ELSE @]]
    /\ UNCHANGED <<tester, stoppedBy, lost>>

\* handleCompletionFrame, the script completes: the first completion is claimed and fetched
ScriptEnds ==
    /\ Active(Latest) /\ tests[Latest].owned /\ ~tests[Latest].terminal
    /\ tests[Latest].pending = "none" /\ ~tests[Latest].claimed
    /\ tests' = [tests EXCEPT ![Latest].claimed = TRUE]
    /\ UNCHANGED <<tester, stoppedBy, lost>>

\* resolveCompletion of the claim: success or failure, the end is requested
CompletionRead(j) ==
    /\ tests[j].claimed
    /\ tests' = [tests EXCEPT ![j] = Requested([@ EXCEPT !.claimed = FALSE], "result")]
    /\ UNCHANGED <<tester, stoppedBy, lost>>

\* superviseRun and a failed boot: a deadline has passed, or the runtime is gone
Supervised(kind) ==
    /\ Active(Latest) /\ tests[Latest].owned /\ Requested(tests[Latest], kind) # tests[Latest]
    /\ tests' = [tests EXCEPT ![Latest] = Requested(@, kind)]
    /\ UNCHANGED <<tester, stoppedBy, lost>>

\* performTerminal: the playtest is stopped unless it is to be kept open; a teardown that is
\* not confirmed makes the end an aborted one
PerformTerminal(j) ==
    /\ tests[j].pending # "none"
    /\ LET open == tests[j].active /\ tests[j].keepOpen /\ tests[j].pending # "aborted" IN
         \/ tests' = [tests EXCEPT ![j] = [Finalized(@, @.pending) EXCEPT !.active = open]]
         \/ tests' = [tests EXCEPT ![j] = Finalized(@, "aborted")]
    /\ UNCHANGED <<tester, stoppedBy, lost>>

\* A user ends the test in Studio
UserEnds == Active(Latest) /\ tests' = Ended(Latest) /\ UNCHANGED <<tester, stoppedBy, lost>>

PlaytestNext ==
    \/ \E kind \in {"event", "log"} : Emits(kind)
    \/ \E kind \in Terminals : Supervised(kind)
    \/ ClientResult \/ ScriptEnds \/ UserEnds
    \/ \E j \in DOMAIN tests : ResultFetched(j) \/ CompletionRead(j) \/ PerformTerminal(j)
    \/ \E p \in Tester :
         \/ RunStart(p) \/ StepStart(p) \/ StepStop(p) \/ StepCancel(p) \/ Poll(p) \/ Deadline(p) \/ Cancel(p)
         \/ RunStop(p) \/ ForceStop(p) \/ Start(p) \/ Settle(p)
         \/ StopCommand(p) \/ Status(p) \/ ContextsCommand(p) \/ WaitCommand(p) \/ Exec(p) \/ Logs(p) \/ Ui(p)
         \/ Capture(p) \/ Clip(p) \/ RequestCommand(p) \/ InputCommand(p)

PlaytestSpec == PlaytestInit /\ [][PlaytestNext]_playtestVars

-----------------------------------------------------------------------------
(* Properties *)

\* A run that reads its job to the end has seen every record that came in before it, or a `dropped`
\* record that counts it: not a lost answer, not a full queue and not the teardown hides one.  Left
\* out are results of clients that come in during the teardown, or are still being read when it ends.
NothingLostSilently ==
    \A p \in Tester :
        tester[p].terminal # "none" =>
            tester[p].seen + tester[p].counted + tests[tester[p].job].unread + tests[tester[p].job].fetching
                >= tests[tester[p].job].emitted

\* "a record is never silently lost" (RunState.luau:12).  Not so for those results.
NeverSilentlyLost ==
    \A p \in Tester :
        tester[p].terminal # "none" => tester[p].seen + tester[p].counted >= tests[tester[p].job].emitted

\* The counts are accurate: what was shown is not also counted as dropped.
DropsAccurate ==
    \A p \in Tester :
        tester[p].terminal # "none" => tester[p].seen + tester[p].counted <= tests[tester[p].job].emitted

\* A run ends its own job and nobody else's.
StopsOwn ==
    \A p \in Tester, j \in DOMAIN stoppedBy :
        p \in stoppedBy[j] /\ tester[p].use \in {"run", "step"} => j = tester[p].job
=============================================================================
