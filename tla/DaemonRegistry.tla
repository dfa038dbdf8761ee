--------------------------- MODULE DaemonRegistry ---------------------------
(***************************************************************************)
(* The desktop program and the daemon of one project: the registry with    *)
(* start, stop, forget and the sweep at exit, the supervisor and heartbeat *)
(* tasks of a child and what they report (desktop daemon.rs), against      *)
(* daemons that hang, exit and watch their manager (server/lifecycle.rs).  *)
(*                                                                         *)
(* A step is what runs between two awaits or touches shared state.  Every  *)
(* child is a spawn of its own; the daemon 0 is one that a terminal        *)
(* starts.  All daemons of the project listen on one port.  Reasons,       *)
(* journal lines and stderr tails are left out.                            *)
(***************************************************************************)
EXTENDS Naturals

CONSTANTS
    MaxSpawns,          \* children the program may start
    MaxFailures,        \* HEARTBEAT_FAILURES_BEFORE_DOWN
    MaxHangs            \* times a daemon stops answering

ASSUME DaemonRegistryAssumption ==
    MaxSpawns \in Nat \ {0} /\ MaxFailures \in Nat \ {0} /\ MaxHangs \in Nat

Child == 1 .. MaxSpawns
ByHand == 0
Process == Child \cup {ByHand}
Untracked == MaxSpawns + 1

VARIABLES
    app,                \* "open", "closing" or "gone"
    child,              \* by boot: "none", "starting", "serving", "hung", "dead"
    watchdog,           \* by boot: "fresh", "expired" or "suspect"
    entry,              \* the spawn whose session is tracked, or Untracked
    session,            \* by spawn: the boot it talks to
    supervisor,         \* by spawn: what its task does next
    heartbeat,          \* by spawn: what its task does next, failures in a row
    flags,              \* by spawn: exited, expected_exit and down_reported
    starter,            \* what the one start behind the gate does next, and for which spawn
    stopper,            \* the same of a stop
    shown,              \* the last of daemon:up and daemon:down
    alerts,             \* by spawn: notifications shown since it last answered
    hangs

registryVars == <<app, child, watchdog, entry, session, supervisor, heartbeat, flags, starter, stopper,
                  shown, alerts, hangs>>

tasks == <<supervisor, heartbeat, flags>>
signals == <<shown, alerts>>

NoFlags == [exited |-> FALSE, expected |-> FALSE, down |-> FALSE]

RegistryInit ==
    /\ app = "open" /\ child = [b \in Process |-> "none"] /\ watchdog = [b \in Process |-> "fresh"]
    /\ entry = Untracked /\ session = [s \in Child |-> s]
    /\ supervisor = [s \in Child |-> "none"]
    /\ heartbeat = [s \in Child |-> [pc |-> "none", failures |-> 0]]
    /\ flags = [s \in Child |-> NoFlags]
    /\ starter = [pc |-> "idle", spawn |-> Untracked] /\ stopper = [pc |-> "idle", spawn |-> Untracked]
    /\ shown = "down"
    /\ alerts = [s \in Child |-> 0] /\ hangs = 0

-----------------------------------------------------------------------------
(* Daemons *)

Answering == {b \in Process : child[b] = "serving"}
Running(b) == child[b] \in {"starting", "serving", "hung"}
Adopted(s) == session[s] # s

\* A start that finds a daemon of the project reports it and exits; one that finds
\* a daemon that lives and does not answer gives up
ChildStarts(b) ==
    /\ child[b] = "starting"
    /\ \E end \in {"serving", "dead"} :
         /\ end = "serving" => \A o \in Process \ {b} : child[o] \notin {"serving", "hung"}
         /\ child' = [child EXCEPT ![b] = end]
    /\ UNCHANGED <<app, watchdog, entry, session, tasks, starter, stopper, signals, hangs>>

TerminalStarts ==
    /\ child[ByHand] = "none" /\ \A o \in Process : ~Running(o)
    /\ child' = [child EXCEPT ![ByHand] = "serving"]
    /\ UNCHANGED <<app, watchdog, entry, session, tasks, starter, stopper, signals, hangs>>

DaemonHangs(b) ==
    /\ child[b] = "serving" /\ hangs < MaxHangs /\ hangs' = hangs + 1
    /\ child' = [child EXCEPT ![b] = "hung"]
    /\ UNCHANGED <<app, watchdog, entry, session, tasks, starter, stopper, signals>>

DaemonRecovers(b) ==
    /\ child[b] = "hung" /\ child' = [child EXCEPT ![b] = "serving"]
    /\ UNCHANGED <<app, watchdog, entry, session, tasks, starter, stopper, signals, hangs>>

DaemonExits(b) ==
    /\ child[b] \in {"serving", "hung"} /\ child' = [child EXCEPT ![b] = "dead"]
    /\ UNCHANGED <<app, watchdog, entry, session, tasks, starter, stopper, signals, hangs>>

\* Five minutes without an authenticated beat
Unattended(b) == heartbeat[b].pc \in {"none", "done"}

\* Mutant: the clock starts with the first beat
AttendedOnce(b) == Unattended(b) /\ heartbeat[b].pc # "none"

HeartbeatExpired(b) == Unattended(b)

\* spawn_watchdog: expired first, then suspect for the grace period, then the end
WatchdogTicks(b) ==
    /\ child[b] = "serving" /\ b # ByHand /\ HeartbeatExpired(b)
    /\ CASE watchdog[b] = "fresh" -> watchdog' = [watchdog EXCEPT ![b] = "suspect"] /\ UNCHANGED child
         [] watchdog[b] = "suspect" -> child' = [child EXCEPT ![b] = "dead"] /\ UNCHANGED watchdog
    /\ UNCHANGED <<app, entry, session, tasks, starter, stopper, signals, hangs>>

-----------------------------------------------------------------------------
(* DaemonRegistry::start, one at a time behind the gate *)

Starter(pc, s) == starter' = [pc |-> pc, spawn |-> s]
NextSpawn == CHOOSE s \in Child : child[s] = "none" /\ \A o \in Child : child[o] = "none" => s <= o

StartChecks ==
    /\ app = "open" /\ starter.pc = "idle"
    /\ Starter(IF entry = Untracked THEN "spawn" ELSE "hello", entry)
    /\ UNCHANGED <<app, child, watchdog, entry, session, tasks, stopper, signals, hangs>>

\* kill, abort_tasks: a dropped child is killed too (kill_on_drop)
TearDown(s) ==
    /\ flags' = [flags EXCEPT ![s] = [NoFlags EXCEPT !.expected = TRUE]] /\ alerts' = [alerts EXCEPT ![s] = 0]
    /\ child' = [child EXCEPT ![s] = IF Running(s) THEN "dead" ELSE @]
    /\ supervisor' = [supervisor EXCEPT ![s] = "done"]
    /\ heartbeat' = [heartbeat EXCEPT ![s] = [pc |-> "done", failures |-> 0]]

\* Any daemon that answers on the port keeps the session; else forget, whatever is tracked by now
StartAsksHello ==
    /\ starter.pc = "hello"
    /\ \/ Answering # {} /\ Starter("idle", Untracked) /\ UNCHANGED <<entry, child, tasks, alerts>>
       \/ /\ Answering = {} /\ Starter("spawn", Untracked)
          /\ IF entry = Untracked THEN UNCHANGED <<child, tasks, alerts>> ELSE TearDown(entry)
          /\ entry' = Untracked
    /\ UNCHANGED <<app, watchdog, session, stopper, shown, hangs>>

\* resolve_binary: neither an override nor a usable sidecar
NoBinary == Starter("idle", Untracked) /\ UNCHANGED child

StartSpawns ==
    /\ starter.pc = "spawn"
    /\ \/ \E s \in Child : child[s] = "none"                        \* MaxSpawns
          /\ child' = [child EXCEPT ![NextSpawn] = "starting"] /\ Starter("ready", NextSpawn)
       \/ NoBinary
    /\ UNCHANGED <<app, watchdog, entry, session, tasks, stopper, signals, hangs>>

\* parse_ready_line: the boot a ready line names, the child's own or that of a daemon it found
ReadyLine(s) == IF child[s] \in {"serving", "hung"} THEN {s} ELSE IF child[s] = "dead" THEN Answering ELSE {}

StartReadsReady ==
    /\ starter.pc = "ready"
    /\ LET s == starter.spawn
       IN  \/ /\ \E b \in ReadyLine(s) : session' = [session EXCEPT ![s] = b]
              /\ Starter("tasks", s) /\ UNCHANGED child
           \/ /\ child[s] # "serving"                                    \* no line, or an error
              /\ child' = [child EXCEPT ![s] = "dead"] /\ Starter("idle", Untracked) /\ UNCHANGED session
    /\ UNCHANGED <<app, watchdog, entry, tasks, stopper, signals, hangs>>

\* The tasks run before the entry is inserted; an adopted daemon has no supervisor
StartSpawnsTasks ==
    /\ starter.pc = "tasks"
    /\ LET s == starter.spawn
       IN  /\ supervisor' = [supervisor EXCEPT ![s] = IF Adopted(s) THEN "done" ELSE "wait"]
           /\ heartbeat' = [heartbeat EXCEPT ![s].pc = "sleep"]
           /\ Starter("insert", s)
    /\ UNCHANGED <<app, child, watchdog, entry, session, flags, stopper, signals, hangs>>

StartInserts ==
    /\ starter.pc = "insert" /\ entry' = starter.spawn /\ Starter("up", starter.spawn)
    /\ UNCHANGED <<app, child, watchdog, session, tasks, stopper, signals, hangs>>


StartShows ==
    /\ starter.pc = "up" /\ shown' = "up" /\ Starter("idle", Untracked)
    /\ UNCHANGED <<app, child, watchdog, entry, session, tasks, stopper, alerts, hangs>>

-----------------------------------------------------------------------------
(* The tasks of a child *)

Task(s) == app # "gone" /\ s \in Child

\* The child is reaped; an expected exit says nothing
SupervisorReaps(s) ==
    /\ Task(s) /\ supervisor[s] = "wait" /\ child[s] = "dead"
    /\ flags' = [flags EXCEPT ![s].exited = TRUE]
    /\ supervisor' = [supervisor EXCEPT ![s] = IF flags[s].expected THEN "done" ELSE "report"]
    /\ UNCHANGED <<app, child, watchdog, entry, session, heartbeat, starter, stopper, signals, hangs>>

\* Mutant: the alert goes by what was seen before the report
AlertsAgain(s) == alerts' = [alerts EXCEPT ![s] = @ + 1]

\* Reporter::report: down, then one alert for the first to swap the flag
ReportAlerts(s) == alerts' = [alerts EXCEPT ![s] = IF flags[s].down THEN @ ELSE @ + 1]

SupervisorReports(s) ==
    /\ Task(s) /\ supervisor[s] = "report"
    /\ IF flags[s].expected THEN supervisor' = [supervisor EXCEPT ![s] = "done"] /\ UNCHANGED shown
       ELSE supervisor' = [supervisor EXCEPT ![s] = "alert"] /\ shown' = "down"
    /\ UNCHANGED <<app, child, watchdog, entry, session, heartbeat, flags, starter, stopper, alerts, hangs>>

SupervisorAlerts(s) ==
    /\ Task(s) /\ supervisor[s] = "alert" /\ supervisor' = [supervisor EXCEPT ![s] = "done"]
    /\ ReportAlerts(s) /\ flags' = [flags EXCEPT ![s].down = TRUE]
    /\ UNCHANGED <<app, child, watchdog, entry, session, heartbeat, starter, stopper, shown, hangs>>

\* Sixty seconds later; a death that was seen is not asked about
HeartbeatWakes(s) ==
    /\ Task(s) /\ heartbeat[s].pc = "sleep"
    /\ heartbeat' = [heartbeat EXCEPT ![s].pc = IF ~Adopted(s) /\ flags[s].exited THEN "done" ELSE "ask"]
    /\ UNCHANGED <<app, child, watchdog, entry, session, supervisor, flags, starter, stopper, signals, hangs>>

\* A managed daemon takes the beat of its owner, an adopted one answers /hello
BeatAnswered(s) == IF Adopted(s) THEN Answering # {} ELSE child[s] = "serving"
Failed(s) == IF heartbeat[s].failures < MaxFailures THEN heartbeat[s].failures + 1 ELSE MaxFailures

HeartbeatAsks(s) ==
    /\ Task(s) /\ heartbeat[s].pc = "ask"
    /\ IF BeatAnswered(s)
       THEN /\ heartbeat' = [heartbeat EXCEPT ![s] = [pc |-> "answered", failures |-> 0]]
            /\ watchdog' = IF Adopted(s) THEN watchdog ELSE [watchdog EXCEPT ![s] = "fresh"]
       ELSE /\ heartbeat' = [heartbeat EXCEPT ![s] =
                    [pc |-> IF Failed(s) >= MaxFailures /\ ~flags[s].down THEN "report" ELSE "sleep",
                     failures |-> Failed(s)]]
            /\ UNCHANGED watchdog
    /\ UNCHANGED <<app, child, entry, session, supervisor, flags, starter, stopper, signals, hangs>>

\* An answer ends the incident
HeartbeatClears(s) ==
    /\ Task(s) /\ heartbeat[s].pc = "answered"
    /\ heartbeat' = [heartbeat EXCEPT ![s].pc = "sleep"]
    /\ flags' = [flags EXCEPT ![s].down = FALSE]
    /\ alerts' = [alerts EXCEPT ![s] = IF flags[s].down THEN 0 ELSE @]
    /\ IF flags[s].down /\ ~flags[s].expected THEN shown' = "up" ELSE UNCHANGED shown
    /\ UNCHANGED <<app, child, watchdog, entry, session, supervisor, starter, stopper, hangs>>

HeartbeatReports(s) ==
    /\ Task(s) /\ heartbeat[s].pc = "report"
    /\ IF flags[s].expected THEN heartbeat' = [heartbeat EXCEPT ![s].pc = "sleep"] /\ UNCHANGED shown
       ELSE heartbeat' = [heartbeat EXCEPT ![s].pc = "alert"] /\ shown' = "down"
    /\ UNCHANGED <<app, child, watchdog, entry, session, supervisor, flags, starter, stopper, alerts, hangs>>

HeartbeatAlerts(s) ==
    /\ Task(s) /\ heartbeat[s].pc = "alert" /\ heartbeat' = [heartbeat EXCEPT ![s].pc = "sleep"]
    /\ ReportAlerts(s) /\ flags' = [flags EXCEPT ![s].down = TRUE]
    /\ UNCHANGED <<app, child, watchdog, entry, session, supervisor, starter, stopper, shown, hangs>>

-----------------------------------------------------------------------------
(* DaemonRegistry::stop and the end of the program *)

Stopper(pc, s) == stopper' = [pc |-> pc, spawn |-> s]

StopTakes ==
    /\ app = "open" /\ stopper.pc = "idle" /\ entry # Untracked
    /\ entry' = Untracked /\ flags' = [flags EXCEPT ![entry].expected = TRUE] /\ Stopper("post", entry)
    /\ UNCHANGED <<app, child, watchdog, session, supervisor, heartbeat, starter, signals, hangs>>

\* POST /stop on the port: a managed daemon wants its boot id and token, another stops
Stops(s) == {b \in Answering : b = ByHand \/ b = s}

\* stop_with_fallback: an adopted daemon is only asked
StopPosts ==
    /\ stopper.pc = "post"
    /\ LET s == stopper.spawn
       IN  IF Stops(s) # {}
           THEN /\ child' = [b \in Process |-> IF b \in Stops(s) THEN "dead" ELSE child[b]]
                /\ Stopper(IF Adopted(s) THEN "emit" ELSE "wait", s)
           ELSE Stopper(IF Adopted(s) THEN "emit" ELSE "kill", s) /\ UNCHANGED child
    /\ UNCHANGED <<app, watchdog, entry, session, tasks, starter, signals, hangs>>

\* The grace period: the exit is seen, or it passes
StopWaits ==
    /\ stopper.pc = "wait"
    /\ Stopper(IF flags[stopper.spawn].exited THEN "emit" ELSE "kill", stopper.spawn)
    /\ UNCHANGED <<app, child, watchdog, entry, session, tasks, starter, signals, hangs>>

StopKills ==
    /\ stopper.pc = "kill"
    /\ child' = [child EXCEPT ![stopper.spawn] = "dead"] /\ Stopper("emit", stopper.spawn)
    /\ UNCHANGED <<app, watchdog, entry, session, tasks, starter, signals, hangs>>

StopEnds ==
    /\ stopper.pc = "emit"
    /\ TearDown(stopper.spawn) /\ shown' = "down"
    /\ Stopper("idle", Untracked)
    /\ UNCHANGED <<app, watchdog, entry, session, starter, hangs>>

\* shutdown_all sweeps what is tracked: /manager-close, then the kill
AppCloses ==
    /\ app = "open" /\ app' = "closing"
    /\ IF entry = Untracked THEN UNCHANGED <<child, tasks, alerts>> ELSE TearDown(entry)
    /\ entry' = Untracked
    /\ UNCHANGED <<watchdog, session, starter, stopper, shown, hangs>>

\* The process is gone, after the sweep or without one; its children are not waited for
AppEnds ==
    /\ app # "gone" /\ app' = "gone" /\ entry' = Untracked /\ session' = [s \in Child |-> s]
    /\ starter' = [pc |-> "gone", spawn |-> Untracked] /\ stopper' = [pc |-> "gone", spawn |-> Untracked]
    /\ supervisor' = [s \in Child |-> "done"] /\ flags' = [s \in Child |-> NoFlags]
    /\ heartbeat' = [s \in Child |-> [pc |-> IF heartbeat[s].pc = "none" THEN "none" ELSE "done", failures |-> 0]]
    /\ shown' = "down" /\ alerts' = [s \in Child |-> 0]
    /\ UNCHANGED <<child, watchdog, hangs>>

-----------------------------------------------------------------------------
DaemonStep(b) == ChildStarts(b) \/ DaemonHangs(b) \/ DaemonRecovers(b) \/ DaemonExits(b) \/ WatchdogTicks(b)
StarterStep == StartChecks \/ StartAsksHello \/ StartSpawns \/ StartReadsReady \/ StartSpawnsTasks \/ StartInserts \/ StartShows
TaskStep(s) == \/ SupervisorReaps(s) \/ SupervisorReports(s) \/ SupervisorAlerts(s)
               \/ HeartbeatWakes(s) \/ HeartbeatAsks(s) \/ HeartbeatClears(s) \/ HeartbeatReports(s) \/ HeartbeatAlerts(s)
StopperStep == StopTakes \/ StopPosts \/ StopWaits \/ StopKills \/ StopEnds

RegistryNext ==
    \/ \E b \in Process : DaemonStep(b)
    \/ \E s \in Child : TaskStep(s)
    \/ TerminalStarts \/ StarterStep \/ StopperStep \/ AppCloses \/ AppEnds

\* A daemon that answers runs its timers, and a start ends one way or the other
RegistryFairness == \A s \in Child : WF_registryVars(ChildStarts(s)) /\ WF_registryVars(WatchdogTicks(s))

RegistrySpec == RegistryInit /\ [][RegistryNext]_registryVars /\ RegistryFairness

-----------------------------------------------------------------------------
\* daemon.rs: "a heartbeat that is lost and then a process that exits are one
\* incident, not two alerts", whichever of the two tasks reports first and
\* whatever crosses the report
OneAlertPerIncident == \A s \in Child : alerts[s] <= 1

\* README.md: "every held handle dies with the app"; one that the sweep did not
\* see, or whose program crashed, ends by its own watchdog unless it hangs
DaemonsDieWithApp == \A s \in Child : (app = "gone") ~> (child[s] \in {"none", "dead", "hung"})

\* README.md: "a daemon that dies on its own updates the UI immediately": once the
\* tasks of a tracked child that exited are through, the program shows it as down
DeathShows ==
    \A s \in Child : entry = s /\ ~Adopted(s) /\ flags[s].exited /\ ~flags[s].expected /\ supervisor[s] = "done"
                     /\ heartbeat[s].pc = "done" /\ starter.pc = "idle" => shown = "down"
=============================================================================
