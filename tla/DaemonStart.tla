----------------------------- MODULE DaemonStart -----------------------------
(***************************************************************************)
(* The processes that start and stop the daemon of one project:            *)
(* `wsync daemon start`, `stop` and `restart` (src/cli/daemon.rs), `serve` *)
(* and `stop` (src/cli/serve.rs, src/cli/stop.rs), the runtime record and  *)
(* the start lock (src/daemon.rs), the session registry (src/sessions.rs)  *)
(* and the server's start and end (src/server/mod.rs, stop.rs).            *)
(*                                                                         *)
(* Processes share files and ports and nothing else, so every file read,   *)
(* every file written and every probe is a step.  A process is its own pid *)
(* and boot id; ids are not used again.  A probe of a server that is alive *)
(* may time out.  Ports with 0 are free, those with -1 serve a program of  *)
(* another project.                                                        *)
(***************************************************************************)
EXTENDS Integers, FiniteSets

CONSTANTS
    Proc,               \* process ids, positive
    MaxPort,            \* port_scan_max
    Scripts,            \* what the processes run: a set of functions from Proc to Command
    MaxFaults           \* crashes, probes that time out, foreign ports that become free

Command == {"start", "stop", "restart", "serve", "sessions"}
Port == 1 .. MaxPort
NoProc == 0
Foreign == -1

ASSUME DaemonStartAssumption ==
    Proc \subseteq Nat \ {0} /\ MaxPort \in Nat \ {0} /\ MaxFaults \in Nat
    /\ Scripts \subseteq [Proc -> Command]

VARIABLES
    proc,               \* by process: its command, program counter and what it has read
    startLock,
    record,             \* the runtime record on disk: boot id (and pid), port, control token
    ports,              \* by port: who listens
    sessions,           \* sessions.toml: processes with an entry
    unrecorded,         \* history: the record of a daemon that served was not written, or another
                        \* process unlinked it: unread, or in a stop
    daemonFaults

daemonVars == <<proc, startLock, record, ports, sessions, unrecorded, daemonFaults>>

NoRecord == [boot |-> NoProc, port |-> 0, token |-> FALSE]

Alive(p) == p \in Proc /\ proc[p].pc \notin {"refused", "already", "ended"}
Listens(p) == \E q \in Port : ports[q] = p
Up(p) == Listens(p) /\ proc[p].pc \in {"bound", "register", "adds", "cleans", "serving"}

\* Port 1 is configured, another was asked for with --port
DaemonInit ==
    /\ \E script \in Scripts, managed \in BOOLEAN, first \in [Proc -> Port] :
         proc = [p \in Proc |-> [cmd |-> script[p], pc |-> "new", port |-> first[p], pinned |-> first[p] # 1,
                                 managed |-> managed, rec |-> NoRecord, snap |-> {}, next |-> "new"]]
    /\ ports \in {[q \in Port |-> NoProc], [q \in Port |-> IF q = 1 THEN Foreign ELSE NoProc]}
    /\ startLock = NoProc /\ record = NoRecord /\ sessions = {} /\ unrecorded = FALSE /\ daemonFaults = 0

-----------------------------------------------------------------------------
Terminal == {"refused", "already", "ended"}

\* What a process has read goes with it
Goto(p, pc) ==
    proc' = [proc EXCEPT ![p] = IF pc \in Terminal THEN [@ EXCEPT !.pc = pc, !.rec = NoRecord, !.snap = {}, !.next = "new"]
                                ELSE [@ EXCEPT !.pc = pc]]

\* The end of a process frees its port and its lock
Freed(p) == [q \in Port |-> IF ports[q] = p THEN NoProc ELSE ports[q]]
Unlocked(p) == IF startLock = p THEN NoProc ELSE startLock
Leaves(p, pc) == Goto(p, pc) /\ startLock' = Unlocked(p)
Fault == daemonFaults < MaxFaults /\ daemonFaults' = daemonFaults + 1

\* probe_hello: who answers on a port, NoProc for nobody
Answers(q, h) ==
    \/ h = ports[q] /\ UNCHANGED daemonFaults
    \/ h = NoProc /\ ports[q] # NoProc /\ Fault

\* record_from_hello knows no token
FromHello(h, q) == [boot |-> h, port |-> q, token |-> FALSE]

\* remove_record_if_boot reads the record ...
Removes(p, next) == proc' = [proc EXCEPT ![p].pc = "remove", ![p].next = next]

RemoveReads(p) ==
    /\ proc[p].pc = "remove"
    /\ Goto(p, IF record # NoRecord /\ record.boot = proc[p].rec.boot THEN "unlink" ELSE proc[p].next)
    /\ UNCHANGED <<startLock, record, ports, sessions, unrecorded, daemonFaults>>

\* ... and unlinks whatever is there by then
RemoveUnlinks(p) ==
    /\ proc[p].pc = "unlink" /\ Goto(p, proc[p].next)
    /\ record' = NoRecord
    /\ unrecorded' = (unrecorded \/ (Listens(record.boot) /\ record.boot # p
                                     /\ (record.boot # proc[p].rec.boot \/ proc[p].next # "scan")))
    /\ UNCHANGED <<startLock, ports, sessions, daemonFaults>>

-----------------------------------------------------------------------------
(* wsync daemon start *)

\* StartLock::acquire does not wait
AcquireLock(p) ==
    /\ proc[p].pc = "again" \/ (proc[p].pc = "new" /\ proc[p].cmd = "start")
    /\ IF startLock = NoProc THEN startLock' = p /\ Goto(p, "record") ELSE Leaves(p, "refused")
    /\ UNCHANGED <<record, ports, sessions, unrecorded, daemonFaults>>

ReadRecord(p) ==
    /\ proc[p].pc = "record"
    /\ proc' = [proc EXCEPT ![p].rec = record, ![p].pc = IF record = NoRecord THEN "scan" ELSE "probe"]
    /\ UNCHANGED <<startLock, record, ports, sessions, unrecorded, daemonFaults>>

\* A daemon of this project answers: it is reported, by the identity it gives
AlreadyRunning(p, h) ==
    /\ Leaves(p, "already")
    /\ record' = IF h = proc[p].rec.boot THEN record ELSE FromHello(h, proc[p].rec.port)

\* Mutant: whoever does not answer is dead
Silent(boot) == TRUE

\* process_exists: a recorded process that lives is neither doubled nor killed
Dead(boot) == ~Alive(boot)

ProbeRecord(p) ==
    /\ proc[p].pc = "probe"
    /\ \E h \in Proc \cup {NoProc, Foreign} :
         /\ Answers(proc[p].rec.port, h)
         /\ \/ h \in Proc /\ AlreadyRunning(p, h)
            \/ /\ h = Foreign \/ (h = NoProc /\ Dead(proc[p].rec.boot))
               /\ Removes(p, "scan") /\ UNCHANGED <<startLock, record>>
            \/ h = NoProc /\ ~Dead(proc[p].rec.boot) /\ Leaves(p, "refused") /\ UNCHANGED record
    /\ UNCHANGED <<ports, sessions, unrecorded>>

\* The next port, unless one was asked for or none is left
ScanOn(p) ==
    IF proc[p].pinned \/ proc[p].port = MaxPort THEN Leaves(p, "refused")
    ELSE proc' = [proc EXCEPT ![p].port = @ + 1] /\ UNCHANGED startLock

ScanPorts(p) ==
    /\ proc[p].pc = "scan"
    /\ LET q == proc[p].port
       IN  \E h \in Proc \cup {NoProc, Foreign} :
             /\ Answers(q, h)
             /\ \/ h \in Proc /\ Leaves(p, "already") /\ record' = FromHello(h, q)
                \/ h = NoProc /\ ports[q] = NoProc /\ Goto(p, "boot") /\ UNCHANGED <<startLock, record>>
                \/ h \notin Proc /\ ports[q] # NoProc /\ ScanOn(p) /\ UNCHANGED record
    /\ UNCHANGED <<ports, sessions, unrecorded>>

\* The project is loaded and the listener bound; either may fail
Boot(p) ==
    /\ proc[p].pc = "boot"
    /\ \/ ports[proc[p].port] = NoProc /\ ports' = [ports EXCEPT ![proc[p].port] = p]
          /\ Goto(p, IF proc[p].cmd = "serve" THEN "serving" ELSE "bound") /\ UNCHANGED startLock
       \/ Leaves(p, "ended") /\ UNCHANGED ports
    /\ UNCHANGED <<record, sessions, unrecorded, daemonFaults>>

\* ready: the record (a failure is a warning), the session entry, and only then the lock
WriteRecord(p) ==
    /\ proc[p].pc = "bound"
    /\ proc' = [proc EXCEPT ![p].pc = "register", ![p].rec = [NoRecord EXCEPT !.boot = p], ![p].next = "new"]
    /\ \/ record' = [boot |-> p, port |-> proc[p].port, token |-> proc[p].managed]
          /\ UNCHANGED <<unrecorded, daemonFaults>>
       \/ Fault /\ unrecorded' = TRUE /\ UNCHANGED record
    /\ UNCHANGED <<startLock, ports, sessions>>

\* sessions::add reads the registry and writes it back with an entry more ...
AddReads(p) ==
    /\ proc[p].pc = "register"
    /\ proc' = [proc EXCEPT ![p].snap = sessions \cup {p}, ![p].pc = "adds"]
    /\ UNCHANGED <<startLock, record, ports, sessions, unrecorded, daemonFaults>>

AddWrites(p) ==
    /\ proc[p].pc = "adds" /\ sessions' = proc[p].snap
    /\ Leaves(p, IF proc[p].cmd = "serve" THEN "boot" ELSE "cleans")
    /\ UNCHANGED <<record, ports, unrecorded, daemonFaults>>

\* ... and a thread writes that copy again without the entries of dead processes
Cleanup(p) ==
    /\ proc[p].pc = "cleans" /\ proc' = [proc EXCEPT ![p].pc = "serving", ![p].snap = {}]
    /\ LET alive == {s \in proc[p].snap : Alive(s)}
       IN  sessions' = IF alive = proc[p].snap THEN sessions ELSE alive
    /\ UNCHANGED <<startLock, record, ports, unrecorded, daemonFaults>>

\* `serve` has neither lock nor record: the first port that binds
ServeScans(p) ==
    /\ proc[p].pc = "new" /\ proc[p].cmd = "serve"
    /\ IF ports[proc[p].port] = NoProc THEN Goto(p, "register") /\ UNCHANGED startLock ELSE ScanOn(p)
    /\ UNCHANGED <<record, ports, sessions, unrecorded, daemonFaults>>

\* The server loop ends; then the record and the entry
ServerEnds(p) ==
    /\ proc[p].pc = "stopping"
    /\ ports' = Freed(p)
    /\ IF proc[p].cmd = "serve" THEN Goto(p, "unlist") ELSE Removes(p, "unlist")
    /\ UNCHANGED <<startLock, record, sessions, unrecorded, daemonFaults>>

\* A signal: both are removed while the server still listens
Signal(p) ==
    /\ proc[p].pc = "serving"
    /\ IF proc[p].cmd = "serve" THEN Goto(p, "unlistOwn") ELSE Removes(p, "unlistOwn")
    /\ UNCHANGED <<startLock, record, ports, sessions, unrecorded, daemonFaults>>

\* sessions::remove of one's own entry; by port, of any entry with that port
FindSession(p) ==
    /\ proc[p].pc \in {"unlist", "unlistOwn"}
    /\ LET found == IF proc[p].pc = "unlistOwn" THEN sessions \cap {p}
                    ELSE {s \in sessions : proc[s].port = proc[p].port}
       IN  IF found = {} THEN Goto(p, "exit")
           ELSE \E s \in found : proc' = [proc EXCEPT ![p].snap = sessions \ {s}, ![p].pc = "relist"]
    /\ UNCHANGED <<startLock, record, ports, sessions, unrecorded, daemonFaults>>

WriteSessions(p) ==
    /\ proc[p].pc = "relist" /\ sessions' = proc[p].snap
    /\ proc' = [proc EXCEPT ![p].pc = "exit", ![p].snap = {}]
    /\ UNCHANGED <<startLock, record, ports, unrecorded, daemonFaults>>

Exit(p) ==
    /\ proc[p].pc = "exit" /\ ports' = Freed(p)
    /\ IF proc[p].cmd = "restart" /\ ~Listens(p) /\ proc[p].rec.boot # p THEN Goto(p, "again") ELSE Goto(p, "ended")
    /\ UNCHANGED <<startLock, record, sessions, unrecorded, daemonFaults>>

-----------------------------------------------------------------------------
(* wsync daemon stop, and the first half of restart *)

\* A restart goes on where the record says the daemon was
StopReads(p) ==
    /\ proc[p].pc = "new" /\ proc[p].cmd \in {"stop", "restart"}
    /\ IF record = NoRecord THEN Goto(p, "exit")
       ELSE proc' = [proc EXCEPT ![p] = [@ EXCEPT !.pc = "verify", !.rec = record, !.port = record.port, !.pinned = TRUE]]
    /\ UNCHANGED <<startLock, record, ports, sessions, unrecorded, daemonFaults>>

\* The boot id must answer before anything is stopped
VerifyIdentity(p) ==
    /\ proc[p].pc = "verify"
    /\ \E h \in Proc \cup {NoProc, Foreign} :
         /\ Answers(proc[p].rec.port, h)
         /\ \/ h = proc[p].rec.boot /\ Goto(p, "post")
            \/ h = NoProc /\ ~Dead(proc[p].rec.boot) /\ Goto(p, "refused")
            \/ (h = NoProc => Dead(proc[p].rec.boot)) /\ h # proc[p].rec.boot /\ Removes(p, "exit")
    /\ UNCHANGED <<startLock, record, ports, sessions, unrecorded>>

\* trigger_shutdown
Stopping(d, p, pc) ==
    proc' = [proc EXCEPT ![p].pc = pc, ![d].pc = IF @ \in {"cleans", "serving"} THEN "stopping" ELSE @]

\* POST /stop: a managed daemon wants its token; a request that fails is no reason to give up
PostStop(p) ==
    /\ proc[p].pc = "post"
    /\ LET d == proc[p].rec.boot
           allowed == proc[d].managed => proc[p].rec.token
       IN  \/ Listens(d) /\ ~allowed /\ Goto(p, "refused") /\ UNCHANGED daemonFaults
           \/ Listens(d) /\ allowed /\ Stopping(d, p, "wait") /\ UNCHANGED daemonFaults
           \/ Goto(p, "wait") /\ IF Listens(d) THEN Fault ELSE UNCHANGED daemonFaults
    /\ UNCHANGED <<startLock, record, ports, sessions, unrecorded>>

\* No answer, or the answer of another boot: it has stopped
WaitStopped(p) ==
    /\ proc[p].pc = "wait"
    /\ \E h \in Proc \cup {NoProc, Foreign} : Answers(proc[p].rec.port, h) /\ h # proc[p].rec.boot
    /\ Removes(p, "unlist")
    /\ UNCHANGED <<startLock, record, ports, sessions, unrecorded>>

\* kill_process ends whatever the target does
Killed(t) == ports' = Freed(t) /\ startLock' = Unlocked(t)

\* The deadline passes: kill
KillDaemon(p) ==
    /\ proc[p].pc = "wait"
    /\ LET d == proc[p].rec.boot
       IN  /\ proc' = [proc EXCEPT ![d].pc = "ended", ![p].pc = "remove", ![p].next = "unlist"]
           /\ Killed(d)
    /\ UNCHANGED <<record, sessions, unrecorded, daemonFaults>>

-----------------------------------------------------------------------------
(* wsync stop: by the session registry *)

SessionsRead(p) ==
    /\ proc[p].pc = "new" /\ proc[p].cmd = "sessions"
    /\ \E s \in sessions : proc' = [proc EXCEPT ![p].pc = "target", ![p].rec.boot = s]
    /\ UNCHANGED <<startLock, record, ports, sessions, unrecorded, daemonFaults>>

\* A request without a token; a process that does not answer is killed
StopSession(p) ==
    /\ proc[p].pc = "target"
    /\ LET t == proc[p].rec.boot
           open == ~proc[t].managed \/ proc[t].cmd = "serve"
       IN  \/ Listens(t) /\ ~open /\ Goto(p, "ended") /\ UNCHANGED <<ports, startLock, daemonFaults>>
           \/ Listens(t) /\ open /\ Stopping(t, p, "prune") /\ UNCHANGED <<ports, startLock, daemonFaults>>
           \/ /\ IF Listens(t) THEN Fault ELSE UNCHANGED daemonFaults
              /\ proc' = [proc EXCEPT ![p].pc = "prune", ![t].pc = "ended"] /\ Killed(t)
    /\ UNCHANGED <<record, sessions, unrecorded>>

\* remove_ids
PruneReads(p) ==
    /\ proc[p].pc = "prune"
    /\ proc' = [proc EXCEPT ![p].pc = "relist", ![p].snap = sessions \ {proc[p].rec.boot}]
    /\ UNCHANGED <<startLock, record, ports, sessions, unrecorded, daemonFaults>>

-----------------------------------------------------------------------------
Crash(p) ==
    /\ Alive(p) /\ Fault /\ Goto(p, "ended") /\ Killed(p)
    /\ UNCHANGED <<record, sessions, unrecorded>>

ForeignLeaves ==
    /\ \E q \in Port : ports[q] = Foreign /\ ports' = [ports EXCEPT ![q] = NoProc]
    /\ Fault /\ UNCHANGED <<proc, startLock, record, sessions, unrecorded>>

StartStep(p) ==
    \/ AcquireLock(p) \/ ReadRecord(p) \/ ProbeRecord(p) \/ ScanPorts(p) \/ Boot(p) \/ WriteRecord(p)
    \/ AddReads(p) \/ AddWrites(p) \/ Cleanup(p) \/ ServeScans(p) \/ ServerEnds(p) \/ Signal(p)

StopStep(p) ==
    \/ StopReads(p) \/ VerifyIdentity(p) \/ PostStop(p) \/ WaitStopped(p) \/ KillDaemon(p)
    \/ SessionsRead(p) \/ StopSession(p) \/ PruneReads(p)

DaemonNext ==
    \/ \E p \in Proc : \/ StartStep(p) \/ StopStep(p) \/ RemoveReads(p) \/ RemoveUnlinks(p)
                        \/ FindSession(p) \/ WriteSessions(p) \/ Exit(p) \/ Crash(p)
    \/ ForeignLeaves

DaemonSpec == DaemonInit /\ [][DaemonNext]_daemonVars

-----------------------------------------------------------------------------
\* cli/daemon.rs: "a matching running daemon is reported with `alreadyRunning`
\* instead of duplicated", whatever port each start tries, whatever crashes and
\* however slowly a daemon answers, as long as every record is written and no
\* other process takes the record of a daemon that serves: between the reading
\* and the unlinking of remove_record_if_boot, or in a stop that takes a slow
\* answer for the end
OneDaemon == unrecorded \/ Cardinality({p \in Proc : Up(p) /\ proc[p].cmd # "serve"}) <= 1

\* The same without the proviso
NotDuplicated == Cardinality({p \in Proc : Up(p) /\ proc[p].cmd # "serve"}) <= 1

\* cli/stop.rs: "Only entries that were actually stopped or verified dead leave
\* the registry": a server at work that was registered still is
RegistryKeeps == \A p \in Proc : Up(p) /\ proc[p].pc \in {"cleans", "serving"} => p \in sessions
=============================================================================
