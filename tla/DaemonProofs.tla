---------------------------- MODULE DaemonProofs ----------------------------
(***************************************************************************)
(* One daemon per project, for every number of processes, ports, scripts   *)
(* and faults.                                                             *)
(*                                                                         *)
(* OneDaemon is not inductive: a second daemon is ruled out long before it *)
(* binds.  DaemonInv says what each part of a start relies on: the lock is *)
(* held from its acquisition to the end of the registration (Locked);      *)
(* a daemon that serves listens on its own port (Bound, PortsHeld) and     *)
(* is the one the record names (Recorded); what a start has read of the    *)
(* record is still so when it probes (Probing); and from the moment it     *)
(* finds no daemon until it writes its own record there is none (Single).  *)
(*                                                                         *)
(* And the desktop program alerts once per incident (RegistryInv).         *)
(***************************************************************************)
EXTENDS DaemonStart, DaemonRegistry, FiniteSetTheorems, TLAPS

Pc == {"new", "again", "record", "probe", "scan", "boot", "bound", "register", "adds", "cleans", "serving",
       "stopping", "remove", "unlink", "unlist", "unlistOwn", "relist", "exit", "verify", "post", "wait",
       "target", "prune", "refused", "already", "ended"}

RecordType == [boot : Proc \cup {NoProc}, port : Port \cup {0}, token : BOOLEAN]

ProcType ==
    [cmd : Command, pc : Pc, port : Port, pinned : BOOLEAN, managed : BOOLEAN, rec : RecordType,
     snap : SUBSET Proc, next : {"new", "scan", "unlist", "unlistOwn", "exit"}]

\* What the processes keep and what they share, and that a record names a port
DaemonTypeOK ==
    /\ proc \in [Proc -> ProcType]
    /\ startLock \in Proc \cup {NoProc} /\ sessions \subseteq Proc
    /\ ports \in [Port -> Proc \cup {NoProc, Foreign}]
    /\ record \in RecordType /\ (record # NoRecord => record.port \in Port)
    /\ unrecorded \in BOOLEAN /\ daemonFaults \in Nat

-----------------------------------------------------------------------------
(* The inductive invariant *)

IsDaemon(p) == proc[p].cmd # "serve"
Removing(p) == proc[p].pc \in {"remove", "unlink"}

\* remove_record_if_boot of a stop or of a daemon that ends, and that of a start
Retires(p) == Removing(p) /\ proc[p].next \in {"unlist", "unlistOwn", "exit"}
Clears(p) == Removing(p) /\ ~Retires(p)

\* From StartLock::acquire to the end of the registration
InStart(p) ==
    \/ IsDaemon(p) /\ proc[p].pc \in {"record", "probe", "scan", "boot", "bound", "register", "adds"}
    \/ Clears(p)

Locked == \A p \in Proc : InStart(p) => startLock = p

\* `serve` takes no part in it
ServeApart ==
    \A p \in Proc : proc[p].pc \in {"again", "record", "probe", "scan", "bound", "cleans"} \/ Clears(p) => IsDaemon(p)

Unbound(p) ==
    \/ proc[p].pc \in {"new", "again", "record", "probe", "scan", "boot"}
    \/ Clears(p)
    \/ ~IsDaemon(p) /\ proc[p].pc \in {"register", "adds"}

PortsHeld == \A p \in Proc, q \in Port : ports[q] = p => proc[p].port = q /\ ~Unbound(p)

Bound ==
    \A p \in Proc : IsDaemon(p) /\ proc[p].pc \in {"bound", "register", "adds", "cleans", "serving"}
                    => ports[proc[p].port] = p

\* A daemon that has written its record
Serves(d) == IsDaemon(d) /\ proc[d].pc \in {"register", "adds", "cleans", "serving"}

Names(rec, d) == rec.boot = d /\ rec.port = proc[d].port

Recorded == ~unrecorded => \A d \in Proc : Serves(d) => Names(record, d)

Probing ==
    \A p \in Proc : proc[p].pc = "probe" =>
        /\ proc[p].rec.port \in Port
        /\ ~unrecorded => \A d \in Proc : Serves(d) => Names(proc[p].rec, d)

\* A start that has found no daemon
FoundNone(p) == (IsDaemon(p) /\ proc[p].pc \in {"scan", "boot", "bound"}) \/ Clears(p)

Single == ~unrecorded => \A p, d \in Proc : FoundNone(p) => ~Serves(d)

DaemonInv ==
    DaemonTypeOK /\ Locked /\ ServeApart /\ PortsHeld /\ Bound /\ Recorded /\ Probing /\ Single

-----------------------------------------------------------------------------
(* Constants and what follows from the invariant *)

LEMMA Ids ==
    /\ NoProc \notin Proc /\ Foreign \notin Proc /\ NoProc # Foreign /\ NoProc \notin Port
    /\ MaxPort \in Nat \ {0} /\ 0 \notin Port
    /\ \A q \in Port : q # MaxPort => q + 1 \in Port
BY DaemonStartAssumption DEF NoProc, Foreign, Port

LEMMA NoRecordTyped == NoRecord \in RecordType
BY DEF NoRecord, RecordType

\* At most one element
LEMMA AtMostOne ==
    ASSUME NEW S, \A a, b \in S : a = b
    PROVE  Cardinality(S) <= 1
<1>1. CASE S = {}
    BY <1>1, FS_EmptySet
<1>2. CASE S # {}
    <2>1. PICK a \in S : TRUE
        BY <1>2
    <2>2. S = {a}
        BY <2>1
    <2> QED
        BY <2>2, FS_Singleton
<1> QED
    BY <1>1, <1>2

LEMMA InvGivesOne == DaemonInv => OneDaemon
<1> SUFFICES ASSUME DaemonInv, ~unrecorded
             PROVE  Cardinality({p \in Proc : Up(p) /\ proc[p].cmd # "serve"}) <= 1
    BY DEF OneDaemon
<1> DEFINE S == {p \in Proc : Up(p) /\ proc[p].cmd # "serve"}
<1>1. ASSUME NEW a \in S, NEW b \in S PROVE a = b
    <2>1. /\ a \in Proc /\ IsDaemon(a) /\ (proc[a].pc = "bound" \/ Serves(a))
          /\ b \in Proc /\ IsDaemon(b) /\ (proc[b].pc = "bound" \/ Serves(b))
        BY DEF Up, IsDaemon, Serves
    <2>2. CASE Serves(a) /\ Serves(b)
        BY <2>1, <2>2 DEF DaemonInv, Recorded, Names
    <2>3. CASE proc[a].pc = "bound" /\ proc[b].pc = "bound"
        <3>1. InStart(a) /\ InStart(b)
            BY <2>1, <2>3 DEF InStart
        <3> QED
            BY <2>1, <3>1 DEF DaemonInv, Locked
    <2>4. CASE proc[a].pc = "bound" /\ Serves(b)
        BY <2>1, <2>4 DEF DaemonInv, Single, FoundNone
    <2>5. CASE proc[b].pc = "bound" /\ Serves(a)
        BY <2>1, <2>5 DEF DaemonInv, Single, FoundNone
    <2> QED
        BY <2>1, <2>2, <2>3, <2>4, <2>5
<1> HIDE DEF S
<1>2. Cardinality(S) <= 1
    BY <1>1, AtMostOne
<1> QED
    BY <1>2 DEF S

LEMMA DaemonInitially == DaemonInit => DaemonInv
<1> SUFFICES ASSUME DaemonInit PROVE DaemonInv
    OBVIOUS
<1>1. PICK script \in Scripts, managed \in BOOLEAN, first \in [Proc -> Port] :
         proc = [p \in Proc |-> [cmd |-> script[p], pc |-> "new", port |-> first[p], pinned |-> first[p] # 1,
                                 managed |-> managed, rec |-> NoRecord, snap |-> {}, next |-> "new"]]
    BY DEF DaemonInit
<1>2. script \in [Proc -> Command]
    BY DaemonStartAssumption
<1>3. proc \in [Proc -> ProcType]
    <2>1. ASSUME NEW p \in Proc
          PROVE  [cmd |-> script[p], pc |-> "new", port |-> first[p], pinned |-> first[p] # 1,
                  managed |-> managed, rec |-> NoRecord, snap |-> {}, next |-> "new"] \in ProcType
        BY <1>2, NoRecordTyped DEF ProcType, Pc
    <2> QED
        BY <1>1, <2>1
<1>4. \A p \in Proc : proc[p].pc = "new"
    BY <1>1
<1>5. ports \in [Port -> {NoProc, Foreign}]
    BY DEF DaemonInit
<1>6. DaemonTypeOK
    BY <1>3, <1>5, NoRecordTyped DEF DaemonInit, DaemonTypeOK
<1>7. \A p \in Proc, q \in Port : ports[q] # p
    BY <1>5, Ids
<1> QED
    BY <1>4, <1>6, <1>7 DEF DaemonInv, Locked, InStart, ServeApart, Clears, Removing, PortsHeld, Bound,
       Recorded, Serves, Probing, Single, FoundNone

-----------------------------------------------------------------------------
(* Steps that start nothing *)

\* Where a process has no part in a start and is no daemon at work
Calm == {"unlist", "unlistOwn", "relist", "exit", "verify", "post", "wait", "stopping", "target", "prune",
         "refused", "already", "ended"}

CalmNow(p) == proc[p].pc \in Calm \/ Retires(p)

\* What goes on, goes on as it did, or calms
Calms(q) ==
    proc'[q] = proc[q] \/ (proc'[q].cmd = proc[q].cmd /\ proc'[q].port = proc[q].port /\ CalmNow(q)')

\* Whoever goes with its port or its lock is calm
PortsGo == \A q \in Port : \/ ports'[q] = ports[q]
                           \/ ports'[q] = NoProc /\ \A p \in Proc : ports[q] = p => CalmNow(p)'
LockGoes == startLock' = startLock \/ \A p \in Proc : startLock = p => CalmNow(p)'

LEMMA CalmKeeps ==
    ASSUME DaemonInv, DaemonTypeOK', \A q \in Proc : Calms(q), PortsGo, LockGoes,
           unrecorded => unrecorded',
           record' = record \/ unrecorded' \/ \A d \in Proc : ~Serves(d)
    PROVE  DaemonInv'
<1>1. ASSUME NEW p \in Proc, CalmNow(p)'
      PROVE  ~InStart(p)' /\ ~Clears(p)' /\ ~Unbound(p)' /\ ~Serves(p)' /\ ~FoundNone(p)' /\ proc'[p].pc # "probe"
             /\ proc'[p].pc \notin {"again", "record", "probe", "scan", "bound", "cleans", "register", "adds", "serving"}
    BY <1>1 DEF CalmNow, Calm, InStart, Clears, Retires, Removing, Unbound, Serves, FoundNone
<1>2. ASSUME NEW p \in Proc, ~CalmNow(p)'
      PROVE  /\ proc'[p] = proc[p]
             /\ IsDaemon(p)' = IsDaemon(p) /\ Clears(p)' = Clears(p) /\ InStart(p)' = InStart(p)
             /\ Unbound(p)' = Unbound(p) /\ Serves(p)' = Serves(p) /\ FoundNone(p)' = FoundNone(p)
    BY <1>2 DEF Calms, IsDaemon, InStart, Clears, Retires, Removing, Unbound, Serves, FoundNone
<1>3. \A p \in Proc : proc'[p].port = proc[p].port /\ (IsDaemon(p)' <=> IsDaemon(p))
    BY DEF Calms, IsDaemon
<1>4. Locked'
    BY <1>1, <1>2 DEF DaemonInv, Locked, LockGoes
<1>5. ServeApart'
    BY <1>1, <1>2 DEF DaemonInv, ServeApart
<1>6. PortsHeld'
    BY <1>1, <1>2, <1>3, Ids DEF DaemonInv, PortsHeld, PortsGo
<1>7. Bound'
    <2> SUFFICES ASSUME NEW p \in Proc, IsDaemon(p)', proc'[p].pc \in {"bound", "register", "adds", "cleans", "serving"}
                 PROVE  ports'[proc'[p].port] = p
        BY DEF Bound
    <2>1. ~CalmNow(p)'
        BY <1>1
    <2>2. ports[proc[p].port] = p /\ proc'[p] = proc[p] /\ proc[p].port \in Port
        BY <1>2, <2>1 DEF DaemonInv, Bound, DaemonTypeOK, ProcType
    <2> QED
        BY <2>1, <2>2 DEF PortsGo
<1>8. Recorded'
    BY <1>1, <1>2 DEF DaemonInv, Recorded, Names
<1>9. Probing'
    BY <1>1, <1>2 DEF DaemonInv, Probing, Names
<1>10. Single'
    BY <1>1, <1>2 DEF DaemonInv, Single
<1> QED
    BY <1>4, <1>5, <1>6, <1>7, <1>8, <1>9, <1>10 DEF DaemonInv

-----------------------------------------------------------------------------
(* How a process moves *)

\* A process and the rest of them
Only(p) == /\ proc' \in [Proc -> ProcType] /\ proc'[p].cmd = proc[p].cmd
           /\ \A q \in Proc \ {p} : proc'[q] = proc[q]

LEMMA GotoMoves ==
    ASSUME DaemonTypeOK, NEW p \in Proc, NEW pc \in Pc, Goto(p, pc)
    PROVE  /\ Only(p) /\ proc'[p].pc = pc /\ proc'[p].port = proc[p].port
           /\ pc \notin Terminal => proc'[p].next = proc[p].next /\ proc'[p].rec = proc[p].rec
<1>1. proc \in [Proc -> ProcType] /\ proc[p] \in ProcType
    BY DEF DaemonTypeOK
<1>2. CASE pc \in Terminal
    <2> DEFINE n == [proc[p] EXCEPT !.pc = pc, !.rec = NoRecord, !.snap = {}, !.next = "new"]
    <2>1. proc' = [proc EXCEPT ![p] = n]
        BY <1>2 DEF Goto
    <2>2. n \in ProcType /\ n.cmd = proc[p].cmd /\ n.port = proc[p].port /\ n.pc = pc
        BY <1>1, NoRecordTyped DEF ProcType
    <2> HIDE DEF n
    <2> QED
        BY <1>1, <1>2, <2>1, <2>2 DEF Only
<1>3. CASE pc \notin Terminal
    <2> DEFINE n == [proc[p] EXCEPT !.pc = pc]
    <2>1. proc' = [proc EXCEPT ![p] = n]
        BY <1>3 DEF Goto
    <2>2. n \in ProcType /\ n.cmd = proc[p].cmd /\ n.port = proc[p].port /\ n.pc = pc
          /\ n.next = proc[p].next /\ n.rec = proc[p].rec
        BY <1>1 DEF ProcType
    <2> HIDE DEF n
    <2> QED
        BY <1>1, <2>1, <2>2 DEF Only
<1> QED
    BY <1>2, <1>3

LEMMA RemovesMoves ==
    ASSUME DaemonTypeOK, NEW p \in Proc, NEW next \in {"scan", "unlist", "unlistOwn", "exit"}, Removes(p, next)
    PROVE  /\ Only(p) /\ proc'[p].pc = "remove" /\ proc'[p].port = proc[p].port
           /\ proc'[p].next = next /\ proc'[p].rec = proc[p].rec
<1>1. proc \in [Proc -> ProcType] /\ proc[p] \in ProcType
    BY DEF DaemonTypeOK
<1> DEFINE n == [proc[p] EXCEPT !.pc = "remove", !.next = next]
<1>2. proc' = [proc EXCEPT ![p] = n]
    BY <1>1 DEF Removes, ProcType
<1>3. n \in ProcType /\ n.cmd = proc[p].cmd /\ n.port = proc[p].port /\ n.pc = "remove" /\ n.next = next /\ n.rec = proc[p].rec
    BY <1>1 DEF ProcType, Pc
<1> HIDE DEF n
<1> QED
    BY <1>1, <1>2, <1>3 DEF Only

LEMMA CalmGoto ==
    ASSUME DaemonTypeOK, NEW p \in Proc, NEW pc \in Calm, Goto(p, pc)
    PROVE  proc' \in [Proc -> ProcType] /\ CalmNow(p)' /\ \A q \in Proc : Calms(q)
<1>1. pc \in Pc
    BY DEF Calm, Pc
<1>2. Only(p) /\ proc'[p].pc = pc /\ proc'[p].port = proc[p].port
    BY <1>1, GotoMoves
<1> QED
    BY <1>2 DEF Only, Calms, CalmNow

LEMMA CalmRemoves ==
    ASSUME DaemonTypeOK, NEW p \in Proc, NEW next \in {"unlist", "unlistOwn", "exit"}, Removes(p, next)
    PROVE  proc' \in [Proc -> ProcType] /\ CalmNow(p)' /\ \A q \in Proc : Calms(q)
<1>1. Only(p) /\ proc'[p].pc = "remove" /\ proc'[p].port = proc[p].port /\ proc'[p].next = next
    BY RemovesMoves
<1> QED
    BY <1>1 DEF Only, Calms, CalmNow, Retires, Removing

LEMMA FreedGoes ==
    ASSUME DaemonTypeOK, NEW t, ports' = Freed(t), t \in Proc => CalmNow(t)'
    PROVE  PortsGo /\ ports' \in [Port -> Proc \cup {NoProc, Foreign}]
BY DEF DaemonTypeOK, Freed, PortsGo

LEMMA UnlockedGoes ==
    ASSUME DaemonTypeOK, NEW t, startLock' = Unlocked(t), t \in Proc => CalmNow(t)'
    PROVE  LockGoes /\ startLock' \in Proc \cup {NoProc}
BY DEF DaemonTypeOK, Unlocked, LockGoes

LEMMA FaultTyped ==
    ASSUME DaemonTypeOK, Fault \/ UNCHANGED daemonFaults
    PROVE  daemonFaults' \in Nat
BY DEF DaemonTypeOK, Fault

\* A step that leaves the record alone and what goes with it
LEMMA CalmStep ==
    ASSUME DaemonInv, proc' \in [Proc -> ProcType], \A q \in Proc : Calms(q),
           UNCHANGED ports \/ (PortsGo /\ ports' \in [Port -> Proc \cup {NoProc, Foreign}]),
           UNCHANGED startLock \/ (LockGoes /\ startLock' \in Proc \cup {NoProc}),
           sessions' \subseteq Proc, UNCHANGED <<record, unrecorded>>, daemonFaults' \in Nat
    PROVE  DaemonInv'
<1>1. DaemonTypeOK'
    BY DEF DaemonInv, DaemonTypeOK
<1>2. PortsGo /\ LockGoes
    BY DEF PortsGo, LockGoes
<1> QED
    BY <1>1, <1>2, CalmKeeps

-----------------------------------------------------------------------------
(* Steps of one process that make nobody a daemon at work *)

\* The other processes keep their ports and the lock
OthersKeep(p) ==
    /\ \A q \in Port : /\ ports[q] \in Proc \ {p} => ports'[q] = ports[q]
                       /\ ports'[q] \in Proc \ {p} => ports[q] = ports'[q]
    /\ \A q \in Proc \ {p} : startLock = q => startLock' = q

\* What the process may claim where it is now
PhaseFine(p) ==
    /\ InStart(p)' => startLock' = p
    /\ proc'[p].pc \in {"again", "record", "probe", "scan", "bound", "cleans"} \/ Clears(p)' => IsDaemon(p)'
    /\ \A q \in Port : ports'[q] = p => proc'[p].port = q /\ ~Unbound(p)'
    /\ IsDaemon(p)' /\ proc'[p].pc \in {"bound", "register", "adds", "cleans", "serving"} => ports'[proc'[p].port] = p
    /\ Serves(p)' => Serves(p) /\ proc'[p].port = proc[p].port
    /\ proc'[p].pc = "probe" =>
          /\ proc'[p].rec.port \in Port
          /\ ~unrecorded => \A d \in Proc : Serves(d) => Names(proc'[p].rec, d)
    /\ ~unrecorded /\ FoundNone(p)' => \A d \in Proc : ~Serves(d)

LEMMA PhaseKeeps ==
    ASSUME DaemonInv, DaemonTypeOK', NEW p \in Proc, Only(p), OthersKeep(p), PhaseFine(p),
           unrecorded => unrecorded', record' = record \/ unrecorded' \/ \A d \in Proc : ~Serves(d)
    PROVE  DaemonInv'
<1>1. \A q \in Proc \ {p} :
         /\ proc'[q] = proc[q]
         /\ IsDaemon(q)' = IsDaemon(q) /\ Clears(q)' = Clears(q) /\ InStart(q)' = InStart(q)
         /\ Unbound(q)' = Unbound(q) /\ Serves(q)' = Serves(q) /\ FoundNone(q)' = FoundNone(q)
    BY DEF Only, IsDaemon, InStart, Clears, Retires, Removing, Unbound, Serves, FoundNone
<1>2. \A d \in Proc : Serves(d)' => Serves(d) /\ proc'[d].port = proc[d].port
    BY <1>1 DEF PhaseFine
<1>3. Locked'
    BY <1>1 DEF DaemonInv, Locked, OthersKeep, PhaseFine
<1>4. ServeApart'
    BY <1>1 DEF DaemonInv, ServeApart, PhaseFine
<1>5. PortsHeld'
    <2> SUFFICES ASSUME NEW r \in Proc, NEW q \in Port, ports'[q] = r
                 PROVE  proc'[r].port = q /\ ~Unbound(r)'
        BY DEF PortsHeld
    <2>1. CASE r = p
        BY <2>1 DEF PhaseFine
    <2>2. CASE r # p
        <3>1. ports[q] = r
            BY <2>2 DEF OthersKeep
        <3> QED
            BY <1>1, <2>2, <3>1 DEF DaemonInv, PortsHeld
    <2> QED
        BY <2>1, <2>2
<1>6. Bound'
    <2> SUFFICES ASSUME NEW r \in Proc, IsDaemon(r)', proc'[r].pc \in {"bound", "register", "adds", "cleans", "serving"}
                 PROVE  ports'[proc'[r].port] = r
        BY DEF Bound
    <2>1. CASE r = p
        BY <2>1 DEF PhaseFine
    <2>2. CASE r # p
        <3>1. ports[proc[r].port] = r /\ proc'[r] = proc[r] /\ proc[r].port \in Port
            BY <1>1, <2>2 DEF DaemonInv, Bound, DaemonTypeOK, ProcType
        <3> QED
            BY <2>2, <3>1 DEF OthersKeep
    <2> QED
        BY <2>1, <2>2
<1>7. Recorded'
    BY <1>2 DEF DaemonInv, Recorded, Names
<1>8. Probing'
    <2> SUFFICES ASSUME NEW r \in Proc, proc'[r].pc = "probe"
                 PROVE  /\ proc'[r].rec.port \in Port
                        /\ ~unrecorded => \A d \in Proc : Serves(d) => Names(proc'[r].rec, d)
        BY <1>2 DEF Probing, Names
    <2> QED
        BY <1>1 DEF DaemonInv, Probing, PhaseFine
<1>9. Single'
    BY <1>1, <1>2 DEF DaemonInv, Single, PhaseFine
<1> QED
    BY <1>3, <1>4, <1>5, <1>6, <1>7, <1>8, <1>9 DEF DaemonInv

LEMMA KeepsOthers ==
    ASSUME DaemonTypeOK, NEW p \in Proc,
           UNCHANGED ports \/ ports' = Freed(p) \/ (\E q \in Port : ports[q] = NoProc /\ ports' = [ports EXCEPT ![q] = p]),
           UNCHANGED startLock \/ (startLock = NoProc /\ startLock' = p) \/ startLock' = Unlocked(p)
    PROVE  OthersKeep(p) /\ ports' \in [Port -> Proc \cup {NoProc, Foreign}] /\ startLock' \in Proc \cup {NoProc}
<1>1. /\ ports \in [Port -> Proc \cup {NoProc, Foreign}] /\ startLock \in Proc \cup {NoProc}
      /\ NoProc \notin Proc
    BY Ids DEF DaemonTypeOK
<1>2. /\ ports' \in [Port -> Proc \cup {NoProc, Foreign}]
      /\ \A q \in Port : /\ ports[q] \in Proc \ {p} => ports'[q] = ports[q]
                         /\ ports'[q] \in Proc \ {p} => ports[q] = ports'[q]
    <2>1. CASE UNCHANGED ports
        BY <1>1, <2>1
    <2>2. CASE ports' = Freed(p)
        BY <1>1, <2>2 DEF Freed
    <2>3. CASE \E q \in Port : ports[q] = NoProc /\ ports' = [ports EXCEPT ![q] = p]
        BY <1>1, <2>3
    <2> QED
        BY <2>1, <2>2, <2>3
<1>3. startLock' \in Proc \cup {NoProc} /\ \A q \in Proc \ {p} : startLock = q => startLock' = q
    BY <1>1 DEF Unlocked
<1> QED
    BY <1>2, <1>3 DEF OthersKeep

-----------------------------------------------------------------------------
(* The actions that start nothing *)

\* A new value for one process: what it moves to has no claims
LEMMA CalmMove ==
    ASSUME DaemonTypeOK, NEW p \in Proc, NEW n \in ProcType, proc' = [proc EXCEPT ![p] = n],
           n.cmd = proc[p].cmd, n.port = proc[p].port, n.pc \in Calm
    PROVE  proc' \in [Proc -> ProcType] /\ \A q \in Proc : Calms(q)
<1>1. proc' \in [Proc -> ProcType] /\ proc'[p] = n /\ \A q \in Proc \ {p} : proc'[q] = proc[q]
    BY DEF DaemonTypeOK
<1> QED
    BY <1>1 DEF Calms, CalmNow

LEMMA SessionListKeeps ==
    ASSUME DaemonInv, NEW p \in Proc, FindSession(p) \/ WriteSessions(p) \/ PruneReads(p) \/ SessionsRead(p)
    PROVE  DaemonInv'
<1>1. DaemonTypeOK /\ proc[p] \in ProcType /\ sessions \subseteq Proc /\ daemonFaults \in Nat
    BY DEF DaemonInv, DaemonTypeOK
<1>2. CASE FindSession(p)
    <2>1. UNCHANGED <<startLock, record, ports, sessions, unrecorded, daemonFaults>>
        BY <1>2 DEF FindSession
    <2>2. CASE Goto(p, "exit")
        BY <1>1, <2>1, <2>2, CalmGoto, CalmStep DEF Calm
    <2>3. CASE \E s : proc' = [proc EXCEPT ![p].snap = sessions \ {s}, ![p].pc = "relist"]
        <3>1. PICK s : proc' = [proc EXCEPT ![p].snap = sessions \ {s}, ![p].pc = "relist"]
            BY <2>3
        <3> DEFINE n == [proc[p] EXCEPT !.snap = sessions \ {s}, !.pc = "relist"]
        <3>2. proc' = [proc EXCEPT ![p] = n] /\ n \in ProcType /\ n.cmd = proc[p].cmd /\ n.port = proc[p].port /\ n.pc \in Calm
            BY <1>1, <3>1 DEF ProcType, Pc, Calm, DaemonTypeOK
        <3> HIDE DEF n
        <3> QED
            BY <1>1, <2>1, <3>2, CalmMove, CalmStep
    <2> QED
        BY <1>2, <2>2, <2>3 DEF FindSession
<1>3. CASE WriteSessions(p)
    <2> DEFINE n == [proc[p] EXCEPT !.pc = "exit", !.snap = {}]
    <2>1. proc' = [proc EXCEPT ![p] = n] /\ n \in ProcType /\ n.cmd = proc[p].cmd /\ n.port = proc[p].port /\ n.pc \in Calm
        BY <1>1, <1>3 DEF WriteSessions, ProcType, Pc, Calm, DaemonTypeOK
    <2>2. sessions' \subseteq Proc /\ UNCHANGED <<startLock, record, ports, unrecorded, daemonFaults>>
        BY <1>1, <1>3 DEF WriteSessions, ProcType
    <2> HIDE DEF n
    <2> QED
        BY <1>1, <2>1, <2>2, CalmMove, CalmStep
<1>4. CASE PruneReads(p)
    <2> DEFINE n == [proc[p] EXCEPT !.pc = "relist", !.snap = sessions \ {proc[p].rec.boot}]
    <2>1. proc' = [proc EXCEPT ![p] = n] /\ n \in ProcType /\ n.cmd = proc[p].cmd /\ n.port = proc[p].port /\ n.pc \in Calm
        BY <1>1, <1>4 DEF PruneReads, ProcType, Pc, Calm, DaemonTypeOK
    <2>2. UNCHANGED <<startLock, record, ports, sessions, unrecorded, daemonFaults>>
        BY <1>4 DEF PruneReads
    <2> HIDE DEF n
    <2> QED
        BY <1>1, <2>1, <2>2, CalmMove, CalmStep
<1>5. CASE SessionsRead(p)
    <2>1. PICK s \in sessions : proc' = [proc EXCEPT ![p].pc = "target", ![p].rec.boot = s]
        BY <1>5 DEF SessionsRead
    <2> DEFINE n == [proc[p] EXCEPT !.pc = "target", !.rec.boot = s]
    <2>2. proc' = [proc EXCEPT ![p] = n] /\ n \in ProcType /\ n.cmd = proc[p].cmd /\ n.port = proc[p].port /\ n.pc \in Calm
        BY <1>1, <2>1 DEF ProcType, RecordType, Pc, Calm, DaemonTypeOK
    <2>3. UNCHANGED <<startLock, record, ports, sessions, unrecorded, daemonFaults>>
        BY <1>5 DEF SessionsRead
    <2> HIDE DEF n
    <2> QED
        BY <1>1, <2>2, <2>3, CalmMove, CalmStep
<1> QED
    BY <1>2, <1>3, <1>4, <1>5

LEMMA EndKeeps ==
    ASSUME DaemonInv, NEW p \in Proc, ServerEnds(p) \/ Signal(p) \/ Crash(p)
    PROVE  DaemonInv'
<1>1. DaemonTypeOK /\ sessions \subseteq Proc /\ daemonFaults \in Nat
    BY DEF DaemonInv, DaemonTypeOK
<1>2. CASE ServerEnds(p)
    <2>1. Goto(p, "unlist") \/ Removes(p, "unlist")
        BY <1>2 DEF ServerEnds
    <2>2. proc' \in [Proc -> ProcType] /\ CalmNow(p)' /\ \A q \in Proc : Calms(q)
        BY <1>1, <2>1, CalmGoto, CalmRemoves DEF Calm
    <2>3. PortsGo /\ ports' \in [Port -> Proc \cup {NoProc, Foreign}]
        BY <1>1, <1>2, <2>2, FreedGoes DEF ServerEnds
    <2> QED
        BY <1>1, <1>2, <2>2, <2>3, CalmStep DEF ServerEnds
<1>3. CASE Signal(p)
    <2>1. Goto(p, "unlistOwn") \/ Removes(p, "unlistOwn")
        BY <1>3 DEF Signal
    <2>2. proc' \in [Proc -> ProcType] /\ \A q \in Proc : Calms(q)
        BY <1>1, <2>1, CalmGoto, CalmRemoves DEF Calm
    <2> QED
        BY <1>1, <1>3, <2>2, CalmStep DEF Signal
<1>4. CASE Crash(p)
    <2>1. proc' \in [Proc -> ProcType] /\ CalmNow(p)' /\ \A q \in Proc : Calms(q)
        BY <1>1, <1>4, CalmGoto DEF Crash, Calm
    <2>2. PortsGo /\ ports' \in [Port -> Proc \cup {NoProc, Foreign}]
        BY <1>1, <1>4, <2>1, FreedGoes DEF Crash, Killed
    <2>3. LockGoes /\ startLock' \in Proc \cup {NoProc}
        BY <1>1, <1>4, <2>1, UnlockedGoes DEF Crash, Killed
    <2>4. daemonFaults' \in Nat
        BY <1>1, <1>4, FaultTyped DEF Crash
    <2> QED
        BY <1>1, <1>4, <2>1, <2>2, <2>3, <2>4, CalmStep DEF Crash
<1> QED
    BY <1>2, <1>3, <1>4

LEMMA ForeignKeeps ==
    ASSUME DaemonInv, ForeignLeaves
    PROVE  DaemonInv'
<1>1. DaemonTypeOK /\ sessions \subseteq Proc
    BY DEF DaemonInv, DaemonTypeOK
<1>2. PICK q \in Port : ports[q] = Foreign /\ ports' = [ports EXCEPT ![q] = NoProc]
    BY DEF ForeignLeaves
<1>3. PortsGo /\ ports' \in [Port -> Proc \cup {NoProc, Foreign}]
    BY <1>1, <1>2, Ids DEF PortsGo, DaemonTypeOK
<1>4. proc' \in [Proc -> ProcType] /\ (\A r \in Proc : Calms(r))
    BY <1>1 DEF ForeignLeaves, DaemonTypeOK, Calms
<1>5. daemonFaults' \in Nat
    BY <1>1, FaultTyped DEF ForeignLeaves
<1> QED
    BY <1>1, <1>3, <1>4, <1>5, CalmStep DEF ForeignLeaves

-----------------------------------------------------------------------------
(* The actions of a stop *)

\* One field of one process, if it is one
LEMMA PcTyped ==
    ASSUME NEW f \in [Proc -> ProcType], NEW a, NEW pc \in Pc
    PROVE  /\ [f EXCEPT ![a].pc = pc] \in [Proc -> ProcType]
           /\ \A q \in Proc : [f EXCEPT ![a].pc = pc][q] = IF q = a THEN [f[q] EXCEPT !.pc = pc] ELSE f[q]
<1>1. \A q \in Proc : f[q] \in ProcType /\ [f[q] EXCEPT !.pc = pc] \in ProcType
    BY DEF ProcType
<1> QED
    BY <1>1

\* Two processes move, none of them to where it has claims
LEMMA StoppingCalms ==
    ASSUME DaemonTypeOK, NEW p \in Proc, NEW d, NEW pc \in {"wait", "prune"}, Stopping(d, p, pc)
    PROVE  proc' \in [Proc -> ProcType] /\ \A q \in Proc : Calms(q)
<1>1. proc \in [Proc -> ProcType]
    BY DEF DaemonTypeOK
<1>2. proc' \in [Proc -> ProcType]
    <2>1. proc' = [q \in Proc |-> proc'[q]]
        BY <1>1 DEF Stopping
    <2>2. \A q \in Proc : \/ proc'[q] = proc[q]
                          \/ proc'[q] = [proc[q] EXCEPT !.pc = pc]
                          \/ proc'[q] = [proc[q] EXCEPT !.pc = "stopping"]
        BY <1>1 DEF Stopping, ProcType
    <2>3. \A q \in Proc : \A n \in {pc, "stopping"} : [proc[q] EXCEPT !.pc = n] \in ProcType
        <3> SUFFICES ASSUME NEW q \in Proc, NEW n \in {pc, "stopping"} PROVE [proc[q] EXCEPT !.pc = n] \in ProcType
            OBVIOUS
        <3>1. proc[q] \in ProcType
            BY <1>1
        <3> QED
            BY <3>1 DEF ProcType, Pc
    <2> QED
        BY <1>1, <2>1, <2>2, <2>3
<1>3. \A q \in Proc : /\ proc'[q].cmd = proc[q].cmd /\ proc'[q].port = proc[q].port
                      /\ proc'[q] = proc[q] \/ proc'[q].pc \in {"wait", "prune", "stopping"}
    BY <1>1 DEF Stopping, ProcType
<1> QED
    BY <1>2, <1>3 DEF Calms, CalmNow, Calm

LEMMA VerifyKeeps ==
    ASSUME DaemonInv, NEW p \in Proc, VerifyIdentity(p)
    PROVE  DaemonInv'
<1>1. DaemonTypeOK /\ sessions \subseteq Proc
    BY DEF DaemonInv, DaemonTypeOK
<1>2. /\ Goto(p, "post") \/ Goto(p, "refused") \/ Removes(p, "exit")
      /\ Fault \/ UNCHANGED daemonFaults
    BY DEF VerifyIdentity, Answers
<1>3. proc' \in [Proc -> ProcType] /\ \A q \in Proc : Calms(q)
    BY <1>1, <1>2, CalmGoto, CalmRemoves DEF Calm
<1>4. daemonFaults' \in Nat
    BY <1>1, <1>2, FaultTyped
<1> QED
    BY <1>1, <1>3, <1>4, CalmStep DEF VerifyIdentity

LEMMA PostStopKeeps ==
    ASSUME DaemonInv, NEW p \in Proc, PostStop(p)
    PROVE  DaemonInv'
<1>1. DaemonTypeOK /\ sessions \subseteq Proc
    BY DEF DaemonInv, DaemonTypeOK
<1>2. /\ Goto(p, "refused") \/ Stopping(proc[p].rec.boot, p, "wait") \/ Goto(p, "wait")
      /\ Fault \/ UNCHANGED daemonFaults
    BY DEF PostStop
<1>3. proc' \in [Proc -> ProcType] /\ \A q \in Proc : Calms(q)
    BY <1>1, <1>2, CalmGoto, StoppingCalms DEF Calm
<1>4. daemonFaults' \in Nat
    BY <1>1, <1>2, FaultTyped
<1> QED
    BY <1>1, <1>3, <1>4, CalmStep DEF PostStop

LEMMA WaitStoppedKeeps ==
    ASSUME DaemonInv, NEW p \in Proc, WaitStopped(p)
    PROVE  DaemonInv'
<1>1. DaemonTypeOK /\ sessions \subseteq Proc
    BY DEF DaemonInv, DaemonTypeOK
<1>2. Removes(p, "unlist") /\ (Fault \/ UNCHANGED daemonFaults)
    BY DEF WaitStopped, Answers
<1>3. proc' \in [Proc -> ProcType] /\ \A q \in Proc : Calms(q)
    BY <1>1, <1>2, CalmRemoves
<1>4. daemonFaults' \in Nat
    BY <1>1, <1>2, FaultTyped
<1> QED
    BY <1>1, <1>3, <1>4, CalmStep DEF WaitStopped

\* The end of the target and the step of who ends it
LEMMA KillKeeps ==
    ASSUME DaemonInv, NEW p \in Proc, KillDaemon(p)
    PROVE  DaemonInv'
<1>0. PICK d : d = proc[p].rec.boot
    OBVIOUS
<1>1. DaemonTypeOK /\ proc \in [Proc -> ProcType] /\ sessions \subseteq Proc /\ daemonFaults \in Nat
    BY DEF DaemonInv, DaemonTypeOK
<1>2. proc' = [proc EXCEPT ![d].pc = "ended", ![p].pc = "remove", ![p].next = "unlist"] /\ Killed(d)
    BY <1>0 DEF KillDaemon
<1>3. proc' \in [Proc -> ProcType]
    <2> DEFINE f == [proc EXCEPT ![d].pc = "ended"]
    <2>0. "ended" \in Pc
        BY DEF Pc
    <2>1. f \in [Proc -> ProcType]
        BY <1>1, <2>0, PcTyped
    <2>2. proc' = [f EXCEPT ![p] = [f[p] EXCEPT !.pc = "remove", !.next = "unlist"]]
        BY <1>1, <1>2 DEF ProcType
    <2> HIDE DEF f
    <2>3. [f[p] EXCEPT !.pc = "remove", !.next = "unlist"] \in ProcType
        <3>1. f[p] \in ProcType
            BY <2>1
        <3> QED
            BY <3>1 DEF ProcType, Pc
    <2> QED
        BY <2>1, <2>2, <2>3
<1>4. \A q \in Proc : /\ proc'[q].cmd = proc[q].cmd /\ proc'[q].port = proc[q].port
                      /\ \/ proc'[q] = proc[q] /\ q # d
                         \/ proc'[q].pc = "ended"
                         \/ proc'[q].pc = "remove" /\ proc'[q].next = "unlist"
    BY <1>1, <1>2 DEF ProcType
<1>5. (\A q \in Proc : Calms(q)) /\ (d \in Proc => CalmNow(d)')
    BY <1>4 DEF Calms, CalmNow, Calm, Retires, Removing
<1>6. PortsGo /\ ports' \in [Port -> Proc \cup {NoProc, Foreign}]
    BY <1>1, <1>2, <1>5, FreedGoes DEF Killed
<1>7. LockGoes /\ startLock' \in Proc \cup {NoProc}
    BY <1>1, <1>2, <1>5, UnlockedGoes DEF Killed
<1> QED
    BY <1>1, <1>3, <1>5, <1>6, <1>7, CalmStep DEF KillDaemon

LEMMA StopSessionKeeps ==
    ASSUME DaemonInv, NEW p \in Proc, StopSession(p)
    PROVE  DaemonInv'
<1>0. PICK t : t = proc[p].rec.boot
    OBVIOUS
<1>1. DaemonTypeOK /\ proc \in [Proc -> ProcType] /\ sessions \subseteq Proc
    BY DEF DaemonInv, DaemonTypeOK
<1>2. daemonFaults' \in Nat
    BY <1>1, FaultTyped DEF StopSession
<1>3. CASE (Goto(p, "ended") \/ Stopping(t, p, "prune")) /\ UNCHANGED <<ports, startLock>>
    <2>1. proc' \in [Proc -> ProcType] /\ \A q \in Proc : Calms(q)
        BY <1>1, <1>3, CalmGoto, StoppingCalms DEF Calm
    <2> QED
        BY <1>1, <1>2, <1>3, <2>1, CalmStep DEF StopSession
<1>4. CASE proc' = [proc EXCEPT ![p].pc = "prune", ![t].pc = "ended"] /\ Killed(t)
    <2>1. proc' \in [Proc -> ProcType]
        <3> DEFINE f == [proc EXCEPT ![p].pc = "prune"]
        <3>0. "prune" \in Pc /\ "ended" \in Pc
            BY DEF Pc
        <3>1. f \in [Proc -> ProcType]
            BY <1>1, <3>0, PcTyped
        <3>2. proc' = [f EXCEPT ![t].pc = "ended"]
            BY <1>4
        <3> HIDE DEF f
        <3> QED
            BY <3>0, <3>1, <3>2, PcTyped
    <2>2. \A q \in Proc : /\ proc'[q].cmd = proc[q].cmd /\ proc'[q].port = proc[q].port
                          /\ (proc'[q] = proc[q] /\ q # t) \/ proc'[q].pc \in {"ended", "prune"}
        BY <1>1, <1>4 DEF ProcType
    <2>3. (\A q \in Proc : Calms(q)) /\ (t \in Proc => CalmNow(t)')
        BY <2>2 DEF Calms, CalmNow, Calm
    <2>4. PortsGo /\ ports' \in [Port -> Proc \cup {NoProc, Foreign}]
        BY <1>1, <1>4, <2>3, FreedGoes DEF Killed
    <2>5. LockGoes /\ startLock' \in Proc \cup {NoProc}
        BY <1>1, <1>4, <2>3, UnlockedGoes DEF Killed
    <2> QED
        BY <1>1, <1>2, <2>1, <2>3, <2>4, <2>5, CalmStep DEF StopSession
<1> QED
    BY <1>0, <1>3, <1>4 DEF StopSession

-----------------------------------------------------------------------------
(* The actions of a start *)

LEMMA UnboundListens ==
    ASSUME DaemonInv, NEW p \in Proc, Unbound(p)
    PROVE  \A q \in Port : ports[q] # p
BY DEF DaemonInv, PortsHeld

\* Whoever serves answers where its record says
LEMMA ServesAnswers ==
    ASSUME DaemonInv, NEW d \in Proc, Serves(d)
    PROVE  ports[proc[d].port] = d /\ ~Dead(d)
BY DEF DaemonInv, Bound, Serves, Dead, Alive

\* A step that types: the process has a new value, the rest is of its type
LEMMA PhaseStep ==
    ASSUME DaemonInv, NEW p \in Proc, Only(p), PhaseFine(p),
           UNCHANGED ports \/ ports' = Freed(p) \/ (\E q \in Port : ports[q] = NoProc /\ ports' = [ports EXCEPT ![q] = p]),
           UNCHANGED startLock \/ (startLock = NoProc /\ startLock' = p) \/ startLock' = Unlocked(p),
           record' = record \/ (/\ unrecorded \/ \A d \in Proc : ~Serves(d)
                                /\ record' \in RecordType /\ (record' # NoRecord => record'.port \in Port)),
           UNCHANGED unrecorded, sessions' \subseteq Proc, daemonFaults' \in Nat
    PROVE  DaemonInv'
<1>1. DaemonTypeOK
    BY DEF DaemonInv
<1>2. OthersKeep(p) /\ ports' \in [Port -> Proc \cup {NoProc, Foreign}] /\ startLock' \in Proc \cup {NoProc}
    BY <1>1, KeepsOthers
<1>3. DaemonTypeOK'
    BY <1>1, <1>2 DEF DaemonTypeOK, Only
<1> QED
    BY <1>2, <1>3, PhaseKeeps

LEMMA CalmLeave ==
    ASSUME DaemonInv, NEW p \in Proc, NEW pc \in Calm, Leaves(p, pc), UNCHANGED <<ports, sessions, unrecorded>>,
           Fault \/ UNCHANGED daemonFaults,
           record' = record \/ (/\ unrecorded \/ \A d \in Proc : ~Serves(d)
                                /\ record' \in RecordType /\ (record' # NoRecord => record'.port \in Port))
    PROVE  DaemonInv'
<1>1. DaemonTypeOK
    BY DEF DaemonInv
<1>2. proc' \in [Proc -> ProcType] /\ CalmNow(p)' /\ \A q \in Proc : Calms(q)
    BY <1>1, CalmGoto DEF Leaves
<1>3. LockGoes /\ startLock' \in Proc \cup {NoProc}
    BY <1>1, <1>2, UnlockedGoes DEF Leaves
<1>4. daemonFaults' \in Nat /\ PortsGo
    BY <1>1, FaultTyped DEF PortsGo
<1>5. DaemonTypeOK'
    BY <1>1, <1>2, <1>3, <1>4 DEF DaemonTypeOK
<1> QED
    BY <1>2, <1>3, <1>4, <1>5, CalmKeeps

LEMMA AcquireLockKeeps ==
    ASSUME DaemonInv, NEW p \in Proc, AcquireLock(p)
    PROVE  DaemonInv'
<1>1. CASE startLock = NoProc /\ startLock' = p /\ Goto(p, "record")
    <2>1. "record" \in Pc /\ "record" \notin Terminal /\ DaemonTypeOK /\ IsDaemon(p) /\ Unbound(p)
        BY DEF AcquireLock, DaemonInv, ServeApart, IsDaemon, Unbound, Pc, Terminal
    <2>2. Only(p) /\ proc'[p].pc = "record"
        BY <1>1, <2>1, GotoMoves
    <2>3. \A q \in Port : ports[q] # p
        BY <2>1, UnboundListens
    <2>4. ports' = ports /\ IsDaemon(p)' /\ ~Clears(p)' /\ ~Serves(p)' /\ ~FoundNone(p)'
        BY <2>1, <2>2 DEF AcquireLock, Only, IsDaemon, Clears, Removing, Serves, FoundNone
    <2>5. PhaseFine(p)
        BY <1>1, <2>2, <2>3, <2>4 DEF PhaseFine
    <2> QED
        BY <1>1, <2>2, <2>5, PhaseStep DEF AcquireLock, DaemonInv, DaemonTypeOK
<1>2. CASE Leaves(p, "refused")
    BY <1>2, CalmLeave DEF AcquireLock, Calm
<1> QED
    BY <1>1, <1>2 DEF AcquireLock

LEMMA ReadRecordKeeps ==
    ASSUME DaemonInv, NEW p \in Proc, ReadRecord(p)
    PROVE  DaemonInv'
<1>1. DaemonTypeOK /\ proc[p] \in ProcType /\ record \in RecordType /\ (record # NoRecord => record.port \in Port)
    BY DEF DaemonInv, DaemonTypeOK
<1>2. IsDaemon(p) /\ Unbound(p) /\ InStart(p) /\ startLock = p
    BY DEF ReadRecord, DaemonInv, ServeApart, IsDaemon, Unbound, InStart, Locked
<1> DEFINE pc == IF record = NoRecord THEN "scan" ELSE "probe"
           n == [proc[p] EXCEPT !.rec = record, !.pc = pc]
<1>3. proc' = [proc EXCEPT ![p] = n]
    BY <1>1 DEF ReadRecord, DaemonTypeOK, ProcType
<1>4. n \in ProcType /\ n.cmd = proc[p].cmd /\ n.pc = pc /\ n.rec = record
    BY <1>1 DEF ProcType, Pc
<1>5. Only(p) /\ proc'[p].cmd = proc[p].cmd /\ proc'[p].pc = pc /\ proc'[p].rec = record
    <2> HIDE DEF n, pc
    <2> QED
        BY <1>1, <1>3, <1>4 DEF Only, DaemonTypeOK
<1>6. \A q \in Port : ports[q] # p
    BY <1>2, UnboundListens
<1>7. UNCHANGED <<ports, startLock, record, unrecorded, sessions, daemonFaults>>
    BY DEF ReadRecord
<1>8. IsDaemon(p)' /\ ~Clears(p)' /\ ~Serves(p)'
    BY <1>2, <1>5 DEF IsDaemon, Clears, Removing, Serves
<1>9. ~unrecorded => \A d \in Proc : Serves(d) => Names(record, d)
    BY DEF DaemonInv, Recorded
<1>10. ~unrecorded /\ record = NoRecord => \A d \in Proc : ~Serves(d)
    BY <1>9, Ids DEF Names, NoRecord
<1>11. FoundNone(p)' => record = NoRecord
    BY <1>5, <1>8 DEF FoundNone
<1>12. PhaseFine(p)
    BY <1>1, <1>2, <1>5, <1>6, <1>7, <1>8, <1>9, <1>10, <1>11 DEF PhaseFine
<1> QED
    BY <1>1, <1>5, <1>7, <1>12, PhaseStep DEF DaemonTypeOK

LEMMA ProbeRecordKeeps ==
    ASSUME DaemonInv, NEW p \in Proc, ProbeRecord(p)
    PROVE  DaemonInv'
<1>1. DaemonTypeOK /\ proc[p] \in ProcType
    BY DEF DaemonInv, DaemonTypeOK
<1>2. IsDaemon(p) /\ Unbound(p) /\ InStart(p) /\ startLock = p
    BY DEF ProbeRecord, DaemonInv, ServeApart, IsDaemon, Unbound, InStart, Locked
<1> DEFINE rec == proc[p].rec
<1>3. rec.port \in Port /\ (~unrecorded => \A d \in Proc : Serves(d) => Names(rec, d))
    BY DEF ProbeRecord, DaemonInv, Probing
<1>4. PICK h \in Proc \cup {NoProc, Foreign} :
        /\ Answers(rec.port, h)
        /\ \/ h \in Proc /\ AlreadyRunning(p, h)
           \/ /\ h = Foreign \/ (h = NoProc /\ Dead(rec.boot))
              /\ Removes(p, "scan") /\ UNCHANGED <<startLock, record>>
           \/ h = NoProc /\ ~Dead(rec.boot) /\ Leaves(p, "refused") /\ UNCHANGED record
    BY DEF ProbeRecord
<1>5. UNCHANGED <<ports, sessions, unrecorded>> /\ (Fault \/ UNCHANGED daemonFaults) /\ sessions \subseteq Proc
      /\ daemonFaults' \in Nat
    BY <1>1, <1>4, FaultTyped DEF ProbeRecord, Answers, DaemonTypeOK
<1>6. ASSUME ~unrecorded, NEW d \in Proc, Serves(d)
      PROVE  rec.boot = d /\ (h = d \/ h = NoProc) /\ ~Dead(d)
    <2>1. Names(rec, d) /\ ports[proc[d].port] = d /\ ~Dead(d)
        BY <1>3, <1>6, ServesAnswers
    <2> QED
        BY <1>4, <2>1 DEF Names, Answers
<1>7. CASE h \in Proc /\ AlreadyRunning(p, h)
    <2>1. CASE h = rec.boot
        BY <1>5, <1>7, <2>1, CalmLeave DEF AlreadyRunning, Calm
    <2>2. CASE h # rec.boot
        <3>1. unrecorded \/ \A d \in Proc : ~Serves(d)
            BY <1>6, <1>7, <2>2, Ids
        <3>2. record' \in RecordType /\ record'.port \in Port /\ Leaves(p, "already")
            BY <1>3, <1>7, <2>2 DEF AlreadyRunning, FromHello, RecordType
        <3> QED
            BY <1>5, <3>1, <3>2, CalmLeave DEF Calm
    <2> QED
        BY <2>1, <2>2
<1>8. CASE /\ h = Foreign \/ (h = NoProc /\ Dead(rec.boot))
           /\ Removes(p, "scan") /\ UNCHANGED <<startLock, record>>
    <2>1. Only(p) /\ proc'[p].pc = "remove" /\ proc'[p].next = "scan"
        BY <1>1, <1>8, RemovesMoves
    <2>2. unrecorded \/ \A d \in Proc : ~Serves(d)
        BY <1>6, <1>8, Ids
    <2>3. \A q \in Port : ports[q] # p
        BY <1>2, UnboundListens
    <2>4. IsDaemon(p)' /\ ~Serves(p)'
        BY <1>2, <2>1 DEF Only, IsDaemon, Serves
    <2>5. PhaseFine(p)
        BY <1>2, <1>5, <1>8, <2>1, <2>2, <2>3, <2>4 DEF PhaseFine
    <2> QED
        BY <1>5, <1>8, <2>1, <2>5, PhaseStep
<1>9. CASE Leaves(p, "refused") /\ UNCHANGED record
    BY <1>5, <1>9, CalmLeave DEF Calm
<1> QED
    BY <1>4, <1>7, <1>8, <1>9

\* The next port, of a process that has none yet
LEMMA ScanOnKeeps ==
    ASSUME DaemonInv, NEW p \in Proc, proc[p].pc \in {"scan", "new"}, ScanOn(p), UNCHANGED <<record, ports, sessions, unrecorded>>,
           Fault \/ UNCHANGED daemonFaults
    PROVE  DaemonInv'
<1>1. DaemonTypeOK /\ proc[p] \in ProcType /\ sessions \subseteq Proc
    BY DEF DaemonInv, DaemonTypeOK
<1>2. CASE Leaves(p, "refused")
    BY <1>2, CalmLeave DEF Calm
<1>3. CASE proc[p].port # MaxPort /\ proc' = [proc EXCEPT ![p].port = @ + 1] /\ UNCHANGED startLock
    <2> DEFINE n == [proc[p] EXCEPT !.port = proc[p].port + 1]
    <2>1. proc[p].port + 1 \in Port
        BY <1>1, <1>3, Ids DEF ProcType
    <2>2. proc' = [proc EXCEPT ![p] = n] /\ n \in ProcType /\ n.cmd = proc[p].cmd /\ n.pc = proc[p].pc /\ n.next = proc[p].next
        BY <1>1, <1>3, <2>1 DEF DaemonTypeOK, ProcType
    <2>3. Only(p) /\ proc'[p].pc = proc[p].pc /\ proc'[p].cmd = proc[p].cmd /\ proc'[p].next = proc[p].next
        <3> HIDE DEF n
        <3> QED
            BY <1>1, <2>2 DEF Only, DaemonTypeOK
    <2>4. Unbound(p) /\ \A q \in Port : ports[q] # p
        BY UnboundListens DEF Unbound
    <2>5. /\ IsDaemon(p)' = IsDaemon(p) /\ ~Clears(p)' /\ ~Clears(p) /\ ~Serves(p)' /\ FoundNone(p)' = FoundNone(p)
          /\ InStart(p)' = InStart(p)
        BY <2>3 DEF IsDaemon, Clears, Retires, Removing, Serves, FoundNone, InStart
    <2>6. /\ InStart(p) => startLock = p
          /\ proc[p].pc = "scan" => IsDaemon(p)
          /\ ~unrecorded /\ FoundNone(p) => \A d \in Proc : ~Serves(d)
        BY DEF DaemonInv, Locked, ServeApart, Single
    <2>7. PhaseFine(p)
        BY <1>3, <2>3, <2>4, <2>5, <2>6 DEF PhaseFine
    <2>8. daemonFaults' \in Nat
        BY <1>1, FaultTyped
    <2> QED
        BY <1>1, <1>3, <2>3, <2>7, <2>8, PhaseStep
<1> QED
    BY <1>2, <1>3 DEF ScanOn

LEMMA ScanPortsKeeps ==
    ASSUME DaemonInv, NEW p \in Proc, ScanPorts(p)
    PROVE  DaemonInv'
<1>1. DaemonTypeOK /\ proc[p] \in ProcType /\ proc[p].port \in Port
    BY DEF DaemonInv, DaemonTypeOK, ProcType
<1>2. IsDaemon(p) /\ Unbound(p) /\ startLock = p /\ FoundNone(p) /\ proc[p].pc = "scan"
    BY DEF ScanPorts, DaemonInv, ServeApart, IsDaemon, Unbound, InStart, Locked, FoundNone
<1>3. unrecorded \/ \A d \in Proc : ~Serves(d)
    BY <1>2 DEF DaemonInv, Single
<1>4. PICK q \in Port, h \in Proc \cup {NoProc, Foreign} :
        /\ Answers(q, h)
        /\ \/ h \in Proc /\ Leaves(p, "already") /\ record' = FromHello(h, q)
           \/ Goto(p, "boot") /\ UNCHANGED <<startLock, record>>
           \/ ScanOn(p) /\ UNCHANGED record
    BY <1>1 DEF ScanPorts
<1>5. UNCHANGED <<ports, sessions, unrecorded>> /\ (Fault \/ UNCHANGED daemonFaults) /\ sessions \subseteq Proc
      /\ daemonFaults' \in Nat
    BY <1>1, <1>4, FaultTyped DEF ScanPorts, Answers, DaemonTypeOK
<1>6. CASE h \in Proc /\ Leaves(p, "already") /\ record' = FromHello(h, q)
    <2>1. record' \in RecordType /\ record'.port \in Port
        BY <1>6 DEF FromHello, RecordType
    <2> QED
        BY <1>3, <1>5, <1>6, <2>1, CalmLeave DEF Calm
<1>7. CASE Goto(p, "boot") /\ UNCHANGED <<startLock, record>>
    <2>1. "boot" \in Pc /\ "boot" \notin Terminal
        BY DEF Pc, Terminal
    <2>2. Only(p) /\ proc'[p].pc = "boot"
        BY <1>1, <1>7, <2>1, GotoMoves
    <2>3. \A r \in Port : ports[r] # p
        BY <1>2, UnboundListens
    <2>4. IsDaemon(p)' /\ ~Serves(p)' /\ ~Clears(p)'
        BY <1>2, <2>2 DEF Only, IsDaemon, Serves, Clears, Removing
    <2>5. PhaseFine(p)
        BY <1>2, <1>3, <1>5, <1>7, <2>2, <2>3, <2>4 DEF PhaseFine
    <2> QED
        BY <1>5, <1>7, <2>2, <2>5, PhaseStep
<1>8. CASE ScanOn(p) /\ UNCHANGED record
    BY <1>2, <1>5, <1>8, ScanOnKeeps
<1> QED
    BY <1>4, <1>6, <1>7, <1>8

LEMMA BootKeeps ==
    ASSUME DaemonInv, NEW p \in Proc, Boot(p)
    PROVE  DaemonInv'
<1>1. DaemonTypeOK /\ proc[p] \in ProcType /\ proc[p].port \in Port /\ ports \in [Port -> Proc \cup {NoProc, Foreign}]
    BY DEF DaemonInv, DaemonTypeOK, ProcType
<1>2. UNCHANGED <<record, sessions, unrecorded, daemonFaults>> /\ sessions' \subseteq Proc /\ daemonFaults' \in Nat
    BY <1>1 DEF Boot, DaemonTypeOK
<1>3. CASE Leaves(p, "ended") /\ UNCHANGED ports
    BY <1>2, <1>3, CalmLeave DEF Calm
<1>4. CASE /\ ports[proc[p].port] = NoProc /\ ports' = [ports EXCEPT ![proc[p].port] = p]
           /\ Goto(p, IF proc[p].cmd = "serve" THEN "serving" ELSE "bound") /\ UNCHANGED startLock
    <2> DEFINE pc == IF proc[p].cmd = "serve" THEN "serving" ELSE "bound"
    <2>1. pc \in Pc /\ pc \notin Terminal
        BY DEF Pc, Terminal
    <2>2. Only(p) /\ proc'[p].pc = pc /\ proc'[p].port = proc[p].port
        <3> HIDE DEF pc
        <3>1. Goto(p, pc)
            BY <1>4 DEF pc
        <3> QED
            BY <1>1, <2>1, <3>1, GotoMoves
    <2>3. Unbound(p) /\ \A q \in Port : ports[q] # p
        BY UnboundListens DEF Boot, Unbound
    <2>4. /\ IsDaemon(p)' = IsDaemon(p) /\ ~Clears(p)' /\ ~Serves(p)' /\ ~Unbound(p)'
          /\ pc = "bound" <=> IsDaemon(p)
        BY <2>2 DEF Only, IsDaemon, Clears, Removing, Serves, Unbound
    <2>5. IsDaemon(p) => startLock = p /\ (~unrecorded => \A d \in Proc : ~Serves(d))
        BY DEF Boot, DaemonInv, Locked, InStart, Single, FoundNone
    <2>6. InStart(p)' => IsDaemon(p)
        BY <2>4 DEF InStart
    <2>7. FoundNone(p)' => IsDaemon(p)
        BY <2>4 DEF FoundNone
    <2>8. ports'[proc[p].port] = p /\ \A q \in Port : ports'[q] = p => q = proc[p].port
        BY <1>1, <1>4, <2>3
    <2>9. PhaseFine(p)
        BY <1>4, <2>2, <2>4, <2>5, <2>6, <2>7, <2>8 DEF PhaseFine
    <2>10. \E q \in Port : ports[q] = NoProc /\ ports' = [ports EXCEPT ![q] = p]
        BY <1>1, <1>4
    <2> QED
        BY <1>2, <1>4, <2>2, <2>9, <2>10, PhaseStep
<1> QED
    BY <1>3, <1>4 DEF Boot

\* The daemon that has found none is the one the record names
LEMMA WriteRecordKeeps ==
    ASSUME DaemonInv, NEW p \in Proc, WriteRecord(p)
    PROVE  DaemonInv'
<1>1. DaemonTypeOK /\ proc[p] \in ProcType /\ proc[p].port \in Port /\ proc[p].managed \in BOOLEAN
    BY DEF DaemonInv, DaemonTypeOK, ProcType
<1>2. /\ proc[p].pc = "bound" /\ IsDaemon(p) /\ InStart(p) /\ FoundNone(p) /\ startLock = p
      /\ ports[proc[p].port] = p /\ ~Unbound(p)
    <2>1. proc[p].pc = "bound" /\ IsDaemon(p)
        BY DEF WriteRecord, DaemonInv, ServeApart
    <2>2. InStart(p) /\ FoundNone(p) /\ ~Unbound(p)
        BY <2>1 DEF InStart, FoundNone, Unbound, Clears, Removing
    <2> QED
        BY <2>1, <2>2 DEF DaemonInv, Locked, Bound
<1>3. ~unrecorded => \A d \in Proc : ~Serves(d)
    BY <1>2 DEF DaemonInv, Single
<1>4. UNCHANGED <<startLock, ports, sessions>>
    BY DEF WriteRecord
<1> DEFINE n == [proc[p] EXCEPT !.pc = "register", !.rec = [NoRecord EXCEPT !.boot = p], !.next = "new"]
<1>5. [NoRecord EXCEPT !.boot = p] \in RecordType
    BY DEF NoRecord, RecordType
<1>6. proc' = [proc EXCEPT ![p] = n] /\ n \in ProcType /\ n.cmd = proc[p].cmd /\ n.pc = "register" /\ n.port = proc[p].port
    <2>1. proc' = [proc EXCEPT ![p] = n]
        BY <1>1 DEF WriteRecord, DaemonTypeOK, ProcType
    <2>2. n \in ProcType
        BY <1>1, <1>5 DEF ProcType, Pc
    <2> QED
        BY <1>1, <2>1, <2>2 DEF ProcType
<1>7. /\ Only(p) /\ proc'[p].cmd = proc[p].cmd /\ proc'[p].pc = "register" /\ proc'[p].port = proc[p].port
    <2> HIDE DEF n
    <2> QED
        BY <1>1, <1>6 DEF Only, DaemonTypeOK
<1>8. \/ record' = [boot |-> p, port |-> proc[p].port, token |-> proc[p].managed] /\ UNCHANGED <<unrecorded, daemonFaults>>
      \/ unrecorded' = TRUE /\ record' = record /\ Fault
    BY DEF WriteRecord
<1>9. DaemonTypeOK'
    <2>1. record' \in RecordType /\ (record' # NoRecord => record'.port \in Port)
        BY <1>1, <1>8 DEF RecordType, DaemonTypeOK
    <2>2. daemonFaults' \in Nat /\ unrecorded' \in BOOLEAN
        BY <1>1, <1>8, FaultTyped DEF DaemonTypeOK
    <2> QED
        BY <1>1, <1>4, <1>7, <2>1, <2>2 DEF DaemonTypeOK, Only
<1>10. \A q \in Proc \ {p} :
         /\ proc'[q] = proc[q]
         /\ IsDaemon(q)' = IsDaemon(q) /\ Clears(q)' = Clears(q) /\ InStart(q)' = InStart(q)
         /\ Unbound(q)' = Unbound(q) /\ Serves(q)' = Serves(q) /\ FoundNone(q)' = FoundNone(q)
    BY <1>7 DEF Only, IsDaemon, InStart, Clears, Retires, Removing, Unbound, Serves, FoundNone
<1>11. IsDaemon(p)' /\ ~Clears(p)' /\ ~Unbound(p)' /\ ~FoundNone(p)'
    BY <1>2, <1>7 DEF IsDaemon, Clears, Removing, Unbound, FoundNone
\* No other process is in a start
<1>12. \A q \in Proc \ {p} : ~InStart(q)
    BY <1>2 DEF DaemonInv, Locked
<1>13. \A q \in Proc \ {p} : ~FoundNone(q) /\ proc[q].pc # "probe"
    BY <1>12 DEF FoundNone, InStart, DaemonInv, ServeApart
<1>14. Locked'
    BY <1>2, <1>4, <1>10, <1>12 DEF Locked
<1>15. ServeApart'
    BY <1>10, <1>11 DEF DaemonInv, ServeApart
<1>16. PortsHeld'
    BY <1>4, <1>7, <1>10, <1>11 DEF DaemonInv, PortsHeld
<1>17. Bound'
    BY <1>2, <1>4, <1>7, <1>10 DEF DaemonInv, Bound
<1>18. Recorded'
    <2> SUFFICES ASSUME ~unrecorded', NEW d \in Proc, Serves(d)' PROVE Names(record, d)'
        BY DEF Recorded, Names
    <2>1. ~unrecorded /\ record' = [boot |-> p, port |-> proc[p].port, token |-> proc[p].managed]
        BY <1>8
    <2>2. d = p
        BY <1>3, <1>10, <2>1
    <2> QED
        BY <1>7, <2>1, <2>2 DEF Names
<1>19. Probing'
    BY <1>7, <1>10, <1>13 DEF Probing
<1>20. Single'
    BY <1>10, <1>11, <1>13 DEF Single
<1> QED
    BY <1>9, <1>14, <1>15, <1>16, <1>17, <1>18, <1>19, <1>20 DEF DaemonInv

\* A daemon registers and serves, a `serve` registers and then binds
LEMMA RegisterKeeps ==
    ASSUME DaemonInv, NEW p \in Proc, AddReads(p) \/ AddWrites(p) \/ Cleanup(p)
    PROVE  DaemonInv'
<1>1. DaemonTypeOK /\ proc[p] \in ProcType /\ sessions \subseteq Proc /\ daemonFaults \in Nat
    BY DEF DaemonInv, DaemonTypeOK
<1>2. /\ IsDaemon(p) => Serves(p) /\ ports[proc[p].port] = p
      /\ ~IsDaemon(p) => proc[p].pc # "cleans" /\ \A q \in Port : ports[q] # p
    <2>1. proc[p].pc \in {"register", "adds", "cleans"}
        BY DEF AddReads, AddWrites, Cleanup
    <2>2. IsDaemon(p) => Serves(p)
        BY <2>1 DEF Serves
    <2>3. ~IsDaemon(p) => proc[p].pc # "cleans"
        BY DEF DaemonInv, ServeApart
    <2>4. ~IsDaemon(p) => Unbound(p)
        BY <2>1, <2>3 DEF Unbound
    <2> QED
        BY <2>2, <2>3, <2>4, ServesAnswers, UnboundListens
<1>3. \A q \in Port : ports[q] = p => proc[p].port = q
    BY DEF DaemonInv, PortsHeld
<1>4. CASE AddReads(p)
    <2> DEFINE n == [proc[p] EXCEPT !.snap = sessions \cup {p}, !.pc = "adds"]
    <2>1. proc' = [proc EXCEPT ![p] = n] /\ n \in ProcType /\ n.cmd = proc[p].cmd /\ n.pc = "adds" /\ n.port = proc[p].port
        BY <1>1, <1>4 DEF AddReads, DaemonTypeOK, ProcType, Pc
    <2>2. Only(p) /\ proc'[p].cmd = proc[p].cmd /\ proc'[p].pc = "adds" /\ proc'[p].port = proc[p].port
        <3> HIDE DEF n
        <3> QED
            BY <1>1, <2>1 DEF Only, DaemonTypeOK
    <2>3. UNCHANGED <<startLock, record, ports, sessions, unrecorded, daemonFaults>>
        BY <1>4 DEF AddReads
    <2>4. /\ IsDaemon(p)' = IsDaemon(p) /\ ~Clears(p)' /\ ~FoundNone(p)'
          /\ (Unbound(p)' => ~IsDaemon(p)) /\ (InStart(p)' => IsDaemon(p)) /\ (Serves(p)' => IsDaemon(p))
        BY <2>2 DEF IsDaemon, Clears, Removing, FoundNone, Unbound, InStart, Serves
    <2>5. IsDaemon(p) => startLock = p
        BY <1>4 DEF AddReads, DaemonInv, Locked, InStart
    <2>6. PhaseFine(p)
        BY <1>2, <1>3, <2>2, <2>3, <2>4, <2>5 DEF PhaseFine
    <2> QED
        BY <1>1, <2>2, <2>3, <2>6, PhaseStep
<1>5. CASE AddWrites(p)
    <2> DEFINE pc == IF proc[p].cmd = "serve" THEN "boot" ELSE "cleans"
    <2>1. pc \in Pc /\ pc \notin Terminal
        BY DEF Pc, Terminal
    <2>2. Only(p) /\ proc'[p].cmd = proc[p].cmd /\ proc'[p].pc = pc /\ proc'[p].port = proc[p].port
        <3> HIDE DEF pc
        <3>1. Goto(p, pc)
            BY <1>5 DEF pc, AddWrites, Leaves
        <3> QED
            BY <1>1, <2>1, <3>1, GotoMoves DEF Only
    <2>3. UNCHANGED <<record, ports, unrecorded, daemonFaults>> /\ startLock' = Unlocked(p) /\ sessions' \subseteq Proc
        BY <1>1, <1>5 DEF AddWrites, Leaves, ProcType
    <2>4. /\ IsDaemon(p)' = IsDaemon(p) /\ ~Clears(p)' /\ ~FoundNone(p)' /\ ~InStart(p)' /\ (pc = "cleans" <=> IsDaemon(p))
          /\ (Unbound(p)' => ~IsDaemon(p)) /\ (Serves(p)' => IsDaemon(p))
        BY <2>2 DEF IsDaemon, Clears, Removing, FoundNone, Unbound, InStart, Serves
    <2>5. PhaseFine(p)
        BY <1>2, <1>3, <2>2, <2>3, <2>4 DEF PhaseFine
    <2> QED
        BY <1>1, <2>2, <2>3, <2>5, PhaseStep
<1>6. CASE Cleanup(p)
    <2> DEFINE n == [proc[p] EXCEPT !.pc = "serving", !.snap = {}]
    <2>1. proc' = [proc EXCEPT ![p] = n] /\ n \in ProcType /\ n.cmd = proc[p].cmd /\ n.pc = "serving" /\ n.port = proc[p].port
        BY <1>1, <1>6 DEF Cleanup, DaemonTypeOK, ProcType, Pc
    <2>2. Only(p) /\ proc'[p].cmd = proc[p].cmd /\ proc'[p].pc = "serving" /\ proc'[p].port = proc[p].port
        <3> HIDE DEF n
        <3> QED
            BY <1>1, <2>1 DEF Only, DaemonTypeOK
    <2>3. UNCHANGED <<startLock, record, ports, unrecorded, daemonFaults>> /\ sessions' \subseteq Proc
        BY <1>1, <1>6 DEF Cleanup, ProcType
    <2>4. IsDaemon(p)' = IsDaemon(p) /\ ~Clears(p)' /\ ~FoundNone(p)' /\ ~InStart(p)' /\ ~Unbound(p)' /\ (Serves(p)' => IsDaemon(p))
        BY <2>2 DEF IsDaemon, Clears, Removing, FoundNone, Unbound, InStart, Serves
    <2>5. PhaseFine(p)
        BY <1>2, <1>3, <2>2, <2>3, <2>4 DEF PhaseFine
    <2> QED
        BY <1>1, <2>2, <2>3, <2>5, PhaseStep
<1> QED
    BY <1>4, <1>5, <1>6

LEMMA ServeScansKeeps ==
    ASSUME DaemonInv, NEW p \in Proc, ServeScans(p)
    PROVE  DaemonInv'
<1>1. DaemonTypeOK /\ sessions \subseteq Proc /\ daemonFaults \in Nat /\ proc[p].pc = "new" /\ ~IsDaemon(p) /\ Unbound(p)
    BY DEF DaemonInv, DaemonTypeOK, ServeScans, IsDaemon, Unbound
<1>2. UNCHANGED <<record, ports, sessions, unrecorded, daemonFaults>>
    BY DEF ServeScans
<1>3. CASE Goto(p, "register") /\ UNCHANGED startLock
    <2>1. "register" \in Pc /\ "register" \notin Terminal
        BY DEF Pc, Terminal
    <2>2. Only(p) /\ proc'[p].cmd = proc[p].cmd /\ proc'[p].pc = "register" /\ proc'[p].port = proc[p].port
        BY <1>1, <1>3, <2>1, GotoMoves DEF Only
    <2>3. ~IsDaemon(p)' /\ ~Clears(p)' /\ ~FoundNone(p)' /\ ~InStart(p)' /\ ~Serves(p)'
        BY <1>1, <2>2 DEF IsDaemon, Clears, Removing, FoundNone, InStart, Serves
    <2>4. \A q \in Port : ports[q] # p
        BY <1>1, UnboundListens
    <2>5. PhaseFine(p)
        BY <1>2, <2>2, <2>3, <2>4 DEF PhaseFine
    <2> QED
        BY <1>1, <1>2, <1>3, <2>2, <2>5, PhaseStep
<1>4. CASE ScanOn(p)
    BY <1>1, <1>2, <1>4, ScanOnKeeps
<1> QED
    BY <1>3, <1>4 DEF ServeScans

\* A restart begins again once its port is free
LEMMA ExitKeeps ==
    ASSUME DaemonInv, NEW p \in Proc, Exit(p)
    PROVE  DaemonInv'
<1>1. DaemonTypeOK /\ sessions \subseteq Proc /\ daemonFaults \in Nat /\ ports \in [Port -> Proc \cup {NoProc, Foreign}]
    BY DEF DaemonInv, DaemonTypeOK
<1>2. UNCHANGED <<startLock, record, sessions, unrecorded, daemonFaults>> /\ ports' = Freed(p)
    BY DEF Exit
<1>3. CASE proc[p].cmd = "restart" /\ Goto(p, "again")
    <2>1. "again" \in Pc /\ "again" \notin Terminal
        BY DEF Pc, Terminal
    <2>2. Only(p) /\ proc'[p].cmd = proc[p].cmd /\ proc'[p].pc = "again"
        BY <1>1, <1>3, <2>1, GotoMoves DEF Only
    <2>3. IsDaemon(p)' /\ ~Clears(p)' /\ ~FoundNone(p)' /\ ~InStart(p)' /\ ~Serves(p)'
        BY <1>3, <2>2 DEF IsDaemon, Clears, Removing, FoundNone, InStart, Serves
    <2>4. \A q \in Port : ports'[q] # p
        BY <1>1, <1>2, Ids DEF Freed
    <2>5. PhaseFine(p)
        BY <2>2, <2>3, <2>4 DEF PhaseFine
    <2> QED
        BY <1>1, <1>2, <2>2, <2>5, PhaseStep
<1>4. CASE Goto(p, "ended")
    <2>1. proc' \in [Proc -> ProcType] /\ CalmNow(p)' /\ \A q \in Proc : Calms(q)
        BY <1>1, <1>4, CalmGoto DEF Calm
    <2>2. PortsGo /\ ports' \in [Port -> Proc \cup {NoProc, Foreign}]
        BY <1>1, <1>2, <2>1, FreedGoes
    <2> QED
        BY <1>1, <1>2, <2>1, <2>2, CalmStep
<1> QED
    BY <1>3, <1>4 DEF Exit

LEMMA StopReadsKeeps ==
    ASSUME DaemonInv, NEW p \in Proc, StopReads(p)
    PROVE  DaemonInv'
<1>1. /\ DaemonTypeOK /\ proc[p] \in ProcType /\ sessions \subseteq Proc /\ daemonFaults \in Nat
      /\ record \in RecordType /\ (record # NoRecord => record.port \in Port) /\ Unbound(p)
    BY DEF DaemonInv, DaemonTypeOK, StopReads, Unbound
<1>2. UNCHANGED <<startLock, record, ports, sessions, unrecorded, daemonFaults>>
    BY DEF StopReads
<1>3. CASE Goto(p, "exit")
    BY <1>1, <1>2, <1>3, CalmGoto, CalmStep DEF Calm
<1>4. CASE /\ record # NoRecord
           /\ proc' = [proc EXCEPT ![p] = [@ EXCEPT !.pc = "verify", !.rec = record, !.port = record.port, !.pinned = TRUE]]
    <2> DEFINE n == [proc[p] EXCEPT !.pc = "verify", !.rec = record, !.port = record.port, !.pinned = TRUE]
    <2>1. proc' = [proc EXCEPT ![p] = n]
        BY <1>4
    <2>2. n \in ProcType /\ n.cmd = proc[p].cmd /\ n.pc = "verify"
        BY <1>1, <1>4 DEF ProcType, Pc
    <2>3. Only(p) /\ proc'[p].pc = "verify"
        <3> HIDE DEF n
        <3> QED
            BY <1>1, <2>1, <2>2 DEF Only, DaemonTypeOK
    <2>4. ~Clears(p)' /\ ~FoundNone(p)' /\ ~InStart(p)' /\ ~Serves(p)'
        BY <2>3 DEF Clears, Removing, FoundNone, InStart, Serves
    <2>5. \A q \in Port : ports[q] # p
        BY <1>1, UnboundListens
    <2>6. PhaseFine(p)
        BY <1>2, <2>3, <2>4, <2>5 DEF PhaseFine
    <2> QED
        BY <1>1, <1>2, <2>3, <2>6, PhaseStep
<1> QED
    BY <1>3, <1>4 DEF StopReads

-----------------------------------------------------------------------------
(* remove_record_if_boot *)

LEMMA RemoveReadsKeeps ==
    ASSUME DaemonInv, NEW p \in Proc, RemoveReads(p)
    PROVE  DaemonInv'
<1>1. DaemonTypeOK /\ proc[p] \in ProcType /\ sessions \subseteq Proc /\ daemonFaults \in Nat /\ proc[p].pc = "remove"
    BY DEF DaemonInv, DaemonTypeOK, RemoveReads
<1>2. UNCHANGED <<startLock, record, ports, sessions, unrecorded, daemonFaults>>
    BY DEF RemoveReads
<1>3. PICK pc \in {"unlink", proc[p].next} : Goto(p, pc)
    BY DEF RemoveReads
<1>4. pc \in Pc /\ pc \notin Terminal /\ proc[p].next \in {"new", "scan", "unlist", "unlistOwn", "exit"}
    BY <1>1, <1>3 DEF ProcType, Pc, Terminal
<1>5. /\ Only(p) /\ proc'[p].pc = pc /\ proc'[p].port = proc[p].port /\ proc'[p].next = proc[p].next
      /\ proc'[p].cmd = proc[p].cmd
    BY <1>1, <1>3, <1>4, GotoMoves DEF Only
<1>6. CASE Retires(p)
    <2>1. CalmNow(p)'
        BY <1>3, <1>5, <1>6 DEF CalmNow, Calm, Retires, Removing
    <2>2. proc' \in [Proc -> ProcType] /\ \A q \in Proc : Calms(q)
        BY <1>5, <2>1 DEF Only, Calms
    <2> QED
        BY <1>1, <1>2, <2>2, CalmStep
<1>7. CASE ~Retires(p)
    <2>1. Clears(p) /\ pc \in {"unlink", "new", "scan"}
        BY <1>1, <1>3, <1>4, <1>7 DEF Clears, Retires, Removing
    <2>2. /\ IsDaemon(p) /\ startLock = p /\ \A q \in Port : ports[q] # p
          /\ ~unrecorded => \A d \in Proc : ~Serves(d)
        BY <2>1, UnboundListens DEF DaemonInv, ServeApart, Locked, InStart, Unbound, Single, FoundNone
    <2>3. IsDaemon(p)' /\ ~Serves(p)'
        BY <1>5, <2>1, <2>2 DEF IsDaemon, Serves
    <2>4. PhaseFine(p)
        BY <1>2, <1>5, <2>1, <2>2, <2>3 DEF PhaseFine
    <2> QED
        BY <1>1, <1>2, <1>5, <2>4, PhaseStep
<1> QED
    BY <1>6, <1>7

\* A stop takes the record of nobody who serves, or it is a record that is missed; a
\* start takes it when nobody serves
LEMMA RemoveUnlinksKeeps ==
    ASSUME DaemonInv, NEW p \in Proc, RemoveUnlinks(p)
    PROVE  DaemonInv'
<1>1. /\ DaemonTypeOK /\ proc[p] \in ProcType /\ sessions \subseteq Proc /\ daemonFaults \in Nat /\ proc[p].pc = "unlink"
      /\ unrecorded \in BOOLEAN
    BY DEF DaemonInv, DaemonTypeOK, RemoveUnlinks
<1>2. UNCHANGED <<startLock, ports, sessions, daemonFaults>> /\ record' = NoRecord
    BY DEF RemoveUnlinks
<1>3. Goto(p, proc[p].next) /\ proc[p].next \in {"new", "scan", "unlist", "unlistOwn", "exit"}
    BY <1>1 DEF RemoveUnlinks, ProcType
<1>4. proc[p].next \in Pc /\ proc[p].next \notin Terminal
    BY <1>3 DEF Pc, Terminal
<1>5. /\ Only(p) /\ proc'[p].pc = proc[p].next /\ proc'[p].port = proc[p].port
      /\ proc'[p].cmd = proc[p].cmd
    BY <1>1, <1>3, <1>4, GotoMoves DEF Only
<1>6. CASE Retires(p)
    <2>1. CalmNow(p)'
        BY <1>5, <1>6 DEF CalmNow, Calm, Retires
    <2>2. \A q \in Proc : Calms(q)
        BY <1>5, <2>1 DEF Only, Calms
    <2>3. unrecorded' \in BOOLEAN /\ (unrecorded => unrecorded')
        BY DEF RemoveUnlinks
    <2>4. DaemonTypeOK'
        BY <1>1, <1>2, <1>5, <2>3, NoRecordTyped DEF DaemonTypeOK, Only
    <2>5. ASSUME ~unrecorded', NEW d \in Proc, Serves(d) PROVE FALSE
        <3>1. record.boot = d /\ ports[proc[d].port] = d /\ proc[d].port \in Port
            BY <2>3, <2>5, ServesAnswers DEF DaemonInv, Recorded, Names, DaemonTypeOK, ProcType
        <3>2. Listens(record.boot) /\ record.boot # p /\ proc[p].next # "scan"
            BY <1>1, <1>6, <2>5, <3>1 DEF Listens, Serves, Retires
        <3> QED
            BY <2>5, <3>2 DEF RemoveUnlinks
    <2>6. PortsGo /\ LockGoes
        BY <1>2 DEF PortsGo, LockGoes
    <2> QED
        BY <2>2, <2>3, <2>4, <2>5, <2>6, CalmKeeps
<1>7. CASE ~Retires(p)
    <2>1. Clears(p) /\ proc'[p].pc \in {"new", "scan"}
        BY <1>1, <1>3, <1>5, <1>7 DEF Clears, Retires, Removing
    <2>2. /\ IsDaemon(p) /\ startLock = p /\ \A q \in Port : ports[q] # p
          /\ ~unrecorded => \A d \in Proc : ~Serves(d)
        BY <2>1, UnboundListens DEF DaemonInv, ServeApart, Locked, InStart, Unbound, Single, FoundNone
    <2>3. IsDaemon(p)' /\ ~Serves(p)'
        BY <1>5, <2>1, <2>2 DEF IsDaemon, Serves
    <2>4. PhaseFine(p)
        BY <1>2, <1>5, <2>1, <2>2, <2>3 DEF PhaseFine
    <2>5. unrecorded' \in BOOLEAN /\ (unrecorded => unrecorded')
        BY DEF RemoveUnlinks
    <2>6. OthersKeep(p) /\ DaemonTypeOK'
        BY <1>1, <1>2, <1>5, <2>5, NoRecordTyped DEF OthersKeep, DaemonTypeOK, Only
    <2> QED
        BY <1>5, <2>2, <2>4, <2>5, <2>6, PhaseKeeps
<1> QED
    BY <1>6, <1>7

-----------------------------------------------------------------------------
(* The specification *)

LEMMA DaemonKeeps == DaemonInv /\ [DaemonNext]_daemonVars => DaemonInv'
<1> SUFFICES ASSUME DaemonInv, [DaemonNext]_daemonVars PROVE DaemonInv'
    OBVIOUS
<1>1. CASE UNCHANGED daemonVars
    <2>1. \A q \in Proc : Calms(q)
        BY <1>1 DEF daemonVars, Calms
    <2> QED
        BY <1>1, <2>1, CalmStep DEF daemonVars, DaemonInv, DaemonTypeOK
<1>2. ASSUME NEW p \in Proc, StartStep(p) PROVE DaemonInv'
    BY <1>2, AcquireLockKeeps, ReadRecordKeeps, ProbeRecordKeeps, ScanPortsKeeps, BootKeeps, WriteRecordKeeps,
       RegisterKeeps, ServeScansKeeps, EndKeeps DEF StartStep
<1>3. ASSUME NEW p \in Proc, StopStep(p) PROVE DaemonInv'
    BY <1>3, StopReadsKeeps, VerifyKeeps, PostStopKeeps, WaitStoppedKeeps, KillKeeps, SessionListKeeps,
       StopSessionKeeps DEF StopStep
<1>4. ASSUME NEW p \in Proc,
             RemoveReads(p) \/ RemoveUnlinks(p) \/ FindSession(p) \/ WriteSessions(p) \/ Exit(p) \/ Crash(p)
      PROVE  DaemonInv'
    BY <1>4, RemoveReadsKeeps, RemoveUnlinksKeeps, SessionListKeeps, ExitKeeps, EndKeeps
<1> QED
    BY <1>1, <1>2, <1>3, <1>4, ForeignKeeps DEF DaemonNext

\* Whatever processes start, stop, restart, crash or answer late, on whatever ports, at most one
\* daemon of the project serves (cli/daemon.rs: "a matching running daemon is reported with
\* `alreadyRunning` instead of duplicated"), unless the record of one that served was not
\* written or was unlinked by another process: for every number of processes, ports and faults.
THEOREM NoSecondDaemon == DaemonSpec => []OneDaemon
BY DaemonInitially, DaemonKeeps, InvGivesOne, PTL DEF DaemonSpec

-----------------------------------------------------------------------------
(* The desktop program and its daemons (DaemonRegistry) *)

Flags == [exited : BOOLEAN, expected : BOOLEAN, down : BOOLEAN]

\* The flag that both tasks swap is up while an alert counts
RegistryInv ==
    /\ flags \in [Child -> Flags] /\ alerts \in [Child -> {0, 1}]
    /\ \A s \in Child : alerts[s] = 1 => flags[s].down

LEMMA RegistryStarts == RegistryInit => RegistryInv
BY DEF RegistryInit, RegistryInv, Flags, NoFlags

\* An incident of s starts over
LEMMA TearDownKeeps ==
    ASSUME RegistryInv, NEW s, TearDown(s)
    PROVE  RegistryInv'
<1> DEFINE n == [NoFlags EXCEPT !.expected = TRUE]
<1>1. n \in Flags
    BY DEF NoFlags, Flags
<1>2. flags' = [flags EXCEPT ![s] = n] /\ alerts' = [alerts EXCEPT ![s] = 0]
    BY DEF TearDown
<1> HIDE DEF n
<1>3. flags' \in [Child -> Flags] /\ alerts' \in [Child -> {0, 1}]
    BY <1>1, <1>2 DEF RegistryInv
<1>4. ASSUME NEW c \in Child, alerts'[c] = 1
      PROVE  flags'[c].down
    BY <1>2, <1>4 DEF RegistryInv
<1> QED
    BY <1>3, <1>4 DEF RegistryInv

\* The first to swap the flag alerts
LEMMA AlertKeeps ==
    ASSUME RegistryInv, NEW s \in Child, ReportAlerts(s), flags' = [flags EXCEPT ![s].down = TRUE]
    PROVE  RegistryInv'
<1> DEFINE n == [flags[s] EXCEPT !.down = TRUE]
<1>1. n \in Flags /\ n.down
    BY DEF Flags, RegistryInv
<1>2. flags' = [flags EXCEPT ![s] = n] /\ alerts'[s] \in {0, 1} /\ alerts' = [alerts EXCEPT ![s] = alerts'[s]]
    BY DEF RegistryInv, ReportAlerts
<1> HIDE DEF n
<1> QED
    BY <1>1, <1>2 DEF RegistryInv

LEMMA QuietKeeps ==
    ASSUME RegistryInv, UNCHANGED <<flags, alerts>>
    PROVE  RegistryInv'
BY DEF RegistryInv

\* What daemons, starts and stops do is no incident by itself
LEMMA ProgramSteps ==
    ASSUME RegistryInv,
           \/ \E b \in Process : DaemonStep(b)
           \/ TerminalStarts \/ StarterStep \/ StopperStep \/ AppCloses \/ AppEnds
    PROVE  RegistryInv'
<1>1. CASE \E b \in Process : DaemonStep(b)
    BY <1>1, QuietKeeps DEF DaemonStep, ChildStarts, DaemonHangs, DaemonRecovers, DaemonExits, WatchdogTicks, tasks, signals
<1>2. CASE TerminalStarts
    BY <1>2, QuietKeeps DEF TerminalStarts, tasks, signals
<1>3. CASE StarterStep
    <2>1. CASE StartAsksHello
        BY <2>1, QuietKeeps, TearDownKeeps DEF StartAsksHello, tasks, signals
    <2>2. CASE StartChecks \/ StartSpawns \/ StartReadsReady \/ StartSpawnsTasks \/ StartInserts \/ StartShows
        BY <2>2, QuietKeeps
           DEF StartChecks, StartSpawns, StartReadsReady, StartSpawnsTasks, StartInserts, StartShows, tasks, signals
    <2> QED
        BY <1>3, <2>1, <2>2 DEF StarterStep
<1>4. CASE StopperStep
    <2>1. CASE StopTakes
        BY <2>1 DEF StopTakes, signals, RegistryInv, Flags
    <2>2. CASE StopEnds
        BY <2>2, TearDownKeeps DEF StopEnds
    <2>3. CASE StopPosts \/ StopWaits \/ StopKills
        BY <2>3, QuietKeeps DEF StopPosts, StopWaits, StopKills, tasks, signals
    <2> QED
        BY <1>4, <2>1, <2>2, <2>3 DEF StopperStep
<1>5. CASE AppCloses
    BY <1>5, QuietKeeps, TearDownKeeps DEF AppCloses, tasks
<1>6. CASE AppEnds
    BY <1>6 DEF AppEnds, RegistryInv, Flags, NoFlags
<1> QED
    BY <1>1, <1>2, <1>3, <1>4, <1>5, <1>6

\* The two tasks of a child
LEMMA TaskKeeps ==
    ASSUME RegistryInv, NEW s \in Child, TaskStep(s)
    PROVE  RegistryInv'
<1>1. CASE SupervisorAlerts(s) \/ HeartbeatAlerts(s)
    BY <1>1, AlertKeeps DEF SupervisorAlerts, HeartbeatAlerts
<1>2. CASE HeartbeatClears(s)
    <2> DEFINE n == [flags[s] EXCEPT !.down = FALSE]
    <2>1. n \in Flags
        BY DEF Flags, RegistryInv
    <2>2. flags' = [flags EXCEPT ![s] = n] /\ alerts'[s] = 0 /\ alerts' = [alerts EXCEPT ![s] = 0]
        BY <1>2 DEF RegistryInv, HeartbeatClears
    <2> HIDE DEF n
    <2> QED
        BY <2>1, <2>2 DEF RegistryInv
<1>3. CASE SupervisorReaps(s)
    BY <1>3 DEF SupervisorReaps, RegistryInv, Flags, signals
<1>4. CASE SupervisorReports(s) \/ HeartbeatWakes(s) \/ HeartbeatAsks(s) \/ HeartbeatReports(s)
    BY <1>4, QuietKeeps DEF SupervisorReports, HeartbeatWakes, HeartbeatAsks, HeartbeatReports, signals
<1> QED
    BY <1>1, <1>2, <1>3, <1>4 DEF TaskStep

\* For every number of children, failures and hangs: whichever of the two tasks of
\* a child reports first and whatever crosses the report, an incident is one alert
\* (desktop daemon.rs, Reporter::report)
THEOREM AlertsOnce == RegistrySpec => []OneAlertPerIncident
<1>1. RegistryInv /\ [RegistryNext]_registryVars => RegistryInv'
    <2>1. RegistryInv /\ UNCHANGED registryVars => RegistryInv'
        BY QuietKeeps DEF registryVars
    <2> QED
        BY <2>1, ProgramSteps, TaskKeeps DEF RegistryNext
<1>2. RegistryInv => OneAlertPerIncident
    BY DEF RegistryInv, OneAlertPerIncident
<1> QED
    BY <1>1, <1>2, RegistryStarts, PTL DEF RegistrySpec
=============================================================================
