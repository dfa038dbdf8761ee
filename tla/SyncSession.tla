------------------------------ MODULE SyncSession ------------------------------
(***************************************************************************)
(* What is recorded as agreed while plugins come and go: connections and   *)
(* their cleanup (src/server/ws/mod.rs), the connect's compare and commit  *)
(* (src/server/divergence.rs), the writer of the sync base                 *)
(* (src/server/sync_base.rs, `spawn_writer`), the plugin's connect and     *)
(* reconnect (plugin/src/Core/init.luau, Transport/WebSocket.luau), lost   *)
(* links, crashes of the daemon and the guard against crash loops.         *)
(*                                                                         *)
(* The daemon's tree follows the disk at once and `generation` counts its  *)
(* changes.  Disk edits reach a live plugin as frames.  Studio is edited   *)
(* only while its plugin is offline: what two live sides do to each other  *)
(* is ConflictSession.  An upload is one chunk.                            *)
(*                                                                         *)
(* Races names the timings a run includes:                                 *)
(*   "blip"          a live plugin redials and goes on without a compare   *)
(*   "lost frame"    a link goes down, or the daemon, with frames queued   *)
(*   "lost connect"  a link goes down while a plugin connects              *)
(*   "slow link"     the writer ticks before frames of a good link arrive  *)
(*   "slow cleanup"  others go on while the daemon cleans up a dead link   *)
(*   "edit in connect"  the disk changes between a plugin's subscription   *)
(*                   and the end of its connect                            *)
(*   "no place"      the plugin does not say which place it is             *)
(*   "unsaved"       the base or the marker cannot be written to its file  *)
(*   "stop"          the daemon is stopped and started again               *)
(*   "late unlink"   a connect begins after a settle or a resume decided   *)
(*                   to remove the marker, and before it is removed        *)
(*   "early resume"  someone resumes while a connect applies or settles    *)
(***************************************************************************)
EXTENDS ConnectPlan, CrashGuard

CONSTANTS
    Place,
    Races,
    MaxConns,           \* bounds on connections, edits of each side and crashes
    MaxDiskEdits,
    MaxStudioEdits,
    MaxCrashes,
    MaxResumes          \* and on calls of POST /safe-mode/resume

ASSUME SyncSessionAssumption ==
    /\ MaxConns \in Nat /\ MaxDiskEdits \in Nat
    /\ MaxStudioEdits \in Nat /\ MaxCrashes \in Nat /\ MaxResumes \in Nat

Conn == 1 .. MaxConns

VARIABLES
    disk, generation,   \* the tree
    backlog,
    base, file,         \* the sync base and its file
    slot,               \* the connection that owns the plugin slot, or 0
    conns,              \* the connections: phase, link alive, frames queued
    tasks,              \* connect_commit by the connection it came in on
    writer,
    guard,              \* the crash guard
    plugin,             \* phase, connection, place, the tree it compared with
    studio,             \* by place
    budget,
    held,               \* history: what Studio has held, by place and path
    sawOn,              \* history: who was connected at the last sample and snapshot
    died                \* history: a daemon died in or right after a connect, and
                        \* nobody resumed since

vars == <<disk, generation, backlog, base, file, slot, conns, tasks, writer, guard, plugin,
          studio, budget, held, sawOn, died>>

daemon == <<generation, base, file, slot, conns, tasks, writer, guard>>
history == <<held, sawOn, died>>

Idle == [stage |-> "idle"]

Init ==
    /\ disk \in Tree /\ generation = 0 /\ backlog = {}
    /\ studio = [pl \in Place |-> disk]
    /\ base = Load(None) /\ file = None
    /\ slot = 0
    /\ conns = [c \in Conn |-> [phase |-> "none", alive |-> FALSE, queue |-> << >>]]
    /\ tasks = << >> /\ writer = Idle /\ guard = GuardLoad(FALSE)
    /\ \E pl \in Place : plugin = [phase |-> "offline", conn |-> 0, place |-> pl, seen |-> << >>]
    /\ budget = [disk |-> MaxDiskEdits, studio |-> MaxStudioEdits, crash |-> MaxCrashes,
                 resume |-> MaxResumes]
    /\ held = [pl \in Place |-> [p \in Path |-> {Get(Keys(disk), p)}]]
    /\ sawOn = [sample |-> 0, take |-> 0] /\ died = FALSE

-----------------------------------------------------------------------------
(* Timing *)

Dead(c) == conns[c].phase \notin {"none", "gone"} /\ ~conns[c].alive

\* Nobody is in the middle of a cleanup
Clean == "slow cleanup" \in Races \/ \A c \in Conn : ~Dead(c)

\* Frames of a good link have arrived by now
Arrived ==
    "slow link" \in Races
    \/ \A c \in Conn : conns[c].alive /\ plugin.phase = "live" => conns[c].queue = << >>

\* A connect is under way: from the subscription to the commit
Comparing == plugin.phase \in {"hello", "ready", "fetched", "waiting"} \/ DOMAIN tasks # {}

-----------------------------------------------------------------------------
(* The tree and the queue *)

Subscribed == {c \in Conn : conns[c].phase \in {"claimed", "open", "closing", "released"}}

\* Frames for the queues of C
Queued(C, frames) ==
    [c \in Conn |-> IF c \in C THEN [conns[c] EXCEPT !.queue = @ \o frames] ELSE conns[c]]

\* What Studio holds at p now has been held
Note(place, t) ==
    held' = [held EXCEPT ![place] = [p \in Path |-> @[p] \cup {Get(Keys(t), p)}]]

Changes(t, p) ==
    {Without(t, {p})} \cup {With(t, p, c) : c \in Script}

\* External: a user edits the disk; the processor sees it and broadcasts it
DiskEdit(p, t) ==
    /\ budget.disk > 0 /\ t \in Changes(disk, p) /\ t # disk
    /\ Clean /\ (Comparing => "edit in connect" \in Races)
    /\ disk' = t /\ generation' = generation + 1
    /\ conns' = Queued(Subscribed, <<[path |-> p, content |-> Get(t, p)]>>)
    /\ budget' = [budget EXCEPT !.disk = @ - 1]
    /\ UNCHANGED <<backlog, base, file, slot, tasks, writer, guard, plugin, studio,
                   history>>

\* External: a user edits the place while the plugin is offline
StudioEdit(p, t) ==
    /\ budget.studio > 0 /\ plugin.phase = "offline"
    /\ t \in Changes(studio[plugin.place], p) /\ t # studio[plugin.place]
    /\ studio' = [studio EXCEPT ![plugin.place] = t]
    /\ Note(plugin.place, t)
    /\ budget' = [budget EXCEPT !.studio = @ - 1]
    /\ UNCHANGED <<disk, backlog, daemon, plugin, sawOn, died>>

\* External: Studio opens another place
OpenPlace(place) ==
    /\ plugin.phase = "offline" /\ place # plugin.place
    /\ plugin' = [plugin EXCEPT !.place = place]
    /\ UNCHANGED <<disk, backlog, daemon, studio, budget, history>>

-----------------------------------------------------------------------------
(* Connections *)

\* The plugin dials, for a new session or after a blip; the daemon subscribes
\* it and claims the slot
Dial(c) ==
    /\ plugin.phase \in {"offline", "redial"} /\ slot = 0 /\ Clean
    /\ conns[c].phase = "none" /\ \A d \in Conn : d < c => conns[d].phase # "none"
    /\ conns' = [conns EXCEPT ![c] = [phase |-> "claimed", alive |-> TRUE, queue |-> << >>]]
    /\ slot' = c
    /\ plugin' = [plugin EXCEPT !.conn = c,
                                !.phase = IF @ = "redial" THEN "rehello" ELSE "hello"]
    /\ UNCHANGED <<disk, generation, backlog, base, file, tasks, writer, guard, studio,
                   budget, history>>

\* The hello is answered and the sync base told; a plugin that redialled is live
\* at once
Open(c) ==
    /\ conns[c].phase = "claimed" /\ conns[c].alive
    /\ conns' = [conns EXCEPT ![c].phase = "open"]
    /\ base' = OnReconnect(base, generation)
    /\ plugin' = [plugin EXCEPT !.phase = IF @ = "rehello" THEN "live" ELSE "ready"]
    /\ UNCHANGED <<disk, generation, backlog, file, slot, tasks, writer, guard, studio,
                   budget, history>>

\* The link goes down; a live plugin redials or gives up, one that connects fails
LinkDrops(c, next) ==
    /\ conns[c].alive
    /\ conns[c].queue # << >> => "lost frame" \in Races
    /\ Comparing => "lost connect" \in Races
    /\ next = "redial" => "blip" \in Races /\ plugin.phase \in {"live", "rehello"}
    /\ conns' = [conns EXCEPT ![c].alive = FALSE]
    /\ plugin' = [plugin EXCEPT !.phase = next]
    /\ UNCHANGED <<disk, generation, backlog, base, file, slot, tasks, writer, guard,
                   studio, budget, history>>

\* The daemon's side of a dead link: the loop ends (the socket closed, or the
\* heartbeat timed out), then cleanup_plugin releases the slot, drops the
\* subscription and tells the sync base
LoopEnds(c) ==
    /\ conns[c].phase \in {"claimed", "open"} /\ ~conns[c].alive
    /\ conns' = [conns EXCEPT ![c].phase = "closing"]
    /\ UNCHANGED <<disk, generation, backlog, base, file, slot, tasks, writer, guard,
                   plugin, studio, budget, history>>

Release(c) ==
    /\ conns[c].phase = "closing"
    /\ conns' = [conns EXCEPT ![c].phase = "released"]
    /\ slot' = IF slot = c THEN 0 ELSE slot
    /\ UNCHANGED <<disk, generation, backlog, base, file, tasks, writer, guard, plugin,
                   studio, budget, history>>

Unsubscribe(c) ==
    /\ conns[c].phase = "released"
    /\ conns' = [conns EXCEPT ![c].phase = "unsubscribed", ![c].queue = << >>]
    /\ UNCHANGED <<disk, generation, backlog, base, file, slot, tasks, writer, guard,
                   plugin, studio, budget, history>>

Disconnected(c) ==
    /\ conns[c].phase = "unsubscribed"
    /\ conns' = [conns EXCEPT ![c].phase = "gone"]
    /\ base' = OnDisconnect(base, generation)
    /\ UNCHANGED <<disk, generation, backlog, file, slot, tasks, writer, guard, plugin,
                   studio, budget, history>>

-----------------------------------------------------------------------------
(* The connect *)

\* The plugin reads the daemon's tree
Fetch ==
    /\ plugin.phase = "ready"
    /\ plugin' = [plugin EXCEPT !.phase = "fetched", !.seen = disk]
    /\ UNCHANGED <<disk, backlog, daemon, studio, budget, history>>

\* It uploads the diff, with the place it is in.  The daemon starts a compare and,
\* when there are differences, decides them against the base, marks that it
\* applies a connect and captures the fence
Compare(named, written) ==
    /\ plugin.phase = "fetched"
    /\ named \/ "no place" \in Races
    /\ written \/ "unsaved" \in Races
    /\ LET place == IF named THEN Some(plugin.place) ELSE None
           begun == BeginCompare(base, place)
           here == studio[plugin.place]
           items == Diff(plugin.seen, here)
           winners == Decide(View(begun, place), items, disk, here, TRUE, FALSE)
       IN  /\ items # {} => ~guard.safe /\ (guard.unlinking = {} \/ "late unlink" \in Races)
           /\ base' = begun
           /\ guard' = IF items = {} THEN guard ELSE Begin(guard, written)
           /\ tasks' = [k \in DOMAIN tasks \cup {plugin.conn} |->
                          IF k # plugin.conn THEN tasks[k]
                          ELSE [stage |-> IF items = {} THEN "snap" ELSE "apply",
                                winners |-> winners, fence |-> disk, pushed |-> {},
                                snapshot |-> SnapshotTree(<< >>, {}), takenAt |-> 0,
                                mark |-> guard'.generation]]
    /\ plugin' = [plugin EXCEPT !.phase = "waiting", !.seen = << >>]
    /\ UNCHANGED <<disk, generation, backlog, file, slot, conns, writer, studio, budget,
                   history>>

\* In safe mode differences are only reported and the connect is refused
Refuse(named) ==
    /\ plugin.phase = "fetched" /\ guard.safe
    /\ named \/ "no place" \in Races
    /\ Diff(plugin.seen, studio[plugin.place]) # {}
    /\ base' = BeginCompare(base, IF named THEN Some(plugin.place) ELSE None)
    /\ plugin' = [plugin EXCEPT !.phase = "offline", !.seen = << >>]
    /\ conns' = [conns EXCEPT ![plugin.conn].alive = FALSE]
    /\ UNCHANGED <<disk, generation, backlog, file, slot, tasks, writer, guard, studio,
                   budget, history>>

At(k, stage) == k \in DOMAIN tasks /\ tasks[k].stage = stage

Differences(k) == DOMAIN tasks[k].winners # {}

\* Studio's projection can be pulled, and the disk is still what the fence saw
CanApply(k) ==
    Staged(tasks[k].winners) => slot # 0 /\ conns[slot].alive /\ disk = tasks[k].fence

\* The fenced swap and the moves to the backlog
Apply(k) ==
    /\ At(k, "apply") /\ CanApply(k)
    /\ LET winners == tasks[k].winners
           here == studio[plugin.place]
           merged == Merged(winners, disk, here)
       IN  /\ disk' = merged
           /\ generation' = IF merged = disk THEN generation ELSE generation + 1
           /\ backlog' = backlog \cup Backlogged(winners, disk, here)
           /\ tasks' = [tasks EXCEPT ![k].stage = "push",
                                     ![k].pushed = ToPush(winners, disk, here)]
    /\ UNCHANGED <<base, file, slot, conns, writer, guard, plugin, studio, budget,
                   history>>

\* The apply failed: nothing is committed and the plugin gives up
ApplyFails(k) ==
    /\ At(k, "apply") /\ ~CanApply(k)
    /\ tasks' = Restrict(tasks, DOMAIN tasks \ {k})
    /\ IF plugin.conn = k /\ plugin.phase = "waiting"
       THEN /\ plugin' = [plugin EXCEPT !.phase = "offline"]
            /\ conns' = [conns EXCEPT ![k].alive = FALSE]
       ELSE UNCHANGED <<plugin, conns>>
    /\ guard' = Settle(guard, tasks[k].mark)
    /\ UNCHANGED <<disk, generation, backlog, base, file, slot, writer, studio, budget,
                   history>>

\* What disk won is queued for the plugin in the slot, or for whoever listens
Push(k) ==
    /\ At(k, "push")
    /\ LET present == {item \in tasks[k].pushed :
                         item.state = MissingOnDisk \/ item.path \in DOMAIN disk}
           frames == SetToSeq({[path |-> item.path, content |-> Get(disk, item.path)] :
                                 item \in present})
       IN  conns' = Queued(IF slot # 0 THEN {slot} ELSE Subscribed, frames)
    /\ tasks' = [tasks EXCEPT ![k].stage = "snap"]
    /\ UNCHANGED <<disk, generation, backlog, base, file, slot, writer, guard, plugin,
                   studio, budget, history>>

\* commit_sync_base: the tree is read,
Snap(k) ==
    /\ At(k, "snap")
    /\ LET paths == {item.path : item \in tasks[k].pushed}
           taken == SnapshotTree(Keys(disk), paths)
       IN  tasks' = [tasks EXCEPT ![k].stage = "commit", ![k].takenAt = generation,
                                  ![k].snapshot = [taken EXCEPT !.held = paths]]
    /\ UNCHANGED <<disk, generation, backlog, base, file, slot, conns, writer, guard,
                   plugin, studio, budget, history>>

\* Writes the base to its file, or fails to and only warns
Persist(b, saved) ==
    /\ saved \/ "unsaved" \in Races
    /\ file' = IF saved THEN b.stored ELSE file

\* and committed; the plugin's answer starts its loops
CommitBase(k, saved) ==
    /\ At(k, "commit")
    /\ base' = Commit(base, tasks[k].snapshot, tasks[k].takenAt, tasks[k].pushed # {})
    /\ Persist(base', saved)
    /\ tasks' = Restrict(tasks, DOMAIN tasks \ {k})
    /\ plugin' = IF plugin.conn = k /\ plugin.phase = "waiting"
                 THEN [plugin EXCEPT !.phase = "live"] ELSE plugin
    /\ guard' = IF Differences(k) THEN Settle(guard, tasks[k].mark) ELSE guard
    /\ UNCHANGED <<disk, generation, backlog, slot, conns, writer, studio, budget,
                   history>>

\* A live plugin applies a frame
Deliver ==
    /\ plugin.phase = "live" /\ conns[plugin.conn].alive /\ conns[plugin.conn].queue # << >>
    /\ LET frame == Head(conns[plugin.conn].queue)
           here == studio[plugin.place]
           t == IF frame.content = None THEN Without(here, {frame.path})
                ELSE With(here, frame.path, Unwrap(frame.content))
       IN  studio' = [studio EXCEPT ![plugin.place] = t] /\ Note(plugin.place, t)
    /\ conns' = [conns EXCEPT ![plugin.conn].queue = Tail(@)]
    /\ UNCHANGED <<disk, generation, backlog, base, file, slot, tasks, writer, guard,
                   plugin, budget, sawOn, died>>

-----------------------------------------------------------------------------
(* The writer *)

\* A tick: the generation and the slot are read,
Sample ==
    /\ writer.stage = "idle" /\ Clean /\ Arrived
    /\ writer' = [stage |-> "sampled", generation |-> generation, present |-> slot # 0]
    /\ sawOn' = [sawOn EXCEPT !.sample = slot]
    /\ UNCHANGED <<disk, generation, backlog, base, file, slot, conns, tasks, guard,
                   plugin, studio, budget, held, died>>

\* the snapshot of the last tick is committed if the session held,
TickCommits(saved) ==
    /\ writer.stage = "sampled"
    /\ base' = TickHead(base, writer.generation, writer.present)
    /\ IF base'.stored # base.stored THEN Persist(base', saved) ELSE saved /\ UNCHANGED file
    /\ writer' = IF TickTakes(base', writer.generation)
                 THEN [stage |-> "taking", epoch |-> base'.epoch] ELSE Idle
    /\ UNCHANGED <<disk, generation, backlog, slot, conns, tasks, guard, plugin, studio,
                   budget, history>>

\* a new one is taken,
Take ==
    /\ writer.stage = "taking"
    /\ writer' = [stage |-> "taken", epoch |-> writer.epoch, takenAt |-> generation,
                  snapshot |-> SnapshotTree(Keys(disk), {})]
    /\ sawOn' = [sawOn EXCEPT !.take = slot]
    /\ UNCHANGED <<disk, generation, backlog, base, file, slot, conns, tasks, guard,
                   plugin, studio, budget, held, died>>

\* and stored if the session still is the same
Store ==
    /\ writer.stage = "taken"
    /\ base' = TickTail(base, writer.epoch, writer.snapshot, writer.takenAt)
    /\ writer' = Idle
    /\ UNCHANGED <<disk, generation, backlog, file, slot, conns, tasks, guard, plugin,
                   studio, budget, history>>

-----------------------------------------------------------------------------
(* The crash guard and restarts *)

\* A connect that changes something runs, or the daemon has not yet survived it by
\* SETTLE
Risky ==
    \/ \E k \in DOMAIN tasks : Differences(k)
    \/ guard.generation \in guard.settling

\* SETTLE after connect n the guard looks whether it was the last one
SettleElapses(n) ==
    /\ n \in guard.settling
    /\ guard' = Settled(guard, n)
    /\ UNCHANGED <<disk, generation, backlog, base, file, slot, conns, tasks, writer, plugin,
                   studio, budget, history>>

\* External: someone asks to end safe mode, one call at a time
ResumeByHand ==
    /\ budget.resume > 0 /\ 0 \notin guard.unlinking
    /\ Risky => "early resume" \in Races
    /\ guard' = Resume(guard) /\ died' = FALSE
    /\ budget' = [budget EXCEPT !.resume = @ - 1]
    /\ UNCHANGED <<disk, generation, backlog, base, file, slot, conns, tasks, writer, plugin,
                   studio, held, sawOn>>

\* The marker is removed
MarkerGoes(n) ==
    /\ n \in guard.unlinking
    /\ guard' = Unlink(guard, n)
    /\ UNCHANGED <<disk, generation, backlog, base, file, slot, conns, tasks, writer, plugin,
                   studio, budget, history>>

Guard ==
    \/ ResumeByHand
    \/ \E n \in guard.settling : SettleElapses(n)
    \/ \E n \in guard.unlinking : MarkerGoes(n)

\* The daemon dies, or stops, and is started again: a new session, which no
\* plugin resumes
Restart(graceful) ==
    /\ budget.crash > 0
    /\ graceful => "stop" \in Races
    /\ \A c \in Conn : conns[c].alive /\ conns[c].queue # << >> => "lost frame" \in Races
    /\ base' = Load(file) /\ generation' = 0
    /\ guard' = GuardLoad((IF graceful THEN OnShutdown(guard) ELSE guard).marker)
    /\ slot' = 0 /\ tasks' = << >> /\ writer' = Idle
    /\ conns' = [c \in Conn |-> IF conns[c].phase = "none" THEN conns[c]
                                ELSE [phase |-> "gone", alive |-> FALSE, queue |-> << >>]]
    /\ plugin' = [plugin EXCEPT !.phase = "offline", !.seen = << >>]
    /\ budget' = [budget EXCEPT !.crash = @ - 1]
    /\ died' = (died \/ (~graceful /\ Risky))
    /\ UNCHANGED <<disk, backlog, file, studio, held, sawOn>>

Users ==
    \/ \E p \in Path : \/ \E t \in Changes(disk, p) : DiskEdit(p, t)
                       \/ \E t \in Changes(studio[plugin.place], p) : StudioEdit(p, t)
    \/ \E place \in Place : OpenPlace(place)

Cleanup == \E c \in Conn : LoopEnds(c) \/ Release(c) \/ Unsubscribe(c) \/ Disconnected(c)

Connects ==
    \/ \E c \in Conn : Open(c)
    \/ Fetch
    \/ \E named \in BOOLEAN : Refuse(named) \/ \E written \in BOOLEAN : Compare(named, written)
    \/ \E k \in DOMAIN tasks :
          \/ Apply(k) \/ ApplyFails(k) \/ Push(k) \/ Snap(k)
          \/ \E saved \in BOOLEAN : CommitBase(k, saved)

Writer == Sample \/ (\E saved \in BOOLEAN : TickCommits(saved)) \/ Take \/ Store

Next ==
    \/ Users \/ Cleanup \/ Connects \/ Deliver \/ Writer \/ Guard
    \/ \E graceful \in BOOLEAN : Restart(graceful)
    \/ \E c \in Conn : Dial(c) \/ \E next \in {"redial", "offline"} : LinkDrops(c, next)

Spec == Init /\ [][Next]_vars

\* The daemon's tasks and the plugin's loops keep running; users, links and the
\* plugin's dialling owe nothing
FairSpec == Spec /\ WF_vars(Cleanup) /\ WF_vars(Connects) /\ WF_vars(Deliver) /\ WF_vars(Writer)

-----------------------------------------------------------------------------
(* Properties *)

TypeOK ==
    /\ disk \in Tree /\ generation \in Nat /\ studio \in [Place -> Tree]
    /\ slot \in Conn \cup {0}
    /\ \A c \in Conn : conns[c].queue = << >> \/ conns[c].phase # "gone"
    /\ \A opt \in {base.stored, file} : Cardinality(opt) <= 1
    /\ guard.settling \subseteq 1 .. guard.generation

\* A key is on its way to Studio on a link that works
OnItsWay(place, p, key) ==
    /\ plugin.place = place
    /\ \E c \in Conn : conns[c].alive /\ \E k \in DOMAIN conns[c].queue :
          LET frame == conns[c].queue[k]
          IN  frame.path = p /\ key = {KeyOf(content) : content \in frame.content}

\* Whatever the base says was agreed, instance or absence, the place it was
\* recorded for has held, or will have as soon as its frames arrive; also in the
\* file a crash leaves behind (sync_base: "An edit that was queued but never
\* delivered therefore cannot be recorded as agreed"; "A base belongs to one
\* place")
AgreedWasDelivered ==
    \A stored \in base.stored \cup file : \A place \in stored.place : \A p \in Path :
        LET key == Get(stored.entries, p)
        IN  key \in held[place][p] \/ OnItsWay(place, p, key)

\* The writer commits a snapshot only when the plugin it sees connected is on the
\* connection it had when the snapshot was taken
\* (sync_base: "committed one tick later only if the connection held the whole
\* time")
ConnectionHeld ==
    [][(\E saved \in BOOLEAN : TickCommits(saved)) /\ base'.stored # base.stored
          => sawOn.sample # 0 /\ sawOn.sample = sawOn.take]_vars

\* Everything has arrived: the plugin is live after a compare, nothing is queued,
\* running or broken
Steady ==
    /\ plugin.phase = "live" /\ slot = plugin.conn /\ conns[slot].alive
    /\ conns[slot].queue = << >> /\ DOMAIN tasks = {}

\* A connect ends with both sides the same (connect_commit: "The tree now holds
\* the agreed state")
InSync == Steady /\ base.synced => disk = studio[plugin.place]

\* The step applies connect k
Applies(k) == At(k, "apply") /\ k \in DOMAIN tasks' /\ tasks'[k].stage = "push"

\* A file is only taken by a connect when Studio has held it or a copy goes to the
\* backlog (three_way, Winner::Studio: "Nothing on disk is lost")
DiskKept ==
    [][\A k \in DOMAIN tasks : Applies(k) =>
          \A p \in DOMAIN disk :
              \/ Get(disk', p) = {disk[p]} \/ <<p, disk[p]>> \in backlog'
              \/ {KeyOf(disk[p])} \in held[plugin.place][p]]_vars

\* While a connect that changes something runs, and until the daemon has survived it
\* by SETTLE, the marker is on disk (crash_guard: "the connect writes a marker when it
\* starts applying and clears it once the daemon has survived the apply by SETTLE")
MarkerCovers == Risky => guard.marker

\* When a daemon has died in or right after a connect, no later one applies a connect
\* until someone resumes (crash_guard: "A daemon that starts and finds the marker ...
\* comes up in safe mode")
NoCrashLoop ==
    [][died => \A k \in DOMAIN tasks : ~Applies(k)]_vars

\* The base catches up: while a plugin stays connected and synced, what both
\* sides hold is recorded in the end (sync_base: "Recording happens at every
\* committed connect and, while a plugin stays connected and synced, from a lagged
\* snapshot")
CatchesUp ==
    <>[](Steady /\ base.synced) =>
        <>[](file = base.stored /\ \E stored \in base.stored : stored.entries = Keys(disk))
=============================================================================
