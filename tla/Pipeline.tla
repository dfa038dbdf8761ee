------------------------------- MODULE Pipeline -------------------------------
(***************************************************************************)
(* How an edit of a file travels to Studio, and what `wait-synced` may say *)
(* of it: the debouncing watcher with its held events and echoes           *)
(* (src/vfs/debouncer.rs, src/vfs/std_backend.rs), the processor's loop    *)
(* with its fence (src/core/processor/mod.rs), the queue's flow accounting *)
(* (src/core/queue.rs), the thread that bridges it to the socket           *)
(* (src/server/ws/mod.rs) and the barrier over all of them                 *)
(* (src/server/synced.rs).                                                 *)
(*                                                                         *)
(* Contents are numbers, later ones larger; 0 is "no file".  The plugin    *)
(* applies frames in order and writes script sources asynchronously.  The  *)
(* time the barrier waits for (`flushed_through`) is one step.  An event   *)
(* is its path, since whoever handles it reads the disk again: the events  *)
(* of a pass and the held ones are sets, sent on in any order.  What two   *)
(* edits of one instance do to each other is ConflictSession.              *)
(***************************************************************************)
EXTENDS Naturals, Sequences, SequencesExt, FiniteSets

CONSTANTS
    Path,
    Above,          \* a path and its ancestors
    MaxEdits,       \* bounds: edits of files, and, together,
    MaxFaults       \* changes pushed by Studio and links that go down

ASSUME PipelineAssumption ==
    /\ Above \in [Path -> SUBSET Path] /\ \A p \in Path : p \in Above[p]
    /\ MaxEdits \in Nat /\ MaxFaults \in Nat

VARIABLES
    disk, tree, studio,     \* content by path
    raw,                    \* events inside the debouncer: path, older than the barrier
    pass,                   \* the debouncer's flush pass
    flushed,                \* the last completed pass began late enough for the barrier
    pauseState,             \* pause_state: the flag, and less than SYNCBACK_DEBOUNCE_TIME ago
    held, selfWrites,       \* struct Held
    events,                 \* the processor's channel
    pushes,                 \* its channel of Studio's changes
    processor,              \* what its thread is doing
    link,                   \* the plugin's connection: id, queue, flow, bridge, socket
    landing,                \* source writes the plugin has in flight
    barrier,                \* POST /sync/wait
    spent,                  \* what is used up of the bounds
    exempt                  \* history: paths whose edits are not owed to Studio

pipelineVars == <<disk, tree, studio, raw, pass, flushed, pauseState, held, selfWrites, events, pushes,
                  processor, link, landing, barrier, spent, exempt>>

Watcher == <<raw, pass, flushed, pauseState, held, selfWrites>>
Contents == <<disk, tree, studio>>

NoLink == [id |-> 0, last |-> 0, lost |-> {}, queue |-> <<>>, pushed |-> 0, taken |-> 0, settled |-> 0,
           bridge |-> "idle", inHand |-> <<>>, socket |-> <<>>]
NoBarrier == [pc |-> "none", id |-> 0, want |-> <<>>, window |-> FALSE, held |-> 0, target |-> 0,
              answer |-> "none", quiet |-> TRUE]
Ended == [NoBarrier EXCEPT !.pc = "ended"]
Idle == [pc |-> "idle", left |-> 0]
NoPass == [pc |-> "idle", late |-> FALSE, writing |-> FALSE, emits |-> {}]

PipelineInit ==
    /\ disk = [p \in Path |-> 1] /\ tree = disk /\ studio = disk
    /\ raw = {} /\ pass = NoPass /\ flushed = FALSE
    /\ pauseState = [paused |-> FALSE, recent |-> FALSE]
    /\ held = {} /\ selfWrites = {} /\ events = <<>> /\ pushes = <<>> /\ processor = Idle
    /\ link = [NoLink EXCEPT !.id = 1, !.last = 1] /\ landing = {}
    /\ barrier = NoBarrier
    /\ spent = [edits |-> 0, faults |-> 0, fresh |-> 2]
    /\ exempt = {}

-----------------------------------------------------------------------------
(* The file system, the watcher and the debouncer *)

Raised(p) == raw \cup {[path |-> p, old |-> FALSE]}

\* A user saves or creates a file
EditFile(p) ==
    /\ spent.edits < MaxEdits
    /\ spent' = [spent EXCEPT !.edits = @ + 1, !.fresh = @ + 1]
    /\ disk' = [disk EXCEPT ![p] = spent.fresh]
    /\ raw' = Raised(p)
    /\ UNCHANGED <<tree, studio, pass, flushed, pauseState, held, selfWrites, events, pushes, processor,
                   link, landing, barrier, exempt>>

\* The debouncer's thread takes what has aged.  A pass that begins after the
\* barrier's window takes all that is older than the barrier
PassStart ==
    /\ pass.pc = "idle"
    /\ \E aged \in SUBSET raw :
         /\ barrier.window => {e \in raw : e.old} \subseteq aged
         /\ aged # {} \/ barrier.window # flushed
         /\ raw' = raw \ aged
         /\ pass' = [pc |-> "read", late |-> barrier.window, writing |-> FALSE,
                     emits |-> {e.path : e \in aged}]
    /\ UNCHANGED <<Contents, flushed, pauseState, held, selfWrites, events, pushes, processor,
                   link, landing, barrier, spent, exempt>>

\* The handler reads pause_state ...
PassReads ==
    /\ pass.pc = "read"
    /\ pass' = [pass EXCEPT !.pc = "emit", !.writing = pauseState.paused \/ pauseState.recent]
    /\ UNCHANGED <<Contents, raw, flushed, pauseState, held, selfWrites, events, pushes, processor,
                   link, landing, barrier, spent, exempt>>

\* ... and keeps the events or sends them on
PassEmits ==
    /\ pass.pc = "emit"
    /\ pass' = [pass EXCEPT !.pc = "end"]
    /\ IF pass.writing THEN held' = held \cup pass.emits /\ UNCHANGED events
       ELSE UNCHANGED held /\ \E batch \in SetToSeqs(pass.emits) : events' = events \o batch
    /\ UNCHANGED <<Contents, raw, flushed, pauseState, selfWrites, pushes, processor,
                   link, landing, barrier, spent, exempt>>

\* Stamped after the handler returned
PassEnds ==
    /\ pass.pc = "end"
    /\ pass' = NoPass
    /\ flushed' = pass.late
    /\ UNCHANGED <<Contents, raw, pauseState, held, selfWrites, events, pushes, processor,
                   link, landing, barrier, spent, exempt>>

\* SYNCBACK_DEBOUNCE_TIME elapses
WindowCloses ==
    /\ pauseState.recent
    /\ pauseState' = [pauseState EXCEPT !.recent = FALSE]
    /\ UNCHANGED <<Contents, raw, pass, flushed, held, selfWrites, events, pushes, processor,
                   link, landing, barrier, spent, exempt>>

IsEcho(p, written) == Above[p] \cap written # {}

\* Events that are no echo go to the processor
Released(written) == {p \in held : ~IsEcho(p, written)}

\* The vfs-held thread, once no write window is open.  Self writes older than
\* SELF_WRITE_MEMORY are forgotten first
ReleaseHeld ==
    /\ ~pauseState.paused /\ ~pauseState.recent /\ held # {}
    /\ \E written \in SUBSET selfWrites :
         /\ selfWrites' = written
         /\ \E batch \in SetToSeqs(Released(written)) : events' = events \o batch
         /\ exempt' = exempt \cup (held \ Released(written))
    /\ held' = {}
    /\ UNCHANGED <<Contents, raw, pass, flushed, pauseState, pushes, processor,
                   link, landing, barrier, spent>>

\* The barrier under way saw the daemon write
Disturbed == IF barrier.pc \in {"none", "ended"} THEN barrier ELSE [barrier EXCEPT !.quiet = FALSE]

PauseWatcher == pauseState' = [paused |-> TRUE, recent |-> TRUE]

\* Mutant: the flag stays up
ResumeNothing == UNCHANGED pauseState

ResumeWatcher == pauseState' = [paused |-> FALSE, recent |-> TRUE]

-----------------------------------------------------------------------------
(* The queue, the bridge and the socket *)

\* Queue::push to the plugin's channel
Pushed(l, message) ==
    IF l.id = 0 THEN [l EXCEPT !.lost = @ \cup {p \in Path : message[p] # 0}]
    ELSE [l EXCEPT !.queue = Append(@, message), !.pushed = @ + 1]

\* Mutant: what was taken counts as settled, sent or not
SettleOnTake(l) == [l EXCEPT !.inHand = Head(l.queue), !.queue = Tail(l.queue), !.taken = @ + 1,
                             !.settled = l.taken + 1, !.bridge = "send"]

\* on_take
Taken(l) == [l EXCEPT !.inHand = Head(l.queue), !.queue = Tail(l.queue), !.taken = @ + 1, !.bridge = "send"]

\* get_timeout: what was taken before is settled now
BridgeWaits ==
    /\ link.id # 0 /\ link.bridge = "idle"
    /\ link' = [link EXCEPT !.settled = link.taken, !.bridge = "wait"]
    /\ UNCHANGED <<Contents, Watcher, events, pushes, processor, landing, barrier, spent, exempt>>

BridgeTakes ==
    /\ link.bridge = "wait" /\ link.queue # <<>>
    /\ link' = Taken(link)
    /\ UNCHANGED <<Contents, Watcher, events, pushes, processor, landing, barrier, spent, exempt>>

\* Translated into frames on the connection's queue
BridgeSends ==
    /\ link.bridge = "send"
    /\ link' = [link EXCEPT !.socket = Append(@, [type |-> "sync", change |-> link.inHand]), !.inHand = <<>>, !.bridge = "idle"]
    /\ UNCHANGED <<Contents, Watcher, events, pushes, processor, landing, barrier, spent, exempt>>

\* The link goes down with all that is on it, and the connection is cleaned up
LinkLost ==
    /\ link.id # 0 /\ spent.faults < MaxFaults
    /\ spent' = [spent EXCEPT !.faults = @ + 1]
    /\ link' = [NoLink EXCEPT !.last = link.id, !.lost = {p \in Path : tree[p] # studio[p]}]
    /\ landing' = {}
    /\ barrier' = IF barrier.pc = "asked" THEN Ended ELSE barrier
    /\ UNCHANGED <<Contents, Watcher, events, pushes, processor, exempt>>

\* The plugin redials and goes on without a compare; what it missed stays missed
LinkUp ==
    /\ link.id = 0
    /\ link' = [NoLink EXCEPT !.id = link.last + 1, !.last = link.last + 1, !.lost = link.lost]
    /\ UNCHANGED <<Contents, Watcher, events, pushes, processor, landing, barrier, spent, exempt>>

\* The sync loop applies the frames of the socket in order; script sources land later
PluginApplies ==
    /\ link.socket # <<>> /\ Head(link.socket).type = "sync"
    /\ link' = [link EXCEPT !.socket = Tail(@)]
    /\ landing' = landing \cup {<<p, Head(link.socket).change[p]>> : p \in {q \in Path : Head(link.socket).change[q] # 0}}
    /\ UNCHANGED <<Contents, Watcher, events, pushes, processor, barrier, spent, exempt>>

SourceLands ==
    /\ \E write \in landing :
         /\ \A other \in landing : other[1] = write[1] => write[2] <= other[2]
         /\ landing' = landing \ {write}
         /\ studio' = [studio EXCEPT ![write[1]] = write[2]]
    /\ UNCHANGED <<disk, tree, Watcher, events, pushes, processor, link, barrier, spent, exempt>>

\* A user edits in Studio and the plugin pushes it
StudioPushes(p) ==
    /\ spent.faults < MaxFaults /\ link.id # 0
    /\ spent' = [spent EXCEPT !.faults = @ + 1, !.fresh = @ + 1]
    /\ studio' = [studio EXCEPT ![p] = spent.fresh]
    /\ pushes' = Append(pushes, [path |-> p, content |-> spent.fresh])
    /\ exempt' = exempt \cup {p}
    /\ UNCHANGED <<disk, tree, Watcher, events, processor, link, landing, barrier>>

-----------------------------------------------------------------------------
(* The processor's thread *)

\* process_changes of the instance at a path reads what is under it too
Outdated(p) == {q \in Path : p \in Above[q] /\ disk[q] # tree[q]}

\* on_vfs_event: what changed is taken into the tree and queued
HandleEvent(p) ==
    LET changed == Outdated(p)
        message == [q \in Path |-> IF q \in changed THEN disk[q] ELSE 0]
    IN  /\ tree' = [q \in Path |-> IF q \in changed THEN disk[q] ELSE tree[q]]
        /\ link' = IF changed = {} THEN link ELSE Pushed(link, message)

ProcessEvent ==
    /\ processor.pc = "idle" /\ events # <<>>
    /\ HandleEvent(Head(events)) /\ events' = Tail(events)
    /\ UNCHANGED <<disk, studio, Watcher, pushes, processor, landing, barrier, spent, exempt>>

\* A change of Studio's is written between pause and resume
WriteStarts ==
    /\ processor.pc = "idle" /\ pushes # <<>>
    /\ processor' = [processor EXCEPT !.pc = "write"]
    /\ PauseWatcher
    /\ barrier' = Disturbed
    /\ UNCHANGED <<Contents, raw, pass, flushed, held, selfWrites, events, pushes, link, landing,
                   spent, exempt>>

\* StdBackend::write notes the path as its own first
WriteFile ==
    /\ processor.pc = "write"
    /\ LET change == Head(pushes)
       IN  /\ disk' = [disk EXCEPT ![change.path] = change.content]
           /\ tree' = [tree EXCEPT ![change.path] = change.content]
           /\ selfWrites' = selfWrites \cup {change.path}
           /\ raw' = Raised(change.path)
    /\ processor' = [processor EXCEPT !.pc = "written"]
    /\ UNCHANGED <<studio, pass, flushed, pauseState, held, events, pushes, link, landing, barrier,
                   spent, exempt>>

WriteEnds ==
    /\ processor.pc = "written"
    /\ processor' = Idle /\ pushes' = Tail(pushes)
    /\ ResumeWatcher
    /\ UNCHANGED <<Contents, raw, pass, flushed, held, selfWrites, events, link, landing, barrier,
                   spent, exempt>>

\* A fence drains the events that are there when it is reached
FenceReached ==
    /\ processor.pc = "idle" /\ barrier.pc = "fence"
    /\ processor' = [pc |-> "drain", left |-> Len(events)]
    /\ UNCHANGED <<Contents, Watcher, events, pushes, link, landing, barrier, spent, exempt>>

FenceDrains ==
    /\ processor.pc = "drain" /\ processor.left > 0
    /\ HandleEvent(Head(events)) /\ events' = Tail(events)
    /\ processor' = [processor EXCEPT !.left = @ - 1]
    /\ UNCHANGED <<disk, studio, Watcher, pushes, landing, barrier, spent, exempt>>

FenceAnswers ==
    /\ processor.pc = "drain" /\ processor.left = 0
    /\ processor' = Idle
    /\ barrier' = IF barrier.pc = "fence" THEN [barrier EXCEPT !.pc = "mark"] ELSE barrier
    /\ UNCHANGED <<Contents, Watcher, events, pushes, link, landing, spent, exempt>>


-----------------------------------------------------------------------------
(* POST /sync/wait: run_barrier *)

Undisturbed == ~pauseState.paused /\ ~pauseState.recent /\ held = {} /\ pass.pc = "idle"

BarrierStarts ==
    /\ barrier.pc = "none" /\ link.id # 0
    /\ barrier' = [NoBarrier EXCEPT !.pc = "held", !.id = link.id, !.want = disk, !.quiet = Undisturbed]
    /\ raw' = {[e EXCEPT !.old = TRUE] : e \in raw}
    /\ exempt' = exempt \cup link.lost
    /\ UNCHANGED <<Contents, pass, flushed, pauseState, held, selfWrites, events, pushes, processor,
                   link, landing, spent>>

\* The clock reaches flushed_through
BarrierAges ==
    /\ barrier.pc \in {"held", "flush"} /\ ~barrier.window
    /\ barrier' = [barrier EXCEPT !.window = TRUE]
    /\ UNCHANGED <<Contents, Watcher, events, pushes, processor, link, landing, spent, exempt>>

\* The loop of stage 1: the held events are counted, then the last pass is read
BarrierCountsHeld ==
    /\ barrier.pc = "held"
    /\ barrier' = [barrier EXCEPT !.pc = "flush", !.held = Cardinality(held)]
    /\ UNCHANGED <<Contents, Watcher, events, pushes, processor, link, landing, spent, exempt>>

BarrierReadsFlush ==
    /\ barrier.pc = "flush"
    /\ barrier' = [barrier EXCEPT !.pc = IF flushed /\ barrier.held = 0 THEN "fence" ELSE "held"]
    /\ UNCHANGED <<Contents, Watcher, events, pushes, processor, link, landing, spent, exempt>>

\* Stage 3: everything pushed so far is the target
BarrierMarks ==
    /\ barrier.pc = "mark"
    /\ barrier' = IF link.id # barrier.id THEN Ended
                  ELSE [barrier EXCEPT !.pc = "queue", !.target = link.pushed]
    /\ UNCHANGED <<Contents, Watcher, events, pushes, processor, link, landing, spent, exempt>>

\* ... and settled, so the question to Studio goes behind it on the same socket
BarrierAsks ==
    /\ barrier.pc = "queue"
    /\ \/ /\ link.id # barrier.id
          /\ barrier' = Ended /\ UNCHANGED link
       \/ /\ link.id = barrier.id /\ link.settled >= barrier.target
          /\ barrier' = [barrier EXCEPT !.pc = "ask"] /\ UNCHANGED link
    /\ UNCHANGED <<Contents, Watcher, events, pushes, processor, landing, spent, exempt>>

\* plugin_request goes to whoever holds the slot now
BarrierRequests ==
    /\ barrier.pc = "ask"
    /\ \/ /\ link.id = 0
          /\ barrier' = Ended /\ UNCHANGED link
       \/ /\ link.id # 0
          /\ barrier' = [barrier EXCEPT !.pc = "asked"]
          /\ link' = [link EXCEPT !.socket = Append(@, [type |-> "sync_barrier"])]
    /\ UNCHANGED <<Contents, Watcher, events, pushes, processor, landing, spent, exempt>>

\* The op's handler waits for the source writes in flight, but not for ever
PluginAnswers ==
    /\ link.socket # <<>> /\ Head(link.socket).type = "sync_barrier"
    /\ link' = [link EXCEPT !.socket = Tail(@)]
    /\ barrier' = IF barrier.pc # "asked" THEN barrier
                  ELSE [barrier EXCEPT !.pc = "answered",
                                       !.answer = IF landing = {} THEN "settled" ELSE "in flight"]
    /\ UNCHANGED <<Contents, Watcher, events, pushes, processor, landing, spent, exempt>>

\* The same plugin, and nothing in flight
GoodAnswer == link.id = barrier.id /\ barrier.answer = "settled"

BarrierEnds ==
    /\ barrier.pc \in {"answered", "synced"}
    /\ barrier' = IF barrier.pc = "answered" /\ GoodAnswer THEN [barrier EXCEPT !.pc = "synced"] ELSE Ended
    /\ UNCHANGED <<Contents, Watcher, events, pushes, processor, link, landing, spent, exempt>>

BarrierTimesOut ==
    /\ barrier.pc \in {"held", "fence", "queue", "asked"}
    /\ barrier' = Ended
    /\ UNCHANGED <<Contents, Watcher, events, pushes, processor, link, landing, spent, exempt>>

-----------------------------------------------------------------------------
WatcherStep == PassStart \/ PassReads \/ PassEmits \/ PassEnds \/ WindowCloses \/ ReleaseHeld
ProcessorStep == \/ ProcessEvent \/ WriteStarts \/ WriteFile \/ WriteEnds
                 \/ FenceReached \/ FenceDrains \/ FenceAnswers
LinkStep == BridgeWaits \/ BridgeTakes \/ BridgeSends \/ PluginApplies \/ SourceLands \/ PluginAnswers
BarrierStep == \/ BarrierAges \/ BarrierCountsHeld \/ BarrierReadsFlush \/ BarrierMarks \/ BarrierAsks
               \/ BarrierRequests \/ BarrierEnds \/ BarrierTimesOut

PipelineNext ==
    \/ \E p \in Path : EditFile(p) \/ StudioPushes(p)
    \/ LinkLost \/ LinkUp \/ BarrierStarts
    \/ WatcherStep \/ ProcessorStep \/ LinkStep \/ BarrierStep

\* The threads run on; users, the link and the caller of wait-synced need not
PipelineFairness ==
    /\ WF_pipelineVars(PassStart) /\ WF_pipelineVars(PassReads \/ PassEmits \/ PassEnds)
    /\ WF_pipelineVars(WindowCloses) /\ WF_pipelineVars(ReleaseHeld)
    /\ WF_pipelineVars(ProcessorStep)

PipelineSpec == PipelineInit /\ [][PipelineNext]_pipelineVars /\ PipelineFairness

-----------------------------------------------------------------------------
Owed(p) == p \notin exempt /\ Above[p] \cap exempt = {}

\* synced.rs says "the answer means applied, not merely received": when wait-synced
\* reports success, Studio holds every edit finished before it was called, save
\* the ones whose path Studio wrote itself and those lost with an earlier link
Delivered == barrier.pc = "synced" => \A p \in Path : Owed(p) => studio[p] >= barrier.want[p]

\* The same for a barrier during which the daemon writes no file of its own, so
\* that no event is held
QuietBarrierDelivers == barrier.pc = "synced" /\ barrier.quiet
                            => \A p \in Path : Owed(p) => studio[p] >= barrier.want[p]

\* An edit of a file is taken into the tree in the end, also when it falls into
\* the window of a write of the daemon's own and its event is held
HeldEditsArrive == \A p \in Path : (Owed(p) /\ disk[p] # tree[p]) ~> (disk[p] = tree[p] \/ ~Owed(p))
=============================================================================
