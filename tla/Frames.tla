------------------------------- MODULE Frames -------------------------------
(***************************************************************************)
(* The wire of one plugin connection (server/ws/frames.rs, and the part of *)
(* server/ws/mod.rs that reads and answers frames).  Downwards, a change   *)
(* set is cut into `sync` frames of a bounded number of operations and,    *)
(* softly, of bytes.  Upwards, a frame is parsed and checked before it is  *)
(* decoded; pushes go to the processor and their results come back through *)
(* one pump.                                                               *)
(*                                                                         *)
(* An operation is a record [kind, id, bytes]; a change set the sequence   *)
(* of its additions, updates and removals in that order, which is the      *)
(* order frames list them and the plugin applies them in.                  *)
(***************************************************************************)
EXTENDS Integers, Sequences, FiniteSets, SequencesExt

CONSTANTS
    ChangeSets,   \* the change sets the queue may hold
    MaxOps,       \* SYNC_FRAME_MAX_OPS
    MaxBytes,     \* SYNC_FRAME_MAX_BYTES
    Hellos,       \* first frames a client may send
    Uploads,      \* frames a plugin may send
    MaxUploads,   \* bound on the number of frames it sends
    FrameRoom     \* capacity of the outgoing channel (WS_PLUGIN_QUEUE)

VARIABLES
    changes,      \* the change set the bridge took from the queue
    pending,      \* the chunks sync_frames still has to look at
    frames,       \* the frames it has cut
    greeted,      \* "none", "ok" or the code of the shutdown frame
    uploads,      \* frames the plugin has sent, in order
    processor,    \* indices of uploads waiting for the processor, in order
    results,      \* indices of uploads whose result the processor has sent
    pump,         \* receivers of the FIFO pump, in order
    out           \* push-results and pongs on their way to the plugin

frameVars == <<changes, pending, frames, greeted, uploads, processor, results, pump, out>>

---------------------------------------------------------------------------
(* Cutting a change set *)

Bytes(chunk) == FoldSeq(LAMBDA op, sum : op.bytes + sum, 0, chunk)

(* chunk_by_ops: runs of max_ops operations; a set that fits is one chunk,   *)
(* also when it is empty                                                   *)
ChunkByOps(ops) ==
    IF Len(ops) <= MaxOps THEN <<ops>>
    ELSE [k \in 1..((Len(ops) + MaxOps - 1) \div MaxOps) |->
            SubSeq(ops, (k - 1) * MaxOps + 1, IF k * MaxOps < Len(ops) THEN k * MaxOps ELSE Len(ops))]

SplitHalf(chunk) ==
    LET mid == IF Len(chunk) \div 2 < 1 THEN 1 ELSE Len(chunk) \div 2
    IN  <<SubSeq(chunk, 1, mid), SubSeq(chunk, mid + 1, Len(chunk))>>

Fits(chunk) == Bytes(chunk) <= MaxBytes \/ Len(chunk) <= 1

(* a mutant: the halves are pushed to the front in the order they are named *)
CutBackwards(queue) == <<SplitHalf(Head(queue))[2], SplitHalf(Head(queue))[1]>> \o Tail(queue)

(* push_front(second), then push_front(first) *)
CutAgain(queue) == SplitHalf(Head(queue)) \o Tail(queue)

---------------------------------------------------------------------------
(* Reading frames *)

(* parse_hello, in the order of its checks *)
ParseHello(hello) ==
    CASE ~hello.json -> "BAD_HELLO"
      [] hello.json /\ hello.type # "hello" -> "BAD_HELLO"
      [] hello.json /\ hello.type = "hello" /\ hello.protocol # "this one" -> "PROTOCOL_MISMATCH"
      [] OTHER -> IF hello.role = "unknown" \/ hello.clientId = "missing" THEN "BAD_HELLO" ELSE "ok"

(* expect_ref and walk_children: an upload names its refs, valid or not *)
ValidatePushRefs(ops) == ops.object /\ \A r \in ops.refs : r = "hex"

(* parse_incoming: `malformed` is dropped without an answer *)
ParseIncoming(frame) ==
    CASE ~frame.json \/ frame.type = "none" -> "malformed"
      [] frame.json /\ frame.type = "push" ->
            IF frame.ops.there /\ ValidatePushRefs(frame.ops) /\ frame.ops.decodes THEN "push" ELSE "rejected"
      [] frame.json /\ frame.type \in {"ping", "pong", "response", "event-sub"} -> frame.type
      [] OTHER -> "unknown"

---------------------------------------------------------------------------
FramesInit ==
    /\ changes \in ChangeSets
    /\ pending = <<>> /\ frames = <<>>
    /\ greeted = "none"
    /\ uploads = <<>> /\ processor = <<>> /\ results = {} /\ pump = <<>> /\ out = <<>>

(* The first frame decides whether there is a connection *)
Greet ==
    /\ greeted = "none"
    /\ \E hello \in Hellos : greeted' = ParseHello(hello)
    /\ pending' = IF greeted' = "ok" THEN ChunkByOps(changes) ELSE pending
    /\ UNCHANGED <<changes, frames, uploads, processor, results, pump, out>>

(* One turn of the loop of sync_frames *)
CutFrame ==
    /\ pending # <<>>
    /\ IF Fits(Head(pending))
       THEN frames' = Append(frames, Head(pending)) /\ pending' = Tail(pending)
       ELSE pending' = CutAgain(pending) /\ UNCHANGED frames
    /\ UNCHANGED <<changes, greeted, uploads, processor, results, pump, out>>

(* try_send: a full channel drops the frame *)
TrySend(frame) == out' = IF Len(out) < FrameRoom THEN Append(out, frame) ELSE out

(* handle_plugin_frame: a push is handed to the processor and its receiver  *)
(* to the pump; a rejected one is answered at once                         *)
HandlePluginFrame ==
    /\ greeted = "ok" /\ Len(uploads) < MaxUploads
    /\ \E frame \in Uploads :
        LET n == Len(uploads) + 1
            kind == ParseIncoming(frame)
        IN  /\ uploads' = Append(uploads, kind)
            /\ \/ /\ kind = "push"
                  /\ processor' = Append(processor, n) /\ pump' = Append(pump, n)
                  /\ UNCHANGED out
               \/ /\ kind = "rejected" /\ TrySend([kind |-> "rejected", of |-> n])
                  /\ UNCHANGED <<processor, pump>>
               \/ /\ kind = "ping" /\ TrySend([kind |-> "pong", of |-> n])
                  /\ UNCHANGED <<processor, pump>>
               \/ /\ kind \notin {"push", "rejected", "ping"}
                  /\ UNCHANGED <<processor, pump, out>>
    /\ UNCHANGED <<changes, pending, frames, greeted, results>>

(* The processor applies the pushes one after the other *)
ProcessorApplies ==
    /\ processor # <<>>
    /\ results' = results \cup {Head(processor)}
    /\ processor' = Tail(processor)
    /\ UNCHANGED <<changes, pending, frames, greeted, uploads, pump, out>>

(* The pump waits for its oldest receiver and for room in the channel *)
NextReady(n) == n = Head(pump) /\ n \in results

PumpReports ==
    /\ pump # <<>> /\ Len(out) < FrameRoom
    /\ \E k \in DOMAIN pump :
        /\ NextReady(pump[k])
        /\ out' = Append(out, [kind |-> "applied", of |-> pump[k]])
        /\ pump' = SelectSeq(pump, LAMBDA n : n # pump[k])
    /\ UNCHANGED <<changes, pending, frames, greeted, uploads, processor, results>>

FramesNext == Greet \/ CutFrame \/ HandlePluginFrame \/ ProcessorApplies \/ PumpReports

FramesSpec == FramesInit /\ [][FramesNext]_frameVars

---------------------------------------------------------------------------
(* Properties *)

(* The frames carry the change set: every operation once, additions before  *)
(* updates before removals across frames, no frame over either limit except *)
(* one that holds a single operation, and this at every turn of the loop.   *)
FramesCarry ==
    /\ greeted = "ok" => FlattenSeq(frames) \o FlattenSeq(pending) = changes
    /\ \A k \in DOMAIN frames : Len(frames[k]) <= MaxOps /\ (Bytes(frames[k]) <= MaxBytes \/ Len(frames[k]) = 1)

(* The plugin cannot tell one push-result from another, so their order is   *)
(* what it has: results of applied pushes arrive in the order the pushes    *)
(* were sent, each once.                                                   *)
AcksInOrder ==
    LET acked == SelectSeq(out, LAMBDA f : f.kind = "applied")
    IN  /\ \A j, k \in DOMAIN acked : j < k => acked[j].of < acked[k].of
        /\ \A k \in DOMAIN acked : uploads[acked[k].of] = "push"
=============================================================================
