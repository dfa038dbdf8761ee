----------------------------- MODULE SlotProofs -----------------------------
(***************************************************************************)
(* What the daemon commits is one whole compare, in order, for every       *)
(* number of connections, chunks, submissions and dials.                   *)
(*                                                                         *)
(* CommittedWhole speaks of the last step only.  SlotInv carries it        *)
(* through an upload: what was received so far is the first chunks of one  *)
(* submission (UploadFine), and every chunk on its way and every sender    *)
(* belongs to a submission that was started (WireFine, SendersFine), so    *)
(* that no chunk is taken for the submission 0 of a daemon that holds      *)
(* nothing.                                                                *)
(*                                                                         *)
(* And a broadcast of the queue behind the slot reaches the connections    *)
(* that are leaving (QueueInv).                                            *)
(***************************************************************************)
EXTENDS PluginSlot, MessageQueue, TLAPS

\* The first n chunks of submission s
FirstChunks(s, n) == [k \in 1 .. n |-> [submission |-> s, chunk |-> k - 1]]

UploadFine ==
    \/ upload = NoUpload
    \/ /\ upload.submission \in 1 .. submissions /\ upload.next \in Nat \ {0}
       /\ upload.entries = FirstChunks(upload.submission, upload.next)

WireFine == \A r \in wire : r.submission \in 1 .. submissions /\ r.chunk \in Nat

SenderFine(s) ==
    /\ s = [submission |-> s.submission, next |-> s.next, restarted |-> s.restarted, waits |-> s.waits]
    /\ s.submission \in 0 .. submissions /\ s.next \in Nat

SendersFine == sender = [c \in Conn |-> sender[c]] /\ \A c \in Conn : SenderFine(sender[c])

SlotInv == submissions \in Nat /\ UploadFine /\ WireFine /\ SendersFine /\ CommittedWhole

-----------------------------------------------------------------------------
(* Received chunks *)

\* One more chunk of the same submission continues its first chunks (ingest_chunk)
LEMMA OneMore ==
    ASSUME NEW s, NEW n \in Nat
    PROVE  Append(FirstChunks(s, n), [submission |-> s, chunk |-> n]) = FirstChunks(s, n + 1)
<1> DEFINE old == FirstChunks(s, n)
           new == FirstChunks(s, n + 1)
           Entry == {[submission |-> s, chunk |-> k] : k \in Nat}
<1>1. old \in Seq(Entry) /\ Len(old) = n
    BY DEF FirstChunks
<1>2. new \in Seq(Entry) /\ Len(new) = n + 1
    BY DEF FirstChunks
<1>3. [submission |-> s, chunk |-> n] \in Entry
    OBVIOUS
<1>4. \A k \in 1 .. n + 1 : Append(old, [submission |-> s, chunk |-> n])[k] = new[k]
    BY <1>1 DEF FirstChunks
<1> HIDE DEF old, new, Entry
<1>5. Append(old, [submission |-> s, chunk |-> n]) \in Seq(Entry) /\ Len(Append(old, [submission |-> s, chunk |-> n])) = n + 1
    BY <1>1, <1>3
<1>6. Append(old, [submission |-> s, chunk |-> n]) = new
    BY <1>2, <1>4, <1>5
<1> QED
    BY <1>6 DEF old, new

LEMMA FirstOfNone == ASSUME NEW s PROVE FirstChunks(s, 0) = << >>
BY DEF FirstChunks

\* A chunk that is accepted is received as the first chunks of its submission
LEMMA ReceivedFine ==
    ASSUME SlotInv, NEW r \in wire, Accepts(r)
    PROVE  /\ r.submission \in 1 .. submissions /\ r.chunk \in Nat
           /\ Received(r) = [submission |-> r.submission, next |-> r.chunk + 1,
                             entries |-> FirstChunks(r.submission, r.chunk + 1)]
<1>1. r.submission \in 1 .. submissions /\ r.chunk \in Nat /\ r.submission # 0
    BY DEF SlotInv, WireFine
<1>2. Restarted(r).entries = FirstChunks(r.submission, r.chunk)
    <2>1. CASE r.chunk = 0
        BY <2>1, FirstOfNone DEF Restarted, NoUpload
    <2>2. CASE r.chunk # 0
        <3>1. Restarted(r) = upload
            BY <2>2 DEF Restarted
        <3>2. upload.submission = r.submission /\ r.chunk = upload.next
            BY <2>2, <3>1 DEF Accepts
        <3>3. upload # NoUpload
            BY <1>1, <3>2 DEF NoUpload
        <3> QED
            BY <3>1, <3>2, <3>3 DEF SlotInv, UploadFine
    <2> QED
        BY <2>1, <2>2
<1>3. Append(Restarted(r).entries, [submission |-> r.submission, chunk |-> r.chunk]) = FirstChunks(r.submission, r.chunk + 1)
    BY <1>1, <1>2, OneMore
<1> QED
    BY <1>1, <1>3 DEF Received

-----------------------------------------------------------------------------
(* Frames *)

LEMMA SlotInitially == SlotInit => SlotInv
BY DEF SlotInit, SlotInv, UploadFine, WireFine, SendersFine, SenderFine, CommittedWhole, NoSender

\* A step of the slot, the tree or the watchers leaves the compare alone
LEMMA CompareKept == SlotInv /\ UNCHANGED compareVars => SlotInv'
BY DEF compareVars, SlotInv, UploadFine, WireFine, SendersFine, SenderFine, CommittedWhole, FirstChunks

\* An upload that is dropped
LEMMA UploadDropped == SlotInv /\ UNCHANGED <<sender, wire, submissions, committed>> /\ upload' = NoUpload => SlotInv'
BY DEF SlotInv, UploadFine, WireFine, SendersFine, SenderFine, CommittedWhole

\* Fewer requirements: a step of the plugin's side of the upload
LEMMA SenderMoves ==
    ASSUME SlotInv, submissions' \in {submissions, submissions + 1}, upload' \in {upload, NoUpload},
           committed' = committed, SendersFine', WireFine'
    PROVE  SlotInv'
<1>1. submissions \in Nat /\ submissions' \in Nat /\ submissions <= submissions'
    BY DEF SlotInv
<1>2. UploadFine'
    BY <1>1 DEF SlotInv, UploadFine, FirstChunks
<1>3. CommittedWhole'
    BY <1>1 DEF SlotInv, CommittedWhole
<1> QED
    BY <1>1, <1>2, <1>3 DEF SlotInv

\* Senders of a step that may start a submission
LEMMA SenderStays ==
    ASSUME submissions \in Nat, submissions' \in {submissions, submissions + 1}, NEW s, SenderFine(s)
    PROVE  SenderFine(s)'
BY DEF SenderFine

LEMMA NoSenderFine == submissions' \in Nat => SenderFine(NoSender)'
BY DEF SenderFine, NoSender

-----------------------------------------------------------------------------
(* One lemma per step that touches the compare *)

LEMMA StartKeeps ==
    ASSUME SlotInv, NEW c \in Conn, StartUpload(c)
    PROVE  SlotInv'
<1>1. submissions \in Nat /\ submissions' = submissions + 1 /\ WireFine /\ wire' = wire
    BY DEF SlotInv, StartUpload
<1>2. SendersFine'
    <2>1. PICK new : new = [NoSender EXCEPT !.submission = submissions + 1]
        OBVIOUS
    <2>2. new = [submission |-> submissions + 1, next |-> 0, restarted |-> FALSE, waits |-> FALSE]
        BY <2>1 DEF NoSender
    <2>3. SenderFine(new)'
        BY <1>1, <2>2 DEF SenderFine
    <2>4. sender' = [sender EXCEPT ![c] = new] /\ SendersFine
        BY <2>1 DEF StartUpload, SlotInv
    <2>5. \A d \in Conn : SenderFine(sender[d])'
        <3> SUFFICES ASSUME NEW d \in Conn PROVE SenderFine(sender[d])'
            OBVIOUS
        <3>1. PICK s : s = sender[d]
            OBVIOUS
        <3>2. SenderFine(s)'
            BY <1>1, <2>4, <3>1, SenderStays DEF SendersFine
        <3>3. sender'[d] \in {s, new}
            BY <2>4, <3>1 DEF SendersFine
        <3> QED
            BY <2>3, <3>2, <3>3
    <2> QED
        BY <2>4, <2>5 DEF SendersFine
<1>3. WireFine'
    BY <1>1 DEF WireFine
<1> QED
    BY <1>1, <1>2, <1>3, SenderMoves DEF StartUpload

LEMMA SendKeeps ==
    ASSUME SlotInv, NEW c \in Conn, SendChunk(c)
    PROVE  SlotInv'
<1>1. submissions \in Nat /\ submissions' = submissions /\ SendersFine /\ WireFine
    BY DEF SlotInv, SendChunk
<1>2. SenderFine(sender[c]) /\ sender[c].submission \in 1 .. submissions /\ sender[c].next \in Nat
    BY <1>1 DEF SendChunk, SendersFine, SenderFine
<1>3. WireFine'
    BY <1>1, <1>2 DEF WireFine, SendChunk
<1>4. SendersFine'
    BY <1>1, <1>2 DEF SendChunk, SendersFine, SenderFine
<1> QED
    BY <1>1, <1>3, <1>4, SenderMoves DEF SendChunk

\* applyReceipt of a receipt that is not the expected one
LEMMA GivesUpKeeps ==
    ASSUME SlotInv, NEW c \in Conn, GivesUp(c)
    PROVE  SlotInv'
<1>1. submissions \in Nat /\ WireFine /\ wire' = wire /\ SendersFine /\ SenderFine(sender[c])
    BY DEF SlotInv, GivesUp, SendersFine
<1>2. PICK new : new = Mismatch(sender[c])
    OBVIOUS
<1>3. submissions' = IF new = NoSender THEN submissions ELSE submissions + 1
    BY <1>2 DEF GivesUp
<1>4. SenderFine(new)'
    <2>1. new = NoSender \/ new = [submission |-> submissions + 1, next |-> 0, restarted |-> TRUE, waits |-> FALSE]
        BY <1>2 DEF Mismatch
    <2> QED
        BY <1>1, <1>3, <2>1 DEF SenderFine, NoSender
<1>5. sender' = [sender EXCEPT ![c] = new]
    BY <1>2 DEF GivesUp
<1>6. \A d \in Conn : SenderFine(sender[d])'
    <2> SUFFICES ASSUME NEW d \in Conn PROVE SenderFine(sender[d])'
        OBVIOUS
    <2>1. PICK s : s = sender[d]
        OBVIOUS
    <2>2. SenderFine(s)'
        BY <1>1, <1>3, <2>1, SenderStays DEF SendersFine
    <2>3. sender'[d] \in {s, new}
        BY <1>1, <1>5, <2>1 DEF SendersFine
    <2> QED
        BY <1>4, <2>2, <2>3
<1>7. SendersFine'
    BY <1>1, <1>5, <1>6 DEF SendersFine
<1>8. WireFine'
    BY <1>1, <1>3 DEF WireFine
<1> QED
    BY <1>1, <1>3, <1>7, <1>8, SenderMoves DEF GivesUp

\* A plugin that is gone gives its upload up with it
LEMMA SenderGone ==
    ASSUME SlotInv, NEW c \in Conn, sender' = [sender EXCEPT ![c] = NoSender], upload' \in {upload, NoUpload},
           UNCHANGED <<wire, submissions, committed>>
    PROVE  SlotInv'
<1>1. submissions \in Nat /\ WireFine /\ SendersFine
    BY DEF SlotInv
<1>2. \A d \in Conn : SenderFine(sender[d])'
    <2> SUFFICES ASSUME NEW d \in Conn PROVE SenderFine(sender[d])'
        OBVIOUS
    <2>1. PICK s : s = sender[d]
        OBVIOUS
    <2>2. SenderFine(s)'
        BY <1>1, <2>1, SenderStays DEF SendersFine
    <2>3. sender'[d] \in {s, NoSender}
        BY <1>1, <2>1 DEF SendersFine
    <2> QED
        BY <1>1, <2>2, <2>3, NoSenderFine
<1>3. SendersFine'
    BY <1>1, <1>2 DEF SendersFine
<1>4. WireFine'
    BY <1>1 DEF WireFine
<1> QED
    BY <1>3, <1>4, SenderMoves

\* The daemon's side of a chunk: what is received and what is committed (ingest_chunk, compare)
LEMMA IngestReceives ==
    ASSUME SlotInv, NEW r \in wire, Ingest(r), submissions' \in {submissions, submissions + 1}
    PROVE  UploadFine' /\ CommittedWhole'
<1>1. submissions \in Nat /\ submissions' \in Nat /\ submissions <= submissions' /\ Chunks \in Nat \ {0}
    BY SlotAssumption DEF SlotInv, SlotAssumption
<1>2. CASE Committing(r)
    <2>1. Accepts(r) /\ r.chunk + 1 = Chunks
        BY <1>1, <1>2 DEF Committing
    <2>2. r.submission \in 1 .. submissions' /\ Received(r).entries = FirstChunks(r.submission, Chunks)
        BY <1>1, <2>1, ReceivedFine
    <2>3. upload' = NoUpload /\ committed' = FirstChunks(r.submission, Chunks)
        BY <1>2, <2>2 DEF Ingest
    <2> QED
        BY <2>2, <2>3 DEF UploadFine, CommittedWhole, FirstChunks
<1>3. CASE ~Committing(r) /\ Accepts(r)
    <2>1. upload' = Received(r) /\ committed' = committed
        BY <1>3 DEF Ingest
    <2>2. r.submission \in 1 .. submissions' /\ r.chunk + 1 \in Nat \ {0}
          /\ upload' = [submission |-> r.submission, next |-> r.chunk + 1, entries |-> FirstChunks(r.submission, r.chunk + 1)]
        BY <1>1, <1>3, <2>1, ReceivedFine
    <2>3. UploadFine'
        BY <2>2 DEF UploadFine, FirstChunks
    <2> QED
        BY <1>1, <2>1, <2>3 DEF SlotInv, CommittedWhole
<1>4. CASE ~Committing(r) /\ ~Accepts(r)
    <2>1. upload' \in {upload, NoUpload} /\ committed' = committed
        BY <1>4 DEF Ingest, Restarted
    <2>2. UploadFine'
        BY <1>1, <2>1 DEF SlotInv, UploadFine, FirstChunks
    <2> QED
        BY <1>1, <2>1, <2>2 DEF SlotInv, CommittedWhole
<1> QED
    BY <1>2, <1>3, <1>4

\* The plugin's side of a chunk: the receipt (applyReceipt)
LEMMA IngestAnswers ==
    ASSUME SlotInv, NEW r \in wire, Ingest(r)
    PROVE  submissions' \in {submissions, submissions + 1} /\ SendersFine'
<1>1. submissions \in Nat /\ SendersFine
    BY DEF SlotInv
<1> DEFINE Waits(c) == sender[c].waits /\ sender[c].submission = r.submission /\ sender[c].next = r.chunk
           After(c) == IF ~Waits(c) THEN sender[c]
                       ELSE IF ~Accepts(r) THEN Mismatch(sender[c])
                       ELSE IF r.chunk = Chunks - 1 THEN NoSender
                       ELSE [sender[c] EXCEPT !.next = @ + 1, !.waits = FALSE]
<1>2. sender' = [c \in Conn |-> After(c)]
    BY DEF Ingest
<1>3. submissions' = IF \E c \in Conn : Waits(c) /\ ~Accepts(r) /\ Mismatch(sender[c]) # NoSender
                     THEN submissions + 1 ELSE submissions
    BY DEF Ingest
<1>4. submissions' \in {submissions, submissions + 1}
    BY <1>3
<1>5. ASSUME NEW c \in Conn PROVE SenderFine(sender[c])'
    <2>1. SenderFine(sender[c]) /\ sender'[c] = After(c)
        BY <1>1, <1>2 DEF SendersFine
    <2>2. PICK s, new : s = sender[c] /\ new = After(c)
        OBVIOUS
    <2>3. SenderFine(s)'
        BY <1>1, <1>4, <2>1, <2>2, SenderStays
    <2>4. CASE ~Waits(c)
        BY <2>1, <2>2, <2>3, <2>4
    <2>5. CASE Waits(c) /\ ~Accepts(r)
        <3>1. new = Mismatch(sender[c])
            BY <2>2, <2>5
        <3>2. \/ new = NoSender
              \/ /\ new = [submission |-> submissions + 1, next |-> 0, restarted |-> TRUE, waits |-> FALSE]
                 /\ submissions' = submissions + 1
            BY <1>3, <2>5, <3>1 DEF Mismatch
        <3>3. SenderFine(new)'
            BY <1>1, <1>4, <3>2 DEF SenderFine, NoSender
        <3> QED
            BY <2>1, <2>2, <3>3
    <2>6. CASE Waits(c) /\ Accepts(r) /\ r.chunk = Chunks - 1
        <3>1. sender'[c] = NoSender
            BY <2>1, <2>6
        <3> QED
            BY <1>1, <1>4, <3>1 DEF SenderFine, NoSender
    <2>7. CASE Waits(c) /\ Accepts(r) /\ r.chunk # Chunks - 1
        <3>1. sender'[c] = [sender[c] EXCEPT !.next = @ + 1, !.waits = FALSE]
            BY <2>1, <2>7
        <3>2. sender'[c] = [submission |-> s.submission, next |-> s.next + 1, restarted |-> s.restarted, waits |-> FALSE]
            BY <2>1, <2>2, <3>1 DEF SenderFine
        <3> QED
            BY <2>3, <3>2 DEF SenderFine
    <2> QED
        BY <2>4, <2>5, <2>6, <2>7
<1>6. sender' = [c \in Conn |-> sender'[c]]
    BY <1>2
<1> QED
    BY <1>4, <1>5, <1>6 DEF SendersFine

LEMMA IngestKeeps ==
    ASSUME SlotInv, NEW r \in wire, Ingest(r)
    PROVE  SlotInv'
<1>1. submissions' \in {submissions, submissions + 1} /\ SendersFine'
    BY IngestAnswers
<1>2. UploadFine' /\ CommittedWhole'
    BY <1>1, IngestReceives
<1>3. submissions \in Nat /\ submissions' \in Nat /\ WireFine /\ wire' \subseteq wire
    <2>1. submissions \in Nat /\ WireFine /\ wire' = wire \ {r}
        BY DEF SlotInv, Ingest
    <2> QED
        BY <1>1, <2>1
<1>4. WireFine'
    BY <1>1, <1>3 DEF WireFine
<1> QED
    BY <1>1, <1>2, <1>3, <1>4 DEF SlotInv

-----------------------------------------------------------------------------
(* The specification *)

LEMMA ServerKeeps ==
    ASSUME SlotInv, NEW c \in Conn, Server(c)
    PROVE  SlotInv'
<1>1. CASE Invalidate(c)
    BY <1>1, UploadDropped DEF Invalidate
<1>2. CASE Unsubscribed(c)
    BY <1>2, SenderGone DEF Unsubscribed
<1>3. CASE ~Invalidate(c) /\ ~Unsubscribed(c)
    <2>1. UNCHANGED compareVars
        BY <1>3 DEF Server, Hello, ClaimWs, Opens, LoopEnds, Release, Leave, Pause, Subscribe, PollerGone, DialsAgain
    <2> QED
        BY <2>1, CompareKept
<1> QED
    BY <1>1, <1>2, <1>3

LEMMA SlotStep == SlotInv /\ [SlotNext]_slotVars => SlotInv'
<1> SUFFICES ASSUME SlotInv, [SlotNext]_slotVars PROVE SlotInv'
    OBVIOUS
<1>1. CASE UNCHANGED slotVars
    BY <1>1, CompareKept DEF slotVars, compareVars
<1>2. CASE Tick \/ Silence \/ DiskEdit \/ WatchTopics \/ Watch
    <2>1. UNCHANGED compareVars
        BY <1>2 DEF Tick, Silence, DiskEdit, WatchTopics, Watch
    <2> QED
        BY <2>1, CompareKept
<1>3. CASE \E r \in wire : Ingest(r)
    BY <1>3, IngestKeeps
<1>4. ASSUME NEW c \in Conn, Dials(c) \/ Read(c) \/ Unsubscribe(c) \/ Bridge(c) PROVE SlotInv'
    <2>1. UNCHANGED compareVars
        BY <1>4 DEF Dials, Read, Unsubscribe, Bridge
    <2> QED
        BY <2>1, CompareKept
<1>5. ASSUME NEW c \in Conn, ClosedByServer(c) \/ PeerGone(c) PROVE SlotInv'
    BY <1>5, SenderGone DEF ClosedByServer, PeerGone
<1> QED
    BY <1>1, <1>2, <1>3, <1>4, <1>5, ServerKeeps, StartKeeps, SendKeeps, GivesUpKeeps DEF SlotNext

\* Whatever is given up, sent again, evicted or dropped with its connection, the compare that
\* connect_commit acts on is one submission of one plugin, whole and in order (divergence.rs,
\* ingest_chunk): for every number of connections, chunks, submissions and dials.
THEOREM CompareIsWhole == SlotSpec => []CommittedWhole
<1>1. SlotInv => CommittedWhole
    BY DEF SlotInv
<1> QED
    BY <1>1, SlotInitially, SlotStep, PTL DEF SlotSpec

-----------------------------------------------------------------------------
(* The queue behind the slot (MessageQueue) *)

\* Who is listed has a channel or is about to get it
ListedFine == \A i \in listeners : task[i] \in {"subscribing", "live", "leaving"}

\* Who was subscribed and is not through with it has a channel
ChannelsFine == \A i \in Id : task[i] \in {"live", "leaving", "closing"} => i \in Live

\* The lock is held for the whole loop
LoopFine == holder = "processor" => broadcast.to \subseteq listeners

QueueTyped ==
    /\ listeners \subseteq Id
    /\ queues = [j \in Live |-> queues[j]]
    /\ task \in [Id -> {"new", "subscribing", "live", "leaving", "closing", "gone"}]
    /\ broadcast \in [to : SUBSET Id, left : Nat]

QueueInv == QueueTyped /\ ListedFine /\ ChannelsFine /\ LoopFine

LEMMA QueueStarts == QueueInit => QueueInv
BY MessageQueueAssumption DEF QueueInit, QueueInv, QueueTyped, ListedFine, ChannelsFine, LoopFine, Live, None

\* The steps of one task: its own stage moves, the list only while no broadcast runs
LEMMA TaskSteps ==
    ASSUME QueueInv, NEW i \in Id,
           \/ SubscribeListener(i) \/ SubscribeChannel(i) \/ Disconnect(i)
           \/ UnsubscribeListener(i) \/ UnsubscribeChannel(i)
    PROVE  QueueInv'
<1> USE DEF QueueInv, QueueTyped, ListedFine, ChannelsFine, LoopFine, None
<1>1. CASE SubscribeListener(i)
    BY <1>1 DEF SubscribeListener, ListFree, Live
<1>2. CASE SubscribeChannel(i)
    BY <1>2 DEF SubscribeChannel, With, Live
<1>3. CASE Disconnect(i)
    BY <1>3 DEF Disconnect, ListFree, Sent, Live
<1>4. CASE UnsubscribeListener(i)
    BY <1>4 DEF UnsubscribeListener, ListFree, Live
<1>5. CASE UnsubscribeChannel(i)
    <2>1. task[i] = "closing" /\ DOMAIN queues' = Live \ {i} /\ queues' = [j \in DOMAIN queues' |-> queues'[j]]
        BY <1>5 DEF UnsubscribeChannel, Without, Live
    <2>2. task' = [task EXCEPT ![i] = "gone"] /\ UNCHANGED <<listeners, holder, broadcast>>
        BY <1>5 DEF UnsubscribeChannel
    <2>3. i \notin listeners
        BY <2>1
    <2> QED
        BY <2>1, <2>2, <2>3 DEF Live
<1> QED
    BY <1>1, <1>2, <1>3, <1>4, <1>5

LEMMA BroadcastSteps ==
    ASSUME QueueInv, BroadcastStarts \/ BroadcastSends \/ BroadcastEnds
    PROVE  QueueInv'
<1> USE DEF QueueInv, QueueTyped, ListedFine, ChannelsFine, LoopFine, None
<1>1. CASE BroadcastStarts
    BY <1>1 DEF BroadcastStarts, ListFree, Live
<1>2. CASE BroadcastSends
    BY <1>2 DEF BroadcastSends, Sent, Live
<1>3. CASE BroadcastEnds
    BY <1>3 DEF BroadcastEnds, Live
<1> QED
    BY <1>1, <1>2, <1>3

LEMMA BridgeSteps ==
    ASSUME QueueInv, NEW i \in Id, BridgeChecks(i) \/ BridgeUnwraps(i) \/ BridgeReceives(i)
    PROVE  QueueInv'
<1>1. UNCHANGED <<listeners, holder, task, broadcast>>
    BY DEF BridgeChecks, BridgeUnwraps, BridgeReceives
<1>2. Live' = Live /\ queues' = [j \in DOMAIN queues' |-> queues'[j]]
    BY DEF BridgeChecks, BridgeUnwraps, BridgeReceives, Live, QueueInv, QueueTyped
<1> QED
    BY <1>1, <1>2 DEF QueueInv, QueueTyped, ListedFine, ChannelsFine, LoopFine, Live

\* For every set of connections and any number of messages: the loop of push finds
\* the channel of every connection that is not still subscribing, although
\* subscriptions come and go under another lock (queue.rs, push and unsubscribe)
THEOREM BroadcastReachesLeavers == QueueSpec => []LeaversAreServed
<1>1. QueueInv /\ [QueueNext]_queueVars => QueueInv'
    <2>1. QueueInv /\ UNCHANGED queueVars => QueueInv'
        BY DEF QueueInv, QueueTyped, ListedFine, ChannelsFine, LoopFine, Live, queueVars
    <2> QED
        BY <2>1, TaskSteps, BroadcastSteps, BridgeSteps DEF QueueNext
<1>2. QueueInv => LeaversAreServed
    BY DEF QueueInv, QueueTyped, ListedFine, ChannelsFine, LoopFine, LeaversAreServed
<1> QED
    BY <1>1, <1>2, QueueStarts, PTL DEF QueueSpec
=============================================================================
