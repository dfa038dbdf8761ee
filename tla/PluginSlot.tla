----------------------------- MODULE PluginSlot -----------------------------
(***************************************************************************)
(* Who is connected to the daemon: the one slot of the Studio plugin, held *)
(* over a WebSocket or by long polling (server/ws, subscribe, unsubscribe, *)
(* read and write), the upload of the compare a plugin starts with, sent   *)
(* in chunks over plain HTTP (divergence.rs), the clients that watch the   *)
(* daemon's events, and when the sync base believes that what it records   *)
(* is delivered.                                                           *)
(*                                                                         *)
(* Every access to the slot, to the upload and to the watchers is one step *)
(* under its lock; a connection that ends runs through the others' steps.  *)
(* The tree is its generation.  A peer may be gone without the socket      *)
(* being closed, and a chunk whose sender gave it up may still arrive.     *)
(***************************************************************************)
EXTENDS Naturals, Sequences, FiniteSets

CONSTANTS
    Conn,               \* connections of a plugin
    Poller,             \* those that poll
    Chunks,             \* chunks of an upload
    MaxGeneration,      \* edits on disk
    MaxDials,           \* times a plugin appears
    MaxUploads,         \* submissions
    WatchQueue          \* WS_WATCH_QUEUE

ASSUME SlotAssumption == Poller \subseteq Conn /\ Chunks \in Nat \ {0} /\ WatchQueue \in Nat \ {0}

Nobody == "nobody"
NoUpload == [submission |-> 0, next |-> 0, entries |-> <<>>]

VARIABLES
    slot,               \* the connection that is the plugin, and whether it was silent for too long
    conn,               \* by connection: what its task does next
    peer,               \* by connection: whether there is a plugin at the other end
    subscribed,         \* connections with a channel of the message queue
    upload,             \* the compare being received
    sender,             \* by connection: the plugin's side of its upload
    wire,               \* chunks on their way
    submissions,        \* how many submissions there were
    committed,          \* the entries of the last upload that was committed
    base,               \* sync base: recording, the generation to resume at, pending and stored
    generation,         \* of the tree
    delivered,          \* by connection: the generation it was sent
    watcher,            \* a client that watches: queued and last shown status, closed
    dials

slotVars == <<slot, conn, peer, subscribed, upload, sender, wire, submissions, committed, base, generation, delivered,
              watcher, dials>>

NoSender == [submission |-> 0, next |-> 0, restarted |-> FALSE, waits |-> FALSE]
SlotFree == [holder |-> Nobody, stale |-> FALSE]

SlotInit ==
    /\ slot = SlotFree /\ conn = [c \in Conn |-> "away"] /\ peer = [c \in Conn |-> FALSE] /\ subscribed = {}
    /\ upload = NoUpload /\ sender = [c \in Conn |-> NoSender] /\ wire = {} /\ submissions = 0 /\ committed = <<>>
    /\ base = [synced |-> FALSE, resume |-> 0, pending |-> 0, stored |-> 0]
    /\ generation = 1 /\ delivered = [c \in Conn |-> 0]
    /\ watcher = [queued |-> <<>>, shown |-> FALSE, topic |-> TRUE, closed |-> FALSE]
    /\ dials = 0

Goes(c, at) == conn' = [conn EXCEPT ![c] = at]

\* emit: a watcher that asked for the topic gets the event, one that does not keep up is closed
Emitted(connected) ==
    IF watcher.closed \/ ~watcher.topic THEN watcher
    ELSE IF Len(watcher.queued) = WatchQueue THEN [watcher EXCEPT !.closed = TRUE]
    ELSE [watcher EXCEPT !.queued = Append(@, connected)]

compareVars == <<upload, sender, wire, submissions, committed>>
treeVars == <<generation, delivered>>

-----------------------------------------------------------------------------
(* Sync base, as far as connections go *)

\* on_disconnect
Paused(b) == IF b.synced THEN [b EXCEPT !.synced = FALSE, !.pending = 0, !.resume = generation] ELSE b

\* on_reconnect
Resumed(b) == [b EXCEPT !.resume = 0, !.synced = @ \/ (b.resume # 0 /\ b.resume = generation)]

\* begin_compare and commit
Unsynced(b) == [b EXCEPT !.synced = FALSE, !.pending = 0, !.resume = 0]
Synced(b) == [synced |-> TRUE, resume |-> 0, pending |-> 0, stored |-> generation]

\* tick: what was pending is stored, what is there now becomes pending
Tick ==
    /\ base' = IF base.synced /\ slot.holder = Nobody THEN Paused(base)
               ELSE IF ~base.synced THEN [base EXCEPT !.pending = 0]
               ELSE [base EXCEPT !.stored = IF base.pending # 0 THEN base.pending ELSE @, !.pending = generation]
    /\ UNCHANGED <<slot, conn, peer, subscribed, compareVars, treeVars, watcher, dials>>

-----------------------------------------------------------------------------
(* The slot *)

\* Mutant: a silent poller keeps the slot
NeverEvicted == FALSE

\* evict_stale_longpoll
Evicted == slot.holder \in Poller /\ slot.stale
Holder == IF Evicted THEN Nobody ELSE slot.holder
Kept == IF Evicted THEN subscribed \ {slot.holder} ELSE subscribed

\* A plugin appears at the other end
Dials(c) ==
    /\ conn[c] = "away" /\ ~peer[c] /\ dials < MaxDials /\ dials' = dials + 1
    /\ peer' = [peer EXCEPT ![c] = TRUE] /\ Goes(c, IF c \in Poller THEN "polls" ELSE "hello")
    /\ UNCHANGED <<slot, subscribed, compareVars, base, treeVars, watcher>>

\* connection: the first frame in time and well formed; queue.subscribe under a fresh number
Hello(c) ==
    /\ conn[c] = "hello"
    /\ \/ Goes(c, "claim") /\ subscribed' = subscribed \cup {c}
       \/ Goes(c, "away") /\ UNCHANGED subscribed
    /\ UNCHANGED <<slot, peer, compareVars, base, treeVars, watcher, dials>>

\* claim_ws_plugin: refused while another holds the slot
ClaimWs(c) ==
    /\ conn[c] = "claim"
    /\ IF Holder = Nobody
       THEN slot' = [holder |-> c, stale |-> FALSE] /\ subscribed' = Kept /\ Goes(c, "open")
            /\ delivered' = [delivered EXCEPT ![c] = 0]
       ELSE UNCHANGED <<slot, delivered>> /\ subscribed' = subscribed \ {c} /\ Goes(c, "refused")
    /\ UNCHANGED <<peer, compareVars, base, generation, watcher, dials>>

\* A refused plugin dials again, or leaves
DialsAgain(c) ==
    /\ conn[c] = "refused"
    /\ Goes(c, IF peer[c] THEN (IF c \in Poller THEN "polls" ELSE "hello") ELSE "away")
    /\ UNCHANGED <<slot, peer, subscribed, compareVars, base, treeVars, watcher, dials>>

\* plugin_connection after the claim: the hello of the server, the sync base, the event
Opens(c) ==
    /\ conn[c] = "open"
    /\ \/ Goes(c, "loop") /\ base' = Resumed(base) /\ watcher' = Emitted(TRUE)
       \/ ~peer[c] /\ Goes(c, "release") /\ UNCHANGED <<base, watcher>>
    /\ UNCHANGED <<slot, peer, subscribed, compareVars, treeVars, dials>>

\* The select loop ends: the peer closed, no pong came, or the daemon closes the connection
LoopEnds(c) ==
    /\ conn[c] = "loop" /\ ~peer[c] /\ Goes(c, "release")
    /\ UNCHANGED <<slot, peer, subscribed, compareVars, base, treeVars, watcher, dials>>

\* broadcast_close, slow consumers and out-of-sync sessions: closed by the daemon
ClosedByServer(c) ==
    /\ conn[c] = "loop" /\ peer[c]
    /\ peer' = [peer EXCEPT ![c] = FALSE] /\ Goes(c, "release")
    /\ sender' = [sender EXCEPT ![c] = NoSender]
    /\ UNCHANGED <<slot, subscribed, upload, wire, submissions, committed, base, treeVars, watcher, dials>>

\* release_plugin
Released(c) == IF slot.holder = c THEN SlotFree ELSE slot

\* cleanup_plugin, lock by lock
Release(c) ==
    /\ conn[c] = "release" /\ slot' = Released(c) /\ Goes(c, "leave")
    /\ UNCHANGED <<peer, subscribed, compareVars, base, treeVars, watcher, dials>>

Leave(c) ==
    /\ conn[c] = "leave" /\ subscribed' = subscribed \ {c} /\ Goes(c, "invalidate")
    /\ UNCHANGED <<slot, peer, compareVars, base, treeVars, watcher, dials>>

\* Divergence::invalidate
Invalidate(c) ==
    /\ conn[c] = "invalidate" /\ upload' = NoUpload /\ Goes(c, "pause")
    /\ UNCHANGED <<slot, peer, subscribed, sender, wire, submissions, committed, base, treeVars, watcher, dials>>

Pause(c) ==
    /\ conn[c] = "pause" /\ base' = Paused(base) /\ watcher' = Emitted(FALSE) /\ Goes(c, "away")
    /\ UNCHANGED <<slot, peer, subscribed, compareVars, treeVars, dials>>

-----------------------------------------------------------------------------
(* Long polling *)

\* subscribe: the claim with the queue's subscription inside
Subscribe(c) ==
    /\ conn[c] = "polls" /\ peer[c]
    /\ IF Holder = Nobody /\ c \notin Kept
       THEN slot' = [holder |-> c, stale |-> FALSE] /\ subscribed' = Kept \cup {c} /\ watcher' = Emitted(TRUE)
            /\ Goes(c, "polling") /\ delivered' = [delivered EXCEPT ![c] = 0]
       ELSE UNCHANGED <<subscribed, watcher, delivered>> /\ Goes(c, "refused")
            /\ slot' = IF Evicted THEN SlotFree ELSE slot
    /\ UNCHANGED <<peer, compareVars, base, generation, dials>>

\* touch_longpoll
Touched(c) == IF slot.holder = c THEN [slot EXCEPT !.stale = FALSE] ELSE slot

\* read and write: refused without a subscription; a read takes what is queued
Read(c) ==
    /\ conn[c] = "polling" /\ peer[c]
    /\ IF c \in subscribed THEN slot' = Touched(c) /\ delivered' = [delivered EXCEPT ![c] = generation] /\ UNCHANGED conn
       ELSE Goes(c, "refused") /\ UNCHANGED <<slot, delivered>>
    /\ UNCHANGED <<peer, subscribed, compareVars, base, generation, watcher, dials>>

\* LONGPOLL_EVICT_AFTER passed without a read
Silence ==
    /\ slot.holder \in Poller /\ ~peer[slot.holder] /\ ~slot.stale
    /\ slot' = [slot EXCEPT !.stale = TRUE]
    /\ UNCHANGED <<conn, peer, subscribed, compareVars, base, treeVars, watcher, dials>>

\* unsubscribe, then release_plugin and what depends on it
Unsubscribe(c) ==
    /\ conn[c] = "polling" /\ peer[c] /\ c \in subscribed
    /\ subscribed' = subscribed \ {c} /\ Goes(c, "unsubscribed")
    /\ UNCHANGED <<slot, peer, compareVars, base, treeVars, watcher, dials>>

Unsubscribed(c) ==
    /\ conn[c] = "unsubscribed" /\ Goes(c, "away") /\ peer' = [peer EXCEPT ![c] = FALSE]
    /\ sender' = [sender EXCEPT ![c] = NoSender]
    /\ IF slot.holder = c
       THEN slot' = SlotFree /\ upload' = NoUpload /\ base' = Paused(base) /\ watcher' = Emitted(FALSE)
       ELSE UNCHANGED <<slot, upload, base, watcher>>
    /\ UNCHANGED <<subscribed, wire, submissions, committed, treeVars, dials>>

\* A poller that is gone leaves nothing behind but its subscription
PollerGone(c) ==
    /\ conn[c] \in {"polls", "polling"} /\ ~peer[c] /\ slot.holder # c /\ Goes(c, "away")
    /\ UNCHANGED <<slot, peer, subscribed, compareVars, base, treeVars, watcher, dials>>

-----------------------------------------------------------------------------
(* The compare, divergence.rs *)

Serving(c) == conn[c] \in {"loop", "polling"} /\ peer[c]

\* newUpload: a submission of its own
StartUpload(c) ==
    /\ Serving(c) /\ sender[c].submission = 0 /\ submissions < MaxUploads
    /\ submissions' = submissions + 1
    /\ sender' = [sender EXCEPT ![c] = [NoSender EXCEPT !.submission = submissions + 1]]
    /\ UNCHANGED <<slot, conn, peer, subscribed, upload, wire, committed, base, treeVars, watcher, dials>>

\* nextRequest: the first chunk restarts whatever the daemon holds
SendChunk(c) ==
    /\ Serving(c) /\ sender[c].submission # 0 /\ ~sender[c].waits
    /\ wire' = wire \cup {[submission |-> sender[c].submission, chunk |-> sender[c].next]}
    /\ sender' = [sender EXCEPT ![c].waits = TRUE]
    /\ UNCHANGED <<slot, conn, peer, subscribed, upload, submissions, committed, base, treeVars, watcher, dials>>

\* applyReceipt of a receipt that is not the expected one: once more from the start, then no more
Mismatch(s) ==
    IF s.restarted \/ submissions = MaxUploads THEN NoSender
    ELSE [submission |-> submissions + 1, next |-> 0, restarted |-> TRUE, waits |-> FALSE]

GivesUp(c) ==
    /\ sender[c].waits
    /\ sender' = [sender EXCEPT ![c] = Mismatch(@)]
    /\ submissions' = IF Mismatch(sender[c]) = NoSender THEN submissions ELSE submissions + 1
    /\ UNCHANGED <<slot, conn, peer, subscribed, upload, wire, committed, base, treeVars, watcher, dials>>

\* ingest_chunk: a first chunk replaces, any other continues its own submission in order
Restarted(r) == IF r.chunk = 0 THEN NoUpload ELSE upload

\* Mutant: whatever chunk is next is taken
AcceptsAny(r) ==
    Restarted(r).submission = 0 \/ r.chunk = Restarted(r).next

Accepts(r) ==
    \/ Restarted(r).submission = 0 /\ r.chunk = 0
    \/ Restarted(r).submission = r.submission /\ r.chunk = Restarted(r).next

Received(r) ==
    [submission |-> r.submission, next |-> r.chunk + 1,
     entries |-> Append(Restarted(r).entries, [submission |-> r.submission, chunk |-> r.chunk])]

\* The last chunk: freeze, connect_commit and commit_sync_base; the plugin gets what it lacks
Committing(r) == Accepts(r) /\ r.chunk = Chunks - 1

Ingest(r) ==
    /\ r \in wire /\ wire' = wire \ {r}
    /\ upload' = IF Committing(r) THEN NoUpload ELSE IF Accepts(r) THEN Received(r) ELSE Restarted(r)
    /\ committed' = IF Committing(r) THEN Received(r).entries ELSE committed
    /\ base' = IF Committing(r) THEN Synced(base)
               ELSE IF Accepts(r) /\ Restarted(r).submission = 0 THEN Unsynced(base) ELSE base
    /\ delivered' = [c \in Conn |-> IF Committing(r) /\ c = slot.holder THEN generation ELSE delivered[c]]
    /\ LET waiting == {c \in Conn : sender[c].waits /\ sender[c].submission = r.submission /\ sender[c].next = r.chunk}
       IN  /\ sender' = [c \in Conn |->
                          IF c \notin waiting THEN sender[c]
                          ELSE IF ~Accepts(r) THEN Mismatch(sender[c])
                          ELSE IF r.chunk = Chunks - 1 THEN NoSender
                          ELSE [sender[c] EXCEPT !.next = @ + 1, !.waits = FALSE]]
           /\ submissions' = IF \E c \in waiting : ~Accepts(r) /\ Mismatch(sender[c]) # NoSender
                             THEN submissions + 1 ELSE submissions
    /\ UNCHANGED <<slot, conn, peer, subscribed, generation, watcher, dials>>

-----------------------------------------------------------------------------
(* Disk, watchers, peers *)

\* A change on disk is queued for the plugin; a socket's bridge sends it along
DiskEdit ==
    /\ generation < MaxGeneration /\ generation' = generation + 1
    /\ UNCHANGED <<slot, conn, peer, subscribed, compareVars, base, delivered, watcher, dials>>

\* The bridge of a socket
Bridge(c) ==
    /\ conn[c] = "loop" /\ peer[c] /\ c \in subscribed
    /\ delivered' = [delivered EXCEPT ![c] = generation]
    /\ UNCHANGED <<slot, conn, peer, subscribed, compareVars, base, generation, watcher, dials>>

\* set_watcher_topics: a watcher that wants other events
WatchTopics ==
    /\ watcher.topic /\ watcher' = [watcher EXCEPT !.topic = FALSE]
    /\ UNCHANGED <<slot, conn, peer, subscribed, compareVars, base, treeVars, dials>>

\* watcher_connection: the next queued frame is sent; one that is closed comes back as a new client
Watch ==
    /\ \/ /\ watcher.queued # <<>>
          /\ watcher' = [watcher EXCEPT !.queued = Tail(@), !.shown = Head(watcher.queued)]
       \/ /\ watcher.closed
          /\ watcher' = [queued |-> <<>>, shown |-> slot.holder # Nobody, topic |-> TRUE, closed |-> FALSE]
    /\ UNCHANGED <<slot, conn, peer, subscribed, compareVars, base, treeVars, dials>>

PeerGone(c) ==
    /\ peer[c] /\ peer' = [peer EXCEPT ![c] = FALSE]
    /\ sender' = [sender EXCEPT ![c] = NoSender]
    /\ UNCHANGED <<slot, conn, subscribed, upload, wire, submissions, committed, base, treeVars, watcher, dials>>

Server(c) ==
    Hello(c) \/ ClaimWs(c) \/ Opens(c) \/ LoopEnds(c) \/ Release(c) \/ Leave(c) \/ Invalidate(c) \/ Pause(c) \/ Subscribe(c)
    \/ Unsubscribed(c) \/ PollerGone(c) \/ DialsAgain(c)

SlotNext ==
    \/ Tick \/ Silence \/ DiskEdit \/ WatchTopics \/ Watch \/ \E r \in wire : Ingest(r)
    \/ \E c \in Conn :
         \/ Server(c) \/ Dials(c) \/ ClosedByServer(c) \/ Read(c) \/ Unsubscribe(c) \/ StartUpload(c) \/ SendChunk(c)
         \/ GivesUp(c) \/ Bridge(c) \/ PeerGone(c)

SlotSpec == SlotInit /\ [][SlotNext]_slotVars

\* The daemon's tasks run, a dead socket misses its pong, silence is noticed, a refused plugin dials again
SlotFairSpec == SlotSpec /\ WF_slotVars(Silence) /\ \A c \in Conn : WF_slotVars(Server(c))

-----------------------------------------------------------------------------
(* Properties *)

\* What is committed is one whole submission in order: chunks of an upload that was given up,
\* restarted or dropped with its connection never mix with another's (divergence.rs ingest_chunk).
CommittedWhole ==
    committed # <<>> =>
        \E s \in 1 .. submissions : committed = [k \in 1 .. Chunks |-> [submission |-> s, chunk |-> k - 1]]

\* A plugin that keeps dialling comes in, unless a plugin that is alive has the slot
\* (ws/state.rs claim_ws_plugin, evict_stale_longpoll).
ComesIn ==
    \A c \in Conn :
        (conn[c] \in {"hello", "claim", "polls", "refused"})
            ~> (slot.holder # Nobody /\ peer[slot.holder]) \/ ~peer[c] \/ conn[c] = "away"

\* Nothing is recorded as agreed that a plugin which is silent for so long was not sent.
SilentNotRecorded == slot.stale /\ base.synced => base.stored <= delivered[slot.holder]
=============================================================================
