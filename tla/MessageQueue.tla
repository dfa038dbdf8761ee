----------------------------- MODULE MessageQueue -----------------------------
(***************************************************************************)
(* The locks of src/core/queue.rs.  A subscription lives in two places,    *)
(* `listeners` and `queues`, each behind a lock of its own, and every      *)
(* operation takes them one after the other: it looks the id up among the  *)
(* listeners, lets go, and unwraps the channel it expects in the map.  A   *)
(* thread that finds none panics with the lock in its hands and poisons    *)
(* it.  The threads are the processor, which broadcasts, and for each      *)
(* connection its task (src/server/ws/mod.rs, plugin_connection and        *)
(* cleanup_plugin) and its bridge.                                         *)
(***************************************************************************)
EXTENDS Naturals, Sequences, FiniteSets

CONSTANTS
    Id,             \* queue ids of the connections
    MaxMessages     \* bound on broadcasts

ASSUME MessageQueueAssumption == MaxMessages \in Nat

VARIABLES
    listeners,      \* ids in the list
    queues,         \* ids with a channel, and what is in it
    holder,         \* who holds the lock of the list across a broadcast
    task,           \* by id: what the connection's task does next
    bridge,         \* by id: what its bridge does next
    broadcast,      \* the processor: ids still to serve, messages left
    panicked        \* threads that unwrapped nothing

queueVars == <<listeners, queues, holder, task, bridge, broadcast, panicked>>

None == "none"
Live == DOMAIN queues

QueueInit ==
    /\ listeners = {} /\ queues = << >> /\ holder = None
    /\ task = [i \in Id |-> "new"] /\ bridge = [i \in Id |-> "none"]
    /\ broadcast = [to |-> {}, left |-> MaxMessages] /\ panicked = {}

Sent(i, message) == [queues EXCEPT ![i] = Append(@, message)]
With(i) == [j \in Live \cup {i} |-> IF j = i THEN <<>> ELSE queues[j]]
Without(i) == [j \in Live \ {i} |-> queues[j]]

\* Mutant: a broadcast lets go of the list
Unlocked == TRUE

\* The lock of the list is free
ListFree == holder = None

\* subscribe: the listener first ...
SubscribeListener(i) ==
    /\ task[i] = "new" /\ ListFree
    /\ listeners' = listeners \cup {i}
    /\ task' = [task EXCEPT ![i] = "subscribing"]
    /\ UNCHANGED <<queues, holder, bridge, broadcast, panicked>>

\* ... then its channel; the connection starts its bridge
SubscribeChannel(i) ==
    /\ task[i] = "subscribing"
    /\ queues' = With(i)
    /\ task' = [task EXCEPT ![i] = "live"]
    /\ bridge' = [bridge EXCEPT ![i] = "idle"]
    /\ UNCHANGED <<listeners, holder, broadcast, panicked>>

\* cleanup_plugin: disconnect pushes to one id.  The id was found subscribed and
\* nobody else unsubscribes it, so its channel is there
Disconnect(i) ==
    /\ task[i] = "live" /\ ListFree
    /\ queues' = Sent(i, "disconnect")
    /\ task' = [task EXCEPT ![i] = "leaving"]
    /\ UNCHANGED <<listeners, holder, bridge, broadcast, panicked>>

UnsubscribeListener(i) ==
    /\ task[i] = "leaving" /\ ListFree
    /\ listeners' = listeners \ {i}
    /\ task' = [task EXCEPT ![i] = "closing"]
    /\ UNCHANGED <<queues, holder, bridge, broadcast, panicked>>

UnsubscribeChannel(i) ==
    /\ task[i] = "closing"
    /\ queues' = Without(i)
    /\ task' = [task EXCEPT ![i] = "gone"]
    /\ UNCHANGED <<listeners, holder, bridge, broadcast, panicked>>

\* push to all: the lock of the list is held for the whole loop
BroadcastStarts ==
    /\ ListFree /\ broadcast.left > 0
    /\ holder' = "processor"
    /\ broadcast' = [to |-> listeners, left |-> broadcast.left - 1]
    /\ UNCHANGED <<listeners, queues, task, bridge, panicked>>

BroadcastSends ==
    /\ holder = "processor"
    /\ \E i \in broadcast.to :
         /\ broadcast' = [broadcast EXCEPT !.to = @ \ {i}]
         /\ IF i \in Live
            THEN queues' = Sent(i, "change") /\ UNCHANGED panicked
            ELSE panicked' = panicked \cup {"processor"} /\ UNCHANGED queues
    /\ UNCHANGED <<listeners, holder, task, bridge>>

BroadcastEnds ==
    /\ holder = "processor" /\ broadcast.to = {}
    /\ holder' = None
    /\ UNCHANGED <<listeners, queues, task, bridge, broadcast, panicked>>

\* get_timeout: is_subscribed ...
BridgeChecks(i) ==
    /\ bridge[i] = "idle" /\ ListFree
    /\ bridge' = [bridge EXCEPT ![i] = IF i \in listeners THEN "checked" ELSE "ended"]
    /\ UNCHANGED <<listeners, queues, holder, task, broadcast, panicked>>

\* ... then the channel
BridgeUnwraps(i) ==
    /\ bridge[i] = "checked"
    /\ IF i \in Live
       THEN bridge' = [bridge EXCEPT ![i] = "waiting"] /\ UNCHANGED panicked
       ELSE bridge' = [bridge EXCEPT ![i] = "ended"] /\ panicked' = panicked \cup {i}
    /\ UNCHANGED <<listeners, queues, holder, task, broadcast>>

\* The receiver is a clone: a channel that left the map drops its sender with it
BridgeReceives(i) ==
    /\ bridge[i] = "waiting"
    /\ \/ /\ i \in Live /\ queues[i] # <<>>
          /\ queues' = [queues EXCEPT ![i] = Tail(@)]
          /\ bridge' = [bridge EXCEPT ![i] = IF Head(queues[i]) = "disconnect" THEN "ended" ELSE "idle"]
       \/ /\ bridge' = [bridge EXCEPT ![i] = "idle"] /\ UNCHANGED queues     \* QUEUE_TIMEOUT
    /\ UNCHANGED <<listeners, holder, task, broadcast, panicked>>

\* A poisoned lock fails whoever takes it next: the model goes no further
QueueNext ==
    /\ panicked = {}
    /\ \/ BroadcastStarts \/ BroadcastSends \/ BroadcastEnds
       \/ \E i \in Id : \/ SubscribeListener(i) \/ SubscribeChannel(i) \/ Disconnect(i)
                        \/ UnsubscribeListener(i) \/ UnsubscribeChannel(i)
                        \/ BridgeChecks(i) \/ BridgeUnwraps(i) \/ BridgeReceives(i)

QueueSpec == QueueInit /\ [][QueueNext]_queueVars

\* A broadcast that runs holds the list, so that no connection it has yet to serve
\* takes its channel away: a channel it misses is one that is being subscribed
\* (queue.rs, the loop of push)
LeaversAreServed ==
    holder = "processor" => \A i \in broadcast.to : i \in Live \/ task[i] = "subscribing"

\* The `unwrap`s of push, get and get_timeout take it for granted that who is
\* listed as a listener has a channel: no thread finds none
ListenersHaveChannels == panicked = {}
=============================================================================
