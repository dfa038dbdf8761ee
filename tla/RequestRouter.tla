----------------------------- MODULE RequestRouter -----------------------------
(***************************************************************************)
(* Requests to Studio and their receipts: POST /request                    *)
(* (src/server/request.rs), the table of pending requests and the plugin   *)
(* slot (src/server/ws/state.rs), receipts (src/server/operation.rs), the  *)
(* plugin's answers and the audit log (src/server/ws/mod.rs,               *)
(* src/server/audit.rs), and the cleanup of a connection that ended.       *)
(*                                                                         *)
(* The handler of a request, the task of each connection and its cleanup   *)
(* interleave at every lock.  The plugin is taken at its word: it reports  *)
(* a mutation iff it made one, and "notStarted" only for what it refused.  *)
(* The length of an op's name, the form of ids and the checks of boot id   *)
(* and project are one refusal.                                            *)
(***************************************************************************)
EXTENDS Naturals, Sequences, SequencesExt, FiniteSets

CONSTANTS
    Request,
    Operation,          \* ids callers give their operations
    MaxReceipts,
    PluginQueue,        \* WS_PLUGIN_QUEUE
    MaxConns

ASSUME RequestRouterAssumption ==
    MaxReceipts \in Nat \ {0} /\ PluginQueue \in Nat \ {0} /\ MaxConns \in Nat \ {0}

Conn == 1 .. MaxConns
Kind == {"daemon", "change", "acknowledge"}     \* ops::try_answer; others; acknowledgement_only

VARIABLES
    ask,                \* by request: kind of op and operation id
    handler,            \* by request: what its handler does next, the connection it sends to
    wake,               \* by request: what its receiver got
    slot,               \* the connection that owns the plugin slot, or 0
    conn,               \* by connection: phase, frames to the plugin, answers from it
    pending,            \* requests with a sender in the table
    receipts,
    audit,              \* requests in writes.log
    effect, reply,      \* what Studio did, what the caller was told
    lost                \* history: answers lost with a link, receipts dropped, requests failed
                        \* by the cleanup of a connection they did not go to

routerVars == <<ask, handler, wake, slot, conn, pending, receipts, audit, effect, reply, lost>>

Receipt(r) == [operation |-> ask[r].operation, request |-> r, completion |-> "unknown", finished |-> FALSE]

\* Answers: the plugin says how it went
Answer == [request : Request, ok : BOOLEAN, effect : {"refused", "some", "all"}, says : {"notStarted", "unknown"}]

RouterInit ==
    /\ ask \in [Request -> [kind : Kind, operation : Operation]]
    /\ handler = [r \in Request |-> [pc |-> "new", to |-> 0]]
    /\ wake = [r \in Request |-> <<>>]
    /\ slot = 0
    /\ conn = [c \in Conn |-> [pc |-> "new", out |-> <<>>, in |-> <<>>]]
    /\ pending = {} /\ receipts = <<>> /\ audit = {}
    /\ effect = [r \in Request |-> "none"] /\ reply = [r \in Request |-> "open"]
    /\ lost = {}

-----------------------------------------------------------------------------
(* Receipts *)

\* The receipt with a request's id, if there is one
IndexOf(r) == {i \in DOMAIN receipts : receipts[i].request = r}

\* Receipts::op: the name of an operation that is not finished
OperationName(r) == \E i \in IndexOf(r) : ~receipts[i].finished

\* Receipts::finish: conclusive evidence stays
Finished(receipt, completion) ==
    IF receipt.finished /\ receipt.completion # "unknown" THEN receipt
    ELSE [receipt EXCEPT !.completion = completion, !.finished = TRUE]

Finish(r, completion) ==
    receipts' = [i \in DOMAIN receipts |->
                    IF i \in IndexOf(r) THEN Finished(receipts[i], completion) ELSE receipts[i]]

\* Receipts::prune: the n oldest are past RETAIN_FOR
Young(n) == SubSeq(receipts, n + 1, Len(receipts))
Drop(n) == lost' = lost \cup {receipts[i].request : i \in 1 .. n}

\* Receipts::begin: an id with a receipt is refused, the oldest makes room
Known(operation, aged) == \E i \in aged + 1 .. Len(receipts) : receipts[i].operation = operation
Begin(r, aged) ==
    LET gone == IF Len(receipts) - aged >= MaxReceipts THEN aged + 1 ELSE aged
    IN  receipts' = Append(Young(gone), Receipt(r)) /\ Drop(gone)

\* completion(response, op)
Completion(answer, kind) ==
    CASE answer.ok /\ kind = "acknowledge" -> "unknown"
      [] answer.ok /\ kind # "acknowledge" /\ answer.effect = "all" -> "completed"
      [] answer.effect \in {"some", "all"} /\ ~(answer.ok /\ (kind = "acknowledge" \/ answer.effect = "all")) -> "partial"
      [] OTHER -> answer.says

-----------------------------------------------------------------------------
(* The handler of POST /request *)

Replies(r, completion) ==
    /\ reply' = [reply EXCEPT ![r] = completion]
    /\ handler' = [handler EXCEPT ![r].pc = "replied"]

Goes(r, pc) == handler' = [handler EXCEPT ![r].pc = pc]

\* Refused before a receipt is made
Refuse(r) ==
    /\ handler[r].pc = "new" /\ Replies(r, "notStarted")
    /\ UNCHANGED <<ask, wake, slot, conn, pending, receipts, audit, effect, lost>>

\* An id in use: the earlier operation may have changed Studio
Repeat(r) == Replies(r, "unknown")

Accept(r) ==
    /\ handler[r].pc = "new"
    /\ \E aged \in 0 .. Len(receipts) :
         IF Known(ask[r].operation, aged)
         THEN Repeat(r) /\ receipts' = Young(aged) /\ Drop(aged)
         ELSE Begin(r, aged) /\ Goes(r, "begun") /\ UNCHANGED reply
    /\ UNCHANGED <<ask, wake, slot, conn, pending, audit, effect>>

\* fail_before_send
FailBeforeSend(r) == Finish(r, "notStarted") /\ Replies(r, "notStarted")

\* Ops the daemon answers itself, and a timeout of zero
AnswerHere(r) ==
    /\ handler[r].pc = "begun"
    /\ \/ ask[r].kind = "daemon" /\ Finish(r, "completed") /\ Replies(r, "completed")
          /\ effect' = [effect EXCEPT ![r] = "all"]
       \/ FailBeforeSend(r) /\ UNCHANGED effect
    /\ UNCHANGED <<ask, wake, slot, conn, pending, audit, lost>>

\* plugin_frames: a clone of the sender of whoever owns the slot
FindPlugin(r) ==
    /\ handler[r].pc = "begun" /\ ask[r].kind # "daemon"
    /\ IF slot = 0 THEN FailBeforeSend(r)
       ELSE handler' = [handler EXCEPT ![r] = [pc |-> "found", to |-> slot]] /\ UNCHANGED <<receipts, reply>>
    /\ UNCHANGED <<ask, wake, slot, conn, pending, audit, effect, lost>>

RegisterRequest(r) ==
    /\ handler[r].pc = "found"
    /\ pending' = pending \cup {r} /\ Goes(r, "registered")
    /\ UNCHANGED <<ask, wake, slot, conn, receipts, audit, effect, reply, lost>>

\* try_send: a full queue or one whose receiver is gone refuses the frame
SendRequest(r) ==
    /\ handler[r].pc = "registered"
    /\ LET c == handler[r].to
       IN  IF conn[c].pc = "gone" \/ Len(conn[c].out) >= PluginQueue
           THEN /\ pending' = pending \ {r} /\ FailBeforeSend(r) /\ UNCHANGED conn
           ELSE /\ conn' = [conn EXCEPT ![c].out = Append(@, r)] /\ Goes(r, "waiting")
                /\ UNCHANGED <<pending, receipts, reply>>
    /\ UNCHANGED <<ask, wake, slot, audit, effect, lost>>

\* The receiver got the plugin's answer
Deliver(r) ==
    /\ handler[r].pc = "waiting" /\ wake[r] # <<>> /\ wake[r][1] = "answer"
    /\ Replies(r, Completion(wake[r][2], ask[r].kind))
    /\ UNCHANGED <<ask, wake, slot, conn, pending, receipts, audit, effect, lost>>

\* Its sender was dropped: disconnected before answering
Dropped(r) ==
    /\ handler[r].pc = "waiting" /\ wake[r] # <<>> /\ wake[r][1] = "dropped"
    /\ Finish(r, "unknown") /\ Replies(r, "unknown")
    /\ UNCHANGED <<ask, wake, slot, conn, pending, audit, effect, lost>>

\* Mutant: no answer is taken for nothing done
GiveUp(r) == Finish(r, "notStarted") /\ Replies(r, "notStarted")

\* The deadline says nothing of the receipt: a later answer may still finish it
TimeOut(r) == Replies(r, "unknown") /\ UNCHANGED receipts

Timeout(r) ==
    /\ handler[r].pc = "waiting" /\ TimeOut(r)
    /\ pending' = pending \ {r}
    /\ UNCHANGED <<ask, wake, slot, conn, audit, effect, lost>>

\* GET /operation: Receipts::get prunes too
ReadReceipt ==
    /\ \E aged \in 1 .. Len(receipts) : receipts' = Young(aged) /\ Drop(aged)
    /\ UNCHANGED <<ask, handler, wake, slot, conn, pending, audit, effect, reply>>

-----------------------------------------------------------------------------
(* Connections and the plugin *)

Phase(c, pc) == conn' = [conn EXCEPT ![c].pc = pc]

\* claim_ws_plugin
Claim(c) ==
    /\ conn[c].pc = "new" /\ slot = 0
    /\ slot' = c /\ Phase(c, "live")
    /\ UNCHANGED <<ask, handler, wake, pending, receipts, audit, effect, reply, lost>>

\* Studio runs a request and answers on the link it came by
Execute(c) ==
    /\ conn[c].pc = "live" /\ conn[c].out # <<>>
    /\ LET r == Head(conn[c].out)
       IN  \E a \in {b \in Answer : b.request = r} :
             /\ a.ok => a.effect # "refused"                       \* a batch may fail in part
             /\ a.effect # "refused" => a.says = "unknown"
             /\ effect' = [effect EXCEPT ![r] = a.effect]
             /\ conn' = [conn EXCEPT ![c].out = Tail(@), ![c].in = Append(@, a)]
    /\ UNCHANGED <<ask, handler, wake, slot, pending, receipts, audit, reply, lost>>

\* Mutant: the audit waits for the caller
AuditIfWaiting(answer) == answer.effect # "refused" /\ answer.request \in pending /\ OperationName(answer.request)

\* handle_plugin_frame records a mutation of an operation that is not finished
Audited(answer) == answer.effect # "refused" /\ OperationName(answer.request)

RecordAudit(c) ==
    /\ conn[c].pc = "live" /\ conn[c].in # <<>>
    /\ audit' = IF Audited(Head(conn[c].in)) THEN audit \cup {Head(conn[c].in).request} ELSE audit
    /\ Phase(c, "audited")
    /\ UNCHANGED <<ask, handler, wake, slot, pending, receipts, effect, reply, lost>>

\* resolve_request: the receipt is looked up ...
LookUp(c) ==
    /\ conn[c].pc = "audited"
    /\ Phase(c, IF OperationName(Head(conn[c].in).request) THEN "named" ELSE "finished")
    /\ UNCHANGED <<ask, handler, wake, slot, pending, receipts, audit, effect, reply, lost>>

\* ... finished ...
FinishReceipt(c) ==
    /\ conn[c].pc = "named"
    /\ LET answer == Head(conn[c].in)
       IN  Finish(answer.request, Completion(answer, ask[answer.request].kind))
    /\ Phase(c, "finished")
    /\ UNCHANGED <<ask, handler, wake, slot, pending, audit, effect, reply, lost>>

\* ... and whoever still waits gets the answer
WakeCaller(c) ==
    /\ conn[c].pc = "finished"
    /\ LET r == Head(conn[c].in).request
       IN  /\ wake' = IF r \in pending THEN [wake EXCEPT ![r] = <<"answer", Head(conn[c].in)>>] ELSE wake
           /\ pending' = pending \ {r}
    /\ conn' = [conn EXCEPT ![c].pc = "live", ![c].in = Tail(@)]
    /\ UNCHANGED <<ask, handler, slot, receipts, audit, effect, reply, lost>>

\* The loop of a connection ends; what is on its link is gone
LoopEnds(c) ==
    /\ conn[c].pc = "live"
    /\ conn' = [conn EXCEPT ![c] = [pc |-> "release", out |-> <<>>, in |-> <<>>]]
    /\ lost' = lost \cup {a.request : a \in ToSet(conn[c].in)}
    /\ UNCHANGED <<ask, handler, wake, slot, pending, receipts, audit, effect, reply>>

\* release_plugin: only by its owner
Release(c) == slot' = IF slot = c THEN 0 ELSE slot

CleanupReleases(c) ==
    /\ conn[c].pc = "release" /\ Release(c) /\ Phase(c, "fail")
    /\ UNCHANGED <<ask, handler, wake, pending, receipts, audit, effect, reply, lost>>

\* fail_pending_requests: all of them, whichever connection they went to
CleanupFails(c) ==
    /\ conn[c].pc = "fail"
    /\ wake' = [r \in Request |-> IF r \in pending THEN <<"dropped">> ELSE wake[r]]
    /\ lost' = lost \cup {r \in pending : handler[r].to # c}
    /\ pending' = {} /\ Phase(c, "gone")
    /\ UNCHANGED <<ask, handler, slot, receipts, audit, effect, reply>>

-----------------------------------------------------------------------------
HandlerStep(r) ==
    \/ Refuse(r) \/ Accept(r) \/ AnswerHere(r) \/ FindPlugin(r) \/ RegisterRequest(r)
    \/ SendRequest(r) \/ Deliver(r) \/ Dropped(r) \/ Timeout(r)

ConnStep(c) ==
    \/ Claim(c) \/ Execute(c) \/ RecordAudit(c) \/ LookUp(c) \/ FinishReceipt(c) \/ WakeCaller(c)
    \/ LoopEnds(c) \/ CleanupReleases(c) \/ CleanupFails(c)

RouterNext == (\E r \in Request : HandlerStep(r)) \/ ReadReceipt \/ (\E c \in Conn : ConnStep(c))

RouterSpec == RouterInit /\ [][RouterNext]_routerVars

-----------------------------------------------------------------------------
\* The contract of POST /request, implemented
Contract == INSTANCE RequestContract WITH verdict <- reply

\* request.rs: each request is answered once, and what its caller is told of
\* completion is true of what Studio did and will do, whatever crosses it
KeepsContract == Contract!ContractSpec

\* An answer that reports a change is handled to its end
Handled(r) == effect[r] \in {"some", "all"} /\ ask[r].kind # "daemon"
              /\ \A c \in Conn : /\ r \notin ToSet(conn[c].out)
                                 /\ \A i \in DOMAIN conn[c].in : conn[c].in[i].request # r

\* ws/mod.rs audits "at receipt time, including late answers after the HTTP caller
\* timed out": a change Studio reported is in writes.log, unless the answer went
\* with its link, the receipt was dropped (age, room) or the cleanup of another connection
\* failed the request
LateAnswersAudited == \A r \in Request : Handled(r) /\ r \notin lost => r \in audit
=============================================================================
