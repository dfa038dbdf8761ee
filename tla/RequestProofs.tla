----------------------------- MODULE RequestProofs -----------------------------
(***************************************************************************)
(* POST /request keeps its contract and every reported change is audited,  *)
(* for any number of requests, operations, connections, receipts and any   *)
(* capacity of the plugin's queue.                                         *)
(***************************************************************************)
EXTENDS RequestRouter, SequenceTheorems, TLAPS

HandlerPc == {"new", "begun", "found", "registered", "waiting", "replied"}
ConnPc == {"new", "live", "audited", "named", "finished", "release", "fail", "gone"}
Woken == {<<>>, <<"dropped">>} \cup {<<"answer", a>> : a \in Answer}
Receipts == [operation : Operation, request : Request,
             completion : {"unknown", "notStarted", "partial", "completed"}, finished : BOOLEAN]

TypeOK ==
    /\ ask \in [Request -> [kind : Kind, operation : Operation]]
    /\ handler \in [Request -> [pc : HandlerPc, to : 0 .. MaxConns]]
    /\ wake \in [Request -> Woken]
    /\ slot \in 0 .. MaxConns
    /\ conn \in [Conn -> [pc : ConnPc, out : Seq(Request), in : Seq(Answer)]]
    /\ pending \subseteq Request
    /\ receipts \in Seq(Receipts)
    /\ audit \subseteq Request
    /\ effect \in [Request -> {"none", "refused", "some", "all"}]
    /\ reply \in [Request -> {"open", "notStarted", "unknown", "partial", "completed"}]
    /\ lost \subseteq Request

\* A request is open until its handler replies; one that is not sent has not run
Sent(r) == handler[r].pc \in {"waiting", "replied"}
HandlersFine ==
    \A r \in Request :
        /\ handler[r].pc # "replied" => reply[r] = "open"
        /\ ~Sent(r) => effect[r] = "none"
        /\ handler[r].pc \in {"new", "begun", "found"} => wake[r] = <<>> /\ r \notin pending
        /\ handler[r].pc \notin {"new", "begun", "replied"} => handler[r].to \in Conn

\* A request on its way to Studio was sent on that link, has not run and was not
\* called "notStarted"
ToStudio(r, c) == Sent(r) /\ handler[r].to = c /\ effect[r] = "none" /\ reply[r] # "notStarted"

\* An answer on its way back says what was done
Truthful(a) ==
    /\ effect[a.request] = a.effect
    /\ a.ok => a.effect # "refused"
    /\ a.effect # "refused" => a.says = "unknown"
FromStudio(a, c) == Sent(a.request) /\ handler[a.request].to = c /\ Truthful(a)

LinksFine ==
    \A c \in Conn :
        /\ \A i \in DOMAIN conn[c].out : ToStudio(conn[c].out[i], c)
        /\ \A i \in DOMAIN conn[c].in : FromStudio(conn[c].in[i], c)

\* Nothing is on a link twice
NoRepeats ==
    \A c \in Conn :
        /\ \A i, j \in DOMAIN conn[c].out : conn[c].out[i] = conn[c].out[j] => i = j
        /\ \A i, j \in DOMAIN conn[c].in : conn[c].in[i].request = conn[c].in[j].request => i = j

\* The answer a caller is woken with is the one to its request
WakeFine ==
    \A r \in Request : \A a \in Answer :
        wake[r] = <<"answer", a>> => a.request = r /\ Truthful(a)

ContractInv == TypeOK /\ HandlersFine /\ LinksFine /\ NoRepeats /\ WakeFine

-----------------------------------------------------------------------------
(* Why nothing Studio reports is missed *)

\* The receipt of a request whose answer is to come is not finished
Open(r) == r \in lost \/ OperationName(r)
Running == {"live", "audited", "named", "finished"}

Unsent == \A r \in Request : handler[r].pc \in {"begun", "found", "registered"} => Open(r)

OnTheWay ==
    \A c \in Conn : conn[c].pc \in Running =>
        \A i \in DOMAIN conn[c].out : Open(conn[c].out[i])

\* The answer being handled is audited, those behind it will be
InHand ==
    \A c \in Conn : conn[c].pc \in Running =>
        \A i \in DOMAIN conn[c].in :
            IF i = 1 /\ conn[c].pc # "live"
            THEN \/ conn[c].in[i].effect = "refused"
                 \/ conn[c].in[i].request \in audit \cup lost
            ELSE Open(conn[c].in[i].request)

\* A caller's sender is dropped by the cleanup of its own connection
DroppedByOwn ==
    \A r \in Request : wake[r] = <<"dropped">> /\ r \notin lost =>
        /\ handler[r].pc \in {"registered", "waiting", "replied"}
        /\ handler[r].to \in Conn => conn[handler[r].to].pc = "gone"

\* Links and phases: an answer is in hand while it is handled; nothing is read
\* off a link that ended
PhasesFine ==
    \A c \in Conn :
        /\ conn[c].pc \in {"audited", "named", "finished"} => conn[c].in # <<>>
        /\ conn[c].pc \notin Running => conn[c].in = <<>>

\* Nothing is sent to a connection that has not had the slot
Claimed ==
    /\ slot # 0 => conn[slot].pc # "new"
    /\ \A r \in Request : handler[r].to # 0 => conn[handler[r].to].pc # "new"

AuditInv ==
    Unsent /\ OnTheWay /\ InHand /\ DroppedByOwn /\ PhasesFine /\ Claimed /\ LateAnswersAudited

RouterInv == ContractInv /\ AuditInv

-----------------------------------------------------------------------------
(* Types *)

\* A finished receipt is a receipt of the same request
LEMMA FinishedType ==
    ASSUME NEW receipt \in Receipts,
           NEW completion \in {"unknown", "notStarted", "partial", "completed"}
    PROVE  /\ Finished(receipt, completion) \in Receipts
           /\ Finished(receipt, completion).request = receipt.request
BY DEF Finished, Receipts

\* Receipts keep their type when one is finished; those of others stay as they are
LEMMA FinishType ==
    ASSUME TypeOK, NEW r \in Request,
           NEW completion \in {"unknown", "notStarted", "partial", "completed"},
           Finish(r, completion)
    PROVE  /\ receipts' \in Seq(Receipts)
           /\ \A q \in Request \ {r} : OperationName(q) => OperationName(q)'
<1>1. Len(receipts) \in Nat /\ DOMAIN receipts = 1 .. Len(receipts)
    BY DEF TypeOK
<1>2. \A i \in DOMAIN receipts : receipts[i] \in Receipts
    BY DEF TypeOK
<1>3. DOMAIN receipts' = DOMAIN receipts
    BY DEF Finish
<1>4. \A i \in DOMAIN receipts : receipts'[i] \in Receipts /\ receipts'[i].request = receipts[i].request
    BY <1>2, FinishedType DEF Finish
<1>5. \A i \in DOMAIN receipts : receipts[i].request # r => receipts'[i] = receipts[i]
    BY DEF Finish, IndexOf
<1>6. receipts' \in Seq(Receipts)
    BY <1>1, <1>3, <1>4 DEF Finish
<1>7. \A q \in Request \ {r} : OperationName(q) => OperationName(q)'
    BY <1>3, <1>5 DEF OperationName, IndexOf
<1> QED BY <1>6, <1>7

\* The young receipts are the rest of the sequence
LEMMA YoungType ==
    ASSUME TypeOK, NEW n \in 0 .. Len(receipts)
    PROVE  /\ Young(n) \in Seq(Receipts) /\ Len(Young(n)) = Len(receipts) - n
           /\ \A i \in 1 .. Len(receipts) - n : Young(n)[i] = receipts[i + n]
<1>0. receipts \in Seq(Receipts) /\ Len(receipts) \in Nat /\ \A i \in 1 .. Len(receipts) : receipts[i] \in Receipts
    BY DEF TypeOK
<1> DEFINE m == n + 1
           k == Len(receipts)
<1>1. m \in Int /\ k \in Int /\ \A i \in m .. k : receipts[i] \in Receipts
    BY <1>0
<1> HIDE DEF m, k
<1>2. /\ SubSeq(receipts, m, k) \in Seq(Receipts)
      /\ Len(SubSeq(receipts, m, k)) = IF m <= k THEN k - m + 1 ELSE 0
      /\ \A i \in 1 .. k - m + 1 : SubSeq(receipts, m, k)[i] = receipts[m + i - 1]
    BY <1>1, SubSeqProperties
<1>3. /\ n \in Nat /\ Len(receipts) \in Nat /\ k - m + 1 = Len(receipts) - n
      /\ ~(m <= k) => Len(receipts) - n = 0
    <2>1. n \in Nat /\ n <= Len(receipts)
        BY <1>0
    <2>2. Len(receipts) \in Nat
        BY <1>0
    <2>3. k - m + 1 = Len(receipts) - n
        BY <2>1, <2>2 DEF m, k
    <2>4. ~(m <= k) => Len(receipts) - n = 0
        BY <2>1, <2>2 DEF m, k
    <2> QED BY <2>1, <2>2, <2>3, <2>4
<1>4. \A i \in 1 .. Len(receipts) - n : m + i - 1 = i + n
    BY <1>0 DEF m, k
<1>5. Young(n) = SubSeq(receipts, m, k)
    BY DEF Young, m, k
<1> QED BY <1>2, <1>3, <1>4, <1>5

\* Pruning drops the oldest, and says so: an unfinished receipt stays or is lost
LEMMA YoungFine ==
    ASSUME TypeOK, NEW n \in 0 .. Len(receipts), Drop(n),
           NEW added \in Seq(Receipts), receipts' = Young(n) \o added
    PROVE  /\ receipts' \in Seq(Receipts)
           /\ lost \subseteq lost' /\ lost' \subseteq Request
           /\ \A q \in Request : Open(q) => Open(q)'
           /\ \A i \in DOMAIN added : ~added[i].finished => Open(added[i].request)'
<1>1. /\ receipts \in Seq(Receipts) /\ Len(receipts) \in Nat /\ DOMAIN receipts = 1 .. Len(receipts)
      /\ \A i \in 1 .. Len(receipts) : receipts[i] \in Receipts
    BY DEF TypeOK
<1>2. \A i \in 1 .. n : receipts[i].request \in Request
    BY <1>1 DEF Receipts
<1>3. lost \subseteq lost' /\ lost' \subseteq Request
    BY <1>2 DEF Drop, TypeOK
<1>4. /\ Young(n) \in Seq(Receipts) /\ Len(Young(n)) = Len(receipts) - n
      /\ \A i \in 1 .. Len(receipts) - n : Young(n)[i] = receipts[i + n]
    BY YoungType
<1>5. /\ receipts' \in Seq(Receipts) /\ Len(receipts') = Len(receipts) - n + Len(added)
      /\ \A i \in 1 .. Len(receipts) - n : receipts'[i] = receipts[i + n]
      /\ \A i \in DOMAIN added : receipts'[Len(receipts) - n + i] = added[i]
    <2> HIDE DEF Young
    <2>1. /\ Young(n) \o added \in Seq(Receipts) /\ Len(Young(n) \o added) = Len(Young(n)) + Len(added)
          /\ \A i \in 1 .. Len(Young(n)) + Len(added) : (Young(n) \o added)[i] =
                IF i <= Len(Young(n)) THEN Young(n)[i] ELSE added[i - Len(Young(n))]
        BY <1>4, ConcatProperties
    <2>2. Len(added) \in Nat /\ DOMAIN added = 1 .. Len(added)
        OBVIOUS
    <2>3. \A i \in 1 .. Len(receipts) - n : receipts'[i] = receipts[i + n]
        BY <1>1, <1>4, <2>1, <2>2
    <2>4. ASSUME NEW i \in DOMAIN added
          PROVE  receipts'[Len(receipts) - n + i] = added[i]
        <3>1. /\ Len(receipts) - n + i \in 1 .. Len(Young(n)) + Len(added)
              /\ ~(Len(receipts) - n + i <= Len(Young(n)))
              /\ Len(receipts) - n + i - Len(Young(n)) = i
            BY <1>1, <1>4, <2>2
        <3> QED BY <3>1, <2>1
    <2> QED BY <1>4, <2>1, <2>3, <2>4
<1>6. ASSUME NEW q \in Request, Open(q)
      PROVE  Open(q)'
    <2>1. CASE q \in lost
        BY <2>1, <1>3 DEF Open
    <2>2. ASSUME NEW i \in DOMAIN receipts, receipts[i].request = q, ~receipts[i].finished
          PROVE  Open(q)'
        <3>1. CASE i \in 1 .. n
            BY <3>1, <2>2 DEF Open, Drop
        <3>2. CASE i \notin 1 .. n
            <4>1. i - n \in 1 .. Len(receipts) - n /\ i - n \in DOMAIN receipts' /\ (i - n) + n = i
                BY <3>2, <1>1, <1>5
            <4>2. receipts'[i - n] = receipts[i]
                BY <4>1, <1>5
            <4> QED BY <4>1, <4>2, <2>2 DEF Open, OperationName, IndexOf
        <3> QED BY <3>1, <3>2
    <2> QED BY <1>6, <2>1, <2>2 DEF Open, OperationName, IndexOf
<1>7. ASSUME NEW i \in DOMAIN added, ~added[i].finished
      PROVE  Open(added[i].request)'
    <2>1. Len(receipts) - n + i \in DOMAIN receipts'
        BY <1>1, <1>5
    <2> QED BY <2>1, <1>5, <1>7 DEF Open, OperationName, IndexOf
<1> QED BY <1>3, <1>5, <1>6, <1>7

\* Receipts after POST /request: nothing unfinished goes unnoticed
LEMMA AcceptReceipts ==
    ASSUME TypeOK, RequestRouterAssumption, NEW r \in Request, Accept(r)
    PROVE  /\ receipts' \in Seq(Receipts)
           /\ lost \subseteq lost' /\ lost' \subseteq Request
           /\ \A q \in Request : Open(q) => Open(q)'
           /\ handler'[r].pc = "begun" => Open(r)'
<1>1. Len(receipts) \in Nat /\ Receipt(r) \in Receipts /\ ~Receipt(r).finished /\ Receipt(r).request = r
    BY DEF TypeOK, Receipt, Receipts
<1>2. \A n \in 0 .. Len(receipts) : Young(n) \in Seq(Receipts)
    BY YoungType
<1>3. ASSUME NEW aged \in 0 .. Len(receipts), receipts' = Young(aged), Drop(aged), Repeat(r)
      PROVE  /\ receipts' \in Seq(Receipts)
             /\ lost \subseteq lost' /\ lost' \subseteq Request
             /\ \A q \in Request : Open(q) => Open(q)'
             /\ handler'[r].pc = "begun" => Open(r)'
    <2>1. <<>> \in Seq(Receipts) /\ receipts' = Young(aged) \o <<>>
        BY <1>2, <1>3, ConcatEmptySeq
    <2>2. handler'[r].pc # "begun"
        BY <1>3 DEF Repeat, Replies, TypeOK
    <2> QED BY <1>3, <2>1, <2>2, YoungFine
<1>4. ASSUME NEW aged \in 0 .. Len(receipts), Begin(r, aged)
      PROVE  /\ receipts' \in Seq(Receipts)
             /\ lost \subseteq lost' /\ lost' \subseteq Request
             /\ \A q \in Request : Open(q) => Open(q)'
             /\ handler'[r].pc = "begun" => Open(r)'
    <2> DEFINE n == IF Len(receipts) - aged >= MaxReceipts THEN aged + 1 ELSE aged
    <2>1. n \in 0 .. Len(receipts)
        BY <1>1 DEF RequestRouterAssumption
    <2>2. receipts' = Append(Young(n), Receipt(r)) /\ Drop(n)
        BY <1>4 DEF Begin
    <2> HIDE DEF n
    <2>3. <<Receipt(r)>> \in Seq(Receipts) /\ receipts' = Young(n) \o <<Receipt(r)>>
        BY <1>1, <1>2, <2>1, <2>2, AppendIsConcat
    <2>4. 1 \in DOMAIN <<Receipt(r)>> /\ <<Receipt(r)>>[1] = Receipt(r)
        OBVIOUS
    <2>5. Open(r)'
        BY <1>1, <2>1, <2>2, <2>3, <2>4, YoungFine
    <2> QED BY <2>1, <2>2, <2>3, <2>5, YoungFine
<1> QED BY <1>3, <1>4 DEF Accept

\* completion(): one of the four words, true of what the answer says was done
LEMMA CompletionTrue ==
    ASSUME NEW a \in Answer, NEW kind \in Kind,
           a.ok => a.effect # "refused", a.effect # "refused" => a.says = "unknown"
    PROVE  /\ Completion(a, kind) \in {"unknown", "notStarted", "partial", "completed"}
           /\ Completion(a, kind) = "notStarted" => a.effect = "refused"
           /\ Completion(a, kind) = "completed" => a.effect = "all"
           /\ Completion(a, kind) = "partial" => a.effect \in {"some", "all"}
BY DEF Completion, Answer, Kind

-----------------------------------------------------------------------------
(* Requests, links and callers agree after every step *)

\* What callers are woken with
LEMMA Wakings ==
    /\ \A a \in Answer : /\ <<>> # <<"answer", a>> /\ <<"dropped">> # <<"answer", a>>
                         /\ <<"answer", a>>[1] = "answer" /\ <<"answer", a>>[2] = a
    /\ <<>> # <<"dropped">> /\ <<"dropped">>[1] = "dropped"
    /\ "answer" # "dropped"
OBVIOUS

\* Links carry requests and answers
LEMMA OnLinks ==
    ASSUME ContractInv
    PROVE  \A c \in Conn :
             /\ \A i \in DOMAIN conn[c].out : conn[c].out[i] \in Request
             /\ \A i \in DOMAIN conn[c].in : conn[c].in[i] \in Answer /\ conn[c].in[i].request \in Request
<1>1. \A c \in Conn : conn[c].out \in Seq(Request) /\ conn[c].in \in Seq(Answer)
    BY DEF ContractInv, TypeOK
<1>2. \A a \in Answer : a.request \in Request
    BY DEF Answer
<1> QED BY <1>1, <1>2

\* Requests and answers stay what they are on links that a step leaves alone, if it
\* does not undo what was sent, done or told
LEMMA LinksKept ==
    ASSUME ContractInv,
           \A c \in Conn : conn'[c].out = conn[c].out /\ conn'[c].in = conn[c].in,
           \A r \in Request : Sent(r) => /\ Sent(r)' /\ handler'[r].to = handler[r].to
                                         /\ effect'[r] = effect[r]
                                         /\ reply'[r] = "notStarted" => reply[r] = "notStarted" \/ effect[r] # "none"
    PROVE  LinksFine' /\ NoRepeats'
<1>1. ASSUME NEW c \in Conn, NEW i \in DOMAIN conn[c].out
      PROVE  ToStudio(conn[c].out[i], c)'
    <2>1. conn[c].out[i] \in Request /\ ToStudio(conn[c].out[i], c)
        BY DEF ContractInv, LinksFine, TypeOK
    <2> QED BY <2>1 DEF ToStudio
<1>2. ASSUME NEW c \in Conn, NEW i \in DOMAIN conn[c].in
      PROVE  FromStudio(conn[c].in[i], c)'
    <2>1. conn[c].in[i] \in Answer /\ FromStudio(conn[c].in[i], c)
        BY DEF ContractInv, LinksFine, TypeOK
    <2> QED BY <2>1 DEF FromStudio, Truthful, Answer
<1> QED BY <1>1, <1>2 DEF LinksFine, NoRepeats, ContractInv

\* Callers stay well informed if what was done of their requests stays
LEMMA WakeKept ==
    ASSUME ContractInv, UNCHANGED wake,
           \A r \in Request : wake[r] # <<>> => effect'[r] = effect[r]
    PROVE  WakeFine'
<1> SUFFICES ASSUME NEW r \in Request, NEW a \in Answer, wake[r] = <<"answer", a>>
             PROVE  a.request = r /\ Truthful(a)'
    BY DEF WakeFine
<1>1. a.request = r /\ Truthful(a) /\ wake[r] # <<>>
    BY Wakings DEF ContractInv, WakeFine
<1> QED BY <1>1 DEF Truthful

\* The steps of a handler that sends nothing
LEMMA HandlerContract ==
    ASSUME ContractInv, NEW r \in Request,
           \/ Refuse(r) \/ Accept(r) \/ AnswerHere(r) \/ FindPlugin(r)
           \/ RegisterRequest(r) \/ Dropped(r) \/ Timeout(r)
    PROVE  HandlersFine' /\ LinksFine' /\ NoRepeats' /\ WakeFine'
<1> USE DEF ContractInv, TypeOK, HandlersFine, Sent
<1>1. CASE Refuse(r)
    BY <1>1, LinksKept, WakeKept DEF Refuse, Replies
<1>2. CASE Accept(r)
    <2>1. handler[r].pc = "new" /\ UNCHANGED <<ask, wake, slot, conn, pending, audit, effect>>
        BY <1>2 DEF Accept
    <2>2. CASE Repeat(r)
        BY <2>1, <2>2, LinksKept, WakeKept DEF Repeat, Replies
    <2>3. CASE Goes(r, "begun") /\ UNCHANGED reply
        BY <2>1, <2>3, LinksKept, WakeKept DEF Goes
    <2> QED BY <1>2, <2>2, <2>3 DEF Accept
<1>3. CASE AnswerHere(r)
    <2>1. /\ handler[r].pc = "begun" /\ wake[r] = <<>>
          /\ UNCHANGED <<ask, wake, slot, conn, pending, audit, lost>>
        BY <1>3 DEF AnswerHere
    <2>2. CASE Replies(r, "completed") /\ effect' = [effect EXCEPT ![r] = "all"]
        BY <2>1, <2>2, LinksKept, WakeKept DEF Replies
    <2>3. CASE Replies(r, "notStarted") /\ UNCHANGED effect
        BY <2>1, <2>3, LinksKept, WakeKept DEF Replies
    <2> QED BY <1>3, <2>2, <2>3 DEF AnswerHere, FailBeforeSend
<1>4. CASE FindPlugin(r)
    <2>1. /\ handler[r].pc = "begun"
          /\ UNCHANGED <<ask, wake, slot, conn, pending, audit, effect, lost>>
        BY <1>4 DEF FindPlugin
    <2>2. CASE Replies(r, "notStarted")
        BY <2>1, <2>2, LinksKept, WakeKept DEF Replies
    <2>3. CASE /\ slot # 0 /\ handler' = [handler EXCEPT ![r] = [pc |-> "found", to |-> slot]]
               /\ UNCHANGED reply
        <3>1. slot \in Conn
            BY <2>3 DEF Conn
        <3>2. \A q \in Request : q # r => handler'[q] = handler[q]
            BY <2>3
        <3>3. handler'[r] = [pc |-> "found", to |-> slot]
            BY <2>3
        <3>4. HandlersFine'
            BY <2>1, <2>3, <3>1, <3>2, <3>3
        <3> QED BY <2>1, <2>3, <3>2, <3>4, LinksKept, WakeKept
    <2> QED BY <1>4, <2>2, <2>3 DEF FindPlugin, FailBeforeSend
<1>5. CASE RegisterRequest(r)
    BY <1>5, LinksKept, WakeKept DEF RegisterRequest, Goes
<1>6. CASE Dropped(r)
    BY <1>6, LinksKept, WakeKept DEF Dropped, Replies
<1>7. CASE Timeout(r)
    BY <1>7, LinksKept, WakeKept DEF Timeout, TimeOut, Replies
<1> QED BY <1>1, <1>2, <1>3, <1>4, <1>5, <1>6, <1>7

\* A frame joins the link its handler found, and only if nothing was decided
LEMMA SendRequestContract ==
    ASSUME ContractInv, NEW r \in Request, SendRequest(r)
    PROVE  HandlersFine' /\ LinksFine' /\ NoRepeats' /\ WakeFine'
<1> DEFINE c == handler[r].to
<1>1. /\ handler[r].pc = "registered" /\ c \in Conn /\ effect[r] = "none" /\ reply[r] = "open"
      /\ UNCHANGED <<ask, wake, slot, audit, effect, lost>>
    BY DEF SendRequest, ContractInv, HandlersFine, Sent
<1>2. CASE Replies(r, "notStarted") /\ pending' = pending \ {r} /\ UNCHANGED conn
    BY <1>1, <1>2, LinksKept, WakeKept DEF Replies, ContractInv, TypeOK, HandlersFine, Sent
<1>3. CASE /\ conn' = [conn EXCEPT ![c].out = Append(@, r)] /\ Goes(r, "waiting")
           /\ UNCHANGED <<pending, receipts, reply>>
    <2>1. HandlersFine' /\ WakeFine'
        BY <1>1, <1>3, WakeKept DEF Goes, ContractInv, TypeOK, HandlersFine, Sent
    <2>2. /\ Sent(r)' /\ handler'[r].to = c /\ effect'[r] = "none" /\ reply'[r] # "notStarted"
          /\ \A q \in Request, d \in Conn : ToStudio(q, d) => ToStudio(q, d)'
          /\ \A a \in Answer, d \in Conn : FromStudio(a, d) => FromStudio(a, d)'
        BY <1>1, <1>3 DEF Goes, ToStudio, FromStudio, Truthful, Sent, ContractInv, TypeOK, Answer
    <2>3. /\ \A d \in Conn : /\ conn'[d].in = conn[d].in
                             /\ conn'[d].out = IF d = c THEN Append(conn[c].out, r) ELSE conn[d].out
          /\ conn[c].out \in Seq(Request)
        BY <1>1, <1>3 DEF ContractInv, TypeOK
    <2>4. \A i \in DOMAIN conn[c].out : conn[c].out[i] # r
        BY <1>1 DEF ContractInv, LinksFine, ToStudio, Sent
    <2> HIDE DEF c
    <2>5. /\ DOMAIN conn'[c].out = 1 .. Len(conn[c].out) + 1 /\ Len(conn[c].out) \in Nat
          /\ \A i \in 1 .. Len(conn[c].out) : i \in DOMAIN conn[c].out /\ conn'[c].out[i] = conn[c].out[i]
          /\ conn'[c].out[Len(conn[c].out) + 1] = r
        <3>1. conn'[c].out = Append(conn[c].out, r)
            BY <1>1, <2>3
        <3> QED BY <3>1, <2>3
    <2>6. NoRepeats'
        <3>1. \A i, j \in DOMAIN conn'[c].out : conn'[c].out[i] = conn'[c].out[j] => i = j
            <4> DEFINE n == Len(conn[c].out)
            <4>1. \A i, j \in 1 .. n : conn'[c].out[i] = conn'[c].out[j] => i = j
                <5>1. \A i, j \in DOMAIN conn[c].out : conn[c].out[i] = conn[c].out[j] => i = j
                    BY <1>1 DEF ContractInv, NoRepeats
                <5> QED BY <2>5, <5>1
            <4>2. \A i \in 1 .. n : conn'[c].out[i] # conn'[c].out[n + 1]
                BY <2>4, <2>5
            <4>3. \A i \in DOMAIN conn'[c].out : i \in 1 .. n \/ i = n + 1
                BY <2>5
            <4> HIDE DEF n
            <4> QED BY <4>1, <4>2, <4>3
        <3> QED BY <2>3, <3>1 DEF ContractInv, NoRepeats
    <2>7. ASSUME NEW d \in Conn, NEW i \in DOMAIN conn'[d].out
          PROVE  ToStudio(conn[d].out[i], d)'
        <3>1. CASE d = c /\ i = Len(conn[c].out) + 1
            <4>1. conn'[d].out[i] = r
                BY <3>1, <2>5
            <4> QED BY <3>1, <4>1, <2>2 DEF ToStudio, Sent
        <3>2. CASE ~(d = c /\ i = Len(conn[c].out) + 1)
            <4>1. i \in DOMAIN conn[d].out /\ conn'[d].out[i] = conn[d].out[i]
                BY <3>2, <2>3, <2>5
            <4>2. conn[d].out[i] \in Request /\ ToStudio(conn[d].out[i], d)
                BY <4>1 DEF ContractInv, TypeOK, LinksFine
            <4> QED BY <4>1, <4>2, <2>2 DEF ToStudio, Sent
        <3> QED BY <3>1, <3>2
    <2>8. ASSUME NEW d \in Conn, NEW i \in DOMAIN conn'[d].in
          PROVE  FromStudio(conn[d].in[i], d)'
        <3>1. i \in DOMAIN conn[d].in /\ conn'[d].in[i] = conn[d].in[i]
            BY <2>3
        <3>2. conn[d].in[i] \in Answer /\ FromStudio(conn[d].in[i], d)
            BY <3>1 DEF ContractInv, TypeOK, LinksFine
        <3> QED BY <3>1, <3>2, <2>2 DEF FromStudio, Sent, Truthful
    <2> QED BY <2>1, <2>6, <2>7, <2>8 DEF LinksFine
<1> QED BY <1>2, <1>3 DEF SendRequest, FailBeforeSend

\* What the caller is told of an answer is true
LEMMA DeliverTrue ==
    ASSUME ContractInv, NEW r \in Request, Deliver(r)
    PROVE  \E v \in {"unknown", "notStarted", "partial", "completed"} :
             /\ Replies(r, v)
             /\ v = "notStarted" => effect[r] = "refused"
             /\ v = "completed" => effect[r] = "all"
             /\ v = "partial" => effect[r] \in {"some", "all"}
<1>1. PICK a \in Answer : wake[r] = <<"answer", a>>
    BY Wakings DEF Deliver, ContractInv, TypeOK, Woken
<1>2. wake[r][2] = a /\ a.request = r /\ Truthful(a)
    BY <1>1, Wakings DEF ContractInv, WakeFine
<1> DEFINE v == Completion(a, ask[r].kind)
<1>3. Replies(r, v)
    BY <1>2 DEF Deliver
<1>4. ask[r].kind \in Kind
    BY DEF ContractInv, TypeOK
<1>5. /\ v \in {"unknown", "notStarted", "partial", "completed"}
      /\ v = "notStarted" => effect[r] = "refused"
      /\ v = "completed" => effect[r] = "all"
      /\ v = "partial" => effect[r] \in {"some", "all"}
    BY <1>2, <1>4, CompletionTrue DEF Truthful
<1> QED BY <1>3, <1>5

\* A request called "notStarted" by its answer is not on a link to Studio
LEMMA DeliverContract ==
    ASSUME ContractInv, NEW r \in Request, Deliver(r)
    PROVE  HandlersFine' /\ LinksFine' /\ NoRepeats' /\ WakeFine'
<1>1. /\ handler[r].pc = "waiting"
      /\ UNCHANGED <<ask, wake, slot, conn, pending, receipts, audit, effect, lost>>
    BY DEF Deliver
<1>2. PICK v \in {"unknown", "notStarted", "partial", "completed"} :
             Replies(r, v) /\ (v = "notStarted" => effect[r] = "refused")
    BY DeliverTrue
<1> QED BY <1>1, <1>2, LinksKept, WakeKept DEF Replies, ContractInv, TypeOK, HandlersFine, Sent

\* The first of a sequence, and the rest
LEMMA HeadTail ==
    ASSUME NEW S, NEW s \in Seq(S), s # <<>>
    PROVE  /\ Len(s) \in Nat /\ 1 \in DOMAIN s /\ Head(s) = s[1] /\ s[1] \in S
           /\ DOMAIN s = 1 .. Len(s) /\ DOMAIN Tail(s) = 1 .. Len(s) - 1
           /\ Tail(s) \in Seq(S)
           /\ \A i \in DOMAIN Tail(s) : i + 1 \in DOMAIN s /\ i + 1 # 1 /\ Tail(s)[i] = s[i + 1]
OBVIOUS

\* Studio runs what is first on a link: the answer joins the others of that link
LEMMA ExecuteContract ==
    ASSUME ContractInv, NEW c \in Conn, Execute(c)
    PROVE  HandlersFine' /\ LinksFine' /\ NoRepeats' /\ WakeFine'
<1> DEFINE s == conn[c].out
           r == Head(s)
<1>1. PICK a \in Answer :
        /\ a.request = r /\ (a.ok => a.effect # "refused") /\ (a.effect # "refused" => a.says = "unknown")
        /\ effect' = [effect EXCEPT ![r] = a.effect]
        /\ conn' = [conn EXCEPT ![c].out = Tail(@), ![c].in = Append(@, a)]
    BY DEF Execute
<1>2. s # <<>> /\ s \in Seq(Request) /\ conn[c].in \in Seq(Answer)
      /\ UNCHANGED <<ask, handler, wake, slot, pending, receipts, audit, reply, lost>>
    BY DEF Execute, ContractInv, TypeOK
<1>3. /\ r \in Request /\ r = s[1] /\ 1 \in DOMAIN s /\ Len(s) \in Nat
      /\ DOMAIN s = 1 .. Len(s) /\ DOMAIN Tail(s) = 1 .. Len(s) - 1
      /\ \A i \in DOMAIN Tail(s) : i + 1 \in DOMAIN s /\ i + 1 # 1 /\ Tail(s)[i] = s[i + 1]
    BY <1>2, HeadTail
<1>4. ToStudio(r, c)
    BY <1>3 DEF ContractInv, LinksFine
<1>5. a.effect # "none" /\ a.effect \in {"none", "refused", "some", "all"} /\ effect \in [Request -> {"none", "refused", "some", "all"}]
    BY DEF Answer, ContractInv, TypeOK
<1>6. /\ FromStudio(a, c)'
      /\ \A q \in Request, d \in Conn : q # r /\ ToStudio(q, d) => ToStudio(q, d)'
      /\ \A b \in Answer, d \in Conn : FromStudio(b, d) => FromStudio(b, d)' /\ b.request # r
    BY <1>1, <1>2, <1>3, <1>4, <1>5 DEF ToStudio, FromStudio, Truthful, Sent, Answer
<1>7. /\ \A d \in Conn : d # c => conn'[d] = conn[d]
      /\ conn'[c].out = Tail(s) /\ conn'[c].in = Append(conn[c].in, a)
    BY <1>1 DEF ContractInv, TypeOK
<1>8. /\ DOMAIN conn'[c].in = 1 .. Len(conn[c].in) + 1 /\ Len(conn[c].in) \in Nat
      /\ \A i \in 1 .. Len(conn[c].in) : i \in DOMAIN conn[c].in /\ conn'[c].in[i] = conn[c].in[i]
      /\ conn'[c].in[Len(conn[c].in) + 1] = a
    BY <1>2, <1>7
<1> HIDE DEF s, r
<1>9. HandlersFine'
    BY <1>1, <1>2, <1>3, <1>4, <1>5 DEF ContractInv, HandlersFine, ToStudio, Sent
<1>10. WakeFine'
    <2>1. wake[r] = <<>> \/ wake[r] = <<"dropped">>
        <3>1. wake[r] \in Woken
            BY <1>3 DEF ContractInv, TypeOK
        <3>2. ASSUME NEW b \in Answer, wake[r] = <<"answer", b>>
              PROVE  FALSE
            <4>1. effect[r] = b.effect
                BY <3>2, <1>3 DEF ContractInv, WakeFine, Truthful
            <4> QED BY <4>1, <1>4 DEF ToStudio, Answer
        <3> QED BY <3>1, <3>2 DEF Woken
    <2> SUFFICES ASSUME NEW q \in Request, NEW b \in Answer, wake[q] = <<"answer", b>>
                 PROVE  b.request = q /\ Truthful(b)'
        BY <1>2 DEF WakeFine
    <2>2. b.request = q /\ Truthful(b) /\ q # r
        BY <2>1, Wakings DEF ContractInv, WakeFine
    <2> QED BY <1>1, <1>5, <2>2 DEF Truthful
<1>11. ASSUME NEW d \in Conn, NEW i \in DOMAIN conn'[d].out
       PROVE  ToStudio(conn[d].out[i], d)'
    <2>1. CASE d = c
        <3>1. conn'[d].out[i] = s[i + 1] /\ i + 1 \in DOMAIN s /\ s[i + 1] # s[1]
            BY <2>1, <1>3, <1>7 DEF ContractInv, NoRepeats, s
        <3>2. s[i + 1] \in Request /\ ToStudio(s[i + 1], c)
            BY <3>1, <1>2 DEF ContractInv, LinksFine, s
        <3> QED BY <2>1, <3>1, <3>2, <1>3, <1>6 DEF ToStudio, Sent
    <2>2. CASE d # c
        <3>1. conn'[d].out[i] \in Request /\ ToStudio(conn'[d].out[i], d)
            BY <2>2, <1>7 DEF ContractInv, LinksFine, TypeOK
        <3>2. conn'[d].out[i] # r
            BY <2>2, <3>1, <1>4 DEF ToStudio
        <3> QED BY <3>1, <3>2, <1>6 DEF ToStudio, Sent
    <2> QED BY <2>1, <2>2
<1>12. ASSUME NEW d \in Conn, NEW i \in DOMAIN conn'[d].in
       PROVE  FromStudio(conn[d].in[i], d)'
    <2>1. CASE d = c /\ i = Len(conn[c].in) + 1
        <3>1. conn'[d].in[i] = a
            BY <2>1, <1>8
        <3> QED BY <2>1, <3>1, <1>6 DEF FromStudio, Sent, Truthful
    <2>2. CASE ~(d = c /\ i = Len(conn[c].in) + 1)
        <3>1. i \in DOMAIN conn[d].in /\ conn'[d].in[i] = conn[d].in[i]
            BY <2>2, <1>7, <1>8
        <3>2. conn[d].in[i] \in Answer /\ FromStudio(conn[d].in[i], d)
            BY <3>1 DEF ContractInv, LinksFine, TypeOK
        <3> QED BY <3>1, <3>2, <1>6 DEF FromStudio, Sent, Truthful
    <2> QED BY <2>1, <2>2
<1>13. NoRepeats'
    <2>1. \A i, j \in DOMAIN conn'[c].out : conn'[c].out[i] = conn'[c].out[j] => i = j
        BY <1>3, <1>7 DEF ContractInv, NoRepeats, s
    <2>2. \A i \in DOMAIN conn[c].in : conn[c].in[i].request # r
        BY <1>2, <1>6 DEF ContractInv, LinksFine
    <2>3. \A i, j \in DOMAIN conn'[c].in : conn'[c].in[i].request = conn'[c].in[j].request => i = j
        <3> SUFFICES ASSUME NEW i \in DOMAIN conn'[c].in, NEW j \in DOMAIN conn'[c].in,
                            conn'[c].in[i].request = conn'[c].in[j].request
                     PROVE  i = j
            OBVIOUS
        <3>1. CASE i = Len(conn[c].in) + 1 /\ j # i
            <4>1. j \in DOMAIN conn[c].in /\ conn'[c].in[j] = conn[c].in[j]
                BY <3>1, <1>8
            <4>2. conn'[c].in[i].request = r
                BY <3>1, <1>1, <1>8
            <4> QED BY <4>1, <4>2, <2>2
        <3>2. CASE j = Len(conn[c].in) + 1 /\ j # i
            <4>1. i \in DOMAIN conn[c].in /\ conn'[c].in[i] = conn[c].in[i]
                BY <3>2, <1>8
            <4>2. conn'[c].in[j].request = r
                BY <3>2, <1>1, <1>8
            <4> QED BY <4>1, <4>2, <2>2
        <3>3. CASE i \in 1 .. Len(conn[c].in) /\ j \in 1 .. Len(conn[c].in)
            BY <3>3, <1>8 DEF ContractInv, NoRepeats
        <3> QED BY <3>1, <3>2, <3>3, <1>8
    <2> QED BY <2>1, <2>3, <1>7 DEF ContractInv, NoRepeats
<1> QED BY <1>9, <1>10, <1>11, <1>12, <1>13 DEF LinksFine

\* The steps of a connection that run nothing: what is handled was read off its link
LEMMA ConnContract ==
    ASSUME ContractInv, NEW c \in Conn,
           \/ Claim(c) \/ RecordAudit(c) \/ LookUp(c) \/ FinishReceipt(c)
           \/ LoopEnds(c) \/ CleanupReleases(c)
    PROVE  HandlersFine' /\ LinksFine' /\ NoRepeats' /\ WakeFine'
<1>1. UNCHANGED <<ask, handler, wake, pending, effect, reply>>
    BY DEF Claim, RecordAudit, LookUp, FinishReceipt, LoopEnds, CleanupReleases
<1>2. HandlersFine' /\ WakeFine'
    BY <1>1, WakeKept DEF ContractInv, HandlersFine, Sent
<1>3. ASSUME NEW pc, Phase(c, pc)
      PROVE  LinksFine' /\ NoRepeats'
    <2>1. \A d \in Conn : conn'[d].out = conn[d].out /\ conn'[d].in = conn[d].in
        BY <1>3 DEF Phase, ContractInv, TypeOK
    <2> QED BY <1>1, <2>1, LinksKept DEF Sent
<1>4. CASE LoopEnds(c)
    <2>1. /\ \A d \in Conn : d # c => conn'[d] = conn[d]
          /\ DOMAIN conn'[c].out = {} /\ DOMAIN conn'[c].in = {}
        BY <1>4 DEF LoopEnds, ContractInv, TypeOK
    <2>2. LinksFine' /\ NoRepeats'
        BY <1>1, <2>1 DEF ContractInv, LinksFine, NoRepeats, ToStudio, FromStudio, Truthful, Sent
    <2> QED BY <1>2, <2>2
<1> QED BY <1>2, <1>3, <1>4 DEF Claim, RecordAudit, LookUp, FinishReceipt, CleanupReleases

LEMMA CleanupFailsContract ==
    ASSUME ContractInv, NEW c \in Conn, CleanupFails(c)
    PROVE  HandlersFine' /\ LinksFine' /\ NoRepeats' /\ WakeFine'
<1>1. /\ UNCHANGED <<ask, handler, effect, reply>>
      /\ \A r \in Request : wake'[r] = IF r \in pending THEN <<"dropped">> ELSE wake[r]
      /\ pending' = {}
      /\ \A d \in Conn : conn'[d].out = conn[d].out /\ conn'[d].in = conn[d].in
    BY DEF CleanupFails, Phase, ContractInv, TypeOK
<1>2. HandlersFine'
    BY <1>1 DEF ContractInv, HandlersFine, Sent
<1>3. LinksFine' /\ NoRepeats'
    BY <1>1, LinksKept DEF Sent
<1>4. WakeFine'
    <2> SUFFICES ASSUME NEW r \in Request, NEW a \in Answer, wake'[r] = <<"answer", a>>
                 PROVE  a.request = r /\ Truthful(a)'
        BY DEF WakeFine
    <2>1. wake[r] = <<"answer", a>>
        BY <1>1, Wakings
    <2> QED BY <1>1, <2>1 DEF ContractInv, WakeFine, Truthful
<1> QED BY <1>2, <1>3, <1>4

\* The caller is woken with the answer that is in hand
LEMMA WakeCallerContract ==
    ASSUME ContractInv, PhasesFine, NEW c \in Conn, WakeCaller(c)
    PROVE  HandlersFine' /\ LinksFine' /\ NoRepeats' /\ WakeFine'
<1> DEFINE s == conn[c].in
           a == s[1]
<1>1. s # <<>> /\ s \in Seq(Answer)
    BY DEF WakeCaller, ContractInv, TypeOK, PhasesFine
<1>2. /\ a \in Answer /\ a = Head(s) /\ 1 \in DOMAIN s
      /\ DOMAIN s = 1 .. Len(s) /\ DOMAIN Tail(s) = 1 .. Len(s) - 1 /\ Len(s) \in Nat
      /\ \A i \in DOMAIN Tail(s) : i + 1 \in DOMAIN s /\ i + 1 # 1 /\ Tail(s)[i] = s[i + 1]
    BY <1>1, HeadTail
<1>3. /\ UNCHANGED <<ask, handler, slot, receipts, audit, effect, reply, lost>>
      /\ pending' = pending \ {a.request}
      /\ wake' = IF a.request \in pending THEN [wake EXCEPT ![a.request] = <<"answer", a>>] ELSE wake
      /\ conn' = [conn EXCEPT ![c].pc = "live", ![c].in = Tail(@)]
    BY <1>2 DEF WakeCaller
<1>4. /\ \A d \in Conn : conn'[d].out = conn[d].out /\ (d # c => conn'[d].in = conn[d].in)
      /\ conn'[c].in = Tail(s)
    BY <1>3 DEF ContractInv, TypeOK
<1>5. a.request \in Request /\ FromStudio(a, c)
    BY <1>2 DEF ContractInv, LinksFine, Answer
<1> HIDE DEF s, a
<1>6. \A r \in Request : wake'[r] = IF r = a.request /\ r \in pending THEN <<"answer", a>> ELSE wake[r]
    BY <1>3, <1>5 DEF ContractInv, TypeOK
<1>7. HandlersFine'
    BY <1>3, <1>5, <1>6 DEF ContractInv, HandlersFine, FromStudio, Sent
<1>8. LinksFine'
    <2>1. ASSUME NEW d \in Conn, NEW i \in DOMAIN conn'[d].out
          PROVE  ToStudio(conn[d].out[i], d)'
        <3>1. conn'[d].out = conn[d].out /\ ToStudio(conn[d].out[i], d)
            BY <1>4 DEF ContractInv, LinksFine
        <3> QED BY <1>3, <3>1 DEF ToStudio, Sent
    <2>2. \A i \in DOMAIN Tail(s) : FromStudio(Tail(s)[i], c)
        BY <1>2 DEF ContractInv, LinksFine, s
    <2>3. ASSUME NEW d \in Conn, NEW i \in DOMAIN conn'[d].in
          PROVE  FromStudio(conn[d].in[i], d)'
        <3>1. FromStudio(conn'[d].in[i], d)
            BY <1>4, <2>2 DEF ContractInv, LinksFine
        <3> QED BY <1>3, <3>1 DEF FromStudio, Truthful, Sent
    <2> QED BY <2>1, <2>3 DEF LinksFine
<1>9. NoRepeats'
    <2>1. \A i, j \in DOMAIN conn'[c].in : conn'[c].in[i].request = conn'[c].in[j].request => i = j
        BY <1>2, <1>4 DEF ContractInv, NoRepeats, s
    <2> QED BY <2>1, <1>4 DEF ContractInv, NoRepeats
<1>10. WakeFine'
    <2> SUFFICES ASSUME NEW r \in Request, NEW b \in Answer, wake'[r] = <<"answer", b>>
                 PROVE  b.request = r /\ Truthful(b)'
        BY DEF WakeFine
    <2>1. CASE r = a.request /\ r \in pending
        <3>1. b = a
            BY <1>2, <1>6, <2>1, Wakings
        <3> QED BY <3>1, <2>1, <1>3, <1>5 DEF FromStudio, Truthful
    <2>2. CASE ~(r = a.request /\ r \in pending)
        BY <2>2, <1>3, <1>6 DEF ContractInv, WakeFine, Truthful
    <2> QED BY <2>1, <2>2
<1> QED BY <1>7, <1>8, <1>9, <1>10

-----------------------------------------------------------------------------
(* Types after every step *)

\* A handler that replies or moves on
LEMMA RepliesTypes ==
    ASSUME TypeOK, NEW r \in Request
    PROVE  /\ \A v \in {"unknown", "notStarted", "partial", "completed"} : Replies(r, v) =>
                /\ handler' \in [Request -> [pc : HandlerPc, to : 0 .. MaxConns]]
                /\ reply' \in [Request -> {"open", "notStarted", "unknown", "partial", "completed"}]
           /\ \A pc \in HandlerPc : Goes(r, pc) =>
                handler' \in [Request -> [pc : HandlerPc, to : 0 .. MaxConns]]
<1>1. ASSUME NEW pc \in HandlerPc, Goes(r, pc)
      PROVE  handler' \in [Request -> [pc : HandlerPc, to : 0 .. MaxConns]]
    BY <1>1 DEF TypeOK, Goes
<1>2. ASSUME NEW v \in {"unknown", "notStarted", "partial", "completed"}, Replies(r, v)
      PROVE  /\ handler' \in [Request -> [pc : HandlerPc, to : 0 .. MaxConns]]
             /\ reply' \in [Request -> {"open", "notStarted", "unknown", "partial", "completed"}]
    <2>1. "replied" \in HandlerPc /\ Goes(r, "replied")
        BY <1>2 DEF HandlerPc, Replies, Goes
    <2>2. reply' \in [Request -> {"open", "notStarted", "unknown", "partial", "completed"}]
        BY <1>2 DEF Replies, TypeOK
    <2> QED BY <1>1, <2>1, <2>2
<1> QED BY <1>1, <1>2

\* A step of a handler
LEMMA HandlerTypes ==
    ASSUME ContractInv, NEW r \in Request, HandlerStep(r)
    PROVE  TypeOK'
<1>0. TypeOK /\ "begun" \in HandlerPc /\ "registered" \in HandlerPc /\ "waiting" \in HandlerPc
    BY DEF ContractInv, HandlerPc
<1>1. CASE Refuse(r)
    BY <1>0, <1>1, RepliesTypes DEF Refuse, TypeOK
<1>2. CASE Accept(r)
    <2>1. receipts' \in Seq(Receipts) /\ lost' \subseteq Request
        BY <1>0, <1>2, AcceptReceipts, RequestRouterAssumption
    <2>2. UNCHANGED <<ask, wake, slot, conn, pending, audit, effect>>
        BY <1>2 DEF Accept
    <2>3. /\ handler' \in [Request -> [pc : HandlerPc, to : 0 .. MaxConns]]
          /\ reply' \in [Request -> {"open", "notStarted", "unknown", "partial", "completed"}]
        <3>1. CASE Repeat(r)
            BY <1>0, <3>1, RepliesTypes DEF Repeat
        <3>2. CASE Goes(r, "begun") /\ UNCHANGED reply
            BY <1>0, <3>2, RepliesTypes DEF TypeOK
        <3> QED BY <1>2, <3>1, <3>2 DEF Accept
    <2> QED BY <1>0, <2>1, <2>2, <2>3 DEF TypeOK
<1>3. CASE AnswerHere(r)
    <2>1. UNCHANGED <<ask, wake, slot, conn, pending, audit, lost>>
        BY <1>3 DEF AnswerHere
    <2>2. \E v \in {"notStarted", "completed"} : Finish(r, v) /\ Replies(r, v)
        BY <1>3 DEF AnswerHere, FailBeforeSend
    <2>3. effect' \in [Request -> {"none", "refused", "some", "all"}]
        BY <1>0, <1>3 DEF AnswerHere, TypeOK
    <2> QED BY <1>0, <2>1, <2>2, <2>3, FinishType, RepliesTypes DEF TypeOK
<1>4. CASE FindPlugin(r)
    <2>1. UNCHANGED <<ask, wake, slot, conn, pending, audit, effect, lost>>
        BY <1>4 DEF FindPlugin
    <2>2. CASE FailBeforeSend(r)
        BY <1>0, <2>1, <2>2, FinishType, RepliesTypes DEF FailBeforeSend, TypeOK
    <2>3. CASE /\ handler' = [handler EXCEPT ![r] = [pc |-> "found", to |-> slot]]
               /\ UNCHANGED <<receipts, reply>>
        <3>1. handler' \in [Request -> [pc : HandlerPc, to : 0 .. MaxConns]]
            BY <1>0, <2>3 DEF TypeOK, HandlerPc
        <3> QED BY <1>0, <2>1, <2>3, <3>1 DEF TypeOK
    <2> QED BY <1>4, <2>2, <2>3 DEF FindPlugin
<1>5. CASE RegisterRequest(r)
    BY <1>0, <1>5, RepliesTypes DEF RegisterRequest, TypeOK
<1>6. CASE SendRequest(r)
    <2> DEFINE c == handler[r].to
    <2>1. c \in Conn /\ UNCHANGED <<ask, wake, slot, audit, effect, lost>>
        BY <1>6 DEF SendRequest, ContractInv, HandlersFine
    <2>2. CASE pending' = pending \ {r} /\ FailBeforeSend(r) /\ UNCHANGED conn
        BY <1>0, <2>1, <2>2, FinishType, RepliesTypes DEF FailBeforeSend, TypeOK
    <2>3. CASE /\ conn' = [conn EXCEPT ![c].out = Append(@, r)] /\ Goes(r, "waiting")
               /\ UNCHANGED <<pending, receipts, reply>>
        <3>1. Append(conn[c].out, r) \in Seq(Request)
            BY <1>0, <2>1 DEF TypeOK
        <3>2. conn' \in [Conn -> [pc : ConnPc, out : Seq(Request), in : Seq(Answer)]]
            BY <1>0, <2>1, <2>3, <3>1 DEF TypeOK
        <3> QED BY <1>0, <2>1, <2>3, <3>2, RepliesTypes DEF TypeOK
    <2> QED BY <1>6, <2>2, <2>3 DEF SendRequest
<1>7. CASE Deliver(r)
    <2>1. PICK v \in {"unknown", "notStarted", "partial", "completed"} : Replies(r, v)
        BY <1>7, DeliverTrue
    <2> QED BY <1>0, <1>7, <2>1, RepliesTypes DEF Deliver, TypeOK
<1>8. CASE Dropped(r)
    BY <1>0, <1>8, FinishType, RepliesTypes DEF Dropped, TypeOK
<1>9. CASE Timeout(r)
    BY <1>0, <1>9, RepliesTypes DEF Timeout, TimeOut, TypeOK
<1> QED BY <1>1, <1>2, <1>3, <1>4, <1>5, <1>6, <1>7, <1>8, <1>9 DEF HandlerStep

\* What finishes a receipt is one of the four words
LEMMA AnswerInHand ==
    ASSUME ContractInv, PhasesFine, NEW c \in Conn, conn[c].pc \in {"audited", "named", "finished"}
    PROVE  LET a == Head(conn[c].in)
           IN  /\ conn[c].in # <<>> /\ a = conn[c].in[1] /\ 1 \in DOMAIN conn[c].in
               /\ a \in Answer /\ a.request \in Request /\ FromStudio(a, c)
               /\ Completion(a, ask[a.request].kind) \in {"unknown", "notStarted", "partial", "completed"}
<1> DEFINE a == Head(conn[c].in)
<1>1. conn[c].in # <<>> /\ conn[c].in \in Seq(Answer)
    BY DEF PhasesFine, ContractInv, TypeOK
<1>2. a = conn[c].in[1] /\ 1 \in DOMAIN conn[c].in /\ a \in Answer
    BY <1>1, HeadTail
<1>3. a.request \in Request /\ FromStudio(a, c)
    BY <1>2 DEF ContractInv, LinksFine, Answer
<1>4. ask[a.request].kind \in Kind
    BY <1>3 DEF ContractInv, TypeOK
<1>5. Completion(a, ask[a.request].kind) \in {"unknown", "notStarted", "partial", "completed"}
    BY <1>2, <1>3, <1>4, CompletionTrue DEF FromStudio, Truthful
<1> QED BY <1>1, <1>2, <1>3, <1>5

\* Both ends of a link replaced
LEMMA BothEnds ==
    ASSUME NEW P, NEW S, NEW T, NEW links \in [Conn -> [pc : P, out : S, in : T]],
           NEW c \in Conn, NEW s \in S, NEW t \in T
    PROVE  [links EXCEPT ![c].out = s, ![c].in = t] \in [Conn -> [pc : P, out : S, in : T]]
<1> DEFINE half == [links EXCEPT ![c].out = s]
<1>1. half \in [Conn -> [pc : P, out : S, in : T]]
    OBVIOUS
<1> HIDE DEF half
<1>2. [half EXCEPT ![c].in = t] \in [Conn -> [pc : P, out : S, in : T]]
    BY <1>1
<1> QED BY <1>2 DEF half

\* A step of a connection
LEMMA ConnTypes ==
    ASSUME ContractInv, PhasesFine, NEW c \in Conn, ConnStep(c)
    PROVE  TypeOK'
<1> DEFINE Link == [pc : ConnPc, out : Seq(Request), in : Seq(Answer)]
<1>0. conn \in [Conn -> Link] /\ conn[c].out \in Seq(Request) /\ conn[c].in \in Seq(Answer)
    BY DEF ContractInv, TypeOK
<1> USE DEF ContractInv, TypeOK
<1>10. ASSUME NEW pc \in ConnPc, Phase(c, pc)
      PROVE  conn' \in [Conn -> Link]
    BY <1>0, <1>10 DEF Phase
<1> HIDE DEF Link
<1>11. \A pc \in {"live", "audited", "named", "finished", "fail", "gone"} : pc \in ConnPc
    BY DEF ConnPc
<1>12. conn' \in [Conn -> Link] => conn' \in [Conn -> [pc : ConnPc, out : Seq(Request), in : Seq(Answer)]]
    BY DEF Link
<1>1. CASE Claim(c)
    <2>1. slot' \in 0 .. MaxConns
        BY <1>1 DEF Claim, Conn
    <2> QED BY <1>1, <1>10, <1>11, <1>12, <2>1 DEF Claim
<1>2. CASE Execute(c)
    <2>1. PICK a \in Answer :
            /\ a.request = Head(conn[c].out) /\ effect' = [effect EXCEPT ![a.request] = a.effect]
            /\ conn' = [conn EXCEPT ![c].out = Tail(@), ![c].in = Append(@, a)]
        BY <1>2 DEF Execute
    <2>2. conn[c].out # <<>>
        BY <1>2 DEF Execute
    <2>3. Tail(conn[c].out) \in Seq(Request) /\ Append(conn[c].in, a) \in Seq(Answer)
        BY <1>0, <2>2
    <2>4. conn' \in [Conn -> Link]
        <3>1. ASSUME NEW s \in Seq(Request), NEW t \in Seq(Answer)
              PROVE  [conn EXCEPT ![c].out = s, ![c].in = t] \in [Conn -> Link]
            BY <1>0, BothEnds DEF Link
        <3>2. conn' = [conn EXCEPT ![c].out = Tail(conn[c].out), ![c].in = Append(conn[c].in, a)]
            BY <1>0, <2>1 DEF Link
        <3> QED BY <2>3, <3>1, <3>2
    <2>5. a.effect \in {"refused", "some", "all"}
        BY DEF Answer
    <2>6. effect' \in [Request -> {"none", "refused", "some", "all"}]
        BY <2>1, <2>5
    <2> QED BY <1>2, <1>12, <2>4, <2>6 DEF Execute
<1>3. CASE RecordAudit(c)
    <2>1. Head(conn[c].in) \in Answer
        BY <1>3, <1>0, HeadTail DEF RecordAudit
    <2>2. Head(conn[c].in).request \in Request
        BY <2>1 DEF Answer
    <2> QED BY <1>3, <1>10, <1>11, <1>12, <2>2 DEF RecordAudit
<1>4. CASE LookUp(c)
    BY <1>4, <1>10, <1>11, <1>12 DEF LookUp
<1>5. CASE FinishReceipt(c)
    <2>1. receipts' \in Seq(Receipts)
        BY <1>5, AnswerInHand, FinishType DEF FinishReceipt
    <2> QED BY <1>5, <1>10, <1>11, <1>12, <2>1 DEF FinishReceipt
<1>6. CASE WakeCaller(c)
    <2> DEFINE a == Head(conn[c].in)
    <2>1. conn[c].in # <<>> /\ a \in Answer /\ a.request \in Request
        BY <1>6, AnswerInHand DEF WakeCaller
    <2>2. Tail(conn[c].in) \in Seq(Answer)
        BY <1>0, <2>1
    <2>3. conn' \in [Conn -> Link]
        BY <1>0, <1>6, <2>2 DEF WakeCaller, ConnPc, Link
    <2>4. <<"answer", a>> \in Woken
        BY <2>1 DEF Woken
    <2>5. wake' \in [Request -> Woken]
        BY <1>6, <2>1, <2>4 DEF WakeCaller
    <2> QED BY <1>6, <1>12, <2>3, <2>5 DEF WakeCaller
<1>7. CASE LoopEnds(c)
    <2>1. {a.request : a \in ToSet(conn[c].in)} \subseteq Request
        <3>1. ToSet(conn[c].in) \subseteq Answer
            BY <1>0 DEF ToSet
        <3> QED BY <3>1 DEF Answer
    <2>2. [pc |-> "release", out |-> <<>>, in |-> <<>>] \in Link
        BY DEF ConnPc, Link
    <2>3. conn' \in [Conn -> Link]
        BY <1>0, <1>7, <2>2 DEF LoopEnds
    <2> QED BY <1>7, <1>12, <2>1, <2>3 DEF LoopEnds
<1>8. CASE CleanupReleases(c)
    <2>1. slot' \in 0 .. MaxConns
        BY <1>8, RequestRouterAssumption DEF CleanupReleases, Release, RequestRouterAssumption
    <2> QED BY <1>8, <1>10, <1>11, <1>12, <2>1 DEF CleanupReleases
<1>9. CASE CleanupFails(c)
    <2>1. <<"dropped">> \in Woken
        BY DEF Woken
    <2>2. wake' \in [Request -> Woken]
        BY <1>9, <2>1 DEF CleanupFails
    <2> QED BY <1>9, <1>10, <1>11, <1>12, <2>2 DEF CleanupFails
<1> QED BY <1>1, <1>2, <1>3, <1>4, <1>5, <1>6, <1>7, <1>8, <1>9 DEF ConnStep

-----------------------------------------------------------------------------
(* What Studio reports is audited: steps of handlers *)

\* A request no connection has in hand
OffLinks(r) ==
    \A c \in Conn : conn[c].pc \in Running =>
        /\ \A i \in DOMAIN conn[c].out : conn[c].out[i] # r
        /\ \A i \in DOMAIN conn[c].in : conn[c].in[i].request # r

\* A step that leaves the connections alone and closes no receipt whose answer is to come
LEMMA AuditKept ==
    ASSUME RouterInv, UNCHANGED <<ask, conn>>, audit \subseteq audit', lost \subseteq lost',
           \A q \in Request : effect'[q] = effect[q] \/ ask[q].kind = "daemon",
           \A q \in Request : Open(q) => Open(q)' \/ OffLinks(q)
    PROVE  OnTheWay' /\ InHand' /\ PhasesFine' /\ LateAnswersAudited'
<1>1. OnTheWay'
    <2> SUFFICES ASSUME NEW c \in Conn, conn[c].pc \in Running, NEW i \in DOMAIN conn[c].out
                 PROVE  Open(conn[c].out[i])'
        BY DEF OnTheWay
    <2>1. conn[c].out[i] \in Request /\ Open(conn[c].out[i]) /\ ~OffLinks(conn[c].out[i])
        BY DEF RouterInv, ContractInv, TypeOK, AuditInv, OnTheWay, OffLinks
    <2> QED BY <2>1 DEF Open, OperationName, IndexOf
<1>2. InHand'
    <2>1. ASSUME NEW c \in Conn, conn[c].pc \in Running, NEW i \in DOMAIN conn[c].in,
                 Open(conn[c].in[i].request)
          PROVE  Open(conn[c].in[i].request)'
        <3>1. conn[c].in[i].request \in Request /\ ~OffLinks(conn[c].in[i].request)
            <4>1. conn[c].in[i] \in Answer
                BY <2>1 DEF RouterInv, ContractInv, TypeOK
            <4> QED BY <2>1, <4>1 DEF Answer, OffLinks
        <3> QED BY <2>1, <3>1 DEF Open, OperationName, IndexOf
    <2> QED BY <2>1 DEF InHand, RouterInv, AuditInv
<1>3. PhasesFine'
    BY DEF PhasesFine, RouterInv, AuditInv
<1>4. \A q \in Request : Handled(q)' => Handled(q)
    BY DEF Handled
<1>5. LateAnswersAudited'
    BY <1>4 DEF LateAnswersAudited, RouterInv, AuditInv
<1> QED BY <1>1, <1>2, <1>3, <1>5

\* A request that is not sent is in no one's hands, nor is one whose link is gone
LEMMA NotSent ==
    ASSUME ContractInv, NEW r \in Request,
           ~Sent(r) \/ (handler[r].to \in Conn /\ conn[handler[r].to].pc \notin Running)
    PROVE  OffLinks(r)
<1> SUFFICES ASSUME NEW c \in Conn, conn[c].pc \in Running
             PROVE  /\ \A i \in DOMAIN conn[c].out : conn[c].out[i] # r
                    /\ \A i \in DOMAIN conn[c].in : conn[c].in[i].request # r
    BY DEF OffLinks
<1>1. \A i \in DOMAIN conn[c].out : Sent(conn[c].out[i]) /\ handler[conn[c].out[i]].to = c
    BY DEF ContractInv, LinksFine, ToStudio
<1>2. \A i \in DOMAIN conn[c].in : Sent(conn[c].in[i].request) /\ handler[conn[c].in[i].request].to = c
    BY DEF ContractInv, LinksFine, FromStudio
<1> QED BY <1>1, <1>2

\* The steps of a handler that sends nothing: it closes receipts of requests that no
\* connection has, and opens one when it accepts
LEMMA HandlerAudit ==
    ASSUME RouterInv, NEW r \in Request,
           \/ Refuse(r) \/ Accept(r) \/ AnswerHere(r) \/ FindPlugin(r) \/ RegisterRequest(r)
           \/ (SendRequest(r) /\ FailBeforeSend(r) /\ UNCHANGED conn)
           \/ Deliver(r) \/ Dropped(r) \/ Timeout(r)
    PROVE  AuditInv'
<1>0. /\ TypeOK /\ ContractInv /\ UNCHANGED <<ask, wake, slot, conn, audit>>
      /\ \A q \in Request : effect'[q] = effect[q] \/ ask[q].kind = "daemon"
    BY DEF RouterInv, ContractInv, TypeOK, Refuse, Accept, AnswerHere, FindPlugin, RegisterRequest,
           SendRequest, Deliver, Dropped, Timeout
<1>1. \/ UNCHANGED <<receipts, lost>>
      \/ Accept(r)
      \/ /\ \E v \in {"unknown", "notStarted", "partial", "completed"} : Finish(r, v) /\ Replies(r, v)
         /\ UNCHANGED lost /\ (OffLinks(r) \/ r \in lost)
    <2>1. CASE ~Sent(r)
        BY <1>0, <2>1, NotSent DEF Sent, Refuse, AnswerHere, FindPlugin, RegisterRequest, SendRequest,
              FailBeforeSend, Deliver, Dropped, Timeout, TimeOut
    <2>2. CASE Sent(r)
        <3>1. Accept(r) \/ Deliver(r) \/ Dropped(r) \/ Timeout(r)
            BY <2>2 DEF Sent, Refuse, AnswerHere, FindPlugin, RegisterRequest, SendRequest
        <3>2. CASE Dropped(r)
            <4>1. handler[r].to \in Conn /\ (r \in lost \/ conn[handler[r].to].pc = "gone")
                <5>1. wake[r] = <<"dropped">>
                    BY <1>0, <3>2, Wakings DEF Dropped, TypeOK, Woken
                <5>2. handler[r].to \in Conn
                    BY <1>0, <3>2 DEF Dropped, ContractInv, HandlersFine
                <5> QED BY <5>1, <5>2 DEF RouterInv, AuditInv, DroppedByOwn
            <4>2. OffLinks(r) \/ r \in lost
                BY <1>0, <4>1, NotSent DEF Running
            <4> QED BY <3>2, <4>2 DEF Dropped
        <3> QED BY <3>1, <3>2 DEF Deliver, Timeout, TimeOut
    <2> QED BY <2>1, <2>2
<1>2. /\ lost \subseteq lost'
      /\ \A q \in Request : Open(q) => Open(q)' \/ (q = r /\ OffLinks(r) /\ handler'[r].pc = "replied")
    <2>1. CASE UNCHANGED <<receipts, lost>>
        BY <2>1 DEF Open, OperationName, IndexOf
    <2>2. CASE Accept(r)
        BY <1>0, <2>2, AcceptReceipts, RequestRouterAssumption
    <2>3. CASE /\ \E v \in {"unknown", "notStarted", "partial", "completed"} : Finish(r, v) /\ Replies(r, v)
               /\ UNCHANGED lost /\ (OffLinks(r) \/ r \in lost)
        <3>1. handler'[r].pc = "replied" /\ \A q \in Request \ {r} : OperationName(q) => OperationName(q)'
            BY <1>0, <2>3, FinishType DEF Replies, TypeOK
        <3> QED BY <2>3, <3>1 DEF Open
    <2> QED BY <1>1, <2>1, <2>2, <2>3
<1>3. OnTheWay' /\ InHand' /\ PhasesFine' /\ LateAnswersAudited'
    BY <1>0, <1>2, AuditKept
<1>4. /\ \A q \in Request : q # r => handler'[q] = handler[q]
      /\ handler'[r].to = handler[r].to \/ (handler[r].pc = "begun" /\ handler'[r].to = slot)
      /\ \/ Accept(r) \/ handler'[r].pc = "replied"
         \/ /\ handler[r].pc \in {"begun", "found"} /\ handler'[r].pc \in {"found", "registered"}
    <2>1. CASE \E v : Replies(r, v)
        BY <1>0, <2>1 DEF Replies, TypeOK
    <2>2. CASE Accept(r)
        <3>1. Repeat(r) \/ Goes(r, "begun")
            BY <2>2 DEF Accept
        <3> QED BY <1>0, <2>2, <3>1 DEF Repeat, Replies, Goes, TypeOK
    <2>3. CASE /\ handler[r].pc = "begun" /\ handler' = [handler EXCEPT ![r] = [pc |-> "found", to |-> slot]]
        BY <1>0, <2>3 DEF TypeOK
    <2>4. CASE RegisterRequest(r)
        BY <1>0, <2>4 DEF RegisterRequest, Goes, TypeOK
    <2> QED BY <2>1, <2>2, <2>3, <2>4 DEF Refuse, AnswerHere, FindPlugin, FailBeforeSend, Deliver,
                  Dropped, Timeout, TimeOut
<1>5. Unsent'
    <2> SUFFICES ASSUME NEW q \in Request, handler'[q].pc \in {"begun", "found", "registered"}
                 PROVE  Open(q)'
        BY DEF Unsent
    <2>1. CASE q # r
        BY <2>1, <1>2, <1>4 DEF Unsent, RouterInv, AuditInv
    <2>2. CASE q = r /\ Accept(r)
        <3>1. handler'[r].pc = "begun"
            BY <1>0, <2>2 DEF Accept, Repeat, Replies, Goes, TypeOK
        <3> QED BY <1>0, <2>2, <3>1, AcceptReceipts, RequestRouterAssumption
    <2>3. CASE q = r /\ handler[r].pc \in {"begun", "found"}
        BY <2>3, <1>2 DEF Unsent, RouterInv, AuditInv
    <2> QED BY <2>1, <2>2, <2>3, <1>4
<1>6. DroppedByOwn'
    <2> SUFFICES ASSUME NEW q \in Request, wake[q] = <<"dropped">>, q \notin lost'
                 PROVE  /\ handler'[q].pc \in {"registered", "waiting", "replied"}
                        /\ handler'[q].to \in Conn => conn[handler'[q].to].pc = "gone"
        BY <1>0 DEF DroppedByOwn
    <2>1. /\ handler[q].pc \in {"registered", "waiting", "replied"}
          /\ handler[q].to \in Conn => conn[handler[q].to].pc = "gone"
        BY <1>2 DEF RouterInv, AuditInv, DroppedByOwn
    <2>2. ~(q = r /\ Accept(r))
        BY <2>1 DEF Accept
    <2> QED BY <1>4, <2>1, <2>2
<1>7. Claimed'
    BY <1>0, <1>4 DEF Claimed, RouterInv, AuditInv
<1> QED BY <1>3, <1>5, <1>6, <1>7 DEF AuditInv

\* A frame that is refused leaves the link alone
LEMMA SendFails ==
    ASSUME RouterInv, NEW r \in Request, SendRequest(r), FailBeforeSend(r)
    PROVE  UNCHANGED conn
<1>1. handler[r].pc = "registered" /\ handler \in [Request -> [pc : HandlerPc, to : 0 .. MaxConns]]
    BY DEF SendRequest, RouterInv, ContractInv, TypeOK
<1>2. ~Goes(r, "waiting")
    BY <1>1 DEF FailBeforeSend, Replies, Goes
<1> QED BY <1>2 DEF SendRequest

\* A request that goes out on its link has an open receipt
LEMMA SendAudit ==
    ASSUME RouterInv, NEW r \in Request, SendRequest(r), ~FailBeforeSend(r)
    PROVE  AuditInv'
<1> DEFINE c == handler[r].to
<1>0. /\ handler[r].pc = "registered" /\ c \in Conn /\ conn[c].pc # "gone"
      /\ conn' = [conn EXCEPT ![c].out = Append(@, r)] /\ Goes(r, "waiting")
      /\ UNCHANGED <<ask, wake, slot, pending, receipts, audit, effect, reply, lost>>
      /\ TypeOK /\ Open(r) /\ effect[r] = "none"
    BY DEF SendRequest, RouterInv, ContractInv, HandlersFine, AuditInv, Unsent, Sent
<1>1. \A q \in Request : Open(q)' <=> Open(q)
    BY <1>0 DEF Open, OperationName, IndexOf
<1>2. /\ \A d \in Conn : /\ conn'[d].in = conn[d].in /\ conn'[d].pc = conn[d].pc
                         /\ conn'[d].out = IF d = c THEN Append(conn[c].out, r) ELSE conn[d].out
      /\ conn[c].out \in Seq(Request)
    BY <1>0 DEF TypeOK
<1>3. /\ \A q \in Request : handler'[q].to = handler[q].to /\ (q # r => handler'[q].pc = handler[q].pc)
      /\ handler'[r].pc = "waiting"
    BY <1>0 DEF Goes, TypeOK
<1> HIDE DEF c
<1>4. \A i \in DOMAIN conn'[c].out : conn'[c].out[i] = r \/ (i \in DOMAIN conn[c].out /\ conn'[c].out[i] = conn[c].out[i])
    BY <1>0, <1>2
<1>5. \A d \in Conn : ToSet(conn[d].out) \subseteq ToSet(conn'[d].out)
    <2>1. \A i \in DOMAIN conn[c].out : i \in DOMAIN Append(conn[c].out, r) /\ Append(conn[c].out, r)[i] = conn[c].out[i]
        BY <1>2
    <2>2. ToSet(conn[c].out) \subseteq ToSet(conn'[c].out)
        BY <1>0, <1>2, <2>1 DEF ToSet
    <2> QED BY <1>2, <2>2
<1>6. Unsent'
    BY <1>1, <1>3 DEF RouterInv, AuditInv, Unsent
<1>7. OnTheWay'
    <2> SUFFICES ASSUME NEW d \in Conn, conn'[d].pc \in Running, NEW i \in DOMAIN conn'[d].out
                 PROVE  Open(conn[d].out[i])'
        BY DEF OnTheWay
    <2>1. conn'[d].out[i] \in Request /\ Open(conn'[d].out[i])
        BY <1>0, <1>2, <1>4 DEF RouterInv, AuditInv, OnTheWay, TypeOK
    <2> QED BY <1>0, <2>1 DEF Open, OperationName, IndexOf
<1>8. InHand'
    <2>1. \A d \in Conn : \A i \in DOMAIN conn[d].in : conn[d].in[i].request \in Request
        BY OnLinks DEF RouterInv
    <2> QED BY <1>0, <1>1, <1>2, <2>1 DEF RouterInv, AuditInv, InHand
<1>9. DroppedByOwn' /\ Claimed' /\ PhasesFine'
    <2>1. slot = 0 \/ slot \in Conn
        BY <1>0 DEF TypeOK, Conn
    <2>2. \A q \in Request : handler[q].to = 0 \/ handler[q].to \in Conn
        BY <1>0 DEF TypeOK, Conn
    <2>3. DroppedByOwn'
        BY <1>0, <1>2, <1>3, <2>2 DEF RouterInv, AuditInv, DroppedByOwn
    <2>4. Claimed'
        BY <1>0, <1>2, <1>3, <2>1, <2>2 DEF RouterInv, AuditInv, Claimed
    <2>5. PhasesFine'
        BY <1>2 DEF RouterInv, AuditInv, PhasesFine
    <2> QED BY <2>3, <2>4, <2>5
<1>10. LateAnswersAudited'
    <2>1. \A q \in Request : Handled(q)' => Handled(q)
        BY <1>0, <1>2, <1>5 DEF Handled
    <2> QED BY <1>0, <2>1 DEF RouterInv, AuditInv, LateAnswersAudited
<1> QED BY <1>6, <1>7, <1>8, <1>9, <1>10 DEF AuditInv

-----------------------------------------------------------------------------
(* What Studio reports is audited: steps of connections *)

\* What an answer in hand tells of its request: it was sent here and has run
LEMMA InHandRequest ==
    ASSUME RouterInv, NEW c \in Conn, conn[c].in # <<>>
    PROVE  LET q == conn[c].in[1].request
           IN  /\ 1 \in DOMAIN conn[c].in /\ q \in Request /\ Sent(q) /\ handler[q].to = c /\ effect[q] # "none"
               /\ \A d \in Conn : \A i \in DOMAIN conn[d].out : conn[d].out[i] # q
               /\ \A d \in Conn : \A i \in DOMAIN conn[d].in : conn[d].in[i].request = q => d = c /\ i = 1
<1> DEFINE q == conn[c].in[1].request
<1>1. 1 \in DOMAIN conn[c].in /\ conn[c].in[1] \in Answer
    <2>1. conn[c].in \in Seq(Answer)
        BY DEF RouterInv, ContractInv, TypeOK
    <2> QED BY <2>1, HeadTail
<1>2. FromStudio(conn[c].in[1], c)
    BY <1>1 DEF RouterInv, ContractInv, LinksFine
<1>3. q \in Request /\ Sent(q) /\ handler[q].to = c /\ effect[q] # "none"
    BY <1>1, <1>2 DEF FromStudio, Truthful, Answer
<1>4. \A d \in Conn : \A i \in DOMAIN conn[d].out : conn[d].out[i] # q
    BY <1>3 DEF RouterInv, ContractInv, LinksFine, ToStudio
<1>5. ASSUME NEW d \in Conn, NEW i \in DOMAIN conn[d].in, conn[d].in[i].request = q
      PROVE  d = c /\ i = 1
    <2>1. d = c
        BY <1>3, <1>5 DEF RouterInv, ContractInv, LinksFine, FromStudio
    <2> QED BY <2>1, <1>1, <1>5 DEF RouterInv, ContractInv, NoRepeats
<1> QED BY <1>1, <1>3, <1>4, <1>5

\* A connection that goes on to another phase: the only receipt it may close is that of
\* the answer in hand, which is audited by then
LEMMA PhaseAudit ==
    ASSUME RouterInv, NEW c \in Conn, NEW pc \in ConnPc \ {"new"}, Phase(c, pc), conn[c].pc # "gone",
           UNCHANGED <<ask, handler, effect>>, audit \subseteq audit', lost \subseteq lost',
           slot' \in {slot, 0, c},
           \A q \in Request : Open(q) => Open(q)' \/ (conn[c].pc = "named" /\ q = conn[c].in[1].request),
           pc \in Running => conn[c].pc \in Running \/ (conn[c].out = <<>> /\ conn[c].in = <<>>),
           pc \in {"audited", "named", "finished"} =>
               /\ conn[c].in # <<>>
               /\ conn[c].in[1].effect = "refused" \/ conn[c].in[1].request \in audit' \cup lost',
           pc \notin {"audited", "named", "finished"} => conn[c].in = <<>>,
           \A q \in Request : wake'[q] = wake[q]
                              \/ q \in lost'
                              \/ /\ handler[q].to = c /\ pc = "gone"
                                 /\ handler[q].pc \in {"registered", "waiting", "replied"}
    PROVE  AuditInv'
<1>1. /\ \A d \in Conn : conn'[d].out = conn[d].out /\ conn'[d].in = conn[d].in
      /\ \A d \in Conn : conn'[d].pc = IF d = c THEN pc ELSE conn[d].pc
    BY DEF RouterInv, ContractInv, TypeOK, Phase
<1>2. /\ ContractInv /\ Unsent /\ OnTheWay /\ InHand /\ DroppedByOwn /\ PhasesFine /\ Claimed
      /\ LateAnswersAudited
    BY DEF RouterInv, AuditInv
<1>3. \A q \in Request : Open(q) /\ ~Open(q)' => /\ q = conn[c].in[1].request /\ conn[c].in # <<>>
                                               /\ conn[c].pc = "named"
    BY <1>2 DEF PhasesFine
<1>4. Unsent'
    <2> SUFFICES ASSUME NEW q \in Request, handler[q].pc \in {"begun", "found", "registered"}
                 PROVE  Open(q)'
        BY DEF Unsent
    <2>1. Open(q) /\ ~Sent(q)
        BY <1>2 DEF Unsent, Sent
    <2> QED BY <2>1, <1>3, InHandRequest
<1>5. OnTheWay'
    <2> SUFFICES ASSUME NEW d \in Conn, conn'[d].pc \in Running, NEW i \in DOMAIN conn'[d].out
                 PROVE  Open(conn[d].out[i])'
        BY DEF OnTheWay
    <2>1. conn[d].pc \in Running /\ i \in DOMAIN conn[d].out
        BY <1>1
    <2>2. PICK q \in Request : q = conn[d].out[i] /\ Open(q)
        BY <1>2, <2>1, OnLinks DEF OnTheWay
    <2>3. ~(conn[c].in # <<>> /\ q = conn[c].in[1].request)
        BY <2>1, <2>2, InHandRequest
    <2>4. Open(q)'
        BY <1>3, <2>2, <2>3
    <2> QED BY <1>1, <2>2, <2>4 DEF Open, OperationName, IndexOf
<1>6. ASSUME NEW d \in Conn, conn'[d].pc \in Running, NEW i \in DOMAIN conn[d].in
      PROVE  IF i = 1 /\ conn'[d].pc # "live"
             THEN \/ conn[d].in[i].effect = "refused"
                  \/ conn[d].in[i].request \in audit' \cup lost'
             ELSE Open(conn[d].in[i].request)'
    <2>0. PICK q \in Request : q = conn[d].in[i].request
        BY <1>2, OnLinks
    <2>1. conn[d].pc \in Running
        BY <1>1, <1>6
    <2>2. CASE i = 1 /\ conn'[d].pc # "live"
        <3>1. CASE d = c
            BY <1>1, <1>6, <2>2, <3>1 DEF Running
        <3>2. CASE d # c
            BY <1>1, <1>2, <1>6, <2>1, <2>2, <3>2 DEF InHand
        <3> QED BY <2>2, <3>1, <3>2
    <2>3. CASE ~(i = 1 /\ conn'[d].pc # "live")
        <3>1. ~(i = 1 /\ conn[d].pc # "live")
            BY <1>1, <1>6, <2>3 DEF Running
        <3>2. Open(q)
            BY <1>2, <2>0, <2>1, <3>1 DEF InHand
        <3>3. ~(conn[c].in # <<>> /\ q = conn[c].in[1].request /\ conn[c].pc = "named")
            BY <1>6, <2>0, <3>1, InHandRequest
        <3>4. Open(q)'
            BY <1>3, <3>2, <3>3
        <3> QED BY <1>1, <2>0, <2>3, <3>4 DEF Open, OperationName, IndexOf
    <2> QED BY <2>2, <2>3
<1>7. InHand'
    BY <1>1, <1>6 DEF InHand
<1>8. PhasesFine'
    BY <1>1, <1>2 DEF PhasesFine, Running, ConnPc
<1>9. Claimed'
    <2>1. /\ slot' # 0 => slot' \in Conn /\ (slot' = c \/ slot' = slot)
          /\ \A q \in Request : handler[q].to # 0 => handler[q].to \in Conn
        BY DEF RouterInv, ContractInv, TypeOK, Conn
    <2>2. \A d \in Conn : conn[d].pc # "new" => conn'[d].pc # "new"
        BY <1>1
    <2>3. conn'[c].pc # "new"
        BY <1>1
    <2> QED BY <1>2, <2>1, <2>2, <2>3 DEF Claimed
<1>10. DroppedByOwn'
    BY <1>1, <1>2 DEF DroppedByOwn
<1>11. LateAnswersAudited'
    <2>1. \A q \in Request : Handled(q)' => Handled(q)
        BY <1>1 DEF Handled
    <2> QED BY <1>2, <2>1 DEF LateAnswersAudited
<1> QED BY <1>4, <1>5, <1>7, <1>8, <1>9, <1>10, <1>11 DEF AuditInv

\* The steps of a connection that read nothing off its link
LEMMA ConnAudit ==
    ASSUME RouterInv, NEW c \in Conn,
           \/ Claim(c) \/ RecordAudit(c) \/ LookUp(c) \/ FinishReceipt(c)
           \/ CleanupReleases(c) \/ CleanupFails(c)
    PROVE  AuditInv'
<1>0. /\ TypeOK /\ ContractInv /\ Unsent /\ OnTheWay /\ InHand /\ DroppedByOwn /\ PhasesFine /\ Claimed
      /\ conn[c].in \in Seq(Answer)
      /\ \A pc \in {"live", "audited", "named", "finished", "fail", "gone"} : pc \in ConnPc \ {"new"}
    BY DEF RouterInv, ContractInv, AuditInv, TypeOK, ConnPc
<1>1. UNCHANGED <<receipts, lost>> => \A q \in Request : Open(q) => Open(q)'
    BY DEF Open, OperationName, IndexOf
<1>2. CASE Claim(c)
    <2>1. conn[c].out = <<>> /\ conn[c].in = <<>>
        <3>1. ASSUME NEW i \in DOMAIN conn[c].out
              PROVE  FALSE
            <4>1. conn[c].out[i] \in Request /\ handler[conn[c].out[i]].to = c
                BY <1>0, <3>1, OnLinks DEF ContractInv, LinksFine, ToStudio
            <4>2. c # 0
                BY DEF Conn
            <4> QED BY <1>0, <1>2, <4>1, <4>2 DEF Claimed, Claim
        <3>2. conn[c].out \in Seq(Request)
            BY <1>0 DEF TypeOK
        <3>3. conn[c].out = <<>>
            BY <3>1, <3>2, HeadTail
        <3> QED BY <1>0, <1>2, <3>3 DEF PhasesFine, Claim, Running
    <2> QED BY <1>0, <1>1, <1>2, <2>1, PhaseAudit DEF Claim
<1>3. CASE RecordAudit(c)
    <2> DEFINE a == Head(conn[c].in)
    <2>1. conn[c].in # <<>> /\ a = conn[c].in[1] /\ 1 \in DOMAIN conn[c].in
        BY <1>0, <1>3, HeadTail DEF RecordAudit
    <2>2. a.effect = "refused" \/ a.request \in audit' \cup lost
        BY <1>0, <1>3, <2>1 DEF RecordAudit, Audited, InHand, Open, Running
    <2>3. audit \subseteq audit' /\ Phase(c, "audited") /\ conn[c].pc = "live"
          /\ UNCHANGED <<ask, handler, wake, slot, pending, receipts, effect, reply, lost>>
        BY <1>3 DEF RecordAudit
    <2> QED BY <1>0, <1>1, <2>1, <2>2, <2>3, PhaseAudit DEF Running
<1>4. CASE LookUp(c)
    <2>1. PICK pc \in {"named", "finished"} : Phase(c, pc)
        BY <1>4 DEF LookUp
    <2>2. /\ conn[c].pc = "audited"
          /\ UNCHANGED <<ask, handler, wake, slot, pending, receipts, audit, effect, reply, lost>>
        BY <1>4 DEF LookUp
    <2>3. conn[c].in # <<>> /\ (conn[c].in[1].effect = "refused" \/ conn[c].in[1].request \in audit \cup lost)
        BY <1>0, <2>2, AnswerInHand DEF InHand, Running
    <2> QED BY <1>0, <1>1, <2>1, <2>2, <2>3, PhaseAudit DEF Running
<1>5. CASE FinishReceipt(c)
    <2> DEFINE a == Head(conn[c].in)
    <2>1. /\ conn[c].pc = "named" /\ Phase(c, "finished")
          /\ Finish(a.request, Completion(a, ask[a.request].kind))
          /\ UNCHANGED <<ask, handler, wake, slot, pending, audit, effect, reply, lost>>
        BY <1>5 DEF FinishReceipt
    <2>2. /\ conn[c].in # <<>> /\ a = conn[c].in[1] /\ a.request \in Request
          /\ Completion(a, ask[a.request].kind) \in {"unknown", "notStarted", "partial", "completed"}
        BY <1>0, <2>1, AnswerInHand
    <2>3. a.effect = "refused" \/ a.request \in audit \cup lost
        BY <1>0, <2>1, <2>2, AnswerInHand DEF InHand, Running
    <2>4. \A q \in Request \ {a.request} : OperationName(q) => OperationName(q)'
        BY <1>0, <2>1, <2>2, FinishType
    <2>5. \A q \in Request : Open(q) => Open(q)' \/ q = conn[c].in[1].request
        BY <2>1, <2>2, <2>4 DEF Open
    <2> QED BY <1>0, <2>1, <2>2, <2>3, <2>5, PhaseAudit DEF Running
<1>6. CASE CleanupReleases(c)
    <2>1. conn[c].in = <<>> /\ slot' \in {slot, 0, c}
        BY <1>0, <1>6 DEF CleanupReleases, PhasesFine, Running, Release
    <2> QED BY <1>0, <1>1, <1>6, <2>1, PhaseAudit DEF CleanupReleases, Running
<1>7. CASE CleanupFails(c)
    <2>1. conn[c].in = <<>>
        BY <1>0, <1>7 DEF CleanupFails, PhasesFine, Running
    <2>2. /\ lost' = lost \cup {r \in pending : handler[r].to # c} /\ conn[c].pc = "fail" /\ Phase(c, "gone")
          /\ UNCHANGED <<ask, handler, slot, receipts, audit, effect, reply>>
        BY <1>7 DEF CleanupFails
    <2>3. \A q \in Request : wake'[q] = wake[q] \/ q \in lost'
                             \/ (handler[q].to = c /\ handler[q].pc \in {"registered", "waiting", "replied"})
        <3>1. \A q \in Request : q \in pending => handler[q].pc \in {"registered", "waiting", "replied"}
            BY <1>0 DEF ContractInv, HandlersFine, TypeOK, HandlerPc
        <3> QED BY <1>0, <1>7, <2>2, <3>1 DEF CleanupFails, TypeOK
    <2>4. \A q \in Request : Open(q) => Open(q)'
        BY <2>2 DEF Open, OperationName, IndexOf
    <2> QED BY <1>0, <2>1, <2>2, <2>3, <2>4, PhaseAudit DEF Running
<1> QED BY <1>2, <1>3, <1>4, <1>5, <1>6, <1>7

\* The answer to a request whose receipt is open joins the answers of its link
LEMMA ExecuteAudit ==
    ASSUME RouterInv, NEW c \in Conn, Execute(c)
    PROVE  AuditInv'
<1>0. /\ TypeOK /\ ContractInv /\ Unsent /\ OnTheWay /\ InHand /\ DroppedByOwn /\ PhasesFine /\ Claimed
      /\ LateAnswersAudited /\ conn[c].out \in Seq(Request) /\ conn[c].in \in Seq(Answer)
      /\ conn[c].pc = "live" /\ conn[c].out # <<>>
      /\ UNCHANGED <<ask, handler, wake, slot, pending, receipts, audit, reply, lost>>
    BY DEF RouterInv, ContractInv, AuditInv, TypeOK, Execute
<1>1. PICK r \in Request, a \in Answer :
        /\ r = Head(conn[c].out) /\ a.request = r /\ effect' = [effect EXCEPT ![r] = a.effect]
        /\ conn' = [conn EXCEPT ![c].out = Tail(@), ![c].in = Append(@, a)]
    <2>1. Head(conn[c].out) \in Request
        BY <1>0, HeadTail
    <2> QED BY <2>1 DEF Execute
<1>2. /\ r = conn[c].out[1] /\ 1 \in DOMAIN conn[c].out
      /\ \A i \in DOMAIN Tail(conn[c].out) : i + 1 \in DOMAIN conn[c].out /\ Tail(conn[c].out)[i] = conn[c].out[i + 1]
      /\ \A i \in DOMAIN conn[c].out : i # 1 => i - 1 \in DOMAIN Tail(conn[c].out) /\ Tail(conn[c].out)[i - 1] = conn[c].out[i]
    BY <1>0, <1>1, HeadTail
<1>3. /\ \A d \in Conn : conn'[d].pc = conn[d].pc /\ (d # c => conn'[d] = conn[d])
      /\ conn'[c].out = Tail(conn[c].out) /\ conn'[c].in = Append(conn[c].in, a)
    BY <1>0, <1>1 DEF TypeOK
<1>4. /\ Len(conn[c].in) \in Nat /\ DOMAIN conn'[c].in = 1 .. Len(conn[c].in) + 1
      /\ \A i \in 1 .. Len(conn[c].in) : i \in DOMAIN conn[c].in /\ conn'[c].in[i] = conn[c].in[i]
      /\ \A i \in DOMAIN conn[c].in : i \in DOMAIN conn'[c].in
      /\ conn'[c].in[Len(conn[c].in) + 1] = a
    BY <1>0, <1>3
<1>5. Open(r) /\ \A q : Open(q)' <=> Open(q)
    BY <1>0, <1>2 DEF OnTheWay, Running, Open, OperationName, IndexOf
<1>6. Unsent' /\ DroppedByOwn' /\ Claimed'
    <2>1. Unsent'
        BY <1>0, <1>5 DEF Unsent
    <2>2. slot = 0 \/ slot \in Conn
        BY <1>0 DEF TypeOK, Conn
    <2>3. \A q \in Request : handler[q].to = 0 \/ handler[q].to \in Conn
        BY <1>0 DEF TypeOK, Conn
    <2>4. DroppedByOwn'
        BY <1>0, <1>3 DEF DroppedByOwn
    <2>5. Claimed'
        BY <1>0, <1>3, <2>2, <2>3 DEF Claimed
    <2> QED BY <2>1, <2>4, <2>5
<1>7. OnTheWay'
    <2> SUFFICES ASSUME NEW d \in Conn, conn'[d].pc \in Running, NEW i \in DOMAIN conn'[d].out
                 PROVE  Open(conn'[d].out[i])
        BY <1>0 DEF OnTheWay, Open, OperationName, IndexOf
    <2>1. CASE d = c
        <3>1. i + 1 \in DOMAIN conn[c].out /\ conn'[d].out[i] = conn[c].out[i + 1]
            BY <1>2, <1>3, <2>1
        <3> QED BY <1>0, <3>1 DEF OnTheWay, Running
    <2>2. CASE d # c
        BY <1>0, <1>3, <2>2 DEF OnTheWay
    <2> QED BY <2>1, <2>2
<1>8. InHand'
    <2> SUFFICES ASSUME NEW d \in Conn, conn'[d].pc \in Running, NEW i \in DOMAIN conn'[d].in
                 PROVE  IF i = 1 /\ conn'[d].pc # "live"
                        THEN \/ conn'[d].in[i].effect = "refused"
                             \/ conn'[d].in[i].request \in audit \cup lost
                        ELSE Open(conn'[d].in[i].request)
        BY <1>0 DEF InHand, Open, OperationName, IndexOf
    <2>1. CASE d = c
        <3>1. conn'[d].pc = "live"
            BY <1>0, <1>3, <2>1
        <3>2. CASE i = Len(conn[c].in) + 1
            BY <1>1, <1>4, <1>5, <2>1, <3>1, <3>2
        <3>3. CASE i # Len(conn[c].in) + 1
            <4>1. i \in DOMAIN conn[c].in /\ conn'[d].in[i] = conn[c].in[i]
                <5>1. i \in 1 .. Len(conn[c].in)
                    BY <1>4, <2>1, <3>3
                <5> QED BY <1>4, <2>1, <5>1
            <4> QED BY <1>0, <3>1, <4>1 DEF InHand, Running
        <3> QED BY <3>2, <3>3
    <2>2. CASE d # c
        BY <1>0, <1>3, <2>2 DEF InHand
    <2> QED BY <2>1, <2>2
<1>9. PhasesFine'
    BY <1>0, <1>3 DEF PhasesFine, Running
<1>10. ASSUME NEW q \in Request, Handled(q)'
       PROVE  Handled(q)
    <2>1. \A d \in Conn : /\ q \notin ToSet(conn'[d].out)
                         /\ \A i \in DOMAIN conn'[d].in : conn'[d].in[i].request # q
        BY <1>10 DEF Handled
    <2>2. q # r
        <3>1. Len(conn[c].in) + 1 \in DOMAIN conn'[c].in
            BY <1>4
        <3> QED BY <1>1, <1>4, <2>1, <3>1
    <2>3. \A i \in DOMAIN conn[c].out : conn[c].out[i] # q
        <3> SUFFICES ASSUME NEW i \in DOMAIN conn[c].out, conn[c].out[i] = q
                     PROVE  FALSE
            OBVIOUS
        <3>1. i - 1 \in DOMAIN conn'[c].out /\ conn'[c].out[i - 1] = q
            BY <1>2, <1>3, <2>2
        <3> QED BY <2>1, <3>1 DEF ToSet
    <2>4. \A d \in Conn : /\ q \notin ToSet(conn[d].out)
                         /\ \A i \in DOMAIN conn[d].in : conn[d].in[i].request # q
        <3>1. \A i \in DOMAIN conn[c].in : conn[c].in[i].request # q
            <4>1. \A i \in DOMAIN conn[c].in : i \in 1 .. Len(conn[c].in)
                BY <1>0
            <4> QED BY <1>4, <2>1, <4>1
        <3>2. q \notin ToSet(conn[c].out)
            BY <2>3 DEF ToSet
        <3> QED BY <1>3, <2>1, <3>1, <3>2
    <2>5. effect'[q] = effect[q]
        BY <1>0, <1>1, <2>2 DEF TypeOK
    <2> QED BY <1>0, <1>10, <2>4, <2>5 DEF Handled
<1>11. LateAnswersAudited'
    BY <1>0, <1>10 DEF LateAnswersAudited
<1> QED BY <1>6, <1>7, <1>8, <1>9, <1>11 DEF AuditInv

\* The answer that leaves the link is audited, was a refusal or is lost
LEMMA WakeAudit ==
    ASSUME RouterInv, NEW c \in Conn, WakeCaller(c)
    PROVE  AuditInv'
<1>0. /\ TypeOK /\ ContractInv /\ Unsent /\ OnTheWay /\ InHand /\ DroppedByOwn /\ PhasesFine /\ Claimed
      /\ LateAnswersAudited /\ conn[c].in \in Seq(Answer) /\ conn[c].pc = "finished"
      /\ UNCHANGED <<ask, handler, slot, receipts, audit, effect, reply, lost>>
    BY DEF RouterInv, ContractInv, AuditInv, TypeOK, WakeCaller
<1>1. PICK r \in Request : r = conn[c].in[1].request
    BY <1>0, AnswerInHand
<1>2. /\ conn[c].in # <<>> /\ 1 \in DOMAIN conn[c].in
      /\ FromStudio(conn[c].in[1], c) /\ conn[c].in[1] = Head(conn[c].in)
      /\ \A i \in DOMAIN Tail(conn[c].in) :
            i + 1 \in DOMAIN conn[c].in /\ i + 1 # 1 /\ Tail(conn[c].in)[i] = conn[c].in[i + 1]
      /\ \A i \in DOMAIN conn[c].in : i # 1 =>
            i - 1 \in DOMAIN Tail(conn[c].in) /\ Tail(conn[c].in)[i - 1] = conn[c].in[i]
    BY <1>0, AnswerInHand, HeadTail
<1>3. /\ \A d \in Conn : conn'[d].out = conn[d].out /\ (d # c => conn'[d] = conn[d])
      /\ conn'[c].pc = "live" /\ conn'[c].in = Tail(conn[c].in)
    BY <1>0 DEF WakeCaller, TypeOK
<1>4. \A q : Open(q)' <=> Open(q)
    BY <1>0 DEF Open, OperationName, IndexOf
<1>5. Unsent' /\ DroppedByOwn' /\ Claimed'
    <2>1. Unsent'
        BY <1>0, <1>4 DEF Unsent
    <2>2. slot = 0 \/ slot \in Conn
        BY <1>0 DEF TypeOK, Conn
    <2>3. \A q \in Request : handler[q].to = 0 \/ handler[q].to \in Conn
        BY <1>0 DEF TypeOK, Conn
    <2>4. \A q \in Request : wake'[q] = <<"dropped">> => wake[q] = <<"dropped">>
        BY <1>0, <1>1, <1>2, Wakings, AnswerInHand DEF WakeCaller, TypeOK
    <2>5. DroppedByOwn'
        BY <1>0, <1>3, <2>4 DEF DroppedByOwn
    <2>6. Claimed'
        BY <1>0, <1>3, <2>2, <2>3 DEF Claimed
    <2> QED BY <2>1, <2>5, <2>6
<1>6. OnTheWay'
    <2> SUFFICES ASSUME NEW d \in Conn, conn'[d].pc \in Running, NEW i \in DOMAIN conn'[d].out
                 PROVE  Open(conn'[d].out[i])
        BY <1>0 DEF OnTheWay, Open, OperationName, IndexOf
    <2> QED BY <1>0, <1>3 DEF OnTheWay, Running
<1>7. InHand'
    <2> SUFFICES ASSUME NEW d \in Conn, conn'[d].pc \in Running, NEW i \in DOMAIN conn'[d].in
                 PROVE  IF i = 1 /\ conn'[d].pc # "live"
                        THEN \/ conn'[d].in[i].effect = "refused"
                             \/ conn'[d].in[i].request \in audit \cup lost
                        ELSE Open(conn'[d].in[i].request)
        BY <1>0 DEF InHand, Open, OperationName, IndexOf
    <2>1. CASE d = c
        <3>1. i + 1 \in DOMAIN conn[c].in /\ i + 1 # 1 /\ conn'[d].in[i] = conn[c].in[i + 1]
            BY <1>2, <1>3, <2>1
        <3> QED BY <1>0, <1>3, <2>1, <3>1 DEF InHand, Running
    <2>2. CASE d # c
        BY <1>0, <1>3, <2>2 DEF InHand
    <2> QED BY <2>1, <2>2
<1>8. PhasesFine'
    BY <1>0, <1>3 DEF PhasesFine, Running
<1>9. ASSUME NEW q \in Request, Handled(q)', q \notin lost'
      PROVE  q \in audit'
    <2>1. CASE q = r
        <3>1. effect[r] = conn[c].in[1].effect /\ effect[r] # "refused"
            BY <1>0, <1>1, <1>2, <1>9, <2>1 DEF FromStudio, Truthful, Handled
        <3> QED BY <1>0, <1>1, <1>2, <1>9, <2>1, <3>1 DEF InHand, Running
    <2>2. CASE q # r
        <3>1. \A d \in Conn : /\ q \notin ToSet(conn'[d].out)
                             /\ \A i \in DOMAIN conn'[d].in : conn'[d].in[i].request # q
            BY <1>9 DEF Handled
        <3>2. \A i \in DOMAIN conn[c].in : conn[c].in[i].request # q
            <4> SUFFICES ASSUME NEW i \in DOMAIN conn[c].in, conn[c].in[i].request = q
                         PROVE  FALSE
                OBVIOUS
            <4>1. i - 1 \in DOMAIN conn'[c].in /\ conn'[c].in[i - 1].request = q
                BY <1>1, <1>2, <1>3, <2>2
            <4> QED BY <3>1, <4>1
        <3>3. Handled(q)
            BY <1>0, <1>3, <1>9, <3>1, <3>2 DEF Handled
        <3> QED BY <1>0, <1>9, <3>3 DEF LateAnswersAudited
    <2> QED BY <2>1, <2>2
<1>10. LateAnswersAudited'
    BY <1>9 DEF LateAnswersAudited
<1> QED BY <1>5, <1>6, <1>7, <1>8, <1>10 DEF AuditInv

\* What was on the link of a connection that ends is lost, or has not run
LEMMA LoopEndsAudit ==
    ASSUME RouterInv, NEW c \in Conn, LoopEnds(c)
    PROVE  AuditInv'
<1>0. /\ TypeOK /\ ContractInv /\ Unsent /\ OnTheWay /\ InHand /\ DroppedByOwn /\ PhasesFine /\ Claimed
      /\ LateAnswersAudited /\ conn[c].pc = "live"
      /\ UNCHANGED <<ask, handler, wake, slot, pending, receipts, audit, effect, reply>>
      /\ lost' = lost \cup {a.request : a \in ToSet(conn[c].in)}
    BY DEF RouterInv, ContractInv, AuditInv, LoopEnds
<1>1. /\ \A d \in Conn : d # c => conn'[d] = conn[d]
      /\ conn'[c].pc = "release" /\ conn'[c].in = <<>> /\ conn'[c].out = <<>>
    BY <1>0 DEF LoopEnds, TypeOK
<1>2. lost \subseteq lost' /\ \A i \in DOMAIN conn[c].in : conn[c].in[i].request \in lost'
    BY <1>0 DEF ToSet
<1>3. \A q : Open(q) => Open(q)'
    BY <1>0, <1>2 DEF Open, OperationName, IndexOf
<1>4. Unsent' /\ DroppedByOwn' /\ Claimed' /\ PhasesFine'
    <2>1. Unsent'
        BY <1>0, <1>3 DEF Unsent
    <2>2. slot = 0 \/ slot \in Conn
        BY <1>0 DEF TypeOK, Conn
    <2>3. \A q \in Request : handler[q].to = 0 \/ handler[q].to \in Conn
        BY <1>0 DEF TypeOK, Conn
    <2>4. DroppedByOwn'
        BY <1>0, <1>1, <1>2 DEF DroppedByOwn
    <2>5. Claimed'
        BY <1>0, <1>1, <2>2, <2>3 DEF Claimed
    <2>6. PhasesFine'
        BY <1>0, <1>1 DEF PhasesFine, Running
    <2> QED BY <2>1, <2>4, <2>5, <2>6
<1>5. OnTheWay'
    <2> SUFFICES ASSUME NEW d \in Conn, conn'[d].pc \in Running, NEW i \in DOMAIN conn'[d].out
                 PROVE  Open(conn[d].out[i])'
        BY DEF OnTheWay
    <2>1. d # c /\ conn'[d] = conn[d]
        BY <1>1 DEF Running
    <2>2. PICK q \in Request : q = conn[d].out[i] /\ Open(q)
        BY <1>0, <2>1, OnLinks DEF OnTheWay
    <2> QED BY <1>3, <2>1, <2>2 DEF Open, OperationName, IndexOf
<1>6. InHand'
    <2>1. ASSUME NEW d \in Conn, conn'[d].pc \in Running, NEW i \in DOMAIN conn'[d].in
          PROVE  IF i = 1 /\ conn'[d].pc # "live"
                 THEN \/ conn'[d].in[i].effect = "refused"
                      \/ conn'[d].in[i].request \in audit' \cup lost'
                 ELSE Open(conn[d].in[i].request)'
        <3>1. d # c /\ conn'[d] = conn[d]
            BY <1>1, <2>1 DEF Running
        <3>2. CASE i = 1 /\ conn'[d].pc # "live"
            BY <1>0, <1>2, <2>1, <3>1, <3>2 DEF InHand
        <3>3. CASE ~(i = 1 /\ conn'[d].pc # "live")
            <4>1. PICK q \in Request : q = conn[d].in[i].request /\ Open(q)
                BY <1>0, <2>1, <3>1, <3>3, OnLinks DEF InHand
            <4> QED BY <1>3, <3>1, <3>3, <4>1 DEF Open, OperationName, IndexOf
        <3> QED BY <3>2, <3>3
    <2> QED BY <2>1 DEF InHand
<1>7. ASSUME NEW q \in Request, Handled(q)', q \notin lost'
      PROVE  q \in audit'
    <2>1. \A d \in Conn \ {c} : /\ q \notin ToSet(conn[d].out)
                               /\ \A i \in DOMAIN conn[d].in : conn[d].in[i].request # q
        BY <1>1, <1>7 DEF Handled
    <2>2. \A i \in DOMAIN conn[c].in : conn[c].in[i].request # q
        BY <1>2, <1>7
    <2>3. q \notin ToSet(conn[c].out)
        <3>1. effect[q] # "none"
            BY <1>0, <1>7 DEF Handled
        <3>2. \A i \in DOMAIN conn[c].out : conn[c].out[i] # q
            BY <1>0, <3>1 DEF ContractInv, LinksFine, ToStudio
        <3> QED BY <3>2 DEF ToSet
    <2>4. Handled(q)
        BY <1>0, <1>7, <2>1, <2>2, <2>3 DEF Handled
    <2> QED BY <1>0, <1>2, <1>7, <2>4 DEF LateAnswersAudited
<1>8. LateAnswersAudited'
    BY <1>7 DEF LateAnswersAudited
<1> QED BY <1>4, <1>5, <1>6, <1>8 DEF AuditInv

-----------------------------------------------------------------------------
(* The theorems *)

\* Nothing is on its way at first
LEMMA InitInv == RouterInit => RouterInv
<1> SUFFICES ASSUME RouterInit
             PROVE  RouterInv
    OBVIOUS
<1> USE DEF RouterInit
<1>1. TypeOK
    <2>1. receipts \in Seq(Receipts) /\ wake \in [Request -> Woken]
        BY DEF Woken
    <2>2. conn \in [Conn -> [pc : ConnPc, out : Seq(Request), in : Seq(Answer)]]
        BY DEF ConnPc
    <2>3. 0 \in 0 .. MaxConns
        BY RequestRouterAssumption DEF RequestRouterAssumption
    <2>4. handler \in [Request -> [pc : HandlerPc, to : 0 .. MaxConns]]
        BY <2>3 DEF HandlerPc
    <2> QED BY <2>1, <2>2, <2>3, <2>4 DEF TypeOK
<1>2. HandlersFine /\ LinksFine /\ NoRepeats
    BY DEF HandlersFine, LinksFine, NoRepeats, Sent
<1>3. WakeFine
    BY Wakings DEF WakeFine
<1>4. Unsent /\ OnTheWay /\ InHand /\ PhasesFine /\ Claimed
    BY DEF Unsent, OnTheWay, InHand, PhasesFine, Claimed, Running
<1>5. DroppedByOwn
    BY Wakings DEF DroppedByOwn
<1>6. LateAnswersAudited
    BY DEF LateAnswersAudited, Handled
<1> QED BY <1>1, <1>2, <1>3, <1>4, <1>5, <1>6 DEF RouterInv, ContractInv, AuditInv

\* Reading a receipt prunes and does nothing else
LEMMA ReadReceiptInv ==
    ASSUME RouterInv, ReadReceipt
    PROVE  RouterInv'
<1>1. /\ TypeOK /\ ContractInv /\ UNCHANGED <<ask, handler, wake, slot, conn, pending, audit, effect, reply>>
    BY DEF RouterInv, ContractInv, ReadReceipt
<1>2. PICK aged \in 1 .. Len(receipts) : receipts' = Young(aged) /\ Drop(aged)
    BY DEF ReadReceipt
<1>3. aged \in 0 .. Len(receipts)
    BY <1>1 DEF TypeOK
<1>4. <<>> \in Seq(Receipts) /\ receipts' = Young(aged) \o <<>>
    BY <1>1, <1>2, <1>3, YoungType, ConcatEmptySeq
<1>5. /\ receipts' \in Seq(Receipts) /\ lost \subseteq lost' /\ lost' \subseteq Request
      /\ \A q \in Request : Open(q) => Open(q)'
    BY <1>1, <1>2, <1>3, <1>4, YoungFine
<1>6. TypeOK'
    BY <1>1, <1>5 DEF TypeOK
<1>7. HandlersFine' /\ LinksFine' /\ NoRepeats' /\ WakeFine'
    BY <1>1, LinksKept, WakeKept DEF ContractInv, HandlersFine, Sent
<1>8. OnTheWay' /\ InHand' /\ PhasesFine' /\ LateAnswersAudited'
    BY <1>1, <1>5, AuditKept
<1>9. Unsent' /\ DroppedByOwn' /\ Claimed'
    BY <1>1, <1>5 DEF RouterInv, AuditInv, Unsent, DroppedByOwn, Claimed
<1> QED BY <1>6, <1>7, <1>8, <1>9 DEF RouterInv, ContractInv, AuditInv

\* The inductive step
LEMMA StepInv ==
    ASSUME RouterInv, [RouterNext]_routerVars
    PROVE  RouterInv'
<1>0. ContractInv /\ PhasesFine
    BY DEF RouterInv, AuditInv
<1>1. ASSUME NEW r \in Request, HandlerStep(r)
      PROVE  RouterInv'
    <2>1. TypeOK'
        BY <1>0, <1>1, HandlerTypes
    <2>2. HandlersFine' /\ LinksFine' /\ NoRepeats' /\ WakeFine'
        BY <1>0, <1>1, HandlerContract, SendRequestContract, DeliverContract DEF HandlerStep
    <2>3. AuditInv'
        <3>1. CASE SendRequest(r)
            BY <3>1, HandlerAudit, SendAudit, SendFails
        <3>2. CASE ~SendRequest(r)
            BY <1>1, <3>2, HandlerAudit DEF HandlerStep
        <3> QED BY <3>1, <3>2
    <2> QED BY <2>1, <2>2, <2>3 DEF RouterInv, ContractInv
<1>2. ASSUME NEW c \in Conn, ConnStep(c)
      PROVE  RouterInv'
    <2>1. TypeOK'
        BY <1>0, <1>2, ConnTypes
    <2>2. HandlersFine' /\ LinksFine' /\ NoRepeats' /\ WakeFine'
        BY <1>0, <1>2, ConnContract, ExecuteContract, CleanupFailsContract, WakeCallerContract DEF ConnStep
    <2>3. AuditInv'
        BY <1>2, ConnAudit, ExecuteAudit, WakeAudit, LoopEndsAudit DEF ConnStep
    <2> QED BY <2>1, <2>2, <2>3 DEF RouterInv, ContractInv
<1>3. CASE UNCHANGED routerVars
    <2>1. UNCHANGED <<ask, handler, wake, slot, conn, pending, receipts, audit, effect, reply, lost>>
        BY <1>3 DEF routerVars
    <2>2. TypeOK'
        BY <1>0, <2>1 DEF ContractInv, TypeOK
    <2>3. HandlersFine' /\ LinksFine' /\ NoRepeats' /\ WakeFine'
        BY <1>0, <2>1, LinksKept, WakeKept DEF ContractInv, HandlersFine, Sent
    <2>4. \A q \in Request : Open(q) => Open(q)'
        BY <2>1 DEF Open, OperationName, IndexOf
    <2>5. OnTheWay' /\ InHand' /\ PhasesFine' /\ LateAnswersAudited'
        BY <2>1, <2>4, AuditKept
    <2>6. Unsent' /\ DroppedByOwn' /\ Claimed'
        BY <2>1, <2>4 DEF RouterInv, AuditInv, Unsent, DroppedByOwn, Claimed
    <2> QED BY <2>2, <2>3, <2>5, <2>6 DEF RouterInv, ContractInv, AuditInv
<1> QED BY <1>1, <1>2, <1>3, ReadReceiptInv DEF RouterNext

\* For every number of requests, connections and receipts: a change Studio reported is
\* in writes.log once its answer is handled, however late, unless the answer went with
\* its link, the receipt was dropped or another connection's cleanup failed the request
THEOREM ReportedChangesAudited == RouterSpec => []LateAnswersAudited
<1>1. RouterInv => LateAnswersAudited
    BY DEF RouterInv, AuditInv
<1> QED BY <1>1, InitInv, StepInv, PTL DEF RouterSpec

-----------------------------------------------------------------------------
(* POST /request implements its contract *)

\* A reply that is true of what was done is a reply of the contract
LEMMA ContractReplies ==
    ASSUME RouterInv, NEW r \in Request, NEW v \in {"unknown", "notStarted", "partial", "completed"},
           handler[r].pc # "replied", Replies(r, v), UNCHANGED effect,
           v = "notStarted" => effect[r] \in {"none", "refused"},
           v = "completed" => effect[r] = "all",
           v = "partial" => effect[r] \in {"some", "all"}
    PROVE  Contract!Reply(r)
<1>1. reply[r] = "open" /\ effect[r] \in {"none", "refused", "some", "all"}
    BY DEF RouterInv, ContractInv, HandlersFine, TypeOK
<1>2. effect[r] \in Contract!TrueOf(v)
    BY <1>1 DEF Contract!TrueOf, Contract!Effect
<1>3. v \in Contract!Verdict \ {"open"}
    BY DEF Contract!Verdict
<1> QED BY <1>1, <1>2, <1>3 DEF Contract!Reply, Replies

\* Every step of a handler is a reply of the contract, a service of the daemon, or nothing
LEMMA HandlerImplements ==
    ASSUME RouterInv, NEW r \in Request, HandlerStep(r)
    PROVE  Contract!Reply(r) \/ Contract!Serve(r) \/ UNCHANGED <<effect, reply>>
<1>0. /\ handler[r].pc # "replied" => reply[r] = "open"
      /\ ~Sent(r) => effect[r] = "none"
    BY DEF RouterInv, ContractInv, HandlersFine
<1>1. CASE Refuse(r)
    BY <1>0, <1>1, ContractReplies DEF Refuse, Sent
<1>2. CASE Accept(r)
    BY <1>0, <1>2, ContractReplies DEF Accept, Repeat, Sent
<1>3. CASE AnswerHere(r)
    <2>1. handler[r].pc = "begun" /\ effect[r] = "none" /\ reply[r] = "open"
        BY <1>0, <1>3 DEF AnswerHere, Sent
    <2>2. CASE Replies(r, "completed") /\ effect' = [effect EXCEPT ![r] = "all"]
        BY <2>1, <2>2 DEF Replies, Contract!Serve
    <2>3. CASE FailBeforeSend(r) /\ UNCHANGED effect
        BY <2>1, <2>3, ContractReplies DEF FailBeforeSend
    <2> QED BY <1>3, <2>2, <2>3 DEF AnswerHere
<1>4. CASE FindPlugin(r)
    BY <1>0, <1>4, ContractReplies DEF FindPlugin, FailBeforeSend, Sent
<1>5. CASE RegisterRequest(r)
    BY <1>5 DEF RegisterRequest
<1>6. CASE SendRequest(r)
    BY <1>0, <1>6, ContractReplies DEF SendRequest, FailBeforeSend, Sent
<1>7. CASE Deliver(r)
    <2>1. ContractInv
        BY DEF RouterInv
    <2>2. PICK v \in {"unknown", "notStarted", "partial", "completed"} :
             /\ Replies(r, v)
             /\ v = "notStarted" => effect[r] = "refused"
             /\ v = "completed" => effect[r] = "all"
             /\ v = "partial" => effect[r] \in {"some", "all"}
        BY <1>7, <2>1, DeliverTrue
    <2> QED BY <1>7, <2>2, ContractReplies DEF Deliver
<1>8. CASE Dropped(r)
    BY <1>8, ContractReplies DEF Dropped
<1>9. CASE Timeout(r)
    BY <1>9, ContractReplies DEF Timeout, TimeOut
<1> QED BY <1>1, <1>2, <1>3, <1>4, <1>5, <1>6, <1>7, <1>8, <1>9 DEF HandlerStep

\* Studio runs only what it may still run
LEMMA ExecuteImplements ==
    ASSUME RouterInv, NEW c \in Conn, Execute(c)
    PROVE  \E r \in Request : Contract!Run(r)
<1>1. conn[c].out \in Seq(Request) /\ conn[c].out # <<>>
    BY DEF Execute, RouterInv, ContractInv, TypeOK
<1>2. PICK r \in Request : r = Head(conn[c].out) /\ r = conn[c].out[1] /\ 1 \in DOMAIN conn[c].out
    BY <1>1, HeadTail
<1>3. ToStudio(r, c)
    BY <1>2 DEF RouterInv, ContractInv, LinksFine
<1>4. PICK a \in Answer : effect' = [effect EXCEPT ![r] = a.effect]
    BY <1>2 DEF Execute
<1>5. a.effect \in Contract!Effect \ {"none"}
    BY DEF Answer, Contract!Effect
<1>6. UNCHANGED reply
    BY DEF Execute
<1> QED BY <1>3, <1>4, <1>5, <1>6 DEF ToStudio, Contract!Run

\* POST /request implements its contract, whatever interleaves: each request is answered
\* once and run at most once, one called "notStarted" has not run and never will, one
\* called "completed" or "partial" has
THEOREM RequestsKeepContract == RouterSpec => KeepsContract
<1>1. RouterInit => Contract!ContractInit
    BY DEF RouterInit, Contract!ContractInit
<1>2. RouterInv /\ [RouterNext]_routerVars => [Contract!ContractNext]_(Contract!contractVars)
    <2> SUFFICES ASSUME RouterInv, [RouterNext]_routerVars
                 PROVE  Contract!ContractNext \/ UNCHANGED <<effect, reply>>
        BY DEF Contract!contractVars
    <2>1. ASSUME NEW r \in Request, HandlerStep(r)
          PROVE  Contract!ContractNext \/ UNCHANGED <<effect, reply>>
        BY <2>1, HandlerImplements DEF Contract!ContractNext
    <2>2. ASSUME NEW c \in Conn, ConnStep(c)
          PROVE  Contract!ContractNext \/ UNCHANGED <<effect, reply>>
        <3>1. CASE Execute(c)
            BY <3>1, ExecuteImplements DEF Contract!ContractNext
        <3>2. CASE ~Execute(c)
            BY <2>2, <3>2 DEF ConnStep, Claim, RecordAudit, LookUp, FinishReceipt, WakeCaller,
                  LoopEnds, CleanupReleases, CleanupFails
        <3> QED BY <3>1, <3>2
    <2>3. CASE ReadReceipt
        BY <2>3 DEF ReadReceipt
    <2>4. CASE UNCHANGED routerVars
        BY <2>4 DEF routerVars
    <2> QED BY <2>1, <2>2, <2>3, <2>4 DEF RouterNext
<1> QED BY <1>1, <1>2, InitInv, StepInv, PTL DEF RouterSpec, KeepsContract, Contract!ContractSpec

=============================================================================
