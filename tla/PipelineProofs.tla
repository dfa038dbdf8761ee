--------------------------- MODULE PipelineProofs ---------------------------
(***************************************************************************)
(* What `wait-synced` vouches for, for every set of paths, every tree of   *)
(* them and every number of edits, pushes and lost links.                  *)
(*                                                                         *)
(* QuietBarrierDelivers speaks of the end of a barrier.  PipelineInv       *)
(* follows an edit there: an edit that the tree has not taken has an event *)
(* (EditsInv); the contents of a path are in order from Studio to the tree *)
(* and the newest one is on its way (StreamInv); and by the stage of the   *)
(* barrier, what it was asked for has passed that stage (PromiseInv,       *)
(* StageInv).  NotYet and QuietInv say that a barrier nobody disturbed     *)
(* finds no event held back.                                               *)
(***************************************************************************)
EXTENDS Pipeline, FiniteSetTheorems, TLAPS

-----------------------------------------------------------------------------
(* Types *)

Message == [Path -> Nat]
Frame == [type : {"sync"}, change : Message] \cup [type : {"sync_barrier"}]

LinkField == {"id", "last", "lost", "queue", "pushed", "taken", "settled", "bridge", "inHand", "socket"}
BarrierField == {"pc", "id", "want", "window", "held", "target", "answer", "quiet"}

ContentsTyped ==
    /\ disk \in [Path -> Nat \ {0}] /\ tree \in [Path -> Nat \ {0}] /\ studio \in [Path -> Nat \ {0}]
    /\ spent = [edits |-> spent.edits, faults |-> spent.faults, fresh |-> spent.fresh] /\ spent.fresh \in Nat \ {0}
    /\ pushes \in Seq([path : Path \cap exempt, content : Nat \ {0}])

WatcherTyped ==
    /\ raw \subseteq [path : Path, old : BOOLEAN] /\ IsFiniteSet(raw)
    /\ pass = [pc |-> pass.pc, late |-> pass.late, writing |-> pass.writing, emits |-> pass.emits]
    /\ pass.pc \in {"idle", "read", "emit", "end"} /\ pass.late \in BOOLEAN /\ pass.writing \in BOOLEAN
    /\ pass.emits \subseteq Path /\ IsFiniteSet(pass.emits)
    /\ held \subseteq Path /\ IsFiniteSet(held) /\ flushed \in BOOLEAN
    /\ events \in Seq(Path)

ProcessorTyped ==
    /\ pauseState = [paused |-> pauseState.paused, recent |-> pauseState.recent]
    /\ processor = [pc |-> processor.pc, left |-> processor.left]
    /\ \/ processor.pc \in {"idle", "write", "written"} /\ processor.left = 0
       \/ processor.pc = "drain" /\ processor.left \in 0 .. Len(events)
    /\ processor.pc \in {"write", "written"} => pauseState.paused /\ pushes # <<>>

\* What is in hand was taken and is not settled, and what is taken and queued is what was pushed
LinkTyped ==
    /\ DOMAIN link = LinkField
    /\ link.id \in Nat /\ link.last \in Nat /\ (link.id # 0 => link.last = link.id)
    /\ link.queue \in Seq(Message) /\ link.socket \in Seq(Frame)
    /\ link.pushed \in Nat /\ link.taken \in Nat /\ link.settled \in Nat
    /\ link.pushed = link.taken + Len(link.queue)
    /\ \/ link.bridge = "idle" /\ link.settled <= link.taken
       \/ link.bridge = "wait" /\ link.settled = link.taken
       \/ link.bridge = "send" /\ link.settled + 1 = link.taken /\ link.inHand \in Message
    /\ link.id = 0 => link.queue = <<>> /\ link.socket = <<>> /\ link.bridge = "idle" /\ landing = {}
    /\ landing \subseteq Path \X (Nat \ {0})

BarrierTyped ==
    /\ DOMAIN barrier = BarrierField
    /\ barrier.pc \in {"none", "held", "flush", "fence", "mark", "queue", "ask", "asked", "answered", "synced", "ended"}
    /\ barrier.pc \notin {"none", "ended"} => barrier.want \in [Path -> Nat]
    /\ barrier.id \in Nat /\ barrier.id <= link.last /\ barrier.target \in Nat
    /\ barrier.window \in BOOLEAN /\ barrier.quiet \in BOOLEAN

-----------------------------------------------------------------------------
(* Contents on their way *)

\* The messages in frames; a question has none
ChangeOf(f) == IF f.type = "sync" THEN f.change ELSE [p \in Path |-> 0]
Sent(s) == [i \in 1 .. Len(s) |-> ChangeOf(s[i])]

\* The contents of p, 0 being none: in messages, in the bridge's hand, landing
Values(s, p) == {s[i][p] : i \in 1 .. Len(s)} \ {0}
InHand(p) == IF link.bridge = "send" THEN {link.inHand[p]} \ {0} ELSE {}
Landing(p) == {w[2] : w \in {x \in landing : x[1] = p}}

\* Later messages have later contents
Rising(s, p) == \A i, j \in 1 .. Len(s) : i < j /\ s[i][p] # 0 /\ s[j][p] # 0 => s[i][p] <= s[j][p]

Below(A, B) == \A a \in A, b \in B : a <= b

\* Studio, what lands, what is on the socket, in hand and queued, and the tree
Chain(now, landed, sent, hand, queued, newest) ==
    /\ \A v \in landed \cup sent \cup hand \cup queued : now <= v /\ v <= newest
    /\ Below(landed, sent) /\ Below(landed, hand) /\ Below(landed, queued)
    /\ Below(sent, hand) /\ Below(sent, queued) /\ Below(hand, queued)
    /\ now <= newest

InOrder(p) ==
    /\ Chain(studio[p], Landing(p), Values(Sent(link.socket), p), InHand(p), Values(link.queue, p), tree[p])
    /\ Rising(Sent(link.socket), p) /\ Rising(link.queue, p)
    /\ tree[p] <= disk[p] /\ disk[p] <= spent.fresh

\* The content of the tree is in Studio or on its way
OnItsWay(p) ==
    tree[p] \in {studio[p]} \cup Landing(p) \cup Values(Sent(link.socket), p) \cup InHand(p) \cup Values(link.queue, p)

StreamInv ==
    /\ \A p \in Path \ exempt : InOrder(p)
    /\ \A p \in Path \ (exempt \cup link.lost) : OnItsWay(p)

-----------------------------------------------------------------------------
(* Edits on their way *)

InEvents(p) == \E i \in 1 .. Len(events) : events[i] \in Above[p]
InPass(p) == pass.pc \in {"read", "emit"} /\ pass.emits \cap Above[p] # {}
InRaw(p) == \E e \in raw : e.path \in Above[p]
InOldRaw(p) == \E e \in raw : e.old /\ e.path \in Above[p]

\* An edit that the tree has not taken has an event somewhere
EditsInv ==
    \A p \in Path : Owed(p) /\ disk[p] # tree[p] =>
        InRaw(p) \/ InPass(p) \/ held \cap Above[p] # {} \/ InEvents(p)

-----------------------------------------------------------------------------
(* The barrier *)

Active == barrier.pc \notin {"none", "ended"}

\* No write of the daemon's own
QuietInv ==
    /\ Active /\ barrier.quiet => ~pauseState.paused /\ ~pauseState.recent /\ held = {} /\ ~pass.writing
    /\ pass.pc = "idle" => ~pass.writing

LinkOfBarrier == Active => barrier.id # 0 /\ (link.id = barrier.id => link.lost \subseteq exempt)

TreeHas(p) == barrier.want[p] <= tree[p]
StudioHas(p) == barrier.want[p] <= studio[p]
Reached(p, S) == \E v \in S : barrier.want[p] <= v

FlushAhead(p) ==
    TreeHas(p) \/ InEvents(p) \/ (~flushed /\ (InPass(p) \/ (~pass.late /\ InOldRaw(p))))

FenceAhead(p) ==
    \/ TreeHas(p)
    \/ processor.pc # "drain" /\ InEvents(p)
    \/ processor.pc = "drain" /\ \E i \in 1 .. processor.left : events[i] \in Above[p]

QueueAhead(p) ==
    \/ StudioHas(p) \/ Reached(p, Landing(p)) \/ Reached(p, Values(Sent(link.socket), p))
    \/ Reached(p, InHand(p)) /\ link.taken <= barrier.target
    \/ \E i \in 1 .. Len(link.queue) : /\ link.taken + i <= barrier.target
                                       /\ link.queue[i][p] # 0 /\ barrier.want[p] <= link.queue[i][p]

SocketAhead(p) == StudioHas(p) \/ Reached(p, Landing(p)) \/ Reached(p, Values(Sent(link.socket), p))

AnswerAhead(p) ==
    \A j \in 1 .. Len(link.socket) : link.socket[j].type = "sync_barrier" =>
        \/ StudioHas(p) \/ Reached(p, Landing(p))
        \/ \E i \in 1 .. Len(link.socket) : i < j /\ Sent(link.socket)[i][p] # 0 /\ barrier.want[p] <= Sent(link.socket)[i][p]

Promised(p) ==
    /\ barrier.want[p] <= disk[p]
    /\ barrier.pc \in {"held", "flush"} => FlushAhead(p)
    /\ barrier.pc = "fence" => FenceAhead(p)
    /\ barrier.pc = "mark" => TreeHas(p)
    /\ barrier.pc = "synced" => StudioHas(p)
    /\ link.id = barrier.id =>
          /\ barrier.pc = "queue" => QueueAhead(p)
          /\ barrier.pc = "ask" => SocketAhead(p)
          /\ barrier.pc = "asked" => AnswerAhead(p)
          /\ barrier.pc = "answered" /\ barrier.answer = "settled" => StudioHas(p)

PromiseInv == Active /\ barrier.quiet => \A p \in Path : Owed(p) => Promised(p)

NotYet == barrier.pc = "none" => ~flushed /\ ~pass.late /\ ~barrier.window

\* The processor drains for the fence, and no question is on the socket before it is asked
StageInv ==
    /\ processor.pc = "drain" => barrier.pc \in {"fence", "ended"}
    /\ \/ barrier.pc \in {"asked", "answered", "synced", "ended"}
       \/ \A i \in 1 .. Len(link.socket) : link.socket[i].type = "sync"

LinkInv == LinkTyped /\ StreamInv
Base == ContentsTyped /\ WatcherTyped /\ ProcessorTyped /\ LinkInv /\ BarrierTyped

PipelineInv ==
    Base /\ EditsInv /\ QuietInv /\ LinkOfBarrier /\ PromiseInv /\ NotYet /\ StageInv

-----------------------------------------------------------------------------
(* Sets and sequences *)

\* A batch of events has every path of its set
LEMMA Batch ==
    ASSUME NEW S, IsFiniteSet(S), S \subseteq Path, NEW batch \in SetToSeqs(S)
    PROVE  batch \in Seq(Path) /\ \A q \in S : \E i \in 1 .. Len(batch) : batch[i] = q
<1> DEFINE n == Cardinality(S)
<1>1. n \in Nat /\ IsFiniteSet(1 .. n) /\ Cardinality(1 .. n) = n
    BY FS_CardinalityType, FS_Interval
<1>2. batch \in [1 .. n -> S] /\ \A i, j \in 1 .. n : i # j => batch[i] # batch[j]
    BY DEF SetToSeqs
<1> HIDE DEF n
<1>3. batch \in Injection(1 .. n, S)
    BY <1>2 DEF Injection, IsInjective
<1>4. Cardinality(1 .. n) = Cardinality(S) => batch \in Surjection(1 .. n, S)
    BY <1>3, FS_Injection
<1>5. batch \in Surjection(1 .. n, S)
    BY <1>1, <1>4 DEF n
<1>6. \A q \in S : \E i \in 1 .. n : batch[i] = q
    BY <1>5 DEF Surjection
<1>7. batch \in Seq(Path) /\ Len(batch) = n
    BY <1>1, <1>2
<1> QED
    BY <1>6, <1>7

\* Events of a batch come after the ones that are there
LEMMA BatchJoins ==
    ASSUME NEW s \in Seq(Path), NEW t \in Seq(Path)
    PROVE  /\ s \o t \in Seq(Path) /\ Len(s \o t) = Len(s) + Len(t)
           /\ \A i \in 1 .. Len(s) : (s \o t)[i] = s[i]
           /\ \A i \in 1 .. Len(t) : Len(s) + i \in 1 .. Len(s \o t) /\ (s \o t)[Len(s) + i] = t[i]
<1>1. s \o t \in Seq(Path) /\ Len(s \o t) = Len(s) + Len(t)
    OBVIOUS
<1>2. \A i \in 1 .. Len(s) : (s \o t)[i] = s[i]
    OBVIOUS
<1>3. ASSUME NEW i \in 1 .. Len(t) PROVE (s \o t)[Len(s) + i] = t[i]
    OBVIOUS
<1> QED
    BY <1>1, <1>2, <1>3

\* Messages of a queue, one more and one less
LEMMA QueueGrows ==
    ASSUME NEW s \in Seq(Message), NEW m \in Message, NEW p \in Path
    PROVE  /\ Append(s, m) \in Seq(Message) /\ Len(Append(s, m)) = Len(s) + 1
           /\ Values(Append(s, m), p) = Values(s, p) \cup ({m[p]} \ {0})
           /\ Rising(s, p) /\ Below(Values(s, p), {m[p]} \ {0}) => Rising(Append(s, m), p)
<1> DEFINE new == Append(s, m)
<1>1. new \in Seq(Message) /\ Len(new) = Len(s) + 1 /\ new[Len(s) + 1] = m /\ \A i \in 1 .. Len(s) : new[i] = s[i]
    OBVIOUS
<1> HIDE DEF new
<1>2. Values(new, p) = Values(s, p) \cup ({m[p]} \ {0})
    <2>1. ASSUME NEW v \in Values(new, p) PROVE v \in Values(s, p) \cup ({m[p]} \ {0})
        BY <1>1 DEF Values
    <2>2. ASSUME NEW v \in Values(s, p) PROVE v \in Values(new, p)
        BY <1>1 DEF Values
    <2>3. ASSUME NEW v \in {m[p]} \ {0} PROVE v \in Values(new, p)
        <3>1. v = new[Len(s) + 1][p] /\ v # 0 /\ Len(s) + 1 \in 1 .. Len(new)
            BY <1>1
        <3> QED
            BY <3>1 DEF Values
    <2> QED
        BY <2>1, <2>2, <2>3
<1>3. ASSUME Rising(s, p), Below(Values(s, p), {m[p]} \ {0}) PROVE Rising(new, p)
    <2> SUFFICES ASSUME NEW i \in 1 .. Len(new), NEW j \in 1 .. Len(new), i < j, new[i][p] # 0, new[j][p] # 0
                 PROVE  new[i][p] <= new[j][p]
        BY DEF Rising
    <2>1. i \in 1 .. Len(s) /\ new[i] = s[i]
        BY <1>1
    <2>2. CASE j \in 1 .. Len(s)
        BY <1>1, <1>3, <2>1, <2>2 DEF Rising
    <2>3. CASE j = Len(s) + 1
        BY <1>1, <1>3, <2>1, <2>3 DEF Below, Values
    <2> QED
        BY <1>1, <2>2, <2>3
<1> QED
    BY <1>1, <1>2, <1>3 DEF new

LEMMA QueueShrinks ==
    ASSUME NEW s \in Seq(Message), s # <<>>, NEW p \in Path
    PROVE  /\ Tail(s) \in Seq(Message) /\ Head(s) \in Message /\ Len(Tail(s)) = Len(s) - 1 /\ Len(s) \in Nat \ {0}
           /\ Values(s, p) = Values(Tail(s), p) \cup ({Head(s)[p]} \ {0})
           /\ Rising(s, p) => Rising(Tail(s), p) /\ Below({Head(s)[p]} \ {0}, Values(Tail(s), p))
<1> DEFINE t == Tail(s)
<1>1. /\ t \in Seq(Message) /\ Len(t) = Len(s) - 1 /\ Head(s) = s[1] /\ s[1] \in Message /\ Len(s) \in Nat \ {0}
      /\ \A i \in 1 .. Len(t) : t[i] = s[i + 1] /\ i + 1 \in 1 .. Len(s)
    OBVIOUS
<1> HIDE DEF t
<1>2. Values(s, p) = Values(t, p) \cup ({s[1][p]} \ {0})
    <2>1. ASSUME NEW v \in Values(s, p) PROVE v \in Values(t, p) \cup ({s[1][p]} \ {0})
        <3>1. PICK i \in 1 .. Len(s) : v = s[i][p] /\ v # 0
            BY DEF Values
        <3>2. CASE i = 1
            BY <3>1, <3>2
        <3>3. CASE i # 1
            <4>1. i - 1 \in 1 .. Len(t) /\ t[i - 1] = s[(i - 1) + 1] /\ (i - 1) + 1 = i
                BY <1>1, <3>1, <3>3
            <4> QED
                BY <3>1, <4>1 DEF Values
        <3> QED
            BY <3>2, <3>3
    <2>2. ASSUME NEW v \in Values(t, p) PROVE v \in Values(s, p)
        BY <1>1 DEF Values
    <2>3. ASSUME NEW v \in {s[1][p]} \ {0} PROVE v \in Values(s, p)
        BY <1>1 DEF Values
    <2> QED
        BY <2>1, <2>2, <2>3
<1>3. ASSUME Rising(s, p) PROVE Rising(t, p) /\ Below({s[1][p]} \ {0}, Values(t, p))
    <2>1. Rising(t, p)
        BY <1>1, <1>3 DEF Rising
    <2>2. Below({s[1][p]} \ {0}, Values(t, p))
        <3> SUFFICES ASSUME NEW i \in 1 .. Len(t), t[i][p] # 0, s[1][p] # 0 PROVE s[1][p] <= t[i][p]
            BY DEF Below, Values
        <3>1. t[i] = s[i + 1] /\ i + 1 \in 1 .. Len(s) /\ 1 < i + 1 /\ 1 \in 1 .. Len(s)
            BY <1>1
        <3> QED
            BY <1>3, <3>1 DEF Rising
    <2> QED
        BY <2>1, <2>2
<1> QED
    BY <1>1, <1>2, <1>3 DEF t

\* Frames of a socket, one more and one less
LEMMA SocketGrows ==
    ASSUME NEW s \in Seq(Frame), NEW f \in Frame
    PROVE  /\ Append(s, f) \in Seq(Frame) /\ Len(Append(s, f)) = Len(s) + 1
           /\ Sent(s) \in Seq(Message) /\ Len(Sent(s)) = Len(s) /\ ChangeOf(f) \in Message
           /\ Sent(Append(s, f)) = Append(Sent(s), ChangeOf(f))
<1>1. \A g \in Frame : ChangeOf(g) \in Message
    BY DEF Frame, ChangeOf, Message
<1>2. Append(s, f) \in Seq(Frame) /\ Len(Append(s, f)) = Len(s) + 1 /\ Append(s, f)[Len(s) + 1] = f /\ Len(s) \in Nat
      /\ \A i \in 1 .. Len(s) : Append(s, f)[i] = s[i]
    OBVIOUS
<1>3. Sent(s) \in Seq(Message) /\ Len(Sent(s)) = Len(s)
    BY <1>1 DEF Sent
<1>4. Sent(Append(s, f)) \in Seq(Message) /\ Len(Sent(Append(s, f))) = Len(s) + 1
    BY <1>1, <1>2 DEF Sent
<1>5. \A i \in 1 .. Len(s) + 1 : Sent(Append(s, f))[i] = Append(Sent(s), ChangeOf(f))[i]
    <2> SUFFICES ASSUME NEW i \in 1 .. Len(s) + 1 PROVE Sent(Append(s, f))[i] = Append(Sent(s), ChangeOf(f))[i]
        OBVIOUS
    <2>1. Sent(Append(s, f))[i] = ChangeOf(Append(s, f)[i])
        BY <1>2 DEF Sent
    <2>2. CASE i = Len(s) + 1
        BY <1>1, <1>2, <1>3, <2>1, <2>2
    <2>3. CASE i \in 1 .. Len(s)
        <3>1. Append(Sent(s), ChangeOf(f))[i] = Sent(s)[i]
            BY <1>1, <1>3, <2>3
        <3> QED
            BY <1>2, <2>1, <2>3, <3>1 DEF Sent
    <2>4. Len(s) \in Nat
        OBVIOUS
    <2>5. i = Len(s) + 1 \/ i \in 1 .. Len(s)
        BY <2>4
    <2> QED
        BY <2>2, <2>3, <2>5
<1>6. Append(Sent(s), ChangeOf(f)) \in Seq(Message) /\ Len(Append(Sent(s), ChangeOf(f))) = Len(s) + 1
    BY <1>1, <1>3
<1> HIDE DEF Sent
<1>7. Sent(Append(s, f)) = Append(Sent(s), ChangeOf(f))
    BY <1>4, <1>5, <1>6
<1> QED
    BY <1>1, <1>2, <1>3, <1>7

LEMMA SocketShrinks ==
    ASSUME NEW s \in Seq(Frame), s # <<>>
    PROVE  /\ Tail(s) \in Seq(Frame) /\ Head(s) = s[1] /\ Head(s) \in Frame
           /\ Len(Tail(s)) = Len(s) - 1 /\ Len(s) \in Nat \ {0} /\ \A i \in 1 .. Len(s) - 1 : Tail(s)[i] = s[i + 1]
           /\ Sent(s) \in Seq(Message) /\ Sent(s) # <<>> /\ Len(Sent(s)) = Len(s)
           /\ Head(Sent(s)) = ChangeOf(Head(s)) /\ Sent(Tail(s)) = Tail(Sent(s))
<1>1. \A g \in Frame : ChangeOf(g) \in Message
    BY DEF Frame, ChangeOf, Message
<1>2. Tail(s) \in Seq(Frame) /\ Head(s) = s[1] /\ Head(s) \in Frame /\ Len(Tail(s)) = Len(s) - 1 /\ Len(s) \in Nat \ {0}
      /\ \A i \in 1 .. Len(s) - 1 : Tail(s)[i] = s[i + 1]
    OBVIOUS
<1>3. Sent(s) \in Seq(Message) /\ Len(Sent(s)) = Len(s) /\ \A i \in 1 .. Len(s) : Sent(s)[i] = ChangeOf(s[i])
    BY <1>1 DEF Sent
<1>4. Sent(Tail(s)) \in Seq(Message) /\ Len(Sent(Tail(s))) = Len(s) - 1
      /\ \A i \in 1 .. Len(s) - 1 : Sent(Tail(s))[i] = ChangeOf(Tail(s)[i])
    <2>1. PICK t \in Seq(Frame) : t = Tail(s)
        BY <1>2
    <2>2. Sent(t) \in Seq(Message) /\ Len(Sent(t)) = Len(t) /\ \A i \in 1 .. Len(t) : Sent(t)[i] = ChangeOf(t[i])
        BY <1>1 DEF Sent
    <2> QED
        BY <1>2, <2>1, <2>2
<1> HIDE DEF Sent
<1>5. Sent(s) # <<>> /\ Head(Sent(s)) = Sent(s)[1]
    BY <1>2, <1>3
<1>6. Tail(Sent(s)) \in Seq(Message) /\ Len(Tail(Sent(s))) = Len(s) - 1
      /\ \A i \in 1 .. Len(s) - 1 : Tail(Sent(s))[i] = Sent(s)[i + 1]
    BY <1>2, <1>3, <1>5
<1>7. \A i \in 1 .. Len(s) - 1 : Tail(Sent(s))[i] = Sent(Tail(s))[i]
    BY <1>2, <1>3, <1>4, <1>6
<1>8. Sent(Tail(s)) = Tail(Sent(s))
    BY <1>4, <1>6, <1>7
<1> QED
    BY <1>2, <1>3, <1>5, <1>8

-----------------------------------------------------------------------------
(* The stream of contents *)

LEMMA SentTyped ==
    ASSUME NEW s \in Seq(Frame)
    PROVE  Sent(s) \in Seq(Message) /\ Len(Sent(s)) = Len(s) /\ \A i \in 1 .. Len(s) : Sent(s)[i] = ChangeOf(s[i])
<1>1. \A g \in Frame : ChangeOf(g) \in Message
    BY DEF Frame, ChangeOf, Message
<1> QED
    BY <1>1 DEF Sent

LEMMA ValuesTyped ==
    ASSUME NEW s \in Seq(Message), NEW p \in Path
    PROVE  Values(s, p) \subseteq Nat \ {0}
BY DEF Values, Message

LEMMA StreamTyped ==
    ASSUME ContentsTyped, LinkTyped, NEW p \in Path
    PROVE  /\ Landing(p) \subseteq Nat \ {0} /\ Values(Sent(link.socket), p) \subseteq Nat \ {0}
           /\ InHand(p) \subseteq Nat \ {0} /\ Values(link.queue, p) \subseteq Nat \ {0}
           /\ studio[p] \in Nat \ {0} /\ tree[p] \in Nat \ {0} /\ disk[p] \in Nat \ {0} /\ spent.fresh \in Nat \ {0}
<1>1. Landing(p) \subseteq Nat \ {0}
    BY DEF LinkTyped, Landing
<1>2. Values(Sent(link.socket), p) \subseteq Nat \ {0}
    BY SentTyped, ValuesTyped DEF LinkTyped
<1>3. Values(link.queue, p) \subseteq Nat \ {0}
    BY ValuesTyped DEF LinkTyped
<1>4. InHand(p) \subseteq Nat \ {0}
    BY DEF InHand, LinkTyped, Message
<1> QED
    BY <1>1, <1>2, <1>3, <1>4 DEF ContentsTyped

\* The link's part of the stream of p stays
SameStream(p) ==
    /\ Landing(p)' = Landing(p) /\ InHand(p)' = InHand(p)
    /\ Values(Sent(link.socket), p)' = Values(Sent(link.socket), p)
    /\ Values(link.queue, p)' = Values(link.queue, p)
    /\ Rising(Sent(link.socket), p) => Rising(Sent(link.socket), p)'
    /\ Rising(link.queue, p) => Rising(link.queue, p)'

SameLink ==
    /\ landing' = landing /\ link'.socket = link.socket /\ link'.queue = link.queue
    /\ (link.bridge = "send") = (link'.bridge = "send") /\ (link.bridge = "send" => link'.inHand = link.inHand)

LEMMA SameLinkStreams ==
    ASSUME SameLink, NEW p
    PROVE  SameStream(p)
<1>1. Landing(p)' = Landing(p) /\ InHand(p)' = InHand(p)
    BY DEF SameLink, Landing, InHand
<1>2. Sent(link.socket)' = Sent(link.socket) /\ link'.queue = link.queue
    BY DEF SameLink, Sent, ChangeOf
<1> QED
    BY <1>1, <1>2 DEF SameStream, Values, Rising

\* Contents that are owed stay as they are, or the file is edited
LEMMA StreamKept ==
    ASSUME StreamInv, ContentsTyped, \A p \in Path : SameStream(p), exempt \subseteq exempt', link.lost \subseteq link'.lost,
           \A p \in Path \ exempt' : /\ studio'[p] = studio[p] /\ tree'[p] = tree[p]
                                     /\ disk'[p] \in {disk[p], spent.fresh},
           spent'.fresh \in {spent.fresh, spent.fresh + 1}
    PROVE  StreamInv'
<1>1. ASSUME NEW p \in Path \ exempt' PROVE InOrder(p)'
    <2>1. InOrder(p)
        BY DEF StreamInv
    <2>2. SameStream(p)
        OBVIOUS
    <2>3. tree[p] <= disk'[p] /\ disk'[p] <= spent'.fresh
        <3>1. tree[p] <= disk[p] /\ disk[p] <= spent.fresh /\ tree[p] \in Nat /\ disk[p] \in Nat /\ spent.fresh \in Nat
            BY <2>1 DEF InOrder, ContentsTyped
        <3> QED
            BY <3>1
    <2>4. Chain(studio[p], Landing(p), Values(Sent(link.socket), p), InHand(p), Values(link.queue, p), tree[p])'
        BY <2>1, <2>2 DEF InOrder, Chain, SameStream
    <2> QED
        BY <2>1, <2>2, <2>3, <2>4 DEF InOrder, SameStream
<1>2. ASSUME NEW p \in Path \ (exempt' \cup link'.lost) PROVE OnItsWay(p)'
    <2>1. OnItsWay(p) /\ SameStream(p)
        BY DEF StreamInv
    <2> QED
        BY <2>1 DEF OnItsWay, SameStream
<1> QED
    BY <1>1, <1>2 DEF StreamInv

-----------------------------------------------------------------------------
(* The link and the stream, action by action *)

\* A step that leaves the link alone
LEMMA LinkAlone ==
    ASSUME ContentsTyped, LinkInv, UNCHANGED <<link, landing>>, exempt \subseteq exempt',
           \A p \in Path \ exempt' : /\ studio'[p] = studio[p] /\ tree'[p] = tree[p]
                                     /\ disk'[p] \in {disk[p], spent.fresh},
           spent'.fresh \in {spent.fresh, spent.fresh + 1}
    PROVE  LinkInv'
<1>1. LinkTyped'
    BY DEF LinkInv, LinkTyped
<1>2. SameLink /\ link.lost \subseteq link'.lost
    BY DEF SameLink
<1>3. StreamInv'
    BY <1>2, SameLinkStreams, StreamKept DEF LinkInv
<1> QED
    BY <1>1, <1>3 DEF LinkInv

LEMMA EmptyLinkTyped == <<>> \in Seq(Message) /\ <<>> \in Seq(Frame) /\ Len(<<>>) = 0
OBVIOUS

LEMMA LinkLostLink ==
    ASSUME ContentsTyped, LinkInv, LinkLost
    PROVE  LinkInv'
<1>1. link' = [NoLink EXCEPT !.last = link.id, !.lost = {p \in Path : tree[p] # studio[p]}] /\ landing' = {}
    BY DEF LinkLost
<1>2. /\ DOMAIN link' = LinkField /\ link'.id = 0 /\ link'.last = link.id /\ link'.lost = {p \in Path : tree[p] # studio[p]}
      /\ link'.queue = <<>> /\ link'.socket = <<>> /\ link'.pushed = 0 /\ link'.taken = 0 /\ link'.settled = 0
      /\ link'.bridge = "idle"
    BY <1>1 DEF NoLink, LinkField
<1>3. LinkTyped'
    <2>1. link.id \in Nat /\ landing' = {}
        BY <1>1 DEF LinkInv, LinkTyped
    <2> QED
        BY <1>2, <2>1, EmptyLinkTyped DEF LinkTyped
<1>4. ASSUME NEW p \in Path
      PROVE  /\ Landing(p)' = {} /\ InHand(p)' = {} /\ Values(Sent(link.socket), p)' = {} /\ Values(link.queue, p)' = {}
             /\ Rising(Sent(link.socket), p)' /\ Rising(link.queue, p)'
    <2>1. Landing(p)' = {} /\ InHand(p)' = {}
        BY <1>1, <1>2 DEF Landing, InHand
    <2>2. Sent(link'.socket) = <<>> /\ \A s : s = <<>> => Values(s, p) = {} /\ Rising(s, p)
        BY <1>2 DEF Sent, Values, Rising
    <2> QED
        BY <1>2, <2>1, <2>2
<1>5. \A p \in Path : studio'[p] = studio[p] /\ tree'[p] = tree[p] /\ disk'[p] = disk[p]
      /\ spent'.fresh = spent.fresh /\ exempt' = exempt
    BY DEF LinkLost, Contents, ContentsTyped
<1>6. ASSUME NEW p \in Path \ exempt' PROVE InOrder(p)'
    <2>1. InOrder(p) /\ studio'[p] = studio[p] /\ tree'[p] = tree[p] /\ disk'[p] = disk[p] /\ spent'.fresh = spent.fresh
        BY <1>5 DEF LinkInv, StreamInv
    <2>2. studio[p] <= tree[p] /\ tree[p] <= disk[p] /\ disk[p] <= spent.fresh
        BY <2>1 DEF InOrder, Chain
    <2>3. Chain(studio[p], Landing(p), Values(Sent(link.socket), p), InHand(p), Values(link.queue, p), tree[p])'
        BY <1>4, <2>1, <2>2 DEF Chain, Below
    <2> QED
        BY <1>4, <2>1, <2>2, <2>3 DEF InOrder
<1>7. ASSUME NEW p \in Path \ (exempt' \cup link'.lost) PROVE OnItsWay(p)'
    BY <1>2, <1>5 DEF OnItsWay
<1> QED
    BY <1>3, <1>6, <1>7 DEF LinkInv, StreamInv

LEMMA LinkUpLink ==
    ASSUME ContentsTyped, LinkInv, LinkUp
    PROVE  LinkInv'
<1>1. link' = [NoLink EXCEPT !.id = link.last + 1, !.last = link.last + 1, !.lost = link.lost] /\ landing' = landing
    BY DEF LinkUp
<1>2. /\ DOMAIN link' = LinkField /\ link'.id = link.last + 1 /\ link'.last = link.last + 1 /\ link'.lost = link.lost
      /\ link'.queue = <<>> /\ link'.socket = <<>> /\ link'.pushed = 0 /\ link'.taken = 0 /\ link'.settled = 0
      /\ link'.bridge = "idle"
    BY <1>1 DEF NoLink, LinkField
<1>3. link.queue = <<>> /\ link.socket = <<>> /\ link.bridge = "idle"
    BY DEF LinkUp, LinkInv, LinkTyped
<1>4. LinkTyped'
    <2>1. link.last \in Nat /\ landing' \subseteq Path \X (Nat \ {0})
        BY <1>1 DEF LinkInv, LinkTyped
    <2> QED
        BY <1>2, <2>1, EmptyLinkTyped DEF LinkTyped
<1>5. SameLink
    BY <1>1, <1>2, <1>3 DEF SameLink
<1>6. StreamInv'
    BY <1>2, <1>5, SameLinkStreams, StreamKept DEF LinkInv, LinkUp, Contents
<1> QED
    BY <1>4, <1>6 DEF LinkInv

LEMMA BridgeWaitsLink ==
    ASSUME ContentsTyped, LinkInv, BridgeWaits
    PROVE  LinkInv'
<1>1. link' = [link EXCEPT !.settled = link.taken, !.bridge = "wait"] /\ landing' = landing /\ DOMAIN link = LinkField
    BY DEF BridgeWaits, LinkInv, LinkTyped
<1>2. /\ DOMAIN link' = LinkField /\ link'.id = link.id /\ link'.last = link.last /\ link'.lost = link.lost
      /\ link'.queue = link.queue /\ link'.socket = link.socket /\ link'.pushed = link.pushed /\ link'.taken = link.taken
      /\ link'.settled = link.taken /\ link'.bridge = "wait"
    BY <1>1 DEF LinkField
<1>3. LinkTyped'
    BY <1>1, <1>2 DEF LinkInv, LinkTyped, BridgeWaits
<1>4. SameLink
    BY <1>1, <1>2 DEF SameLink, BridgeWaits
<1>5. StreamInv'
    BY <1>2, <1>4, SameLinkStreams, StreamKept DEF LinkInv, BridgeWaits, Contents
<1> QED
    BY <1>3, <1>5 DEF LinkInv

\* Contents move one place on
LEMMA ChainMoves ==
    ASSUME NEW now, NEW landed, NEW sent, NEW hand, NEW queued, NEW newest, NEW more,
           Chain(now, landed, sent, hand, queued, newest)
    PROVE  /\ hand = {} /\ more \subseteq queued =>
                 \A rest : queued = rest \cup more /\ Below(more, rest) => Chain(now, landed, sent, more, rest, newest)
           /\ Chain(now, landed, sent \cup hand, {}, queued, newest)
           /\ more \subseteq sent =>
                 \A rest : sent = rest \cup more /\ Below(more, rest) => Chain(now, landed \cup more, rest, hand, queued, newest)
BY DEF Chain, Below

LEMMA TakesMoves ==
    ASSUME LinkTyped, BridgeTakes
    PROVE  /\ DOMAIN link' = LinkField /\ link'.id = link.id /\ link'.last = link.last /\ link'.lost = link.lost
           /\ link'.queue = Tail(link.queue) /\ link'.socket = link.socket /\ link'.pushed = link.pushed
           /\ link'.taken = link.taken + 1 /\ link'.settled = link.settled /\ link'.bridge = "send"
           /\ link'.inHand = Head(link.queue) /\ landing' = landing
           /\ \A p \in Path :
                 /\ Landing(p)' = Landing(p) /\ Values(Sent(link.socket), p)' = Values(Sent(link.socket), p)
                 /\ InHand(p) = {} /\ InHand(p)' = {Head(link.queue)[p]} \ {0}
                 /\ Values(link.queue, p) = Values(link.queue, p)' \cup InHand(p)'
                 /\ Rising(Sent(link.socket), p) => Rising(Sent(link.socket), p)'
                 /\ Rising(link.queue, p) => Rising(link.queue, p)' /\ Below(InHand(p)', Values(link.queue, p)')
<1>1. /\ link' = [link EXCEPT !.inHand = Head(link.queue), !.queue = Tail(link.queue), !.taken = @ + 1, !.bridge = "send"]
      /\ landing' = landing /\ DOMAIN link = LinkField
    BY DEF BridgeTakes, Taken, LinkTyped
<1>2. /\ DOMAIN link' = LinkField /\ link'.id = link.id /\ link'.last = link.last /\ link'.lost = link.lost
      /\ link'.queue = Tail(link.queue) /\ link'.socket = link.socket /\ link'.pushed = link.pushed
      /\ link'.taken = link.taken + 1 /\ link'.settled = link.settled /\ link'.bridge = "send" /\ link'.inHand = Head(link.queue)
    BY <1>1 DEF LinkField
<1>3. link.queue \in Seq(Message) /\ link.queue # <<>> /\ link.bridge = "wait"
    BY DEF BridgeTakes, LinkTyped
<1>4. ASSUME NEW p \in Path
      PROVE  /\ Landing(p)' = Landing(p) /\ Values(Sent(link.socket), p)' = Values(Sent(link.socket), p)
             /\ InHand(p) = {} /\ InHand(p)' = {Head(link.queue)[p]} \ {0}
             /\ Values(link.queue, p) = Values(link.queue, p)' \cup InHand(p)'
             /\ Rising(Sent(link.socket), p) => Rising(Sent(link.socket), p)'
             /\ Rising(link.queue, p) => Rising(link.queue, p)' /\ Below(InHand(p)', Values(link.queue, p)')
    <2>1. Landing(p)' = Landing(p) /\ InHand(p) = {} /\ InHand(p)' = {Head(link.queue)[p]} \ {0}
        BY <1>1, <1>2, <1>3 DEF Landing, InHand
    <2>2. Sent(link.socket)' = Sent(link.socket)
        BY <1>2 DEF Sent, ChangeOf
    <2>3. /\ Values(link.queue, p) = Values(Tail(link.queue), p) \cup ({Head(link.queue)[p]} \ {0})
          /\ Rising(link.queue, p) => Rising(Tail(link.queue), p) /\ Below({Head(link.queue)[p]} \ {0}, Values(Tail(link.queue), p))
        BY <1>3, QueueShrinks
    <2>4. Values(link.queue, p)' = Values(Tail(link.queue), p) /\ Rising(link.queue, p)' = Rising(Tail(link.queue), p)
        BY <1>2 DEF Values, Rising
    <2>5. Values(Sent(link.socket), p)' = Values(Sent(link.socket), p) /\ Rising(Sent(link.socket), p)' = Rising(Sent(link.socket), p)
        BY <2>2 DEF Values, Rising
    <2> QED
        BY <2>1, <2>3, <2>4, <2>5
<1> QED
    BY <1>1, <1>2, <1>4

LEMMA BridgeTakesLink ==
    ASSUME ContentsTyped, LinkInv, BridgeTakes
    PROVE  LinkInv'
<1>1. LinkTyped
    BY DEF LinkInv
<1>3. /\ link.queue \in Seq(Message) /\ link.queue # <<>> /\ link.bridge = "wait" /\ link.id # 0
      /\ link.taken \in Nat /\ link.settled = link.taken /\ link.pushed = link.taken + Len(link.queue)
    BY <1>1 DEF BridgeTakes, LinkTyped
<1>4. /\ Tail(link.queue) \in Seq(Message) /\ Head(link.queue) \in Message
      /\ Len(Tail(link.queue)) = Len(link.queue) - 1 /\ Len(link.queue) \in Nat \ {0}
    BY <1>3
<1>5. LinkTyped'
    <2>1. link.taken + 1 \in Nat /\ link.pushed = (link.taken + 1) + Len(Tail(link.queue)) /\ link.settled + 1 = link.taken + 1
        BY <1>3, <1>4
    <2>2. /\ link.id \in Nat /\ link.last \in Nat /\ (link.id # 0 => link.last = link.id) /\ link.socket \in Seq(Frame)
          /\ link.pushed \in Nat /\ link.settled \in Nat /\ landing \subseteq Path \X (Nat \ {0})
        BY <1>1 DEF LinkTyped
    <2>3. /\ DOMAIN link' = LinkField /\ link'.id = link.id /\ link'.last = link.last
          /\ link'.queue = Tail(link.queue) /\ link'.socket = link.socket /\ link'.pushed = link.pushed
          /\ link'.taken = link.taken + 1 /\ link'.settled = link.settled /\ link'.bridge = "send"
          /\ link'.inHand = Head(link.queue) /\ landing' = landing
        BY <1>1, TakesMoves
    <2> QED
        BY <1>3, <1>4, <2>1, <2>2, <2>3 DEF LinkTyped
<1>6. ASSUME NEW p \in Path
      PROVE  /\ Landing(p)' = Landing(p) /\ Values(Sent(link.socket), p)' = Values(Sent(link.socket), p)
             /\ InHand(p) = {} /\ Values(link.queue, p) = Values(link.queue, p)' \cup InHand(p)'
             /\ Rising(Sent(link.socket), p) => Rising(Sent(link.socket), p)'
             /\ Rising(link.queue, p) => Rising(link.queue, p)' /\ Below(InHand(p)', Values(link.queue, p)')
    BY <1>1, TakesMoves
<1>7. UNCHANGED <<disk, tree, studio, spent, exempt>> /\ link'.lost = link.lost
    BY <1>1, TakesMoves DEF BridgeTakes, Contents
<1>8. ASSUME NEW p \in Path \ exempt' PROVE InOrder(p)'
    <2>1. InOrder(p)
        BY <1>7 DEF LinkInv, StreamInv
    <2>2. Chain(studio[p], Landing(p), Values(Sent(link.socket), p), InHand(p)', Values(link.queue, p)', tree[p])
        <3>1. Chain(studio[p], Landing(p), Values(Sent(link.socket), p), {}, Values(link.queue, p), tree[p])
            BY <1>6, <2>1 DEF InOrder
        <3>2. Below(InHand(p)', Values(link.queue, p)') /\ Values(link.queue, p) = Values(link.queue, p)' \cup InHand(p)'
            BY <1>6, <2>1 DEF InOrder
        <3> QED
            BY <3>1, <3>2, ChainMoves
    <2>3. Chain(studio[p], Landing(p), Values(Sent(link.socket), p), InHand(p), Values(link.queue, p), tree[p])'
        BY <1>6, <1>7, <2>2
    <2> QED
        BY <1>6, <1>7, <2>1, <2>3 DEF InOrder
<1>9. ASSUME NEW p \in Path \ (exempt' \cup link'.lost) PROVE OnItsWay(p)'
    <2>1. OnItsWay(p)
        BY <1>7 DEF LinkInv, StreamInv
    <2> QED
        BY <1>6, <1>7, <2>1 DEF OnItsWay
<1> QED
    BY <1>5, <1>8, <1>9 DEF LinkInv, StreamInv

LEMMA SendsMoves ==
    ASSUME LinkTyped, BridgeSends
    PROVE  /\ DOMAIN link' = LinkField /\ link'.id = link.id /\ link'.last = link.last /\ link'.lost = link.lost
           /\ link'.queue = link.queue /\ link'.pushed = link.pushed
           /\ link'.taken = link.taken /\ link'.settled = link.settled /\ link'.bridge = "idle" /\ landing' = landing
           /\ link'.socket \in Seq(Frame) /\ Sent(link.socket)' = Append(Sent(link.socket), link.inHand)
           /\ \E frame \in Frame : link'.socket = Append(link.socket, frame) /\ frame.type = "sync"
           /\ \A p \in Path :
                 /\ Landing(p)' = Landing(p) /\ InHand(p)' = {}
                 /\ Values(Sent(link.socket), p)' = Values(Sent(link.socket), p) \cup InHand(p)
                 /\ Values(link.queue, p)' = Values(link.queue, p)
                 /\ Rising(Sent(link.socket), p) /\ Below(Values(Sent(link.socket), p), InHand(p)) => Rising(Sent(link.socket), p)'
                 /\ Rising(link.queue, p) => Rising(link.queue, p)'
<1>1. PICK frame : frame = [type |-> "sync", change |-> link.inHand]
    OBVIOUS
<1>2. /\ link' = [link EXCEPT !.socket = Append(@, frame), !.inHand = <<>>, !.bridge = "idle"]
      /\ landing' = landing /\ DOMAIN link = LinkField
    BY <1>1 DEF BridgeSends, LinkTyped
<1>3. /\ DOMAIN link' = LinkField /\ link'.id = link.id /\ link'.last = link.last /\ link'.lost = link.lost
      /\ link'.queue = link.queue /\ link'.socket = Append(link.socket, frame) /\ link'.pushed = link.pushed
      /\ link'.taken = link.taken /\ link'.settled = link.settled /\ link'.bridge = "idle"
    BY <1>2 DEF LinkField
<1>4. link.socket \in Seq(Frame) /\ link.bridge = "send" /\ link.inHand \in Message
    BY DEF BridgeSends, LinkTyped
<1>5. frame \in Frame /\ ChangeOf(frame) = link.inHand /\ frame.type = "sync"
    BY <1>1, <1>4 DEF Frame, ChangeOf
<1>6. /\ Append(link.socket, frame) \in Seq(Frame) /\ Sent(link.socket) \in Seq(Message)
      /\ Sent(Append(link.socket, frame)) = Append(Sent(link.socket), link.inHand)
    BY <1>4, <1>5, SocketGrows
<1>7. Sent(link.socket)' = Append(Sent(link.socket), link.inHand)
    BY <1>3, <1>6
<1>8. ASSUME NEW p \in Path
      PROVE  /\ Landing(p)' = Landing(p) /\ InHand(p)' = {}
             /\ Values(Sent(link.socket), p)' = Values(Sent(link.socket), p) \cup InHand(p)
             /\ Values(link.queue, p)' = Values(link.queue, p)
             /\ Rising(Sent(link.socket), p) /\ Below(Values(Sent(link.socket), p), InHand(p)) => Rising(Sent(link.socket), p)'
             /\ Rising(link.queue, p) => Rising(link.queue, p)'
    <2>1. Landing(p)' = Landing(p) /\ InHand(p)' = {} /\ InHand(p) = {link.inHand[p]} \ {0}
        BY <1>2, <1>3, <1>4 DEF Landing, InHand
    <2>3. /\ Values(Append(Sent(link.socket), link.inHand), p) = Values(Sent(link.socket), p) \cup ({link.inHand[p]} \ {0})
          /\ Rising(Sent(link.socket), p) /\ Below(Values(Sent(link.socket), p), {link.inHand[p]} \ {0})
                => Rising(Append(Sent(link.socket), link.inHand), p)
        <3>1. Sent(link.socket) \in Seq(Message) /\ link.inHand \in Message
            BY <1>4, <1>6
        <3> QED
            BY <3>1, QueueGrows
    <2>4. Values(link.queue, p)' = Values(link.queue, p) /\ Rising(link.queue, p)' = Rising(link.queue, p)
        BY <1>3 DEF Values, Rising
    <2> QED
        BY <1>7, <2>1, <2>3, <2>4
<1> QED
    BY <1>2, <1>3, <1>5, <1>6, <1>7, <1>8

LEMMA BridgeSendsLink ==
    ASSUME ContentsTyped, LinkInv, BridgeSends
    PROVE  LinkInv'
<1>1. LinkTyped
    BY DEF LinkInv
<1>6. LinkTyped'
    <2>1. /\ link.bridge = "send" /\ link.taken \in Nat /\ link.settled \in Nat /\ link.settled + 1 = link.taken
        BY <1>1 DEF BridgeSends, LinkTyped
    <2>2. link.settled <= link.taken
        BY <2>1
    <2>3. /\ link.id \in Nat /\ link.last \in Nat /\ (link.id # 0 => link.last = link.id) /\ link.queue \in Seq(Message)
          /\ link.pushed \in Nat /\ landing \subseteq Path \X (Nat \ {0}) /\ link.pushed = link.taken + Len(link.queue)
          /\ link.id # 0
        BY <1>1, <2>1 DEF LinkTyped
    <2>4. /\ DOMAIN link' = LinkField /\ link'.id = link.id /\ link'.last = link.last /\ link'.queue = link.queue
          /\ link'.pushed = link.pushed /\ link'.taken = link.taken /\ link'.settled = link.settled
          /\ link'.bridge = "idle" /\ landing' = landing /\ link'.socket \in Seq(Frame)
        BY <1>1, SendsMoves
    <2> QED
        BY <2>1, <2>2, <2>3, <2>4 DEF LinkTyped
<1>7. ASSUME NEW p \in Path
      PROVE  /\ Landing(p)' = Landing(p) /\ InHand(p)' = {}
             /\ Values(Sent(link.socket), p)' = Values(Sent(link.socket), p) \cup InHand(p)
             /\ Values(link.queue, p)' = Values(link.queue, p)
             /\ Rising(Sent(link.socket), p) /\ Below(Values(Sent(link.socket), p), InHand(p)) => Rising(Sent(link.socket), p)'
             /\ Rising(link.queue, p) => Rising(link.queue, p)'
    BY <1>1, SendsMoves
<1>8. UNCHANGED <<disk, tree, studio, spent, exempt>> /\ link'.lost = link.lost
    BY <1>1, SendsMoves DEF BridgeSends, Contents
<1>9. ASSUME NEW p \in Path \ exempt' PROVE InOrder(p)'
    <2>1. InOrder(p)
        BY <1>8 DEF LinkInv, StreamInv
    <2>2. Chain(studio[p], Landing(p), Values(Sent(link.socket), p) \cup InHand(p), {}, Values(link.queue, p), tree[p])
        BY <2>1, ChainMoves DEF InOrder
    <2>3. Chain(studio[p], Landing(p), Values(Sent(link.socket), p), InHand(p), Values(link.queue, p), tree[p])'
        BY <1>7, <1>8, <2>2
    <2>4. Below(Values(Sent(link.socket), p), InHand(p))
        BY <2>1 DEF InOrder, Chain
    <2> QED
        BY <1>7, <1>8, <2>1, <2>3, <2>4 DEF InOrder
<1>10. ASSUME NEW p \in Path \ (exempt' \cup link'.lost) PROVE OnItsWay(p)'
    <2>1. OnItsWay(p)
        BY <1>8 DEF LinkInv, StreamInv
    <2> QED
        BY <1>7, <1>8, <2>1 DEF OnItsWay
<1> QED
    BY <1>6, <1>9, <1>10 DEF LinkInv, StreamInv

LEMMA AppliesMoves ==
    ASSUME LinkTyped, PluginApplies
    PROVE  /\ DOMAIN link' = LinkField /\ link'.id = link.id /\ link'.last = link.last /\ link'.lost = link.lost
           /\ link'.queue = link.queue /\ link'.pushed = link.pushed /\ link'.taken = link.taken
           /\ link'.settled = link.settled /\ link'.bridge = link.bridge /\ link'.inHand = link.inHand
           /\ link.socket \in Seq(Frame) /\ link.socket # <<>> /\ Head(link.socket).type = "sync"
           /\ link'.socket = Tail(link.socket) /\ link'.socket \in Seq(Frame)
           /\ landing' \subseteq Path \X (Nat \ {0})
           /\ \A p \in Path :
                 /\ Landing(p)' = Landing(p) \cup ({ChangeOf(Head(link.socket))[p]} \ {0}) /\ InHand(p)' = InHand(p)
                 /\ Values(Sent(link.socket), p) = Values(Sent(link.socket), p)' \cup ({ChangeOf(Head(link.socket))[p]} \ {0})
                 /\ Values(link.queue, p)' = Values(link.queue, p)
                 /\ Rising(Sent(link.socket), p) =>
                       /\ Rising(Sent(link.socket), p)'
                       /\ Below({ChangeOf(Head(link.socket))[p]} \ {0}, Values(Sent(link.socket), p)')
                 /\ Rising(link.queue, p) => Rising(link.queue, p)'
<1>1. link' = [link EXCEPT !.socket = Tail(link.socket)] /\ DOMAIN link = LinkField
    BY DEF PluginApplies, LinkTyped
<1>2. /\ DOMAIN link' = LinkField /\ link'.id = link.id /\ link'.last = link.last /\ link'.lost = link.lost
      /\ link'.queue = link.queue /\ link'.pushed = link.pushed /\ link'.taken = link.taken
      /\ link'.settled = link.settled /\ link'.bridge = link.bridge /\ link'.inHand = link.inHand
      /\ link'.socket = Tail(link.socket)
    BY <1>1 DEF LinkField
<1>3. link.socket \in Seq(Frame) /\ link.socket # <<>> /\ Head(link.socket).type = "sync"
    BY DEF PluginApplies, LinkTyped
<1>4. PICK change : change = ChangeOf(Head(link.socket))
    OBVIOUS
<1>5. /\ Tail(link.socket) \in Seq(Frame) /\ Sent(link.socket) \in Seq(Message) /\ Sent(link.socket) # <<>>
      /\ Head(Sent(link.socket)) = change /\ Sent(Tail(link.socket)) = Tail(Sent(link.socket))
    BY <1>3, <1>4, SocketShrinks
<1>6. change \in Message /\ change = Head(link.socket).change
    <2>1. change \in Message
        BY <1>5
    <2> QED
        BY <1>3, <1>4, <2>1 DEF ChangeOf
<1>7. landing' = landing \cup {<<p, change[p]>> : p \in {q \in Path : change[q] # 0}}
    BY <1>6 DEF PluginApplies
<1>8. landing' \subseteq Path \X (Nat \ {0})
    <2>1. landing \subseteq Path \X (Nat \ {0})
        BY DEF LinkTyped
    <2>2. \A q \in Path : change[q] \in Nat
        BY <1>6 DEF Message
    <2> QED
        BY <1>7, <2>1, <2>2
<1>9. ASSUME NEW p \in Path
      PROVE  /\ Landing(p)' = Landing(p) \cup ({change[p]} \ {0}) /\ InHand(p)' = InHand(p)
             /\ Values(Sent(link.socket), p) = Values(Sent(link.socket), p)' \cup ({change[p]} \ {0})
             /\ Values(link.queue, p)' = Values(link.queue, p)
             /\ Rising(Sent(link.socket), p) =>
                   /\ Rising(Sent(link.socket), p)'
                   /\ Below({change[p]} \ {0}, Values(Sent(link.socket), p)')
             /\ Rising(link.queue, p) => Rising(link.queue, p)'
    <2>1. Landing(p)' = Landing(p) \cup ({change[p]} \ {0})
        <3>1. ASSUME NEW v \in Landing(p)' PROVE v \in Landing(p) \cup ({change[p]} \ {0})
            <4>1. PICK w \in landing' : w[1] = p /\ v = w[2]
                BY DEF Landing
            <4>2. CASE w \in landing
                BY <4>1, <4>2 DEF Landing
            <4>3. CASE w \in {<<q, change[q]>> : q \in {x \in Path : change[x] # 0}}
                BY <4>1, <4>3
            <4> QED
                BY <1>7, <4>1, <4>2, <4>3
        <3>2. ASSUME NEW v \in Landing(p) PROVE v \in Landing(p)'
            BY <1>7 DEF Landing
        <3>3. ASSUME change[p] # 0 PROVE change[p] \in Landing(p)'
            <4>1. <<p, change[p]>> \in landing'
                BY <1>7, <3>3
            <4>2. <<p, change[p]>>[1] = p /\ <<p, change[p]>>[2] = change[p]
                OBVIOUS
            <4> QED
                BY <4>1, <4>2 DEF Landing
        <3> QED
            BY <3>1, <3>2, <3>3
    <2>2. InHand(p)' = InHand(p) /\ Values(link.queue, p)' = Values(link.queue, p) /\ Rising(link.queue, p)' = Rising(link.queue, p)
        BY <1>2 DEF InHand, Values, Rising
    <2>3. Sent(link.socket)' = Tail(Sent(link.socket))
        BY <1>2, <1>5
    <2>4. /\ Values(Sent(link.socket), p) = Values(Tail(Sent(link.socket)), p) \cup ({change[p]} \ {0})
          /\ Rising(Sent(link.socket), p) =>
                Rising(Tail(Sent(link.socket)), p) /\ Below({change[p]} \ {0}, Values(Tail(Sent(link.socket)), p))
        BY <1>5, QueueShrinks
    <2> QED
        BY <2>1, <2>2, <2>3, <2>4
<1> QED
    BY <1>2, <1>3, <1>4, <1>5, <1>8, <1>9

LEMMA PluginAppliesLink ==
    ASSUME ContentsTyped, LinkInv, PluginApplies
    PROVE  LinkInv'
<1>1. LinkTyped
    BY DEF LinkInv
<1>2. LinkTyped'
    <2>1. /\ link.id \in Nat /\ link.last \in Nat /\ (link.id # 0 => link.last = link.id) /\ link.queue \in Seq(Message)
          /\ link.pushed \in Nat /\ link.taken \in Nat /\ link.settled \in Nat /\ link.pushed = link.taken + Len(link.queue)
          /\ \/ link.bridge = "idle" /\ link.settled <= link.taken
             \/ link.bridge = "wait" /\ link.settled = link.taken
             \/ link.bridge = "send" /\ link.settled + 1 = link.taken /\ link.inHand \in Message
          /\ link.id # 0
        BY <1>1 DEF LinkTyped, PluginApplies
    <2>2. /\ DOMAIN link' = LinkField /\ link'.id = link.id /\ link'.last = link.last /\ link'.lost = link.lost
          /\ link'.queue = link.queue /\ link'.pushed = link.pushed /\ link'.taken = link.taken
          /\ link'.settled = link.settled /\ link'.bridge = link.bridge /\ link'.inHand = link.inHand
          /\ link'.socket \in Seq(Frame) /\ landing' \subseteq Path \X (Nat \ {0})
        BY <1>1, AppliesMoves
    <2> QED
        BY <2>1, <2>2 DEF LinkTyped
<1>3. UNCHANGED <<disk, tree, studio, spent, exempt>> /\ link'.lost = link.lost
    BY <1>1, AppliesMoves DEF PluginApplies, Contents
<1>4. PICK change : change = ChangeOf(Head(link.socket))
    OBVIOUS
<1>5. ASSUME NEW p \in Path
      PROVE  /\ Landing(p)' = Landing(p) \cup ({change[p]} \ {0}) /\ InHand(p)' = InHand(p)
             /\ Values(Sent(link.socket), p) = Values(Sent(link.socket), p)' \cup ({change[p]} \ {0})
             /\ Values(link.queue, p)' = Values(link.queue, p)
             /\ Rising(Sent(link.socket), p) =>
                   /\ Rising(Sent(link.socket), p)'
                   /\ Below({change[p]} \ {0}, Values(Sent(link.socket), p)')
             /\ Rising(link.queue, p) => Rising(link.queue, p)'
    BY <1>1, <1>4, AppliesMoves
<1>6. ASSUME NEW p \in Path \ exempt' PROVE InOrder(p)'
    <2>1. InOrder(p)
        BY <1>3 DEF LinkInv, StreamInv
    <2>2. /\ Values(Sent(link.socket), p) = Values(Sent(link.socket), p)' \cup ({change[p]} \ {0})
          /\ Below({change[p]} \ {0}, Values(Sent(link.socket), p)')
        BY <1>5, <2>1 DEF InOrder
    <2>3. Chain(studio[p], Landing(p) \cup ({change[p]} \ {0}), Values(Sent(link.socket), p)', InHand(p), Values(link.queue, p), tree[p])
        <3>1. Chain(studio[p], Landing(p), Values(Sent(link.socket), p), InHand(p), Values(link.queue, p), tree[p])
            BY <2>1 DEF InOrder
        <3> QED
            BY <2>2, <3>1, ChainMoves
    <2>4. Chain(studio[p], Landing(p), Values(Sent(link.socket), p), InHand(p), Values(link.queue, p), tree[p])'
        BY <1>3, <1>5, <2>3
    <2> QED
        BY <1>3, <1>5, <2>1, <2>4 DEF InOrder
<1>7. ASSUME NEW p \in Path \ (exempt' \cup link'.lost) PROVE OnItsWay(p)'
    <2>1. OnItsWay(p)
        BY <1>3 DEF LinkInv, StreamInv
    <2> QED
        BY <1>3, <1>5, <2>1 DEF OnItsWay
<1> QED
    BY <1>2, <1>6, <1>7 DEF LinkInv, StreamInv

LEMMA LandsMoves ==
    ASSUME ContentsTyped, LinkTyped, SourceLands
    PROVE  \E q \in Path, w \in Nat \ {0} :
               /\ w \in Landing(q) /\ studio'[q] = w /\ Landing(q) = Landing(q)' \cup {w} /\ \A v \in Landing(q) : w <= v
               /\ \A p \in Path : p # q => studio'[p] = studio[p] /\ Landing(p)' = Landing(p)
               /\ landing' \subseteq landing
<1>1. PICK write \in landing :
          /\ \A other \in landing : other[1] = write[1] => write[2] <= other[2]
          /\ landing' = landing \ {write} /\ studio' = [studio EXCEPT ![write[1]] = write[2]]
    BY DEF SourceLands
<1>2. PICK q \in Path, w \in Nat \ {0} : write = <<q, w>>
    BY <1>1 DEF LinkTyped
<1>3. w \in Landing(q) /\ studio'[q] = w /\ \A p \in Path : p # q => studio'[p] = studio[p]
    <2>1. write[1] = q /\ write[2] = w /\ write \in landing
        BY <1>2
    <2>2. w \in Landing(q)
        BY <2>1 DEF Landing
    <2>3. studio' = [studio EXCEPT ![q] = w] /\ studio \in [Path -> Nat \ {0}]
        BY <1>1, <2>1 DEF ContentsTyped
    <2> QED
        BY <2>2, <2>3
<1>4. \A v \in Landing(q) : w <= v
    BY <1>1, <1>2 DEF Landing
<1>5. Landing(q) = Landing(q)' \cup {w}
    <2>1. ASSUME NEW v \in Landing(q) PROVE v \in Landing(q)' \cup {w}
        <3>1. PICK x \in landing : x[1] = q /\ x[2] = v
            BY DEF Landing
        <3>2. CASE x = write
            BY <1>2, <3>1, <3>2
        <3>3. CASE x # write
            BY <1>1, <3>1, <3>3 DEF Landing
        <3> QED
            BY <3>2, <3>3
    <2>2. ASSUME NEW v \in Landing(q)' PROVE v \in Landing(q)
        BY <1>1 DEF Landing
    <2> QED
        BY <1>3, <2>1, <2>2
<1>6. ASSUME NEW p \in Path, p # q PROVE Landing(p)' = Landing(p)
    <2>1. {x \in landing' : x[1] = p} = {x \in landing : x[1] = p}
        BY <1>1, <1>2, <1>6
    <2> QED
        BY <2>1 DEF Landing
<1> QED
    BY <1>1, <1>3, <1>4, <1>5, <1>6

LEMMA SourceLandsLink ==
    ASSUME ContentsTyped, LinkInv, SourceLands
    PROVE  LinkInv'
<1>1. LinkTyped
    BY DEF LinkInv
<1>2. PICK q \in Path, w \in Nat \ {0} :
          /\ w \in Landing(q) /\ studio'[q] = w /\ Landing(q) = Landing(q)' \cup {w} /\ \A v \in Landing(q) : w <= v
          /\ \A p \in Path : p # q => studio'[p] = studio[p] /\ Landing(p)' = Landing(p)
          /\ landing' \subseteq landing
    BY <1>1, LandsMoves
<1>3. UNCHANGED <<disk, tree, spent, exempt, link>>
    BY DEF SourceLands
<1>4. LinkTyped'
    <2>1. landing' = {} \/ landing # {}
        BY <1>2
    <2>2. landing' \subseteq Path \X (Nat \ {0}) /\ (link.id = 0 => landing' = {})
        BY <1>1, <1>2 DEF LinkTyped
    <2> QED
        BY <1>1, <1>3, <2>2 DEF LinkTyped
<1>5. ASSUME NEW p \in Path
      PROVE  /\ InHand(p)' = InHand(p) /\ Values(Sent(link.socket), p)' = Values(Sent(link.socket), p)
             /\ Values(link.queue, p)' = Values(link.queue, p)
             /\ Rising(Sent(link.socket), p)' = Rising(Sent(link.socket), p) /\ Rising(link.queue, p)' = Rising(link.queue, p)
    <2>1. link' = link
        BY <1>3
    <2>2. Sent(link.socket)' = Sent(link.socket)
        BY <2>1 DEF Sent, ChangeOf
    <2> QED
        BY <2>1, <2>2 DEF InHand, Values, Rising
<1>6. ASSUME NEW p \in Path \ exempt' PROVE InOrder(p)'
    <2>1. InOrder(p)
        BY <1>3 DEF LinkInv, StreamInv
    <2>2. Chain(studio[p], Landing(p), Values(Sent(link.socket), p), InHand(p), Values(link.queue, p), tree[p])
        BY <2>1 DEF InOrder
    <2>3. Chain(studio'[p], Landing(p)', Values(Sent(link.socket), p), InHand(p), Values(link.queue, p), tree[p])
        <3>1. CASE p # q
            BY <1>2, <2>2, <3>1
        <3>2. CASE p = q
            <4>1. /\ w \in Landing(p) /\ studio'[p] = w /\ Landing(p)' \subseteq Landing(p) /\ \A v \in Landing(p) : w <= v
                BY <1>2, <3>2
            <4> HIDE DEF InHand, Values, Landing
            <4> QED
                BY <2>2, <4>1 DEF Chain, Below
        <3> QED
            BY <3>1, <3>2
    <2> QED
        BY <1>3, <1>5, <2>1, <2>3 DEF InOrder
<1>7. ASSUME NEW p \in Path \ (exempt' \cup link'.lost) PROVE OnItsWay(p)'
    <2>1. OnItsWay(p) /\ InOrder(p)
        BY <1>3 DEF LinkInv, StreamInv
    <2>2. tree[p] \in {studio'[p]} \cup Landing(p)' \cup Values(Sent(link.socket), p) \cup InHand(p) \cup Values(link.queue, p)
        <3>1. CASE p # q
            BY <1>2, <2>1, <3>1 DEF OnItsWay
        <3>2. CASE p = q
            <4>1. CASE tree[p] = studio[p]
                <5>1. studio[p] <= w /\ w <= tree[p] /\ studio[p] \in Nat
                    BY <1>2, <2>1, <3>2 DEF InOrder, Chain, ContentsTyped
                <5> QED
                    BY <1>2, <3>2, <4>1, <5>1
            <4>2. CASE tree[p] # studio[p]
                BY <1>2, <2>1, <3>2, <4>2 DEF OnItsWay
            <4> QED
                BY <4>1, <4>2
        <3> QED
            BY <3>1, <3>2
    <2> QED
        BY <1>3, <1>5, <2>2 DEF OnItsWay
<1> QED
    BY <1>4, <1>6, <1>7 DEF LinkInv, StreamInv

\* The question of a barrier on the socket carries no content, and taking it off takes none
LEMMA QuestionMoves ==
    ASSUME NEW s \in Seq(Frame), NEW p \in Path
    PROVE  /\ Append(s, [type |-> "sync_barrier"]) \in Seq(Frame)
           /\ Len(Append(s, [type |-> "sync_barrier"])) = Len(s) + 1
           /\ Values(Sent(Append(s, [type |-> "sync_barrier"])), p) = Values(Sent(s), p)
           /\ Rising(Sent(s), p) => Rising(Sent(Append(s, [type |-> "sync_barrier"])), p)
           /\ s # <<>> /\ Head(s).type = "sync_barrier" =>
                 /\ Values(Sent(Tail(s)), p) = Values(Sent(s), p)
                 /\ Rising(Sent(s), p) => Rising(Sent(Tail(s)), p)
<1>1. PICK f : f = [type |-> "sync_barrier"]
    OBVIOUS
<1>2. f \in Frame /\ f.type = "sync_barrier"
    BY <1>1 DEF Frame
<1>3. \A g : g.type = "sync_barrier" => ChangeOf(g) = [x \in Path |-> 0]
    BY DEF ChangeOf
<1>4. PICK none : none = [x \in Path |-> 0]
    OBVIOUS
<1>5. none \in Message /\ none[p] = 0
    BY <1>4 DEF Message
<1>6. /\ Append(s, f) \in Seq(Frame) /\ Len(Append(s, f)) = Len(s) + 1 /\ Sent(s) \in Seq(Message)
      /\ Sent(Append(s, f)) = Append(Sent(s), none)
    BY <1>2, <1>3, <1>4, SocketGrows
<1>7. /\ Values(Sent(Append(s, f)), p) = Values(Sent(s), p)
      /\ Rising(Sent(s), p) => Rising(Sent(Append(s, f)), p)
    <2>1. /\ Values(Append(Sent(s), none), p) = Values(Sent(s), p) \cup ({none[p]} \ {0})
          /\ Rising(Sent(s), p) /\ Below(Values(Sent(s), p), {none[p]} \ {0}) => Rising(Append(Sent(s), none), p)
        BY <1>5, <1>6, QueueGrows
    <2>2. {none[p]} \ {0} = {} /\ Below(Values(Sent(s), p), {})
        BY <1>5 DEF Below
    <2> QED
        BY <1>6, <2>1, <2>2
<1>8. ASSUME s # <<>>, Head(s).type = "sync_barrier"
      PROVE  Values(Sent(Tail(s)), p) = Values(Sent(s), p) /\ (Rising(Sent(s), p) => Rising(Sent(Tail(s)), p))
    <2>1. /\ Sent(s) # <<>> /\ Head(Sent(s)) = none /\ Sent(Tail(s)) = Tail(Sent(s))
        BY <1>3, <1>4, <1>8, SocketShrinks
    <2>2. /\ Values(Sent(s), p) = Values(Tail(Sent(s)), p) \cup ({none[p]} \ {0})
          /\ Rising(Sent(s), p) => Rising(Tail(Sent(s)), p)
        BY <1>6, <2>1, QueueShrinks
    <2> QED
        BY <1>5, <2>1, <2>2
<1> QED
    BY <1>1, <1>6, <1>7, <1>8

\* Only the socket changes
SocketOnly(new) ==
    /\ DOMAIN link' = LinkField /\ link'.id = link.id /\ link'.last = link.last /\ link'.lost = link.lost
    /\ link'.queue = link.queue /\ link'.pushed = link.pushed /\ link'.taken = link.taken
    /\ link'.settled = link.settled /\ link'.bridge = link.bridge /\ link'.inHand = link.inHand
    /\ link'.socket = new /\ landing' = landing

LEMMA SocketOnlyLink ==
    ASSUME ContentsTyped, LinkInv, NEW new \in Seq(Frame), SocketOnly(new), link.id # 0,
           \A p \in Path : Values(Sent(new), p) = Values(Sent(link.socket), p)
                           /\ (Rising(Sent(link.socket), p) => Rising(Sent(new), p)),
           UNCHANGED <<disk, tree, studio, spent, exempt>>
    PROVE  LinkInv'
<1>1. LinkTyped'
    BY DEF LinkInv, LinkTyped, SocketOnly
<1>2. ASSUME NEW p \in Path PROVE SameStream(p)
    <2>1. Landing(p)' = Landing(p) /\ InHand(p)' = InHand(p)
        BY DEF SocketOnly, Landing, InHand
    <2>2. Sent(link.socket)' = Sent(new) /\ link'.queue = link.queue
        BY DEF SocketOnly, Sent, ChangeOf
    <2>3. Values(Sent(link.socket), p)' = Values(Sent(new), p) /\ Rising(Sent(link.socket), p)' = Rising(Sent(new), p)
          /\ Values(link.queue, p)' = Values(link.queue, p) /\ Rising(link.queue, p)' = Rising(link.queue, p)
        BY <2>2 DEF Values, Rising
    <2> QED
        BY <2>1, <2>3 DEF SameStream
<1>3. StreamInv'
    BY <1>2, StreamKept DEF LinkInv, SocketOnly
<1> QED
    BY <1>1, <1>3 DEF LinkInv

LEMMA RequestsMoves ==
    ASSUME LinkTyped, BarrierRequests, link.id # 0
    PROVE  SocketOnly(Append(link.socket, [type |-> "sync_barrier"])) /\ barrier' = [barrier EXCEPT !.pc = "asked"]
<1>1. /\ link' = [link EXCEPT !.socket = Append(@, [type |-> "sync_barrier"])] /\ landing' = landing
      /\ barrier' = [barrier EXCEPT !.pc = "asked"] /\ DOMAIN link = LinkField
    BY DEF BarrierRequests, LinkTyped
<1> QED
    BY <1>1 DEF LinkField, SocketOnly

LEMMA AnswersMoves ==
    ASSUME LinkTyped, PluginAnswers
    PROVE  /\ SocketOnly(Tail(link.socket)) /\ link.id # 0
           /\ link.socket \in Seq(Frame) /\ link.socket # <<>> /\ Head(link.socket).type = "sync_barrier"
<1>1. /\ link' = [link EXCEPT !.socket = Tail(@)] /\ landing' = landing /\ DOMAIN link = LinkField
      /\ link.socket \in Seq(Frame) /\ link.socket # <<>> /\ Head(link.socket).type = "sync_barrier" /\ link.id # 0
    BY DEF PluginAnswers, LinkTyped
<1> QED
    BY <1>1 DEF LinkField, SocketOnly

LEMMA RequestsLink ==
    ASSUME ContentsTyped, LinkInv, BarrierRequests
    PROVE  LinkInv'
<1>1. CASE link.id = 0
    <2>1. UNCHANGED <<link, landing, disk, tree, studio, spent, exempt>>
        BY <1>1 DEF BarrierRequests, Contents
    <2> QED
        BY <2>1, LinkAlone
<1>2. CASE link.id # 0
    <2>1. PICK new : new = Append(link.socket, [type |-> "sync_barrier"])
        OBVIOUS
    <2>2. SocketOnly(new) /\ link.socket \in Seq(Frame)
        BY <1>2, <2>1, RequestsMoves DEF LinkInv, LinkTyped
    <2>3. UNCHANGED <<disk, tree, studio, spent, exempt>>
        BY DEF BarrierRequests, Contents
    <2>4. \A p \in Path : Values(Sent(new), p) = Values(Sent(link.socket), p)
                          /\ (Rising(Sent(link.socket), p) => Rising(Sent(new), p))
        BY <2>1, <2>2, QuestionMoves
    <2>5. new \in Seq(Frame)
        BY <2>1, <2>2 DEF Frame
    <2> QED
        BY <1>2, <2>2, <2>3, <2>4, <2>5, SocketOnlyLink
<1> QED
    BY <1>1, <1>2

LEMMA AnswersLink ==
    ASSUME ContentsTyped, LinkInv, PluginAnswers
    PROVE  LinkInv'
<1>1. PICK new : new = Tail(link.socket)
    OBVIOUS
<1>2. SocketOnly(new) /\ link.socket \in Seq(Frame) /\ link.socket # <<>> /\ Head(link.socket).type = "sync_barrier" /\ link.id # 0
    BY <1>1, AnswersMoves DEF LinkInv
<1>3. UNCHANGED <<disk, tree, studio, spent, exempt>>
    BY DEF PluginAnswers, Contents
<1>4. \A p \in Path : Values(Sent(new), p) = Values(Sent(link.socket), p)
                      /\ (Rising(Sent(link.socket), p) => Rising(Sent(new), p))
    BY <1>1, <1>2, QuestionMoves
<1>5. new \in Seq(Frame)
    BY <1>1, <1>2
<1> QED
    BY <1>2, <1>3, <1>4, <1>5, SocketOnlyLink

-----------------------------------------------------------------------------
(* The processor takes a change into the tree and queues it *)

LEMMA ChainPush ==
    ASSUME NEW now, NEW landed, NEW sent, NEW hand, NEW queued, NEW old \in Nat, NEW new \in Nat,
           now \in Nat, landed \subseteq Nat, sent \subseteq Nat, hand \subseteq Nat, queued \subseteq Nat,
           Chain(now, landed, sent, hand, queued, old), old <= new
    PROVE  Chain(now, landed, sent, hand, queued \cup {new}, new) /\ Chain(now, landed, sent, hand, queued, new)
<1>1. \A v \in landed \cup sent \cup hand \cup queued : now <= v /\ v <= new
    BY DEF Chain
<1>2. now <= new
    BY DEF Chain
<1> QED
    BY <1>1, <1>2 DEF Chain, Below

\* Either the tree has p already, or its content is pushed, or lost with the link that is down
LEMMA HandleMoves ==
    ASSUME ContentsTyped, LinkTyped, NEW e, HandleEvent(e), landing' = landing
    PROVE  /\ DOMAIN link' = LinkField /\ link'.id = link.id /\ link'.last = link.last
           /\ link'.taken = link.taken /\ link'.settled = link.settled /\ link'.bridge = link.bridge
           /\ link'.inHand = link.inHand /\ link'.socket = link.socket
           /\ link'.queue \in Seq(Message) /\ Len(link.queue) <= Len(link'.queue)
           /\ \A i \in 1 .. Len(link.queue) : link'.queue[i] = link.queue[i]
           /\ link'.pushed = link'.taken + Len(link'.queue) /\ link.lost \subseteq link'.lost
           /\ link.id = 0 => link'.queue = link.queue /\ Len(link'.queue) = Len(link.queue)
           /\ link.id # 0 => link'.lost = link.lost
           /\ tree' \in [Path -> Nat \ {0}]
           /\ \A p \in Path :
                 /\ tree'[p] = IF e \in Above[p] THEN disk[p] ELSE tree[p]
                 /\ Rising(link.queue, p) /\ Below(Values(link.queue, p), {disk[p]}) => Rising(link.queue, p)'
                 /\ \/ tree'[p] = tree[p] /\ Values(link.queue, p)' = Values(link.queue, p)
                    \/ tree'[p] = disk[p] /\ Values(link.queue, p)' = Values(link.queue, p) \cup {disk[p]}
                    \/ tree'[p] = disk[p] /\ Values(link.queue, p)' = Values(link.queue, p) /\ p \in link'.lost
<1>1. PICK changed : changed = Outdated(e)
    OBVIOUS
<1>2. PICK message : message = [q \in Path |-> IF q \in changed THEN disk[q] ELSE 0]
    OBVIOUS
<1>3. /\ tree' = [q \in Path |-> IF q \in changed THEN disk[q] ELSE tree[q]]
      /\ link' = IF changed = {} THEN link ELSE Pushed(link, message)
    BY <1>1, <1>2 DEF HandleEvent
<1>4. \A q \in Path : q \in changed <=> e \in Above[q] /\ disk[q] # tree[q]
    BY <1>1 DEF Outdated
<1>5. message \in Message /\ \A q \in Path : (message[q] # 0 <=> q \in changed) /\ (q \in changed => message[q] = disk[q])
    BY <1>2 DEF Message, ContentsTyped
<1>6. tree' \in [Path -> Nat \ {0}] /\ \A p \in Path : tree'[p] = IF e \in Above[p] THEN disk[p] ELSE tree[p]
    BY <1>3, <1>4 DEF ContentsTyped
<1>7. /\ DOMAIN link = LinkField /\ link.queue \in Seq(Message) /\ link.taken \in Nat /\ link.pushed \in Nat
      /\ link.pushed = link.taken + Len(link.queue) /\ Len(link.queue) \in Nat
    BY DEF LinkTyped
<1>8. CASE changed = {}
    <2>1. link' = link /\ \A p \in Path : tree'[p] = tree[p]
        BY <1>3, <1>8
    <2>2. \A p \in Path : Values(link.queue, p)' = Values(link.queue, p) /\ Rising(link.queue, p)' = Rising(link.queue, p)
        BY <2>1 DEF Values, Rising
    <2> QED
        BY <1>6, <1>7, <2>1, <2>2
<1>9. CASE changed # {} /\ link.id = 0
    <2>1. link' = [link EXCEPT !.lost = @ \cup {p \in Path : message[p] # 0}]
        BY <1>3, <1>9 DEF Pushed
    <2>2. /\ DOMAIN link' = LinkField /\ link'.id = link.id /\ link'.last = link.last /\ link'.queue = link.queue
          /\ link'.pushed = link.pushed /\ link'.taken = link.taken /\ link'.settled = link.settled
          /\ link'.bridge = link.bridge /\ link'.inHand = link.inHand /\ link'.socket = link.socket
          /\ link'.lost = link.lost \cup {p \in Path : message[p] # 0}
        BY <1>7, <2>1 DEF LinkField
    <2>3. \A p \in Path : Values(link.queue, p)' = Values(link.queue, p) /\ Rising(link.queue, p)' = Rising(link.queue, p)
        BY <2>2 DEF Values, Rising
    <2>4. \A p \in Path : tree'[p] = tree[p] \/ (tree'[p] = disk[p] /\ p \in link'.lost)
        BY <1>3, <1>5, <2>2
    <2> QED
        BY <1>6, <1>7, <1>9, <2>2, <2>3, <2>4
<1>10. CASE changed # {} /\ link.id # 0
    <2>1. link' = [link EXCEPT !.queue = Append(@, message), !.pushed = @ + 1]
        BY <1>3, <1>10 DEF Pushed
    <2>2. /\ DOMAIN link' = LinkField /\ link'.id = link.id /\ link'.last = link.last /\ link'.queue = Append(link.queue, message)
          /\ link'.pushed = link.pushed + 1 /\ link'.taken = link.taken /\ link'.settled = link.settled
          /\ link'.bridge = link.bridge /\ link'.inHand = link.inHand /\ link'.socket = link.socket
          /\ link'.lost = link.lost
        BY <1>7, <2>1 DEF LinkField
    <2>3. /\ link'.queue \in Seq(Message) /\ Len(link'.queue) = Len(link.queue) + 1
          /\ \A i \in 1 .. Len(link.queue) : link'.queue[i] = link.queue[i]
        BY <1>5, <1>7, <2>2
    <2>4. link'.pushed = link'.taken + Len(link'.queue) /\ Len(link.queue) <= Len(link'.queue)
        BY <1>7, <2>2, <2>3
    <2>5. ASSUME NEW p \in Path
          PROVE  /\ Rising(link.queue, p) /\ Below(Values(link.queue, p), {disk[p]}) => Rising(link.queue, p)'
                 /\ \/ tree'[p] = tree[p] /\ Values(link.queue, p)' = Values(link.queue, p)
                    \/ tree'[p] = disk[p] /\ Values(link.queue, p)' = Values(link.queue, p) \cup {disk[p]}
        <3>1. /\ Values(Append(link.queue, message), p) = Values(link.queue, p) \cup ({message[p]} \ {0})
              /\ Rising(link.queue, p) /\ Below(Values(link.queue, p), {message[p]} \ {0}) => Rising(Append(link.queue, message), p)
            BY <1>5, <1>7, QueueGrows
        <3>2. Values(link.queue, p)' = Values(Append(link.queue, message), p) /\ Rising(link.queue, p)' = Rising(Append(link.queue, message), p)
            BY <2>2 DEF Values, Rising
        <3>3. Below(Values(link.queue, p), {disk[p]}) => Below(Values(link.queue, p), {message[p]} \ {0})
            BY <1>5 DEF Below
        <3>4. CASE p \in changed
            BY <1>3, <1>5, <3>1, <3>2, <3>3, <3>4
        <3>5. CASE p \notin changed
            BY <1>3, <1>5, <3>1, <3>2, <3>3, <3>5
        <3> QED
            BY <3>4, <3>5
    <2> QED
        BY <1>6, <1>10, <2>2, <2>3, <2>4, <2>5
<1> QED
    BY <1>8, <1>9, <1>10

LEMMA HandleLink ==
    ASSUME ContentsTyped, LinkInv, NEW e, HandleEvent(e), UNCHANGED <<disk, studio, landing, spent, exempt>>
    PROVE  LinkInv'
<1>1. LinkTyped
    BY DEF LinkInv
<1>2. /\ DOMAIN link' = LinkField /\ link'.id = link.id /\ link'.last = link.last
      /\ link'.taken = link.taken /\ link'.settled = link.settled /\ link'.bridge = link.bridge
      /\ link'.inHand = link.inHand /\ link'.socket = link.socket
      /\ link'.queue \in Seq(Message) /\ link'.pushed = link'.taken + Len(link'.queue)
      /\ link.id = 0 => link'.queue = link.queue
      /\ link.lost \subseteq link'.lost
    BY <1>1, HandleMoves
<1>3. LinkTyped'
    <2>1. /\ link.id \in Nat /\ link.last \in Nat /\ (link.id # 0 => link.last = link.id) /\ link.socket \in Seq(Frame)
          /\ link.taken \in Nat /\ link.settled \in Nat /\ landing \subseteq Path \X (Nat \ {0})
          /\ \/ link.bridge = "idle" /\ link.settled <= link.taken
             \/ link.bridge = "wait" /\ link.settled = link.taken
             \/ link.bridge = "send" /\ link.settled + 1 = link.taken /\ link.inHand \in Message
          /\ link.id = 0 => link.queue = <<>> /\ link.socket = <<>> /\ link.bridge = "idle" /\ landing = {}
        BY <1>1 DEF LinkTyped
    <2>2. link'.pushed \in Nat
        BY <1>2, <2>1
    <2> QED
        BY <1>2, <2>1, <2>2 DEF LinkTyped
<1>4. ASSUME NEW p \in Path
      PROVE  /\ Rising(link.queue, p) /\ Below(Values(link.queue, p), {disk[p]}) => Rising(link.queue, p)'
             /\ \/ tree'[p] = tree[p] /\ Values(link.queue, p)' = Values(link.queue, p)
                \/ tree'[p] = disk[p] /\ Values(link.queue, p)' = Values(link.queue, p) \cup {disk[p]}
                \/ tree'[p] = disk[p] /\ Values(link.queue, p)' = Values(link.queue, p) /\ p \in link'.lost
    BY <1>1, HandleMoves
<1>5. ASSUME NEW p \in Path
      PROVE  /\ InHand(p)' = InHand(p) /\ Values(Sent(link.socket), p)' = Values(Sent(link.socket), p)
             /\ Rising(Sent(link.socket), p)' = Rising(Sent(link.socket), p) /\ Landing(p)' = Landing(p)
    <2>1. Sent(link.socket)' = Sent(link.socket)
        BY <1>2 DEF Sent, ChangeOf
    <2> QED
        BY <1>2, <2>1 DEF InHand, Values, Rising, Landing
<1>6. ASSUME NEW p \in Path \ exempt' PROVE InOrder(p)'
    <2>1. InOrder(p)
        BY DEF LinkInv, StreamInv
    <2>2. Chain(studio[p], Landing(p), Values(Sent(link.socket), p), InHand(p), Values(link.queue, p), tree[p])
          /\ Rising(Sent(link.socket), p) /\ Rising(link.queue, p) /\ tree[p] <= disk[p] /\ disk[p] <= spent.fresh
        BY <2>1 DEF InOrder
    <2>3. /\ Landing(p) \subseteq Nat /\ Values(Sent(link.socket), p) \subseteq Nat /\ InHand(p) \subseteq Nat
          /\ Values(link.queue, p) \subseteq Nat /\ studio[p] \in Nat /\ tree[p] \in Nat /\ disk[p] \in Nat
        BY <1>1, StreamTyped
    <2>4. /\ Chain(studio[p], Landing(p), Values(Sent(link.socket), p), InHand(p), Values(link.queue, p) \cup {disk[p]}, disk[p])
          /\ Chain(studio[p], Landing(p), Values(Sent(link.socket), p), InHand(p), Values(link.queue, p), disk[p])
        BY <2>2, <2>3, ChainPush
    <2>5. Chain(studio[p], Landing(p), Values(Sent(link.socket), p), InHand(p), Values(link.queue, p)', tree'[p])
        BY <1>4, <2>2, <2>4
    <2>6. Below(Values(link.queue, p), {disk[p]})
        BY <2>4 DEF Chain, Below
    <2>7. tree'[p] <= disk[p]
        <3>1. tree'[p] \in {tree[p], disk[p]}
            BY <1>4
        <3> QED
            BY <2>2, <2>3, <3>1
    <2> QED
        BY <1>4, <1>5, <2>2, <2>5, <2>6, <2>7 DEF InOrder
<1>7. ASSUME NEW p \in Path \ (exempt' \cup link'.lost) PROVE OnItsWay(p)'
    <2>1. OnItsWay(p)
        BY <1>2 DEF LinkInv, StreamInv
    <2> QED
        BY <1>4, <1>5, <2>1 DEF OnItsWay
<1> QED
    BY <1>3, <1>6, <1>7 DEF LinkInv, StreamInv

-----------------------------------------------------------------------------
(* Types, group by group *)

\* The steps that change contents or Studio's pushes, the watcher, the processor, the barrier
ContentsSteps ==
    \/ \E p \in Path : EditFile(p) \/ StudioPushes(p)
    \/ LinkLost \/ SourceLands \/ ProcessEvent \/ WriteFile \/ WriteEnds \/ FenceDrains
WatcherSteps ==
    \/ \E p \in Path : EditFile(p)
    \/ PassStart \/ PassReads \/ PassEmits \/ PassEnds \/ ReleaseHeld \/ ProcessEvent \/ WriteFile
    \/ FenceDrains \/ BarrierStarts
ProcessorSteps ==
    \/ \E p \in Path : StudioPushes(p)
    \/ PassEmits \/ ReleaseHeld
    \/ WindowCloses \/ ProcessEvent \/ WriteStarts \/ WriteFile \/ WriteEnds \/ FenceReached \/ FenceDrains \/ FenceAnswers
BarrierSteps ==
    \/ LinkLost \/ WriteStarts \/ FenceAnswers \/ BarrierStarts \/ PluginAnswers \/ BarrierStep
LinkSteps ==
    \/ LinkLost \/ LinkUp \/ ProcessEvent \/ FenceDrains \/ LinkStep \/ BarrierRequests

LEMMA Frames ==
    ASSUME [PipelineNext]_pipelineVars
    PROVE  /\ ContentsSteps \/ UNCHANGED <<disk, tree, studio, spent, pushes>>
           /\ WatcherSteps \/ UNCHANGED <<raw, pass, flushed, held, events>>
           /\ ProcessorSteps \/ UNCHANGED <<pauseState, processor, pushes, events>>
           /\ BarrierSteps \/ barrier' = barrier
           /\ LinkSteps \/ UNCHANGED <<link, landing>>
           /\ exempt \subseteq exempt'
<1> USE DEF Contents, Watcher
<1>1. CASE UNCHANGED pipelineVars
    BY <1>1 DEF pipelineVars
<1>2. CASE \E p \in Path : EditFile(p) \/ StudioPushes(p)
    BY <1>2 DEF EditFile, StudioPushes, ContentsSteps, WatcherSteps, ProcessorSteps
<1>3. CASE LinkLost
    BY <1>3 DEF LinkLost, ContentsSteps, BarrierSteps, LinkSteps
<1>4. CASE LinkUp
    BY <1>4 DEF LinkUp, LinkSteps
<1>5. CASE BarrierStarts
    BY <1>5 DEF BarrierStarts, WatcherSteps, BarrierSteps
<1>6. CASE WatcherStep
    BY <1>6 DEF WatcherStep, WatcherSteps, ProcessorSteps, PassStart, PassReads, PassEmits, PassEnds, WindowCloses, ReleaseHeld
<1>7. CASE ProcessorStep
    BY <1>7 DEF ProcessorStep, ContentsSteps, WatcherSteps, ProcessorSteps, BarrierSteps, LinkSteps,
        ProcessEvent, WriteStarts, WriteFile, WriteEnds, FenceReached, FenceDrains, FenceAnswers
<1>8. CASE LinkStep
    BY <1>8 DEF LinkStep, ContentsSteps, BarrierSteps, LinkSteps, BridgeWaits, BridgeTakes, BridgeSends, PluginApplies,
        SourceLands, PluginAnswers, Taken
<1>9. CASE BarrierStep
    BY <1>9 DEF BarrierStep, BarrierSteps, LinkSteps, BarrierAges, BarrierCountsHeld, BarrierReadsFlush, BarrierMarks,
        BarrierAsks, BarrierRequests, BarrierEnds, BarrierTimesOut
<1> QED
    BY <1>1, <1>2, <1>3, <1>4, <1>5, <1>6, <1>7, <1>8, <1>9 DEF PipelineNext

LEMMA SeqGrows ==
    ASSUME NEW S, NEW T, S \subseteq T, NEW s \in Seq(S)
    PROVE  s \in Seq(T)
OBVIOUS

LEMMA HeadTyped ==
    ASSUME NEW S, NEW s \in Seq(S), s # <<>>
    PROVE  Head(s) \in S /\ Tail(s) \in Seq(S)
OBVIOUS

LEMMA ContentsStep ==
    ASSUME Base, [PipelineNext]_pipelineVars
    PROVE  ContentsTyped'
<1>1. /\ disk \in [Path -> Nat \ {0}] /\ tree \in [Path -> Nat \ {0}] /\ studio \in [Path -> Nat \ {0}]
      /\ spent = [edits |-> spent.edits, faults |-> spent.faults, fresh |-> spent.fresh] /\ spent.fresh \in Nat \ {0}
      /\ pushes \in Seq([path : Path \cap exempt, content : Nat \ {0}])
    BY DEF Base, ContentsTyped
<1>2. pushes \in Seq([path : Path \cap exempt', content : Nat \ {0}]) /\ exempt \subseteq exempt'
    <2>1. exempt \subseteq exempt'
        BY Frames
    <2>2. [path : Path \cap exempt, content : Nat \ {0}] \subseteq [path : Path \cap exempt', content : Nat \ {0}]
        BY <2>1
    <2> QED
        BY <1>1, <2>1, <2>2, SeqGrows
<1>3. CASE UNCHANGED <<disk, tree, studio, spent, pushes>>
    BY <1>1, <1>2, <1>3 DEF ContentsTyped
<1>4. ASSUME NEW p \in Path, EditFile(p) PROVE ContentsTyped'
    <2>1. /\ disk' = [disk EXCEPT ![p] = spent.fresh] /\ UNCHANGED <<tree, studio, pushes>>
          /\ spent' = [spent EXCEPT !.edits = @ + 1, !.fresh = @ + 1]
        BY <1>4 DEF EditFile
    <2>2. spent' = [edits |-> spent.edits + 1, faults |-> spent.faults, fresh |-> spent.fresh + 1]
        BY <1>1, <2>1
    <2>3. disk' \in [Path -> Nat \ {0}]
        BY <1>1, <2>1
    <2>4. spent' = [edits |-> spent'.edits, faults |-> spent'.faults, fresh |-> spent'.fresh] /\ spent'.fresh \in Nat \ {0}
        BY <1>1, <2>2
    <2>5. UNCHANGED <<tree, studio, pushes>>
        BY <2>1
    <2> QED
        BY <1>1, <1>2, <2>3, <2>4, <2>5 DEF ContentsTyped
<1>5. ASSUME NEW p \in Path, StudioPushes(p) PROVE ContentsTyped'
    <2>1. /\ studio' = [studio EXCEPT ![p] = spent.fresh] /\ UNCHANGED <<disk, tree>>
          /\ spent' = [spent EXCEPT !.faults = @ + 1, !.fresh = @ + 1]
          /\ pushes' = Append(pushes, [path |-> p, content |-> spent.fresh]) /\ p \in exempt'
        BY <1>5 DEF StudioPushes
    <2>2. [path |-> p, content |-> spent.fresh] \in [path : Path \cap exempt', content : Nat \ {0}]
        BY <1>1, <2>1
    <2>3. pushes' \in Seq([path : Path \cap exempt', content : Nat \ {0}])
        BY <1>2, <2>1, <2>2
    <2>4. spent' = [edits |-> spent.edits, faults |-> spent.faults + 1, fresh |-> spent.fresh + 1]
        BY <1>1, <2>1
    <2>5. studio' \in [Path -> Nat \ {0}]
        BY <1>1, <2>1
    <2>6. spent' = [edits |-> spent'.edits, faults |-> spent'.faults, fresh |-> spent'.fresh] /\ spent'.fresh \in Nat \ {0}
        BY <1>1, <2>4
    <2>7. UNCHANGED <<disk, tree>>
        BY <2>1
    <2> QED
        BY <1>1, <2>3, <2>5, <2>6, <2>7 DEF ContentsTyped
<1>6. CASE LinkLost
    <2>1. spent' = [spent EXCEPT !.faults = @ + 1] /\ UNCHANGED <<disk, tree, studio, pushes>>
        BY <1>6 DEF LinkLost, Contents
    <2> QED
        BY <1>1, <1>2, <2>1 DEF ContentsTyped
<1>7. CASE SourceLands
    <2>1. PICK write \in landing : studio' = [studio EXCEPT ![write[1]] = write[2]]
        BY <1>7 DEF SourceLands
    <2>2. write[2] \in Nat \ {0}
        BY DEF Base, LinkInv, LinkTyped
    <2>3. UNCHANGED <<disk, tree, spent, pushes>>
        BY <1>7 DEF SourceLands
    <2> QED
        BY <1>1, <1>2, <2>1, <2>2, <2>3 DEF ContentsTyped
<1>8. CASE ProcessEvent \/ FenceDrains
    <2>1. PICK e : HandleEvent(e) /\ UNCHANGED <<disk, studio, spent, pushes, landing>>
        BY <1>8 DEF ProcessEvent, FenceDrains
    <2>2. tree' \in [Path -> Nat \ {0}]
        BY <2>1, HandleMoves DEF Base, LinkInv
    <2> QED
        BY <1>1, <1>2, <2>1, <2>2 DEF ContentsTyped
<1>9. CASE WriteFile
    <2>1. pushes # <<>>
        BY <1>9 DEF WriteFile, Base, ProcessorTyped
    <2>2. PICK change : change = Head(pushes)
        OBVIOUS
    <2>3. change \in [path : Path \cap exempt, content : Nat \ {0}]
        BY <1>1, <2>1, <2>2, HeadTyped
    <2>4. /\ disk' = [disk EXCEPT ![change.path] = change.content] /\ tree' = [tree EXCEPT ![change.path] = change.content]
          /\ UNCHANGED <<studio, spent, pushes>>
        BY <1>9, <2>2 DEF WriteFile
    <2> QED
        BY <1>1, <1>2, <2>3, <2>4 DEF ContentsTyped
<1>10. CASE WriteEnds
    <2>1. pushes' = Tail(pushes) /\ pushes # <<>> /\ UNCHANGED <<disk, tree, studio, spent>>
        BY <1>10 DEF WriteEnds, Contents, Base, ProcessorTyped
    <2>2. pushes' \in Seq([path : Path \cap exempt', content : Nat \ {0}])
        BY <1>2, <2>1
    <2> QED
        BY <1>1, <2>1, <2>2 DEF ContentsTyped
<1> QED
    BY <1>3, <1>4, <1>5, <1>6, <1>7, <1>8, <1>9, <1>10, Frames DEF ContentsSteps

\* A path that is written is one that Studio pushed
LEMMA WriteExempt ==
    ASSUME ContentsTyped, ProcessorTyped, WriteFile
    PROVE  \E q \in Path \cap exempt : \E c \in Nat \ {0} :
               /\ disk' = [disk EXCEPT ![q] = c] /\ tree' = [tree EXCEPT ![q] = c] /\ raw' = Raised(q)
               /\ UNCHANGED <<studio, spent, exempt, link, landing>>
<1>1. pushes # <<>> /\ pushes \in Seq([path : Path \cap exempt, content : Nat \ {0}])
    BY DEF WriteFile, ProcessorTyped, ContentsTyped
<1>2. PICK change : change = Head(pushes)
    OBVIOUS
<1>3. change \in [path : Path \cap exempt, content : Nat \ {0}]
    BY <1>1, <1>2, HeadTyped
<1>4. /\ disk' = [disk EXCEPT ![change.path] = change.content] /\ tree' = [tree EXCEPT ![change.path] = change.content]
      /\ raw' = Raised(change.path) /\ UNCHANGED <<studio, spent, exempt, link, landing>>
    BY <1>2 DEF WriteFile
<1> QED
    BY <1>3, <1>4

LEMMA LinkInvStep ==
    ASSUME Base, [PipelineNext]_pipelineVars
    PROVE  LinkInv'
<1>1. ContentsTyped /\ ProcessorTyped /\ LinkInv /\ exempt \subseteq exempt'
    BY Frames DEF Base
<1>2. CASE UNCHANGED <<disk, tree, studio, spent, pushes>> /\ UNCHANGED <<link, landing>>
    BY <1>1, <1>2, LinkAlone
<1>3. ASSUME NEW p \in Path, EditFile(p) PROVE LinkInv'
    <2>1. UNCHANGED <<link, landing, tree, studio>> /\ disk' = [disk EXCEPT ![p] = spent.fresh] /\ spent' = [spent EXCEPT !.edits = @ + 1, !.fresh = @ + 1]
        BY <1>3 DEF EditFile
    <2>2. disk \in [Path -> Nat \ {0}] /\ spent = [edits |-> spent.edits, faults |-> spent.faults, fresh |-> spent.fresh]
        BY <1>1 DEF ContentsTyped
    <2>3. spent'.fresh = spent.fresh + 1 /\ \A q \in Path : disk'[q] \in {disk[q], spent.fresh}
        BY <2>1, <2>2
    <2> QED
        BY <1>1, <2>1, <2>3, LinkAlone
<1>4. ASSUME NEW p \in Path, StudioPushes(p) PROVE LinkInv'
    <2>1. UNCHANGED <<link, landing, tree, disk>> /\ studio' = [studio EXCEPT ![p] = spent.fresh] /\ exempt' = exempt \cup {p}
          /\ spent' = [spent EXCEPT !.faults = @ + 1, !.fresh = @ + 1]
        BY <1>4 DEF StudioPushes
    <2>2. studio \in [Path -> Nat \ {0}] /\ spent = [edits |-> spent.edits, faults |-> spent.faults, fresh |-> spent.fresh]
        BY <1>1 DEF ContentsTyped
    <2>3. spent'.fresh = spent.fresh + 1 /\ \A q \in Path \ exempt' : studio'[q] = studio[q]
        BY <2>1, <2>2
    <2> QED
        BY <1>1, <2>1, <2>3, LinkAlone
<1>5. CASE WriteFile
    <2>1. PICK q \in Path \cap exempt, c \in Nat \ {0} :
              /\ disk' = [disk EXCEPT ![q] = c] /\ tree' = [tree EXCEPT ![q] = c] /\ UNCHANGED <<studio, spent, exempt, link, landing>>
        BY <1>1, <1>5, WriteExempt
    <2>2. \A p \in Path \ exempt' : studio'[p] = studio[p] /\ tree'[p] = tree[p] /\ disk'[p] = disk[p]
        BY <1>1, <2>1 DEF ContentsTyped
    <2> QED
        BY <1>1, <2>1, <2>2, LinkAlone
<1>6. CASE WriteEnds
    <2>1. UNCHANGED <<disk, tree, studio, spent, link, landing>>
        BY <1>6 DEF WriteEnds, Contents
    <2> QED
        BY <1>1, <2>1, LinkAlone
<1>7. CASE ProcessEvent \/ FenceDrains
    <2>1. PICK e : HandleEvent(e) /\ UNCHANGED <<disk, studio, landing, spent, exempt>>
        BY <1>7 DEF ProcessEvent, FenceDrains
    <2> QED
        BY <1>1, <2>1, HandleLink
<1>8. CASE LinkLost
    BY <1>1, <1>8, LinkLostLink
<1>9. CASE LinkUp
    BY <1>1, <1>9, LinkUpLink
<1>10. CASE LinkStep
    BY <1>1, <1>10, BridgeWaitsLink, BridgeTakesLink, BridgeSendsLink, PluginAppliesLink, SourceLandsLink, AnswersLink DEF LinkStep
<1>11. CASE BarrierRequests
    BY <1>1, <1>11, RequestsLink
<1> QED
    <2>1. /\ ContentsSteps \/ UNCHANGED <<disk, tree, studio, spent, pushes>>
          /\ LinkSteps \/ UNCHANGED <<link, landing>>
        BY Frames
    <2>2. CASE ContentsSteps
        BY <2>2, <1>3, <1>4, <1>5, <1>6, <1>7, <1>8, <1>10 DEF ContentsSteps, LinkStep
    <2>3. CASE LinkSteps
        BY <2>3, <1>7, <1>8, <1>9, <1>10, <1>11 DEF LinkSteps
    <2> QED
        BY <1>2, <2>1, <2>2, <2>3

\* The paths of events, and events made old, are as many or fewer
LEMMA FinitePaths ==
    ASSUME NEW S, IsFiniteSet(S), S \subseteq [path : Path, old : BOOLEAN]
    PROVE  /\ IsFiniteSet({e.path : e \in S}) /\ {e.path : e \in S} \subseteq Path
           /\ IsFiniteSet({[e EXCEPT !.old = TRUE] : e \in S})
           /\ {[e EXCEPT !.old = TRUE] : e \in S} \subseteq [path : Path, old : BOOLEAN]
<1>1. [e \in S |-> e.path] \in Surjection(S, {e.path : e \in S})
    BY DEF Surjection
<1>2. [e \in S |-> [e EXCEPT !.old = TRUE]] \in Surjection(S, {[e EXCEPT !.old = TRUE] : e \in S})
    BY Zenon DEF Surjection
<1>3. IsFiniteSet({e.path : e \in S})
    BY <1>1, FS_Surjection
<1>4. IsFiniteSet({[e EXCEPT !.old = TRUE] : e \in S})
    BY <1>2, FS_Surjection
<1>5. {e.path : e \in S} \subseteq Path
    OBVIOUS
<1>6. {[e EXCEPT !.old = TRUE] : e \in S} \subseteq [path : Path, old : BOOLEAN]
    OBVIOUS
<1> QED
    BY <1>3, <1>4, <1>5, <1>6

LEMMA RaisedTyped ==
    ASSUME WatcherTyped, NEW p \in Path
    PROVE  Raised(p) \subseteq [path : Path, old : BOOLEAN] /\ IsFiniteSet(Raised(p))
<1>1. IsFiniteSet(raw) /\ raw \subseteq [path : Path, old : BOOLEAN]
    BY DEF WatcherTyped
<1>2. IsFiniteSet(Raised(p))
    BY <1>1, FS_AddElement DEF Raised
<1>3. Raised(p) \subseteq [path : Path, old : BOOLEAN]
    <2>1. [path |-> p, old |-> FALSE] \in [path : Path, old : BOOLEAN]
        OBVIOUS
    <2>2. PICK e : e = [path |-> p, old |-> FALSE]
        OBVIOUS
    <2>3. Raised(p) = raw \cup {e}
        BY <2>2 DEF Raised
    <2> QED
        BY <1>1, <2>1, <2>2, <2>3
<1> QED
    BY <1>2, <1>3

LEMMA WatcherStepTyped ==
    ASSUME Base, [PipelineNext]_pipelineVars
    PROVE  WatcherTyped'
<1>1. /\ raw \subseteq [path : Path, old : BOOLEAN] /\ IsFiniteSet(raw)
      /\ pass = [pc |-> pass.pc, late |-> pass.late, writing |-> pass.writing, emits |-> pass.emits]
      /\ pass.pc \in {"idle", "read", "emit", "end"} /\ pass.late \in BOOLEAN /\ pass.writing \in BOOLEAN
      /\ pass.emits \subseteq Path /\ IsFiniteSet(pass.emits)
      /\ held \subseteq Path /\ IsFiniteSet(held) /\ flushed \in BOOLEAN
      /\ events \in Seq(Path)
    BY DEF Base, WatcherTyped
<1>2. CASE UNCHANGED <<raw, pass, flushed, held, events>>
    BY <1>1, <1>2 DEF WatcherTyped
<1>3. ASSUME NEW p \in Path, raw' = Raised(p), UNCHANGED <<pass, flushed, held, events>> PROVE WatcherTyped'
    <2>1. raw' \subseteq [path : Path, old : BOOLEAN] /\ IsFiniteSet(raw')
        BY <1>3, RaisedTyped DEF Base
    <2> QED
        BY <1>1, <1>3, <2>1 DEF WatcherTyped
<1>4. ASSUME NEW p \in Path, EditFile(p) PROVE WatcherTyped'
    BY <1>3, <1>4 DEF EditFile
<1>5. CASE WriteFile
    <2>1. PICK q \in Path : raw' = Raised(q)
        BY <1>5, WriteExempt DEF Base
    <2>2. UNCHANGED <<pass, flushed, held, events>>
        BY <1>5 DEF WriteFile
    <2> QED
        BY <1>3, <2>1, <2>2
<1>6. CASE PassStart
    <2>1. PICK aged \in SUBSET raw :
              /\ raw' = raw \ aged
              /\ pass' = [pc |-> "read", late |-> barrier.window, writing |-> FALSE, emits |-> {e.path : e \in aged}]
        BY <1>6 DEF PassStart
    <2>2. UNCHANGED <<flushed, held, events>>
        BY <1>6 DEF PassStart
    <2>3. PICK paths : paths = {e.path : e \in aged}
        OBVIOUS
    <2>4. IsFiniteSet(aged) /\ IsFiniteSet(raw \ aged)
        BY <1>1, <2>1, FS_Subset, FS_Difference
    <2>5. paths \subseteq Path /\ IsFiniteSet(paths)
        <3>1. aged \subseteq [path : Path, old : BOOLEAN]
            BY <1>1, <2>1
        <3> QED
            BY <2>3, <2>4, <3>1, FinitePaths
    <2>6. /\ pass' = [pc |-> pass'.pc, late |-> pass'.late, writing |-> pass'.writing, emits |-> pass'.emits]
          /\ pass'.pc = "read" /\ pass'.late = barrier.window /\ pass'.writing = FALSE /\ pass'.emits = paths
        BY <2>1, <2>3
    <2>7. barrier.window \in BOOLEAN
        BY DEF Base, BarrierTyped
    <2>8. raw' \subseteq [path : Path, old : BOOLEAN] /\ IsFiniteSet(raw')
        BY <1>1, <2>1, <2>4
    <2> QED
        BY <1>1, <2>2, <2>5, <2>6, <2>7, <2>8 DEF WatcherTyped
<1>7. CASE PassReads
    <2>1. /\ pass' = [pass EXCEPT !.pc = "emit", !.writing = pauseState.paused \/ pauseState.recent]
          /\ UNCHANGED <<raw, flushed, held, events>>
        BY <1>7 DEF PassReads
    <2>2. /\ pass' = [pc |-> pass'.pc, late |-> pass'.late, writing |-> pass'.writing, emits |-> pass'.emits]
          /\ pass'.pc = "emit" /\ pass'.late = pass.late /\ pass'.writing \in BOOLEAN /\ pass'.emits = pass.emits
        BY <1>1, <2>1
    <2>3. UNCHANGED <<raw, flushed, held, events>>
        BY <2>1
    <2> QED
        BY <1>1, <2>2, <2>3 DEF WatcherTyped
<1>8. CASE PassEmits
    <2>1. /\ pass' = [pass EXCEPT !.pc = "end"] /\ UNCHANGED <<raw, flushed>>
        BY <1>8 DEF PassEmits
    <2>2. /\ pass' = [pc |-> pass'.pc, late |-> pass'.late, writing |-> pass'.writing, emits |-> pass'.emits]
          /\ pass'.pc = "end" /\ pass'.late = pass.late /\ pass'.writing = pass.writing /\ pass'.emits = pass.emits
        BY <1>1, <2>1
    <2>3. held' \subseteq Path /\ IsFiniteSet(held') /\ events' \in Seq(Path)
        <3>1. CASE pass.writing
            <4>1. held' = held \cup pass.emits /\ events' = events
                BY <1>8, <3>1 DEF PassEmits
            <4> QED
                BY <1>1, <4>1, FS_Union
        <3>2. CASE ~pass.writing
            <4>1. held' = held /\ \E batch \in SetToSeqs(pass.emits) : events' = events \o batch
                BY <1>8, <3>2 DEF PassEmits
            <4>2. PICK batch \in SetToSeqs(pass.emits) : events' = events \o batch
                BY <4>1
            <4>3. batch \in Seq(Path)
                BY <1>1, Batch
            <4> QED
                BY <1>1, <4>1, <4>2, <4>3, BatchJoins
        <3> QED
            BY <3>1, <3>2
    <2>4. UNCHANGED <<raw, flushed>>
        BY <2>1
    <2> QED
        BY <1>1, <2>2, <2>3, <2>4 DEF WatcherTyped
<1>9. CASE PassEnds
    <2>1. pass' = NoPass /\ flushed' = pass.late /\ UNCHANGED <<raw, held, events>>
        BY <1>9 DEF PassEnds
    <2>2. /\ pass' = [pc |-> pass'.pc, late |-> pass'.late, writing |-> pass'.writing, emits |-> pass'.emits]
          /\ pass'.pc = "idle" /\ pass'.late = FALSE /\ pass'.writing = FALSE /\ pass'.emits = {}
        BY <2>1 DEF NoPass
    <2>3. flushed' = pass.late /\ UNCHANGED <<raw, held, events>>
        BY <2>1
    <2> QED
        BY <1>1, <2>2, <2>3, FS_EmptySet DEF WatcherTyped
<1>10. CASE ReleaseHeld
    <2>1. PICK written : \E batch \in SetToSeqs(Released(written)) : events' = events \o batch
        BY <1>10 DEF ReleaseHeld
    <2>2. Released(written) \subseteq Path /\ IsFiniteSet(Released(written))
        <3>1. Released(written) \subseteq held
            BY DEF Released
        <3> QED
            BY <1>1, <3>1, FS_Subset
    <2>3. PICK batch \in SetToSeqs(Released(written)) : events' = events \o batch
        BY <2>1
    <2>4. events' \in Seq(Path)
        BY <1>1, <2>2, <2>3, Batch, BatchJoins
    <2>5. held' = {} /\ UNCHANGED <<raw, pass, flushed>>
        BY <1>10 DEF ReleaseHeld
    <2> QED
        BY <1>1, <2>4, <2>5, FS_EmptySet DEF WatcherTyped
<1>11. CASE ProcessEvent \/ FenceDrains
    <2>1. events' = Tail(events) /\ UNCHANGED <<raw, pass, flushed, held>>
        BY <1>11 DEF ProcessEvent, FenceDrains, Watcher
    <2>2. events # <<>>
        BY <1>1, <1>11 DEF ProcessEvent, FenceDrains, Base, ProcessorTyped
    <2>3. events' \in Seq(Path)
        BY <1>1, <2>1, <2>2, HeadTyped
    <2> QED
        BY <1>1, <2>1, <2>3 DEF WatcherTyped
<1>12. CASE BarrierStarts
    <2>1. raw' = {[e EXCEPT !.old = TRUE] : e \in raw} /\ UNCHANGED <<pass, flushed, held, events>>
        BY <1>12 DEF BarrierStarts
    <2>2. raw' \subseteq [path : Path, old : BOOLEAN] /\ IsFiniteSet(raw')
        BY <1>1, <2>1, FinitePaths
    <2>3. UNCHANGED <<pass, flushed, held, events>>
        BY <2>1
    <2> QED
        BY <1>1, <2>2, <2>3 DEF WatcherTyped
<1> QED
    BY <1>2, <1>4, <1>5, <1>6, <1>7, <1>8, <1>9, <1>10, <1>11, <1>12, Frames DEF WatcherSteps

\* Whatever happens, no event is taken away from behind the processor's back
LEMMA EventsGrow ==
    ASSUME WatcherTyped, PassEmits \/ ReleaseHeld
    PROVE  /\ events' \in Seq(Path) /\ Len(events) <= Len(events')
           /\ \A i \in 1 .. Len(events) : events'[i] = events[i]
<1>1. events \in Seq(Path) /\ pass.emits \subseteq Path /\ IsFiniteSet(pass.emits) /\ held \subseteq Path /\ IsFiniteSet(held)
    BY DEF WatcherTyped
<1>2. ASSUME NEW S \in SUBSET Path, IsFiniteSet(S), NEW batch \in SetToSeqs(S), events' = events \o batch
      PROVE  /\ events' \in Seq(Path) /\ Len(events) <= Len(events')
             /\ \A i \in 1 .. Len(events) : events'[i] = events[i]
    <2>1. batch \in Seq(Path)
        BY <1>2, Batch
    <2>2. /\ events \o batch \in Seq(Path) /\ Len(events \o batch) = Len(events) + Len(batch)
          /\ \A i \in 1 .. Len(events) : (events \o batch)[i] = events[i]
        BY <1>1, <2>1, BatchJoins
    <2>3. Len(events) \in Nat /\ Len(batch) \in Nat
        BY <1>1, <2>1
    <2> QED
        BY <1>2, <2>2, <2>3
<1>3. CASE events' = events
    BY <1>1, <1>3
<1>4. CASE PassEmits
    BY <1>1, <1>2, <1>3, <1>4 DEF PassEmits
<1>5. CASE ReleaseHeld
    <2>1. PICK written : \E batch \in SetToSeqs(Released(written)) : events' = events \o batch
        BY <1>5 DEF ReleaseHeld
    <2>2. Released(written) \in SUBSET Path /\ IsFiniteSet(Released(written))
        <3>1. Released(written) \subseteq held
            BY DEF Released
        <3> QED
            BY <1>1, <3>1, FS_Subset
    <2> QED
        BY <1>2, <2>1, <2>2
<1> QED
    BY <1>4, <1>5

LEMMA ProcessorStepTyped ==
    ASSUME Base, [PipelineNext]_pipelineVars
    PROVE  ProcessorTyped'
<1>1. /\ pauseState = [paused |-> pauseState.paused, recent |-> pauseState.recent]
      /\ processor = [pc |-> processor.pc, left |-> processor.left]
      /\ \/ processor.pc \in {"idle", "write", "written"} /\ processor.left = 0
         \/ processor.pc = "drain" /\ processor.left \in 0 .. Len(events)
      /\ processor.pc \in {"write", "written"} => pauseState.paused /\ pushes # <<>>
      /\ events \in Seq(Path) /\ Len(events) \in Nat
    BY DEF Base, ProcessorTyped, WatcherTyped
<1>2. CASE UNCHANGED <<pauseState, processor, pushes, events>>
    BY <1>1, <1>2 DEF ProcessorTyped
<1>3. ASSUME NEW p \in Path, StudioPushes(p) PROVE ProcessorTyped'
    <2>1. PICK push : pushes' = Append(pushes, push)
        BY <1>3 DEF StudioPushes
    <2>2. pushes' # <<>>
        <3>1. PICK S : pushes \in Seq(S)
            BY DEF Base, ContentsTyped
        <3>2. Len(Append(pushes, push)) = Len(pushes) + 1 /\ Len(pushes) \in Nat
            BY <3>1
        <3> QED
            BY <2>1, <3>2
    <2>3. UNCHANGED <<pauseState, processor, events>>
        BY <1>3 DEF StudioPushes, Watcher
    <2> QED
        BY <1>1, <2>2, <2>3 DEF ProcessorTyped
<1>4. CASE PassEmits \/ ReleaseHeld
    <2>1. Len(events) <= Len(events') /\ Len(events') \in Nat
        BY <1>4, EventsGrow DEF Base
    <2>2. UNCHANGED <<pauseState, processor, pushes>>
        BY <1>4 DEF PassEmits, ReleaseHeld
    <2>3. processor.left \in 0 .. Len(events) => processor.left \in 0 .. Len(events')
        BY <1>1, <2>1
    <2> QED
        BY <1>1, <2>2, <2>3 DEF ProcessorTyped
<1>5. CASE WindowCloses
    <2>1. pauseState' = [pauseState EXCEPT !.recent = FALSE] /\ UNCHANGED <<processor, pushes, events>>
        BY <1>5 DEF WindowCloses
    <2>2. pauseState' = [paused |-> pauseState'.paused, recent |-> pauseState'.recent] /\ pauseState'.paused = pauseState.paused
        BY <1>1, <2>1
    <2>3. UNCHANGED <<processor, pushes, events>>
        BY <2>1
    <2> QED
        BY <1>1, <2>2, <2>3 DEF ProcessorTyped
<1>6. CASE ProcessEvent
    <2>1. processor.pc = "idle" /\ UNCHANGED <<pauseState, processor, pushes>>
        BY <1>6 DEF ProcessEvent, Watcher
    <2> QED
        BY <1>1, <2>1 DEF ProcessorTyped
<1>7. CASE WriteStarts
    <2>1. /\ processor' = [processor EXCEPT !.pc = "write"] /\ pauseState' = [paused |-> TRUE, recent |-> TRUE]
          /\ processor.pc = "idle" /\ pushes # <<>> /\ UNCHANGED <<pushes, events>>
        BY <1>7 DEF WriteStarts, PauseWatcher
    <2>2. processor' = [pc |-> processor'.pc, left |-> processor'.left] /\ processor'.pc = "write" /\ processor'.left = 0
        BY <1>1, <2>1
    <2>3. /\ pauseState' = [paused |-> pauseState'.paused, recent |-> pauseState'.recent] /\ pauseState'.paused = TRUE
          /\ pushes' # <<>>
        BY <2>1
    <2> QED
        BY <2>2, <2>3 DEF ProcessorTyped
<1>8. CASE WriteFile
    <2>1. /\ processor' = [processor EXCEPT !.pc = "written"] /\ processor.pc = "write" /\ UNCHANGED <<pauseState, pushes, events>>
        BY <1>8 DEF WriteFile
    <2>2. processor' = [pc |-> processor'.pc, left |-> processor'.left] /\ processor'.pc = "written" /\ processor'.left = 0
        BY <1>1, <2>1
    <2>3. processor.pc = "write" /\ UNCHANGED <<pauseState, pushes, events>>
        BY <2>1
    <2> QED
        BY <1>1, <2>2, <2>3 DEF ProcessorTyped
<1>9. CASE WriteEnds
    <2>1. processor' = Idle /\ pauseState' = [paused |-> FALSE, recent |-> TRUE]
        BY <1>9 DEF WriteEnds, ResumeWatcher
    <2>2. /\ processor' = [pc |-> processor'.pc, left |-> processor'.left] /\ processor'.pc = "idle" /\ processor'.left = 0
          /\ pauseState' = [paused |-> pauseState'.paused, recent |-> pauseState'.recent]
        BY <2>1 DEF Idle
    <2> QED
        BY <2>2 DEF ProcessorTyped
<1>10. CASE FenceReached
    <2>1. processor' = [pc |-> "drain", left |-> Len(events)] /\ UNCHANGED <<pauseState, events>>
        BY <1>10 DEF FenceReached, Watcher
    <2>2. processor' = [pc |-> processor'.pc, left |-> processor'.left] /\ processor'.pc = "drain" /\ processor'.left = Len(events)
        BY <2>1
    <2>3. processor'.left \in 0 .. Len(events')
        BY <1>1, <2>1, <2>2
    <2> QED
        BY <1>1, <2>1, <2>2, <2>3 DEF ProcessorTyped
<1>11. CASE FenceDrains
    <2>1. /\ processor' = [processor EXCEPT !.left = @ - 1] /\ events' = Tail(events) /\ UNCHANGED pauseState
          /\ processor.pc = "drain" /\ processor.left > 0
        BY <1>11 DEF FenceDrains, Watcher
    <2>2. /\ processor' = [pc |-> processor'.pc, left |-> processor'.left] /\ processor'.pc = "drain"
          /\ processor'.left = processor.left - 1
        BY <1>1, <2>1
    <2>3. events # <<>>
        BY <1>1, <2>1
    <2>4. Len(Tail(events)) = Len(events) - 1
        BY <1>1, <2>3
    <2>5. processor'.left \in 0 .. Len(events')
        BY <1>1, <2>1, <2>2, <2>4
    <2>6. UNCHANGED pauseState
        BY <2>1
    <2> QED
        BY <1>1, <2>2, <2>5, <2>6 DEF ProcessorTyped
<1>12. CASE FenceAnswers
    <2>1. processor' = Idle /\ UNCHANGED pauseState
        BY <1>12 DEF FenceAnswers, Watcher
    <2>2. /\ processor' = [pc |-> processor'.pc, left |-> processor'.left] /\ processor'.pc = "idle" /\ processor'.left = 0
        BY <2>1 DEF Idle
    <2>3. UNCHANGED pauseState
        BY <2>1
    <2> QED
        BY <1>1, <2>2, <2>3 DEF ProcessorTyped
<1> QED
    BY <1>2, <1>3, <1>4, <1>5, <1>6, <1>7, <1>8, <1>9, <1>10, <1>11, <1>12, Frames DEF ProcessorSteps

LEMMA LastGrows ==
    ASSUME LinkTyped, [PipelineNext]_pipelineVars
    PROVE  link.last <= link'.last /\ link.last \in Nat /\ link'.last \in Nat
<1>1. link.last \in Nat /\ link.id \in Nat /\ (link.id # 0 => link.last = link.id)
    BY DEF LinkTyped
<1>2. CASE link' = link
    BY <1>1, <1>2
<1>3. CASE LinkLost
    <2>1. link' = [NoLink EXCEPT !.last = link.id, !.lost = {p \in Path : tree[p] # studio[p]}] /\ link.id # 0
        BY <1>3 DEF LinkLost
    <2>2. link'.last = link.id
        BY <2>1 DEF NoLink
    <2> QED
        BY <1>1, <2>1, <2>2
<1>4. CASE LinkUp
    <2>1. link' = [NoLink EXCEPT !.id = link.last + 1, !.last = link.last + 1, !.lost = link.lost]
        BY <1>4 DEF LinkUp
    <2>2. link'.last = link.last + 1
        BY <2>1 DEF NoLink
    <2> QED
        BY <1>1, <2>2
<1>5. CASE link'.last = link.last
    BY <1>1, <1>5
<1>6. DOMAIN link = LinkField
    BY DEF LinkTyped
<1>7. CASE ProcessEvent \/ FenceDrains
    <2>1. PICK e : HandleEvent(e)
        BY <1>7 DEF ProcessEvent, FenceDrains
    <2>2. PICK message : link' = link \/ link' = Pushed(link, message)
        BY <2>1 DEF HandleEvent
    <2> QED
        BY <1>2, <1>5, <1>6, <2>2 DEF Pushed, LinkField
<1>8. CASE LinkStep
    <2>1. CASE BridgeWaits
        BY <1>5, <1>6, <2>1 DEF BridgeWaits, LinkField
    <2>2. CASE BridgeTakes
        BY <1>5, <2>2, TakesMoves
    <2>3. CASE BridgeSends
        BY <1>5, <2>3, SendsMoves
    <2>4. CASE PluginApplies
        BY <1>5, <2>4, AppliesMoves
    <2>5. CASE SourceLands
        BY <1>2, <2>5 DEF SourceLands
    <2>6. CASE PluginAnswers
        BY <1>5, <2>6, AnswersMoves DEF SocketOnly
    <2> QED
        BY <1>8, <2>1, <2>2, <2>3, <2>4, <2>5, <2>6 DEF LinkStep
<1>9. CASE BarrierRequests
    <2>1. CASE link.id = 0
        BY <1>2, <1>9, <2>1 DEF BarrierRequests
    <2>2. CASE link.id # 0
        BY <1>5, <1>9, <2>2, RequestsMoves DEF SocketOnly
    <2> QED
        BY <2>1, <2>2
<1> QED
    BY <1>2, <1>3, <1>4, <1>7, <1>8, <1>9, Frames DEF LinkSteps

\* The barrier goes on, or is over
Goes(pc, window, target, answer, quiet) ==
    /\ DOMAIN barrier' = BarrierField /\ barrier'.id = barrier.id /\ barrier'.want = barrier.want
    /\ barrier'.pc = pc /\ barrier'.window = window /\ barrier'.target = target /\ barrier'.answer = answer
    /\ barrier'.quiet = quiet
GoesTo(pc) == Goes(pc, barrier.window, barrier.target, barrier.answer, barrier.quiet)
Stops ==
    /\ DOMAIN barrier' = BarrierField /\ barrier'.pc = "ended" /\ barrier'.id = 0 /\ barrier'.target = 0
    /\ barrier'.window = FALSE /\ barrier'.quiet = TRUE

LEMMA BarrierMoves ==
    ASSUME BarrierTyped
    PROVE  /\ LinkLost => IF barrier.pc = "asked" THEN Stops ELSE barrier' = barrier
           /\ WriteStarts => IF Active THEN Goes(barrier.pc, barrier.window, barrier.target, barrier.answer, FALSE)
                             ELSE barrier' = barrier
           /\ FenceAnswers => IF barrier.pc = "fence" THEN GoesTo("mark") ELSE barrier' = barrier
           /\ BarrierStarts => /\ DOMAIN barrier' = BarrierField /\ barrier'.id = link.id /\ barrier'.want = disk
                               /\ barrier'.pc = "held" /\ barrier'.window = FALSE /\ barrier'.target = 0
                               /\ barrier'.quiet = Undisturbed /\ barrier.pc = "none"
           /\ PluginAnswers => IF barrier.pc = "asked"
                               THEN Goes("answered", barrier.window, barrier.target,
                                         IF landing = {} THEN "settled" ELSE "in flight", barrier.quiet)
                               ELSE barrier' = barrier
           /\ BarrierAges => /\ barrier.pc \in {"held", "flush"}
                             /\ Goes(barrier.pc, TRUE, barrier.target, barrier.answer, barrier.quiet)
           /\ BarrierCountsHeld => barrier.pc = "held" /\ GoesTo("flush")
           /\ BarrierReadsFlush => barrier.pc = "flush" /\ GoesTo(IF flushed /\ barrier.held = 0 THEN "fence" ELSE "held")
           /\ BarrierMarks => /\ barrier.pc = "mark"
                              /\ IF link.id # barrier.id THEN Stops
                                 ELSE Goes("queue", barrier.window, link.pushed, barrier.answer, barrier.quiet)
           /\ BarrierAsks => /\ barrier.pc = "queue"
                             /\ Stops \/ (link.id = barrier.id /\ link.settled >= barrier.target /\ GoesTo("ask"))
           /\ BarrierRequests => barrier.pc = "ask" /\ IF link.id = 0 THEN Stops ELSE GoesTo("asked")
           /\ BarrierEnds => Stops \/ (barrier.pc = "answered" /\ GoodAnswer /\ GoesTo("synced"))
           /\ BarrierTimesOut => Stops
<1>1. DOMAIN barrier = BarrierField /\ barrier.window \in BOOLEAN /\ barrier.quiet \in BOOLEAN
    BY DEF BarrierTyped
<1>2. barrier' = Ended => Stops
    BY DEF Ended, NoBarrier, Stops, BarrierField
<1>3. ASSUME NEW pc, barrier' = [barrier EXCEPT !.pc = pc] PROVE GoesTo(pc)
    BY <1>1, <1>3 DEF GoesTo, Goes, BarrierField
<1>4. LinkLost => IF barrier.pc = "asked" THEN Stops ELSE barrier' = barrier
    BY <1>2 DEF LinkLost
<1>5. ASSUME WriteStarts
      PROVE  IF Active THEN Goes(barrier.pc, barrier.window, barrier.target, barrier.answer, FALSE) ELSE barrier' = barrier
    <2>1. IF Active THEN barrier' = [barrier EXCEPT !.quiet = FALSE] ELSE barrier' = barrier
        BY <1>5 DEF WriteStarts, Disturbed, Active
    <2>2. barrier' = [barrier EXCEPT !.quiet = FALSE] => Goes(barrier.pc, barrier.window, barrier.target, barrier.answer, FALSE)
        BY <1>1 DEF Goes, BarrierField
    <2> QED
        BY <2>1, <2>2
<1>6. FenceAnswers => IF barrier.pc = "fence" THEN GoesTo("mark") ELSE barrier' = barrier
    BY <1>3 DEF FenceAnswers
<1>7. BarrierStarts => /\ DOMAIN barrier' = BarrierField /\ barrier'.id = link.id /\ barrier'.want = disk
                       /\ barrier'.pc = "held" /\ barrier'.window = FALSE /\ barrier'.target = 0
                       /\ barrier'.quiet = Undisturbed /\ barrier.pc = "none"
    <2>1. PICK quiet : quiet = Undisturbed
        OBVIOUS
    <2>2. BarrierStarts => /\ barrier' = [NoBarrier EXCEPT !.pc = "held", !.id = link.id, !.want = disk, !.quiet = quiet]
                           /\ barrier.pc = "none"
        BY <2>1 DEF BarrierStarts
    <2> QED
        BY <2>1, <2>2 DEF NoBarrier, BarrierField
<1>8. PluginAnswers => IF barrier.pc = "asked"
                       THEN Goes("answered", barrier.window, barrier.target,
                                 IF landing = {} THEN "settled" ELSE "in flight", barrier.quiet)
                       ELSE barrier' = barrier
    BY <1>1 DEF PluginAnswers, Goes, BarrierField
<1>9. BarrierAges => /\ barrier.pc \in {"held", "flush"}
                     /\ Goes(barrier.pc, TRUE, barrier.target, barrier.answer, barrier.quiet)
    BY <1>1 DEF BarrierAges, Goes, BarrierField
<1>10. BarrierCountsHeld => barrier.pc = "held" /\ GoesTo("flush")
    BY <1>1 DEF BarrierCountsHeld, GoesTo, Goes, BarrierField
<1>11. BarrierReadsFlush => barrier.pc = "flush" /\ GoesTo(IF flushed /\ barrier.held = 0 THEN "fence" ELSE "held")
    BY <1>3 DEF BarrierReadsFlush
<1>12. BarrierMarks => /\ barrier.pc = "mark"
                       /\ IF link.id # barrier.id THEN Stops
                          ELSE Goes("queue", barrier.window, link.pushed, barrier.answer, barrier.quiet)
    BY <1>1, <1>2 DEF BarrierMarks, Goes, BarrierField
<1>13. BarrierAsks => /\ barrier.pc = "queue"
                      /\ Stops \/ (link.id = barrier.id /\ link.settled >= barrier.target /\ GoesTo("ask"))
    BY <1>2, <1>3 DEF BarrierAsks
<1>14. BarrierRequests => barrier.pc = "ask" /\ IF link.id = 0 THEN Stops ELSE GoesTo("asked")
    BY <1>2, <1>3 DEF BarrierRequests
<1>15. BarrierEnds => Stops \/ (barrier.pc = "answered" /\ GoodAnswer /\ GoesTo("synced"))
    BY <1>2, <1>3 DEF BarrierEnds
<1>16. BarrierTimesOut => Stops
    BY <1>2 DEF BarrierTimesOut
<1> QED
    BY <1>4, <1>5, <1>6, <1>7, <1>8, <1>9, <1>10, <1>11, <1>12, <1>13, <1>14, <1>15, <1>16

LEMMA BarrierStepTyped ==
    ASSUME Base, [PipelineNext]_pipelineVars
    PROVE  BarrierTyped'
<1>1. /\ BarrierTyped /\ DOMAIN barrier = BarrierField
      /\ barrier.pc \in {"none", "held", "flush", "fence", "mark", "queue", "ask", "asked", "answered", "synced", "ended"}
      /\ barrier.pc \notin {"none", "ended"} => barrier.want \in [Path -> Nat]
      /\ barrier.id \in Nat /\ barrier.id <= link.last /\ barrier.target \in Nat
      /\ barrier.window \in BOOLEAN /\ barrier.quiet \in BOOLEAN
    BY DEF Base, BarrierTyped
<1>2. link.last <= link'.last /\ link.last \in Nat /\ link'.last \in Nat /\ barrier.id <= link'.last
    <2>1. link.last <= link'.last /\ link.last \in Nat /\ link'.last \in Nat
        BY LastGrows DEF Base, LinkInv
    <2> QED
        BY <1>1, <2>1
<1>3. CASE barrier' = barrier
    BY <1>1, <1>2, <1>3 DEF BarrierTyped
<1>4. CASE Stops
    <2>1. barrier'.window \in BOOLEAN /\ barrier'.quiet \in BOOLEAN
        BY <1>4, Zenon DEF Stops
    <2>2. barrier'.id = 0 /\ barrier'.target = 0 /\ barrier'.pc = "ended" /\ DOMAIN barrier' = BarrierField /\ 0 <= link'.last
        BY <1>2, <1>4 DEF Stops
    <2> QED
        BY <2>1, <2>2 DEF BarrierTyped
<1>5. ASSUME NEW pc \in {"held", "flush", "fence", "mark", "queue", "ask", "asked", "answered", "synced"},
             NEW window \in BOOLEAN, NEW target \in Nat, NEW answer, NEW quiet \in BOOLEAN,
             Goes(pc, window, target, answer, quiet), Active
      PROVE  BarrierTyped'
    BY <1>1, <1>2, <1>5 DEF BarrierTyped, Goes, Active
<1>6. ASSUME NEW pc \in {"held", "flush", "fence", "mark", "queue", "ask", "asked", "answered", "synced"}, GoesTo(pc), Active
      PROVE  BarrierTyped'
    BY <1>1, <1>5, <1>6 DEF GoesTo
<1>7. CASE WriteStarts
    BY <1>1, <1>3, <1>5, <1>7, BarrierMoves DEF Active
<1>8. CASE FenceAnswers
    BY <1>1, <1>3, <1>6, <1>8, BarrierMoves DEF Active
<1>9. CASE BarrierStarts
    <2>1. /\ DOMAIN barrier' = BarrierField /\ barrier'.id = link.id /\ barrier'.want = disk
          /\ barrier'.pc = "held" /\ barrier'.window = FALSE /\ barrier'.target = 0 /\ barrier'.quiet = Undisturbed
        BY <1>1, <1>9, BarrierMoves
    <2>2. link.id \in Nat /\ link.id <= link.last /\ link' = link /\ disk \in [Path -> Nat]
        BY <1>9 DEF BarrierStarts, Base, LinkInv, LinkTyped, ContentsTyped
    <2>3. barrier'.quiet \in BOOLEAN /\ barrier'.window \in BOOLEAN
        BY <2>1, Zenon DEF Undisturbed
    <2>4. barrier'.want \in [Path -> Nat] /\ barrier'.id \in Nat /\ barrier'.id <= link'.last /\ barrier'.target \in Nat
        BY <2>1, <2>2
    <2>5. DOMAIN barrier' = BarrierField /\ barrier'.pc = "held"
        BY <2>1
    <2> QED
        BY <2>3, <2>4, <2>5 DEF BarrierTyped
<1>10. CASE PluginAnswers
    BY <1>1, <1>3, <1>5, <1>10, BarrierMoves DEF Active
<1>11. CASE BarrierAges
    BY <1>1, <1>5, <1>11, BarrierMoves DEF Active
<1>12. CASE BarrierMarks
    <2>1. link.pushed \in Nat
        BY DEF Base, LinkInv, LinkTyped
    <2> QED
        BY <1>1, <1>4, <1>5, <1>12, <2>1, BarrierMoves DEF Active
<1>13. CASE BarrierCountsHeld \/ BarrierReadsFlush
    BY <1>1, <1>6, <1>13, BarrierMoves DEF Active
<1>14. CASE BarrierAsks \/ BarrierRequests
    BY <1>1, <1>4, <1>6, <1>14, BarrierMoves DEF Active
<1>15. CASE BarrierEnds \/ BarrierTimesOut \/ LinkLost
    BY <1>1, <1>3, <1>4, <1>6, <1>15, BarrierMoves DEF Active
<1> QED
    BY <1>3, <1>7, <1>8, <1>9, <1>10, <1>11, <1>12, <1>13, <1>14, <1>15, Frames DEF BarrierSteps, BarrierStep

LEMMA BaseStep ==
    ASSUME Base, [PipelineNext]_pipelineVars
    PROVE  Base'
BY ContentsStep, WatcherStepTyped, ProcessorStepTyped, LinkInvStep, BarrierStepTyped DEF Base

-----------------------------------------------------------------------------
(* Events on their way *)

LEMMA OwedBefore ==
    ASSUME exempt \subseteq exempt', NEW p \in Path, Owed(p)'
    PROVE  Owed(p)
BY DEF Owed

\* Events sent on arrive, and the ones that are dropped are echoes
LEMMA EventsArrive ==
    ASSUME WatcherTyped
    PROVE  /\ PassEmits /\ ~pass.writing => \A q \in pass.emits : \E i \in 1 .. Len(events') : events'[i] = q
           /\ ReleaseHeld => \A q \in held : q \in exempt' \/ \E i \in 1 .. Len(events') : events'[i] = q
<1>1. events \in Seq(Path) /\ pass.emits \subseteq Path /\ IsFiniteSet(pass.emits) /\ held \subseteq Path /\ IsFiniteSet(held)
    BY DEF WatcherTyped
<1>2. ASSUME NEW S \in SUBSET Path, IsFiniteSet(S), NEW batch \in SetToSeqs(S), events' = events \o batch, NEW q \in S
      PROVE  \E i \in 1 .. Len(events') : events'[i] = q
    <2>1. batch \in Seq(Path) /\ \E i \in 1 .. Len(batch) : batch[i] = q
        BY <1>2, Batch
    <2>2. \A i \in 1 .. Len(batch) : Len(events) + i \in 1 .. Len(events \o batch) /\ (events \o batch)[Len(events) + i] = batch[i]
        BY <1>1, <2>1, BatchJoins
    <2>3. PICK i \in 1 .. Len(batch) : batch[i] = q
        BY <2>1
    <2>4. Len(events) + i \in 1 .. Len(events') /\ events'[Len(events) + i] = q
        BY <1>2, <2>2, <2>3
    <2> QED
        BY <2>4
<1>3. ASSUME PassEmits, ~pass.writing, NEW q \in pass.emits PROVE \E i \in 1 .. Len(events') : events'[i] = q
    <2>1. PICK batch \in SetToSeqs(pass.emits) : events' = events \o batch
        BY <1>3 DEF PassEmits
    <2> QED
        BY <1>1, <1>2, <1>3, <2>1
<1>4. ASSUME ReleaseHeld, NEW q \in held PROVE q \in exempt' \/ \E i \in 1 .. Len(events') : events'[i] = q
    <2>1. PICK written : /\ \E batch \in SetToSeqs(Released(written)) : events' = events \o batch
                         /\ exempt' = exempt \cup (held \ Released(written))
        BY <1>4 DEF ReleaseHeld
    <2>2. Released(written) \in SUBSET Path /\ IsFiniteSet(Released(written))
        <3>1. Released(written) \subseteq held
            BY DEF Released
        <3> QED
            BY <1>1, <3>1, FS_Subset
    <2>3. CASE q \in Released(written)
        BY <1>2, <2>1, <2>2, <2>3
    <2>4. CASE q \notin Released(written)
        BY <1>4, <2>1, <2>4
    <2> QED
        BY <2>3, <2>4
<1> QED
    BY <1>3, <1>4

LEMMA EventsKept ==
    ASSUME WatcherTyped, PassEmits \/ ReleaseHeld, NEW p
    PROVE  InEvents(p) => InEvents(p)'
<1>1. /\ Len(events) <= Len(events') /\ \A i \in 1 .. Len(events) : events'[i] = events[i]
      /\ Len(events) \in Nat /\ Len(events') \in Nat
    BY EventsGrow DEF WatcherTyped
<1> QED
    BY <1>1 DEF InEvents

LEMMA EventTaken ==
    ASSUME NEW s \in Seq(Path), s # <<>>, NEW S, NEW n \in 0 .. Len(s)
    PROVE  (\E i \in 1 .. n : s[i] \in S) => Head(s) \in S \/ \E i \in 1 .. n - 1 : Tail(s)[i] \in S
<1>1. Head(s) = s[1] /\ Len(Tail(s)) = Len(s) - 1 /\ Len(s) \in Nat \ {0} /\ \A i \in 1 .. Len(s) - 1 : Tail(s)[i] = s[i + 1]
    OBVIOUS
<1> SUFFICES ASSUME NEW i \in 1 .. n, s[i] \in S, Head(s) \notin S PROVE \E j \in 1 .. n - 1 : Tail(s)[j] \in S
    OBVIOUS
<1>2. i # 1
    BY <1>1
<1>3. i - 1 \in 1 .. n - 1 /\ i - 1 \in 1 .. Len(s) - 1 /\ (i - 1) + 1 = i
    BY <1>1, <1>2
<1>4. Tail(s)[i - 1] = s[i]
    BY <1>1, <1>3
<1> QED
    BY <1>3, <1>4

\* The tree has what the event is about, or the event is still to come
LEMMA EventHandled ==
    ASSUME Base, ProcessEvent \/ FenceDrains, NEW p \in Path
    PROVE  /\ tree'[p] \in {tree[p], disk[p]}
           /\ events # <<>> /\ events' = Tail(events)
           /\ Head(events) \in Above[p] => tree'[p] = disk[p]
           /\ InEvents(p) => Head(events) \in Above[p] \/ InEvents(p)'
<1>1. events \in Seq(Path) /\ events # <<>> /\ events' = Tail(events)
    BY DEF ProcessEvent, FenceDrains, Base, ProcessorTyped, WatcherTyped
<1>2. tree'[p] = IF Head(events) \in Above[p] THEN disk[p] ELSE tree[p]
    <2>1. HandleEvent(Head(events)) /\ landing' = landing
        BY DEF ProcessEvent, FenceDrains
    <2> QED
        BY <2>1, HandleMoves DEF Base, LinkInv
<1>3. ASSUME InEvents(p) PROVE Head(events) \in Above[p] \/ InEvents(p)'
    <2>1. Len(events) \in 0 .. Len(events) /\ Len(events') = Len(events) - 1
        BY <1>1
    <2>2. \E i \in 1 .. Len(events) : events[i] \in Above[p]
        BY <1>3 DEF InEvents
    <2>3. Head(events) \in Above[p] \/ \E i \in 1 .. Len(events) - 1 : Tail(events)[i] \in Above[p]
        BY <1>1, <2>1, <2>2, EventTaken
    <2> QED
        BY <1>1, <2>1, <2>3 DEF InEvents
<1> QED
    BY <1>1, <1>2, <1>3

LEMMA EditsStep ==
    ASSUME Base, EditsInv, [PipelineNext]_pipelineVars
    PROVE  EditsInv'
<1> DEFINE Coming(p) == InRaw(p) \/ InPass(p) \/ held \cap Above[p] # {} \/ InEvents(p)
<1>1. WatcherTyped /\ ContentsTyped /\ exempt \subseteq exempt'
    BY Frames DEF Base
<1>2. SUFFICES ASSUME NEW p \in Path, Owed(p), Owed(p)', disk'[p] # tree'[p] PROVE Coming(p)'
    BY <1>1, OwedBefore DEF EditsInv
<1>3. disk[p] # tree[p] => Coming(p)
    BY <1>2 DEF EditsInv
<1>4. p \in Above[p] /\ p \notin exempt /\ p \notin exempt' /\ Above[p] \cap exempt' = {}
    BY <1>2, PipelineAssumption DEF Owed
<1>5. ASSUME UNCHANGED <<disk, tree>>, UNCHANGED <<raw, pass, flushed, held, events>> PROVE Coming(p)'
    BY <1>2, <1>3, <1>5 DEF InRaw, InPass, InEvents
<1>6. ASSUME NEW q \in Path, raw' = Raised(q), UNCHANGED <<pass, held, events>>,
             q = p \/ disk[p] # tree[p]
      PROVE  Coming(p)'
    <2>1. PICK e : e = [path |-> q, old |-> FALSE]
        OBVIOUS
    <2>2. raw' = raw \cup {e} /\ e.path = q
        BY <1>6, <2>1 DEF Raised
    <2>3. CASE q = p
        BY <1>4, <2>2, <2>3 DEF InRaw
    <2>4. CASE q # p
        BY <1>2, <1>3, <1>6, <2>2, <2>4 DEF InRaw, InPass, InEvents
    <2> QED
        BY <2>3, <2>4
<1>7. ASSUME NEW q \in Path, EditFile(q) PROVE Coming(p)'
    <2>1. raw' = Raised(q) /\ disk' = [disk EXCEPT ![q] = spent.fresh] /\ UNCHANGED <<tree, pass, held, events>>
        BY <1>7 DEF EditFile
    <2>2. q = p \/ disk[p] # tree[p]
        BY <1>1, <1>2, <2>1 DEF ContentsTyped
    <2> QED
        BY <1>6, <2>1, <2>2
<1>8. CASE WriteFile
    <2>1. PICK q \in Path \cap exempt : \E c \in Nat \ {0} :
              disk' = [disk EXCEPT ![q] = c] /\ tree' = [tree EXCEPT ![q] = c] /\ raw' = Raised(q)
        BY <1>8, WriteExempt DEF Base
    <2>2. q # p
        BY <1>4, <2>1
    <2>3. disk'[p] = disk[p] /\ tree'[p] = tree[p]
        BY <1>1, <2>1, <2>2 DEF ContentsTyped
    <2>4. UNCHANGED <<pass, held, events>>
        BY <1>8 DEF WriteFile
    <2> QED
        BY <1>2, <1>6, <2>1, <2>3, <2>4
<1>9. ASSUME UNCHANGED <<disk, tree>> PROVE Coming(p)
    BY <1>2, <1>3, <1>9
<1>10. CASE PassStart
    <2>1. PICK aged \in SUBSET raw :
              /\ raw' = raw \ aged
              /\ pass' = [pc |-> "read", late |-> barrier.window, writing |-> FALSE, emits |-> {e.path : e \in aged}]
        BY <1>10 DEF PassStart
    <2>2. UNCHANGED <<disk, tree, held, events>> /\ pass.pc = "idle"
        BY <1>10 DEF PassStart, Contents
    <2>3. pass'.pc = "read" /\ pass'.emits = {e.path : e \in aged}
        BY <2>1
    <2>4. Coming(p) /\ ~InPass(p)
        BY <1>9, <2>2 DEF InPass
    <2>5. CASE InRaw(p)
        <3>1. PICK e \in raw : e.path \in Above[p]
            BY <2>5 DEF InRaw
        <3>2. CASE e \in aged
            <4>1. e.path \in pass'.emits
                BY <2>3, <3>2
            <4> QED
                BY <2>3, <3>1, <4>1 DEF InPass
        <3>3. CASE e \notin aged
            BY <2>1, <3>1, <3>3 DEF InRaw
        <3> QED
            BY <3>2, <3>3
    <2>6. CASE held \cap Above[p] # {} \/ InEvents(p)
        BY <2>2, <2>6 DEF InEvents
    <2> QED
        BY <2>4, <2>5, <2>6
<1>11. CASE PassReads
    <2>1. /\ pass' = [pass EXCEPT !.pc = "emit", !.writing = pauseState.paused \/ pauseState.recent] /\ pass.pc = "read"
          /\ UNCHANGED <<disk, tree, raw, held, events>>
        BY <1>11 DEF PassReads, Contents
    <2>2. pass = [pc |-> pass.pc, late |-> pass.late, writing |-> pass.writing, emits |-> pass.emits]
        BY <1>1 DEF WatcherTyped
    <2>3. pass'.pc = "emit" /\ pass'.emits = pass.emits /\ pass.pc = "read"
        BY <2>1, <2>2
    <2>4. UNCHANGED <<disk, tree, raw, held, events>>
        BY <2>1
    <2> QED
        BY <1>9, <2>3, <2>4 DEF InRaw, InPass, InEvents
<1>12. CASE PassEmits
    <2>1. UNCHANGED <<disk, tree, raw>>
        BY <1>12 DEF PassEmits, Contents
    <2>2. Coming(p) /\ (InRaw(p) => InRaw(p)') /\ (InEvents(p) => InEvents(p)')
        BY <1>1, <1>9, <1>12, <2>1, EventsKept DEF InRaw
    <2>3. CASE pass.writing
        <3>1. held' = held \cup pass.emits
            BY <1>12, <2>3 DEF PassEmits
        <3> QED
            BY <2>2, <3>1 DEF InPass
    <2>4. CASE ~pass.writing
        <3>1. held' = held /\ \A q \in pass.emits : \E i \in 1 .. Len(events') : events'[i] = q
            BY <1>1, <1>12, <2>4, EventsArrive DEF PassEmits
        <3>2. InPass(p) => InEvents(p)'
            BY <3>1 DEF InPass, InEvents
        <3> QED
            BY <2>2, <3>1, <3>2
    <2> QED
        BY <2>3, <2>4
<1>13. CASE PassEnds
    <2>1. UNCHANGED <<disk, tree, raw, held, events>> /\ pass.pc = "end"
        BY <1>13 DEF PassEnds, Contents
    <2> QED
        BY <1>9, <2>1 DEF InRaw, InPass, InEvents
<1>14. CASE ReleaseHeld
    <2>1. UNCHANGED <<disk, tree, raw, pass>>
        BY <1>14 DEF ReleaseHeld, Contents
    <2>2. /\ Coming(p) /\ (InRaw(p) => InRaw(p)') /\ (InEvents(p) => InEvents(p)') /\ (InPass(p) => InPass(p)')
          /\ \A q \in held : q \in exempt' \/ \E i \in 1 .. Len(events') : events'[i] = q
        BY <1>1, <1>9, <1>14, <2>1, EventsKept, EventsArrive DEF InRaw, InPass
    <2>3. held \cap Above[p] # {} => InEvents(p)'
        BY <1>4, <2>2 DEF InEvents
    <2> QED
        BY <2>2, <2>3
<1>15. CASE ProcessEvent \/ FenceDrains
    <2>1. UNCHANGED <<disk, raw, pass, held>>
        BY <1>15 DEF ProcessEvent, FenceDrains, Watcher
    <2>2. /\ tree'[p] \in {tree[p], disk[p]} /\ (Head(events) \in Above[p] => tree'[p] = disk[p])
          /\ (InEvents(p) => Head(events) \in Above[p] \/ InEvents(p)')
        BY <1>15, EventHandled
    <2>3. disk[p] # tree[p] /\ Head(events) \notin Above[p]
        BY <1>2, <2>1, <2>2
    <2>4. (InRaw(p) => InRaw(p)') /\ (InPass(p) => InPass(p)')
        BY <2>1 DEF InRaw, InPass
    <2> QED
        BY <1>3, <2>1, <2>2, <2>3, <2>4
<1>16. CASE BarrierStarts
    <2>1. raw' = {[e EXCEPT !.old = TRUE] : e \in raw} /\ UNCHANGED <<disk, tree, pass, held, events>>
        BY <1>16 DEF BarrierStarts, Contents
    <2>2. InRaw(p) => InRaw(p)'
        <3> SUFFICES ASSUME NEW e \in raw, e.path \in Above[p] PROVE InRaw(p)'
            BY DEF InRaw
        <3>1. e \in [path : Path, old : BOOLEAN]
            BY <1>1 DEF WatcherTyped
        <3>2. [e EXCEPT !.old = TRUE].path = e.path /\ [e EXCEPT !.old = TRUE] \in raw'
            BY <2>1, <3>1
        <3> QED
            BY <3>2 DEF InRaw
    <2>3. UNCHANGED <<disk, tree, pass, held, events>>
        BY <2>1
    <2> QED
        BY <1>9, <2>2, <2>3 DEF InPass, InEvents
<1>17. CASE UNCHANGED <<raw, pass, flushed, held, events>>
    <2>1. UNCHANGED <<disk, tree>> \/ EditFile(p) \/ ProcessEvent \/ FenceDrains \/ WriteFile \/ \E q \in Path : EditFile(q)
        BY Frames DEF ContentsSteps, StudioPushes, LinkLost, SourceLands, WriteEnds, Contents
    <2> QED
        BY <1>5, <1>7, <1>8, <1>15, <1>17, <2>1
<1> QED
    BY <1>7, <1>8, <1>10, <1>11, <1>12, <1>13, <1>14, <1>15, <1>16, <1>17, Frames DEF WatcherSteps

-----------------------------------------------------------------------------
(* The barrier goes on *)

LEMMA ActiveBefore ==
    ASSUME BarrierTyped, [PipelineNext]_pipelineVars, Active'
    PROVE  \/ BarrierStarts
           \/ /\ Active /\ barrier'.id = barrier.id /\ barrier'.want = barrier.want
              /\ barrier'.quiet => barrier.quiet /\ ~WriteStarts
<1>1. CASE barrier' = barrier /\ ~WriteStarts
    BY <1>1 DEF Active
<1>2. ~Stops
    BY DEF Stops, Active
<1>3. CASE WriteStarts
    <2>1. CASE Active
        BY <1>3, <2>1, BarrierMoves DEF Goes
    <2>2. CASE ~Active
        <3>1. barrier' = barrier
            BY <1>3, <2>2, BarrierMoves
        <3> QED
            BY <2>2, <3>1 DEF Active
    <2> QED
        BY <2>1, <2>2
<1>4. barrier.pc \in {"held", "flush", "fence", "mark", "queue", "ask", "asked", "answered"} => Active
    BY DEF Active
<1>5. CASE ~WriteStarts /\ (FenceAnswers \/ PluginAnswers \/ BarrierAges \/ BarrierCountsHeld \/ BarrierReadsFlush)
    BY <1>1, <1>4, <1>5, BarrierMoves DEF GoesTo, Goes
<1>6. CASE ~WriteStarts /\ (LinkLost \/ BarrierMarks \/ BarrierAsks \/ BarrierRequests \/ BarrierEnds \/ BarrierTimesOut)
    BY <1>1, <1>2, <1>4, <1>6, BarrierMoves DEF GoesTo, Goes
<1> QED
    BY <1>1, <1>3, <1>5, <1>6, Frames DEF BarrierSteps, BarrierStep

LEMMA QuietStep ==
    ASSUME Base, QuietInv, [PipelineNext]_pipelineVars
    PROVE  QuietInv'
<1>1. /\ WatcherTyped /\ ProcessorTyped /\ BarrierTyped
      /\ pass = [pc |-> pass.pc, late |-> pass.late, writing |-> pass.writing, emits |-> pass.emits]
      /\ pass.pc = "idle" => ~pass.writing
    BY DEF Base, WatcherTyped, QuietInv
<1>2. pass'.pc = "idle" => ~pass'.writing
    <2>1. CASE pass' = pass
        BY <1>1, <2>1
    <2>2. CASE PassStart \/ PassReads \/ PassEmits
        <3>1. CASE PassStart
            BY <3>1 DEF PassStart
        <3>2. CASE PassReads
            BY <1>1, <3>2 DEF PassReads
        <3>3. CASE PassEmits
            BY <1>1, <3>3 DEF PassEmits
        <3> QED
            BY <2>2, <3>1, <3>2, <3>3
    <2>3. CASE PassEnds
        BY <2>3 DEF PassEnds, NoPass
    <2> QED
        BY <2>1, <2>2, <2>3, Frames DEF WatcherSteps, EditFile, ReleaseHeld, ProcessEvent, WriteFile, FenceDrains, BarrierStarts, Watcher
<1>3. ASSUME Active', barrier'.quiet PROVE ~pauseState'.paused /\ ~pauseState'.recent /\ held' = {} /\ ~pass'.writing
    <2>1. CASE BarrierStarts
        <3>1. Undisturbed
            BY <1>1, <1>3, <2>1, BarrierMoves
        <3>2. UNCHANGED <<pauseState, held, pass>>
            BY <2>1 DEF BarrierStarts
        <3> QED
            BY <1>1, <3>1, <3>2 DEF Undisturbed
    <2>2. CASE Active /\ barrier.quiet /\ ~WriteStarts
        <3>1. ~pauseState.paused /\ ~pauseState.recent /\ held = {} /\ ~pass.writing
            BY <2>2 DEF QuietInv
        <3>2. UNCHANGED pauseState
            <4>1. ~WriteEnds /\ ~WindowCloses
                BY <1>1, <3>1 DEF WriteEnds, WindowCloses, ProcessorTyped
            <4> QED
                BY <2>2, <4>1, Frames DEF ProcessorSteps, StudioPushes, PassEmits, ReleaseHeld, ProcessEvent, WriteFile,
                    FenceReached, FenceDrains, FenceAnswers, Watcher
        <3>3. held' = {}
            <4>1. held' = held \/ PassEmits \/ ReleaseHeld
                BY Frames DEF WatcherSteps, EditFile, PassStart, PassReads, PassEnds, ProcessEvent, WriteFile, FenceDrains, BarrierStarts, Watcher
            <4> QED
                BY <3>1, <4>1 DEF PassEmits, ReleaseHeld
        <3>4. ~pass'.writing
            <4>1. pass' = pass \/ PassStart \/ PassReads \/ PassEmits \/ PassEnds
                BY Frames DEF WatcherSteps, EditFile, ReleaseHeld, ProcessEvent, WriteFile, FenceDrains, BarrierStarts, Watcher
            <4>2. CASE PassStart
                BY <4>2 DEF PassStart
            <4>3. CASE PassReads
                BY <1>1, <3>1, <4>3 DEF PassReads
            <4>4. CASE PassEmits
                BY <1>1, <3>1, <4>4 DEF PassEmits
            <4>5. CASE PassEnds
                BY <4>5 DEF PassEnds, NoPass
            <4> QED
                BY <3>1, <4>1, <4>2, <4>3, <4>4, <4>5
        <3> QED
            BY <3>1, <3>2, <3>3, <3>4
    <2> QED
        BY <1>1, <1>3, <2>1, <2>2, ActiveBefore
<1> QED
    BY <1>2, <1>3 DEF QuietInv

\* An id is the link's own for as long as it is up, and what it has lost stays
LEMMA LinkIdStep ==
    ASSUME ContentsTyped, LinkTyped, [PipelineNext]_pipelineVars
    PROVE  \/ link'.id = link.id /\ link'.lost = link.lost
           \/ link'.id = 0
           \/ link'.id = link.last + 1 /\ link.last \in Nat
<1>1. CASE link' = link
    BY <1>1
<1>2. CASE LinkLost
    <2>1. link' = [NoLink EXCEPT !.last = link.id, !.lost = {p \in Path : tree[p] # studio[p]}]
        BY <1>2 DEF LinkLost
    <2> QED
        BY <2>1 DEF NoLink
<1>3. CASE LinkUp
    <2>1. link' = [NoLink EXCEPT !.id = link.last + 1, !.last = link.last + 1, !.lost = link.lost]
        BY <1>3 DEF LinkUp
    <2> QED
        BY <2>1 DEF NoLink, LinkTyped
<1>4. CASE ProcessEvent \/ FenceDrains
    <2>1. PICK e : HandleEvent(e) /\ landing' = landing
        BY <1>4 DEF ProcessEvent, FenceDrains
    <2>2. link'.id = link.id /\ (link.id # 0 => link'.lost = link.lost)
        BY <2>1, HandleMoves
    <2> QED
        BY <2>2
<1>5. DOMAIN link = LinkField
    BY DEF LinkTyped
<1>6. CASE BridgeWaits
    BY <1>5, <1>6 DEF BridgeWaits, LinkField
<1>7. CASE BridgeTakes
    BY <1>7, TakesMoves
<1>8. CASE BridgeSends
    BY <1>8, SendsMoves
<1>9. CASE PluginApplies
    BY <1>9, AppliesMoves
<1>10. CASE PluginAnswers
    BY <1>10, AnswersMoves DEF SocketOnly
<1>11. CASE SourceLands
    BY <1>1, <1>11 DEF SourceLands
<1>12. CASE BarrierRequests
    <2>1. CASE link.id = 0
        BY <1>1, <1>12, <2>1 DEF BarrierRequests
    <2>2. CASE link.id # 0
        BY <1>12, <2>2, RequestsMoves DEF SocketOnly
    <2> QED
        BY <2>1, <2>2
<1> QED
    BY <1>1, <1>2, <1>3, <1>4, <1>6, <1>7, <1>8, <1>9, <1>10, <1>11, <1>12, Frames DEF LinkSteps, LinkStep

LEMMA LinkOfBarrierStep ==
    ASSUME Base, LinkOfBarrier, [PipelineNext]_pipelineVars
    PROVE  LinkOfBarrier'
<1>1. BarrierTyped /\ LinkTyped /\ ContentsTyped /\ exempt \subseteq exempt'
    BY Frames DEF Base, LinkInv
<1>2. SUFFICES ASSUME Active' PROVE barrier'.id # 0 /\ (link'.id = barrier'.id => link'.lost \subseteq exempt')
    BY DEF LinkOfBarrier
<1>3. CASE BarrierStarts
    <2>1. barrier'.id = link.id
        BY <1>1, <1>3, BarrierMoves
    <2>2. link.id # 0 /\ link' = link /\ exempt' = exempt \cup link.lost
        BY <1>3 DEF BarrierStarts
    <2> QED
        BY <2>1, <2>2
<1>4. CASE Active /\ barrier'.id = barrier.id
    <2>1. barrier.id # 0 /\ (link.id = barrier.id => link.lost \subseteq exempt)
        BY <1>4 DEF LinkOfBarrier
    <2>2. barrier.id \in Nat /\ barrier.id <= link.last
        BY <1>1 DEF BarrierTyped
    <2>3. link'.id = barrier.id => link'.id = link.id /\ link'.lost = link.lost
        BY <1>1, <2>1, <2>2, LinkIdStep
    <2> QED
        BY <1>1, <1>4, <2>1, <2>3
<1> QED
    BY <1>1, <1>2, <1>3, <1>4, ActiveBefore

LEMMA NotYetStep ==
    ASSUME Base, NotYet, [PipelineNext]_pipelineVars
    PROVE  NotYet'
<1>1. BarrierTyped /\ WatcherTyped
    BY DEF Base
<1>2. SUFFICES ASSUME barrier'.pc = "none" PROVE ~flushed' /\ ~pass'.late /\ ~barrier'.window
    BY DEF NotYet
<1>3. barrier' = barrier /\ ~BarrierStarts
    <2>1. ~Stops
        BY <1>2 DEF Stops
    <2>2. ASSUME NEW pc, NEW window, NEW target, NEW answer, NEW quiet, Goes(pc, window, target, answer, quiet)
          PROVE  pc = "none"
        BY <1>2, <2>2 DEF Goes
    <2>3. ASSUME NEW pc, GoesTo(pc) PROVE pc = "none"
        BY <2>2, <2>3 DEF GoesTo
    <2>4. ~BarrierStarts
        BY <1>1, <1>2, BarrierMoves
    <2>5. CASE LinkLost \/ PluginAnswers \/ BarrierTimesOut
        BY <1>1, <2>1, <2>2, <2>4, <2>5, BarrierMoves
    <2>6. CASE WriteStarts
        BY <1>1, <2>2, <2>4, <2>6, BarrierMoves DEF Active
    <2>7. CASE FenceAnswers \/ BarrierCountsHeld \/ BarrierReadsFlush \/ BarrierAsks \/ BarrierRequests \/ BarrierEnds
        BY <1>1, <2>1, <2>3, <2>4, <2>7, BarrierMoves
    <2>8. CASE BarrierAges
        BY <1>1, <2>2, <2>4, <2>8, BarrierMoves
    <2>9. CASE BarrierMarks
        BY <1>1, <2>1, <2>2, <2>4, <2>9, BarrierMoves
    <2> QED
        BY <2>4, <2>5, <2>6, <2>7, <2>8, <2>9, Frames DEF BarrierSteps, BarrierStep
<1>4. ~flushed /\ ~pass.late /\ ~barrier.window
    BY <1>2, <1>3 DEF NotYet
<1>5. pass = [pc |-> pass.pc, late |-> pass.late, writing |-> pass.writing, emits |-> pass.emits]
    BY <1>1 DEF WatcherTyped
<1>6. flushed' = flushed \/ PassEnds
    BY Frames DEF WatcherSteps, EditFile, PassStart, PassReads, PassEmits, ReleaseHeld, ProcessEvent, WriteFile, FenceDrains, BarrierStarts, Watcher
<1>7. ~flushed'
    BY <1>4, <1>6 DEF PassEnds
<1>8. pass' = pass \/ PassStart \/ PassReads \/ PassEmits \/ PassEnds
    BY Frames DEF WatcherSteps, EditFile, ReleaseHeld, ProcessEvent, WriteFile, FenceDrains, BarrierStarts, Watcher
<1>9. ~pass'.late
    <2>1. CASE PassStart
        BY <1>4, <2>1 DEF PassStart
    <2>2. CASE PassReads
        BY <1>4, <1>5, <2>2 DEF PassReads
    <2>3. CASE PassEmits
        BY <1>4, <1>5, <2>3 DEF PassEmits
    <2>4. CASE PassEnds
        BY <2>4 DEF PassEnds, NoPass
    <2> QED
        BY <1>4, <1>8, <2>1, <2>2, <2>3, <2>4
<1> QED
    BY <1>3, <1>4, <1>7, <1>9

\* The stages of a barrier, in order
LEMMA PcMoves ==
    ASSUME BarrierTyped, [PipelineNext]_pipelineVars
    PROVE  \/ barrier'.pc = "ended"
           \/ barrier'.pc = barrier.pc /\ barrier'.target = barrier.target /\ barrier'.answer = barrier.answer
           \/ BarrierStarts /\ barrier.pc = "none" /\ barrier'.pc = "held"
           \/ BarrierCountsHeld /\ barrier.pc = "held" /\ barrier'.pc = "flush"
           \/ BarrierReadsFlush /\ barrier.pc = "flush" /\ (barrier'.pc = "held" \/ (barrier'.pc = "fence" /\ flushed))
           \/ FenceAnswers /\ barrier.pc = "fence" /\ barrier'.pc = "mark"
           \/ BarrierMarks /\ barrier.pc = "mark" /\ barrier'.pc = "queue" /\ link.id = barrier.id /\ barrier'.target = link.pushed
           \/ BarrierAsks /\ barrier.pc = "queue" /\ barrier'.pc = "ask" /\ link.id = barrier.id /\ link.settled >= barrier.target
           \/ BarrierRequests /\ barrier.pc = "ask" /\ barrier'.pc = "asked" /\ link.id # 0
           \/ PluginAnswers /\ barrier.pc = "asked" /\ barrier'.pc = "answered" /\ (barrier'.answer = "settled" => landing = {})
           \/ BarrierEnds /\ barrier.pc = "answered" /\ barrier'.pc = "synced" /\ GoodAnswer
<1>1. Stops => barrier'.pc = "ended"
    BY DEF Stops
<1>2. CASE barrier' = barrier
    BY <1>2
<1>3. CASE LinkLost \/ BarrierTimesOut
    BY <1>1, <1>2, <1>3, BarrierMoves
<1>4. CASE WriteStarts
    BY <1>2, <1>4, BarrierMoves DEF Goes
<1>5. CASE FenceAnswers
    BY <1>2, <1>5, BarrierMoves DEF GoesTo, Goes
<1>6. CASE BarrierStarts
    BY <1>6, BarrierMoves
<1>7. CASE PluginAnswers
    BY <1>2, <1>7, BarrierMoves DEF Goes
<1>8. CASE BarrierAges
    BY <1>8, BarrierMoves DEF Goes
<1>9. CASE BarrierCountsHeld \/ BarrierReadsFlush
    BY <1>9, BarrierMoves DEF GoesTo, Goes
<1>10. CASE BarrierMarks
    BY <1>1, <1>10, BarrierMoves DEF Goes
<1>11. CASE BarrierAsks \/ BarrierRequests \/ BarrierEnds
    BY <1>1, <1>11, BarrierMoves DEF GoesTo, Goes
<1> QED
    BY <1>2, <1>3, <1>4, <1>5, <1>6, <1>7, <1>8, <1>9, <1>10, <1>11, Frames DEF BarrierSteps, BarrierStep

LEMMA StageStep ==
    ASSUME Base, StageInv, [PipelineNext]_pipelineVars
    PROVE  StageInv'
<1>1. BarrierTyped /\ LinkTyped /\ ContentsTyped /\ ProcessorTyped
    BY DEF Base, LinkInv
<1>2. ASSUME processor'.pc = "drain" PROVE barrier'.pc \in {"fence", "ended"}
    <2>1. FenceReached \/ (processor.pc = "drain" /\ ~FenceAnswers /\ ~WriteStarts)
        <3>1. CASE processor' = processor
            <4>1. ~FenceAnswers /\ ~WriteStarts
                BY <1>2, <3>1 DEF FenceAnswers, WriteStarts, Idle
            <4> QED
                BY <1>2, <3>1, <4>1
        <3>2. CASE WriteStarts \/ WriteFile
            <4>1. processor = [pc |-> processor.pc, left |-> processor.left]
                BY <1>1 DEF ProcessorTyped
            <4>2. processor'.pc # "drain"
                BY <3>2, <4>1 DEF WriteStarts, WriteFile
            <4> QED
                BY <1>2, <4>2
        <3>3. CASE WriteEnds \/ FenceAnswers
            BY <1>2, <3>3 DEF WriteEnds, FenceAnswers, Idle
        <3>4. CASE FenceDrains
            BY <1>2, <3>4 DEF FenceDrains, FenceAnswers, WriteStarts
        <3> QED
            BY <3>1, <3>2, <3>3, <3>4, Frames DEF ProcessorSteps, StudioPushes, PassEmits, ReleaseHeld, WindowCloses, ProcessEvent
    <2>2. CASE FenceReached
        BY <2>2 DEF FenceReached
    <2>3. CASE processor.pc = "drain" /\ ~FenceAnswers
        <3>1. barrier.pc \in {"fence", "ended"}
            BY <2>3 DEF StageInv
        <3> QED
            BY <1>1, <2>3, <3>1, PcMoves
    <2> QED
        BY <2>1, <2>2, <2>3
<1>3. ASSUME barrier'.pc \notin {"asked", "answered", "synced", "ended"}, NEW i \in 1 .. Len(link'.socket)
      PROVE  link'.socket[i].type = "sync"
    <2>1. /\ link.socket \in Seq(Frame) /\ Len(link.socket) \in Nat
          /\ \A j \in 1 .. Len(link.socket) : link.socket[j].type = "sync"
        <3>1. barrier.pc \notin {"asked", "answered", "synced", "ended"}
            BY <1>1, <1>3, PcMoves
        <3> QED
            BY <1>1, <3>1 DEF StageInv, LinkTyped
    <2>2. CASE link'.socket = link.socket
        BY <1>3, <2>1, <2>2
    <2>3. CASE LinkLost
        <3>1. link' = [NoLink EXCEPT !.last = link.id, !.lost = {p \in Path : tree[p] # studio[p]}]
            BY <2>3 DEF LinkLost
        <3>2. link'.socket = <<>>
            BY <3>1 DEF NoLink
        <3> QED
            BY <1>3, <3>2
    <2>4. CASE LinkUp
        <3>1. link' = [NoLink EXCEPT !.id = link.last + 1, !.last = link.last + 1, !.lost = link.lost]
            BY <2>4 DEF LinkUp
        <3>2. link'.socket = <<>>
            BY <3>1 DEF NoLink
        <3> QED
            BY <1>3, <3>2
    <2>5. CASE ProcessEvent \/ FenceDrains
        <3>1. PICK e : HandleEvent(e) /\ landing' = landing
            BY <2>5 DEF ProcessEvent, FenceDrains
        <3>2. link'.socket = link.socket
            BY <1>1, <3>1, HandleMoves
        <3> QED
            BY <2>2, <3>2
    <2>6. CASE BridgeSends
        <3>1. PICK frame \in Frame : link'.socket = Append(link.socket, frame) /\ frame.type = "sync"
            BY <1>1, <2>6, SendsMoves
        <3>2. i \in 1 .. Len(link.socket) + 1
            BY <1>3, <2>1, <3>1
        <3>3. CASE i \in 1 .. Len(link.socket)
            BY <2>1, <3>1, <3>3
        <3>4. CASE i = Len(link.socket) + 1
            BY <2>1, <3>1, <3>4
        <3> QED
            BY <2>1, <3>2, <3>3, <3>4
    <2>7. CASE link'.socket = Tail(link.socket) /\ link.socket # <<>>
        <3>1. Len(Tail(link.socket)) = Len(link.socket) - 1 /\ \A j \in 1 .. Len(link.socket) - 1 : Tail(link.socket)[j] = link.socket[j + 1]
            BY <2>1, <2>7, SocketShrinks
        <3>2. i \in 1 .. Len(link.socket) - 1 /\ i + 1 \in 1 .. Len(link.socket)
            BY <1>3, <2>1, <2>7, <3>1
        <3> QED
            BY <2>1, <2>7, <3>1, <3>2
    <2>8. CASE PluginApplies
        BY <1>1, <2>7, <2>8, AppliesMoves
    <2>9. CASE PluginAnswers
        BY <1>1, <2>7, <2>9, AnswersMoves DEF SocketOnly
    <2>10. CASE BridgeWaits \/ BridgeTakes \/ SourceLands
        <3>1. DOMAIN link = LinkField
            BY <1>1 DEF LinkTyped
        <3>2. link'.socket = link.socket
            BY <1>1, <2>10, <3>1, TakesMoves DEF BridgeWaits, SourceLands, LinkField
        <3> QED
            BY <2>2, <3>2
    <2>11. CASE BarrierRequests
        <3>1. link.id = 0
            BY <1>1, <1>3, <2>11, BarrierMoves DEF GoesTo, Goes
        <3> QED
            BY <2>2, <2>11, <3>1 DEF BarrierRequests
    <2> QED
        BY <2>2, <2>3, <2>4, <2>5, <2>6, <2>8, <2>9, <2>10, <2>11, Frames DEF LinkSteps, LinkStep
<1> QED
    BY <1>2, <1>3 DEF StageInv

-----------------------------------------------------------------------------
(* What the barrier was asked for, stage by stage *)

\* Contents that are owed only grow
LEMMA Monotone ==
    ASSUME Base, [PipelineNext]_pipelineVars, NEW p \in Path, p \notin exempt'
    PROVE  /\ disk[p] <= disk'[p] /\ tree[p] <= tree'[p] /\ studio[p] <= studio'[p]
           /\ disk[p] \in Nat /\ tree[p] \in Nat /\ studio[p] \in Nat /\ disk'[p] \in Nat /\ tree'[p] \in Nat /\ studio'[p] \in Nat
<1>1. ContentsTyped /\ ContentsTyped' /\ LinkTyped /\ exempt \subseteq exempt'
    BY BaseStep, Frames DEF Base, LinkInv
<1>2. /\ disk[p] \in Nat /\ tree[p] \in Nat /\ studio[p] \in Nat /\ disk'[p] \in Nat /\ tree'[p] \in Nat /\ studio'[p] \in Nat
      /\ disk \in [Path -> Nat \ {0}] /\ tree \in [Path -> Nat \ {0}] /\ studio \in [Path -> Nat \ {0}]
    BY <1>1 DEF ContentsTyped
<1>3. InOrder(p) /\ tree[p] <= disk[p] /\ disk[p] <= spent.fresh /\ spent.fresh \in Nat
    BY <1>1 DEF Base, LinkInv, StreamInv, InOrder, ContentsTyped
<1>4. CASE UNCHANGED <<disk, tree, studio>>
    BY <1>2, <1>4
<1>5. ASSUME NEW q \in Path, EditFile(q) PROVE disk[p] <= disk'[p] /\ tree[p] <= tree'[p] /\ studio[p] <= studio'[p]
    <2>1. disk' = [disk EXCEPT ![q] = spent.fresh] /\ UNCHANGED <<tree, studio>>
        BY <1>5 DEF EditFile
    <2> QED
        BY <1>2, <1>3, <2>1
<1>6. ASSUME NEW q \in Path, StudioPushes(q) PROVE disk[p] <= disk'[p] /\ tree[p] <= tree'[p] /\ studio[p] <= studio'[p]
    <2>1. studio' = [studio EXCEPT ![q] = spent.fresh] /\ UNCHANGED <<tree, disk>> /\ q \in exempt'
        BY <1>6 DEF StudioPushes
    <2> QED
        BY <1>2, <2>1
<1>7. CASE SourceLands
    <2>1. PICK q \in Path, w \in Nat \ {0} :
              /\ w \in Landing(q) /\ studio'[q] = w /\ \A x \in Path : x # q => studio'[x] = studio[x]
        BY <1>1, <1>7, LandsMoves
    <2>2. UNCHANGED <<disk, tree>>
        BY <1>7 DEF SourceLands
    <2>3. w \in Landing(p) => studio[p] <= w
        BY <1>3 DEF InOrder, Chain
    <2>4. studio[p] <= studio'[p]
        <3>1. CASE p = q
            BY <2>1, <2>3, <3>1
        <3>2. CASE p # q
            BY <1>2, <2>1, <3>2
        <3> QED
            BY <3>1, <3>2
    <2> QED
        BY <1>2, <2>2, <2>4
<1>8. CASE ProcessEvent \/ FenceDrains
    <2>1. tree'[p] \in {tree[p], disk[p]}
        BY <1>8, EventHandled
    <2>2. UNCHANGED <<disk, studio>>
        BY <1>8 DEF ProcessEvent, FenceDrains
    <2> QED
        BY <1>2, <1>3, <2>1, <2>2
<1>9. CASE WriteFile
    <2>1. PICK q \in Path \cap exempt, c \in Nat \ {0} :
              disk' = [disk EXCEPT ![q] = c] /\ tree' = [tree EXCEPT ![q] = c] /\ UNCHANGED studio
        BY <1>9, WriteExempt DEF Base
    <2>2. q # p
        BY <1>1, <2>1
    <2> QED
        BY <1>2, <2>1, <2>2
<1>10. UNCHANGED <<disk, tree, studio>> \/ SourceLands \/ ProcessEvent \/ FenceDrains \/ WriteFile \/ \E q \in Path : EditFile(q) \/ StudioPushes(q)
    BY Frames DEF ContentsSteps, LinkLost, WriteEnds, Contents
<1> QED
    BY <1>2, <1>4, <1>5, <1>6, <1>7, <1>8, <1>9, <1>10

LEMMA QuietSteps ==
    ASSUME Base, QuietInv, Active, barrier.quiet
    PROVE  held = {} /\ ~pass.writing /\ ~WriteFile /\ ~WriteEnds /\ ~ReleaseHeld
<1>1. ~pauseState.paused /\ held = {} /\ ~pass.writing
    BY DEF QuietInv
<1>2. processor.pc \notin {"write", "written"}
    BY <1>1 DEF Base, ProcessorTyped
<1> QED
    BY <1>1, <1>2 DEF WriteFile, WriteEnds, ReleaseHeld

\* What the barrier finds when it begins
LEMMA PromiseStarts ==
    ASSUME Base, EditsInv, NotYet, BarrierStarts, barrier'.quiet, NEW p \in Path, Owed(p)
    PROVE  Promised(p)'
<1>1. ContentsTyped /\ WatcherTyped /\ BarrierTyped
    BY DEF Base
<1>2. /\ barrier'.want = disk /\ barrier'.pc = "held" /\ Undisturbed /\ barrier.pc = "none"
    BY <1>1, BarrierMoves
<1>3. raw' = {[e EXCEPT !.old = TRUE] : e \in raw} /\ UNCHANGED <<disk, tree, pass, flushed, held, events>>
    BY DEF BarrierStarts, Contents
<1>4. ~flushed /\ ~pass.late /\ pass.pc = "idle" /\ held = {}
    BY <1>2 DEF NotYet, Undisturbed
<1>5. disk[p] \in Nat /\ tree[p] \in Nat
    BY <1>1 DEF ContentsTyped
<1>6. CASE disk[p] = tree[p]
    <2>1. TreeHas(p)' /\ barrier'.want[p] <= disk'[p]
        BY <1>2, <1>3, <1>5, <1>6 DEF TreeHas
    <2> QED
        BY <1>2, <2>1 DEF Promised, FlushAhead
<1>7. CASE disk[p] # tree[p]
    <2>1. InRaw(p) \/ InEvents(p)
        BY <1>4, <1>7 DEF EditsInv, InPass
    <2>2. InRaw(p) => InOldRaw(p)'
        <3> SUFFICES ASSUME NEW e \in raw, e.path \in Above[p] PROVE InOldRaw(p)'
            BY DEF InRaw
        <3>1. e \in [path : Path, old : BOOLEAN]
            BY <1>1 DEF WatcherTyped
        <3>2. [e EXCEPT !.old = TRUE].path = e.path /\ [e EXCEPT !.old = TRUE].old = TRUE /\ [e EXCEPT !.old = TRUE] \in raw'
            BY <1>3, <3>1
        <3> QED
            BY <3>2 DEF InOldRaw
    <2>3. UNCHANGED <<disk, pass, flushed, events>>
        BY <1>3
    <2>4. InEvents(p) => InEvents(p)'
        BY <2>3 DEF InEvents
    <2>5. FlushAhead(p)'
        BY <1>4, <2>1, <2>2, <2>3, <2>4 DEF FlushAhead
    <2>6. barrier'.want[p] <= disk'[p]
        BY <1>2, <1>5, <2>3
    <2> QED
        BY <1>2, <2>5, <2>6 DEF Promised
<1> QED
    BY <1>6, <1>7

\* An old event comes through the debouncer before the pass that is late ends
LEMMA FlushStep ==
    ASSUME Base, QuietInv, [PipelineNext]_pipelineVars, Active, barrier.quiet, ~BarrierStarts,
           barrier'.want = barrier.want, NEW p \in Path, p \notin exempt', barrier.want[p] <= disk[p], FlushAhead(p)
    PROVE  FlushAhead(p)'
<1>1. WatcherTyped /\ barrier.want[p] \in Nat
    BY DEF Base, BarrierTyped, Active
<1>2. TreeHas(p) => TreeHas(p)'
    <2>1. tree[p] <= tree'[p] /\ tree[p] \in Nat /\ tree'[p] \in Nat
        BY Monotone
    <2> QED
        BY <1>1, <2>1 DEF TreeHas
<1>3. InEvents(p) => TreeHas(p)' \/ InEvents(p)'
    <2>1. CASE ProcessEvent \/ FenceDrains
        <3>1. /\ Head(events) \in Above[p] => tree'[p] = disk[p]
              /\ InEvents(p) => Head(events) \in Above[p] \/ InEvents(p)'
            BY <2>1, EventHandled
        <3> QED
            BY <3>1 DEF TreeHas
    <2>2. CASE PassEmits \/ ReleaseHeld
        BY <1>1, <2>2, EventsKept
    <2>3. CASE events' = events
        BY <2>3 DEF InEvents
    <2> QED
        BY <2>1, <2>2, <2>3, Frames DEF WatcherSteps, EditFile, PassStart, PassReads, PassEnds, WriteFile, BarrierStarts
<1>4. pass = [pc |-> pass.pc, late |-> pass.late, writing |-> pass.writing, emits |-> pass.emits]
    BY <1>1 DEF WatcherTyped
<1>5. ASSUME ~flushed, InPass(p) \/ (~pass.late /\ InOldRaw(p))
      PROVE  InEvents(p)' \/ (~flushed' /\ (InPass(p)' \/ (~pass'.late /\ InOldRaw(p)')))
    <2>1. CASE PassStart
        <3>1. PICK aged \in SUBSET raw :
                  /\ barrier.window => {e \in raw : e.old} \subseteq aged
                  /\ raw' = raw \ aged
                  /\ pass' = [pc |-> "read", late |-> barrier.window, writing |-> FALSE, emits |-> {e.path : e \in aged}]
            BY <2>1 DEF PassStart
        <3>2. pass.pc = "idle" /\ flushed' = flushed
            BY <2>1 DEF PassStart
        <3>3. pass'.pc = "read" /\ pass'.late = barrier.window /\ pass'.emits = {e.path : e \in aged}
            BY <3>1
        <3>4. PICK e \in raw : e.old /\ e.path \in Above[p]
            BY <1>5, <3>2 DEF InPass, InOldRaw
        <3>5. CASE e \in aged
            <4>1. e.path \in pass'.emits
                BY <3>3, <3>5
            <4> QED
                BY <1>5, <3>2, <3>3, <3>4, <4>1 DEF InPass
        <3>6. CASE e \notin aged
            <4>1. ~barrier.window
                BY <3>1, <3>4, <3>6
            <4>2. InOldRaw(p)'
                BY <3>1, <3>4, <3>6 DEF InOldRaw
            <4> QED
                BY <1>5, <3>2, <3>3, <4>1, <4>2
        <3> QED
            BY <3>5, <3>6
    <2>2. CASE PassReads
        <3>1. /\ pass' = [pass EXCEPT !.pc = "emit", !.writing = pauseState.paused \/ pauseState.recent] /\ pass.pc = "read"
              /\ UNCHANGED <<raw, flushed>>
            BY <2>2 DEF PassReads
        <3>2. pass'.pc = "emit" /\ pass'.emits = pass.emits /\ pass.pc = "read" /\ pass'.late = pass.late
            BY <1>4, <3>1
        <3>3. UNCHANGED <<raw, flushed>>
            BY <3>1
        <3> QED
            BY <1>5, <3>2, <3>3 DEF InPass, InOldRaw
    <2>3. CASE PassEmits
        <3>1. /\ pass' = [pass EXCEPT !.pc = "end"] /\ UNCHANGED <<raw, flushed>> /\ ~pass.writing
            BY <2>3, QuietSteps DEF PassEmits
        <3>2. pass'.late = pass.late
            BY <1>4, <3>1
        <3>3. \A q \in pass.emits : \E i \in 1 .. Len(events') : events'[i] = q
            BY <1>1, <2>3, <3>1, EventsArrive
        <3>4. InPass(p) => InEvents(p)'
            BY <3>3 DEF InPass, InEvents
        <3>5. UNCHANGED <<raw, flushed>>
            BY <3>1
        <3> QED
            BY <1>5, <3>2, <3>4, <3>5 DEF InOldRaw
    <2>4. CASE PassEnds
        <3>1. pass' = NoPass /\ flushed' = pass.late /\ raw' = raw /\ pass.pc = "end"
            BY <2>4 DEF PassEnds
        <3>2. ~pass'.late /\ ~InPass(p)
            BY <3>1 DEF NoPass, InPass
        <3> QED
            BY <1>5, <3>1, <3>2 DEF InOldRaw
    <2>5. ASSUME NEW q \in Path, EditFile(q) PROVE ~flushed' /\ (InPass(p)' \/ (~pass'.late /\ InOldRaw(p)'))
        <3>1. raw \subseteq raw' /\ UNCHANGED <<pass, flushed>>
            BY <2>5 DEF EditFile, Raised
        <3> QED
            BY <1>5, <3>1 DEF InPass, InOldRaw
    <2>6. CASE UNCHANGED <<raw, pass, flushed>>
        BY <1>5, <2>6 DEF InPass, InOldRaw
    <2>7. UNCHANGED <<raw, pass, flushed>> \/ PassStart \/ PassReads \/ PassEmits \/ PassEnds \/ \E q \in Path : EditFile(q)
        BY Frames, QuietSteps DEF WatcherSteps, ProcessEvent, FenceDrains, Watcher
    <2> QED
        BY <2>1, <2>2, <2>3, <2>4, <2>5, <2>6, <2>7
<1> QED
    BY <1>2, <1>3, <1>5 DEF FlushAhead

\* A completed late pass has sent the events on, and the fence drains them
LEMMA FenceEnters ==
    ASSUME BarrierReadsFlush, StageInv, flushed, barrier.pc = "flush", barrier'.want = barrier.want, NEW p, FlushAhead(p)
    PROVE  FenceAhead(p)'
<1>1. processor.pc # "drain" /\ UNCHANGED <<tree, events, processor>>
    BY DEF StageInv, BarrierReadsFlush, Contents
<1> QED
    BY <1>1 DEF FlushAhead, FenceAhead, TreeHas, InEvents

LEMMA FenceStep ==
    ASSUME Base, QuietInv, [PipelineNext]_pipelineVars, Active, barrier.quiet, ~WriteStarts, ~FenceAnswers,
           barrier'.want = barrier.want, NEW p \in Path, p \notin exempt', barrier.want[p] <= disk[p], FenceAhead(p)
    PROVE  FenceAhead(p)'
<1>1. WatcherTyped /\ ProcessorTyped /\ barrier.want[p] \in Nat /\ events \in Seq(Path) /\ Len(events) \in Nat
    BY DEF Base, BarrierTyped, Active, WatcherTyped
<1>2. TreeHas(p) => TreeHas(p)'
    <2>1. tree[p] <= tree'[p] /\ tree[p] \in Nat /\ tree'[p] \in Nat
        BY Monotone
    <2> QED
        BY <1>1, <2>1 DEF TreeHas
<1>3. CASE TreeHas(p)
    BY <1>2, <1>3 DEF FenceAhead
<1>4. ~WriteFile /\ ~WriteEnds
    BY QuietSteps
<1>5. CASE FenceReached
    <2>1. processor.pc = "idle" /\ processor'.pc = "drain" /\ processor'.left = Len(events) /\ events' = events
        BY <1>5 DEF FenceReached
    <2> QED
        BY <1>3, <2>1 DEF FenceAhead, InEvents
<1>6. CASE ProcessEvent
    <2>1. processor.pc = "idle" /\ processor' = processor
        BY <1>6 DEF ProcessEvent
    <2>2. /\ Head(events) \in Above[p] => tree'[p] = disk[p]
          /\ InEvents(p) => Head(events) \in Above[p] \/ InEvents(p)'
        BY <1>6, EventHandled
    <2>3. TreeHas(p)' \/ InEvents(p)'
        BY <1>2, <2>1, <2>2 DEF FenceAhead, TreeHas
    <2> QED
        BY <2>1, <2>3 DEF FenceAhead
<1>7. CASE FenceDrains
    <2>1. /\ processor' = [processor EXCEPT !.left = @ - 1] /\ processor.pc = "drain"
          /\ processor = [pc |-> processor.pc, left |-> processor.left] /\ processor.left \in 0 .. Len(events)
        BY <1>1, <1>7 DEF FenceDrains, ProcessorTyped
    <2>2. processor'.pc = "drain" /\ processor'.left = processor.left - 1
        BY <2>1
    <2>3. Head(events) \in Above[p] => tree'[p] = disk[p]
        BY <1>7, EventHandled
    <2>4. events # <<>> /\ events' = Tail(events)
        BY <1>7, EventHandled
    <2>5. (\E i \in 1 .. processor.left : events[i] \in Above[p]) =>
              Head(events) \in Above[p] \/ \E i \in 1 .. processor.left - 1 : Tail(events)[i] \in Above[p]
        BY <1>1, <2>1, <2>4, EventTaken
    <2>6. TreeHas(p)' \/ \E i \in 1 .. processor'.left : events'[i] \in Above[p]
        BY <1>2, <2>1, <2>2, <2>3, <2>4, <2>5 DEF FenceAhead, TreeHas
    <2> QED
        BY <2>2, <2>6 DEF FenceAhead
<1>8. CASE PassEmits \/ ReleaseHeld
    <2>1. processor' = processor
        BY <1>8 DEF PassEmits, ReleaseHeld
    <2>2. (InEvents(p) => InEvents(p)') /\ \A i \in 1 .. Len(events) : events'[i] = events[i]
        BY <1>1, <1>8, EventsKept, EventsGrow
    <2>3. processor.pc = "drain" => processor.left \in 0 .. Len(events)
        BY <1>1 DEF ProcessorTyped
    <2>4. processor.pc = "drain" => \A i \in 1 .. processor.left : events'[i] = events[i]
        BY <1>1, <2>2, <2>3
    <2> QED
        BY <1>3, <2>1, <2>2, <2>4 DEF FenceAhead
<1>9. CASE processor' = processor /\ events' = events
    BY <1>3, <1>9 DEF FenceAhead, InEvents
<1> QED
    <2>1. ProcessorSteps \/ UNCHANGED <<pauseState, processor, pushes, events>>
        BY Frames
    <2>2. (\E q \in Path : StudioPushes(q)) \/ WindowCloses => processor' = processor /\ events' = events
        BY DEF StudioPushes, WindowCloses
    <2> QED
        BY <1>4, <1>5, <1>6, <1>7, <1>8, <1>9, <2>1, <2>2 DEF ProcessorSteps

\* Contents move on to Studio
LEMMA StreamMoves ==
    ASSUME Base, [PipelineNext]_pipelineVars, ~LinkLost, ~LinkUp, NEW p \in Path
    PROVE  \/ SourceLands
           \/ PluginApplies
           \/ /\ Landing(p)' = Landing(p)
              /\ Values(Sent(link.socket), p) \subseteq Values(Sent(link.socket), p)'
<1>1. LinkTyped /\ ContentsTyped
    BY DEF Base, LinkInv
<1>2. ASSUME landing' = landing, link'.socket = link.socket
      PROVE  Landing(p)' = Landing(p) /\ Values(Sent(link.socket), p)' = Values(Sent(link.socket), p)
    <2>1. Sent(link.socket)' = Sent(link.socket)
        BY <1>2 DEF Sent, ChangeOf
    <2> QED
        BY <1>2, <2>1 DEF Landing, Values
<1>3. CASE UNCHANGED <<link, landing>>
    BY <1>2, <1>3
<1>4. CASE ProcessEvent \/ FenceDrains
    <2>1. PICK e : HandleEvent(e) /\ landing' = landing
        BY <1>4 DEF ProcessEvent, FenceDrains
    <2>2. link'.socket = link.socket
        BY <1>1, <2>1, HandleMoves
    <2> QED
        BY <1>2, <2>1, <2>2
<1>5. CASE BridgeWaits
    <2>1. link' = [link EXCEPT !.settled = link.taken, !.bridge = "wait"] /\ landing' = landing /\ DOMAIN link = LinkField
        BY <1>1, <1>5 DEF BridgeWaits, LinkTyped
    <2>2. link'.socket = link.socket
        BY <2>1 DEF LinkField
    <2> QED
        BY <1>2, <2>1, <2>2
<1>6. CASE BridgeTakes
    BY <1>1, <1>6, TakesMoves
<1>7. CASE BridgeSends
    BY <1>1, <1>7, SendsMoves
<1>8. CASE PluginAnswers
    <2>1. /\ link'.socket = Tail(link.socket) /\ landing' = landing /\ link.socket \in Seq(Frame) /\ link.socket # <<>>
          /\ Head(link.socket).type = "sync_barrier"
        BY <1>1, <1>8, AnswersMoves DEF SocketOnly
    <2>2. Values(Sent(Tail(link.socket)), p) = Values(Sent(link.socket), p)
        BY <2>1, QuestionMoves
    <2>3. Landing(p)' = Landing(p)
        BY <2>1 DEF Landing
    <2> QED
        BY <2>1, <2>2, <2>3
<1>9. CASE BarrierRequests
    <2>1. CASE link.id = 0
        BY <1>2, <1>9, <2>1 DEF BarrierRequests
    <2>2. CASE link.id # 0
        <3>1. link'.socket = Append(link.socket, [type |-> "sync_barrier"]) /\ landing' = landing /\ link.socket \in Seq(Frame)
            BY <1>1, <1>9, <2>2, RequestsMoves DEF SocketOnly, LinkTyped
        <3>2. Values(Sent(Append(link.socket, [type |-> "sync_barrier"])), p) = Values(Sent(link.socket), p)
            BY <3>1, QuestionMoves
        <3>3. Landing(p)' = Landing(p)
            BY <3>1 DEF Landing
        <3> QED
            BY <3>1, <3>2, <3>3
    <2> QED
        BY <2>1, <2>2
<1> QED
    BY <1>3, <1>4, <1>5, <1>6, <1>7, <1>8, <1>9, Frames DEF LinkSteps, LinkStep

LEMMA LandedKept ==
    ASSUME Base, [PipelineNext]_pipelineVars, ~LinkLost, ~LinkUp, Active, barrier'.want = barrier.want,
           NEW p \in Path, p \notin exempt', StudioHas(p) \/ Reached(p, Landing(p))
    PROVE  StudioHas(p)' \/ Reached(p, Landing(p))'
<1>1. LinkTyped /\ ContentsTyped /\ barrier.want[p] \in Nat
    BY DEF Base, LinkInv, BarrierTyped, Active
<1>2. studio[p] <= studio'[p] /\ studio[p] \in Nat /\ studio'[p] \in Nat
    BY Monotone
<1>3. StudioHas(p) => StudioHas(p)'
    BY <1>1, <1>2 DEF StudioHas
<1>4. CASE Landing(p) \subseteq Landing(p)'
    BY <1>3, <1>4 DEF Reached
<1>5. CASE SourceLands
    <2>1. PICK q \in Path, w \in Nat \ {0} :
              /\ studio'[q] = w /\ Landing(q) = Landing(q)' \cup {w}
              /\ \A x \in Path : x # q => Landing(x)' = Landing(x)
        BY <1>1, <1>5, LandsMoves
    <2>2. CASE p # q
        BY <1>4, <2>1, <2>2
    <2>3. CASE p = q
        BY <1>3, <2>1, <2>3 DEF StudioHas, Reached
    <2> QED
        BY <2>2, <2>3
<1>6. CASE PluginApplies
    BY <1>1, <1>4, <1>6, AppliesMoves
<1> QED
    BY <1>4, <1>5, <1>6, StreamMoves

LEMMA SocketStep ==
    ASSUME Base, [PipelineNext]_pipelineVars, ~LinkLost, ~LinkUp, Active, barrier'.want = barrier.want,
           NEW p \in Path, p \notin exempt', SocketAhead(p)
    PROVE  SocketAhead(p)'
<1>1. LinkTyped
    BY DEF Base, LinkInv
<1>2. CASE StudioHas(p) \/ Reached(p, Landing(p))
    BY <1>2, LandedKept DEF SocketAhead
<1>3. CASE Reached(p, Values(Sent(link.socket), p))
    <2>1. CASE Values(Sent(link.socket), p) \subseteq Values(Sent(link.socket), p)'
        BY <1>3, <2>1 DEF Reached, SocketAhead
    <2>2. CASE PluginApplies
        <3>1. PICK more : /\ Landing(p)' = Landing(p) \cup more
                          /\ Values(Sent(link.socket), p) = Values(Sent(link.socket), p)' \cup more
            BY <1>1, <2>2, AppliesMoves
        <3> QED
            BY <1>3, <3>1 DEF Reached, SocketAhead
    <2>3. CASE SourceLands
        <3>1. link' = link
            BY <2>3 DEF SourceLands
        <3>2. Sent(link.socket)' = Sent(link.socket)
            BY <3>1 DEF Sent, ChangeOf
        <3>3. Values(Sent(link.socket), p)' = Values(Sent(link.socket), p)
            BY <3>2 DEF Values
        <3> QED
            BY <2>1, <3>3
    <2> QED
        BY <2>1, <2>2, <2>3, StreamMoves
<1> QED
    BY <1>2, <1>3 DEF SocketAhead

\* Everything pushed is the target, and what the tree has is in Studio or on its way
LEMMA QueueEnters ==
    ASSUME Base, LinkOfBarrier, Active, BarrierMarks, link.id = barrier.id, barrier'.target = link.pushed,
           barrier'.want = barrier.want, NEW p \in Path, p \notin exempt, TreeHas(p)
    PROVE  QueueAhead(p)'
<1>1. LinkTyped /\ OnItsWay(p)
    BY DEF Base, LinkInv, StreamInv, LinkOfBarrier
<1>2. UNCHANGED <<link, landing, studio>>
    BY DEF BarrierMarks, Contents
<1>3. /\ Landing(p)' = Landing(p) /\ InHand(p)' = InHand(p)
      /\ Values(Sent(link.socket), p)' = Values(Sent(link.socket), p)
    <2>1. Sent(link.socket)' = Sent(link.socket)
        BY <1>2 DEF Sent, ChangeOf
    <2> QED
        BY <1>2, <2>1 DEF Landing, InHand, Values
<1>4. link.taken \in Nat /\ Len(link.queue) \in Nat /\ link.pushed = link.taken + Len(link.queue)
    BY <1>1 DEF LinkTyped
<1>5. CASE tree[p] = studio[p]
    BY <1>2, <1>5 DEF TreeHas, StudioHas, QueueAhead
<1>6. CASE tree[p] \in Landing(p)
    BY <1>3, <1>6 DEF TreeHas, Reached, QueueAhead
<1>7. CASE tree[p] \in Values(Sent(link.socket), p)
    BY <1>3, <1>7 DEF TreeHas, Reached, QueueAhead
<1>8. CASE tree[p] \in InHand(p)
    <2>1. link'.taken <= barrier'.target
        BY <1>2, <1>4
    <2> QED
        BY <1>3, <1>8, <2>1 DEF TreeHas, Reached, QueueAhead
<1>9. CASE tree[p] \in Values(link.queue, p)
    <2>1. PICK i \in 1 .. Len(link.queue) : tree[p] = link.queue[i][p] /\ link.queue[i][p] # 0
        BY <1>9 DEF Values
    <2>2. link.taken + i <= link.pushed
        BY <1>4, <2>1
    <2>3. i \in 1 .. Len(link'.queue) /\ link'.taken + i <= barrier'.target /\ link'.queue[i][p] # 0 /\ barrier'.want[p] <= link'.queue[i][p]
        BY <1>2, <2>1, <2>2 DEF TreeHas
    <2> QED
        BY <2>3 DEF QueueAhead
<1> QED
    BY <1>1, <1>5, <1>6, <1>7, <1>8, <1>9 DEF OnItsWay

LEMMA QueueStep ==
    ASSUME Base, [PipelineNext]_pipelineVars, ~LinkLost, ~LinkUp, Active, barrier'.want = barrier.want,
           barrier'.target = barrier.target, NEW p \in Path, p \notin exempt', QueueAhead(p)
    PROVE  QueueAhead(p)'
<1>1. LinkTyped /\ ContentsTyped /\ link.taken \in Nat /\ barrier.target \in Nat /\ link.queue \in Seq(Message) /\ Len(link.queue) \in Nat
    BY DEF Base, LinkInv, LinkTyped, BarrierTyped
<1>2. CASE SocketAhead(p)
    BY <1>2, SocketStep DEF SocketAhead, QueueAhead
<1>3. ASSUME link'.taken = link.taken, InHand(p)' = InHand(p), ~SocketAhead(p), Len(link.queue) <= Len(link'.queue),
             Len(link'.queue) \in Nat, \A i \in 1 .. Len(link.queue) : link'.queue[i] = link.queue[i]
      PROVE  QueueAhead(p)'
    <2>1. CASE Reached(p, InHand(p)) /\ link.taken <= barrier.target
        BY <1>3, <2>1 DEF QueueAhead, Reached
    <2>2. ASSUME NEW i \in 1 .. Len(link.queue), link.taken + i <= barrier.target, link.queue[i][p] # 0,
                 barrier.want[p] <= link.queue[i][p]
          PROVE  QueueAhead(p)'
        <3>1. i \in 1 .. Len(link'.queue) /\ link'.taken + i <= barrier'.target /\ link'.queue[i][p] # 0 /\ barrier'.want[p] <= link'.queue[i][p]
            BY <1>1, <1>3, <2>2
        <3> QED
            BY <3>1 DEF QueueAhead
    <2> QED
        BY <1>3, <2>1, <2>2 DEF QueueAhead, SocketAhead
<1>4. CASE link'.taken = link.taken /\ InHand(p)' = InHand(p) /\ link'.queue = link.queue
    BY <1>1, <1>2, <1>3, <1>4
<1>5. CASE ProcessEvent \/ FenceDrains
    <2>1. PICK e : HandleEvent(e) /\ landing' = landing
        BY <1>5 DEF ProcessEvent, FenceDrains
    <2>2. /\ link'.taken = link.taken /\ link'.bridge = link.bridge /\ link'.inHand = link.inHand
          /\ link'.queue \in Seq(Message) /\ Len(link.queue) <= Len(link'.queue)
          /\ \A i \in 1 .. Len(link.queue) : link'.queue[i] = link.queue[i]
        BY <1>1, <2>1, HandleMoves
    <2>3. InHand(p)' = InHand(p) /\ Len(link'.queue) \in Nat
        BY <2>2 DEF InHand
    <2> QED
        BY <1>2, <1>3, <2>2, <2>3
<1>6. CASE BridgeTakes
    <2>1. /\ link'.queue = Tail(link.queue) /\ link'.taken = link.taken + 1 /\ InHand(p) = {} /\ InHand(p)' = {Head(link.queue)[p]} \ {0}
        BY <1>1, <1>6, TakesMoves
    <2>2. /\ link.queue # <<>> /\ Head(link.queue) = link.queue[1] /\ Len(Tail(link.queue)) = Len(link.queue) - 1
          /\ \A i \in 1 .. Len(link.queue) - 1 : Tail(link.queue)[i] = link.queue[i + 1]
        BY <1>1, <1>6 DEF BridgeTakes
    <2>3. ASSUME NEW i \in 1 .. Len(link.queue), link.taken + i <= barrier.target, link.queue[i][p] # 0,
                 barrier.want[p] <= link.queue[i][p]
          PROVE  QueueAhead(p)'
        <3>1. CASE i = 1
            <4>1. link'.taken <= barrier'.target
                BY <2>1, <2>3, <3>1
            <4>2. Reached(p, InHand(p))'
                BY <2>1, <2>2, <2>3, <3>1 DEF Reached
            <4> QED
                BY <4>1, <4>2 DEF QueueAhead
        <3>2. CASE i # 1
            <4>1. /\ i - 1 \in 1 .. Len(link.queue) - 1 /\ (i - 1) + 1 = i /\ (link.taken + 1) + (i - 1) = link.taken + i
                BY <1>1, <2>3, <3>2
            <4>2. Tail(link.queue)[i - 1] = link.queue[i]
                BY <2>2, <4>1
            <4>3. /\ i - 1 \in 1 .. Len(link'.queue) /\ link'.taken + (i - 1) <= barrier'.target
                  /\ link'.queue[i - 1][p] # 0 /\ barrier'.want[p] <= link'.queue[i - 1][p]
                BY <2>1, <2>2, <2>3, <4>1, <4>2
            <4> QED
                BY <4>3 DEF QueueAhead
        <3> QED
            BY <3>1, <3>2
    <2>4. ~Reached(p, InHand(p))
        BY <2>1 DEF Reached
    <2> QED
        BY <1>2, <2>3, <2>4 DEF QueueAhead, SocketAhead
<1>7. CASE BridgeSends
    <2>1. /\ link'.queue = link.queue /\ link'.taken = link.taken
          /\ Values(Sent(link.socket), p)' = Values(Sent(link.socket), p) \cup InHand(p)
        BY <1>1, <1>7, SendsMoves
    <2>2. Reached(p, InHand(p)) => Reached(p, Values(Sent(link.socket), p))'
        BY <2>1 DEF Reached
    <2> QED
        BY <1>2, <2>1, <2>2 DEF QueueAhead, SocketAhead
<1>8. CASE BridgeWaits
    <2>1. link' = [link EXCEPT !.settled = link.taken, !.bridge = "wait"] /\ link.bridge = "idle" /\ DOMAIN link = LinkField
        BY <1>1, <1>8 DEF BridgeWaits, LinkTyped
    <2>2. link'.queue = link.queue /\ link'.taken = link.taken /\ link'.bridge = "wait" /\ link.bridge = "idle"
        BY <2>1 DEF LinkField
    <2> QED
        BY <1>4, <2>2 DEF InHand
<1>9. CASE PluginApplies
    BY <1>1, <1>4, <1>9, AppliesMoves
<1>10. CASE PluginAnswers
    <2>1. link'.queue = link.queue /\ link'.taken = link.taken /\ link'.bridge = link.bridge /\ link'.inHand = link.inHand
        BY <1>1, <1>10, AnswersMoves DEF SocketOnly
    <2> QED
        BY <1>4, <2>1 DEF InHand
<1>11. CASE link' = link
    BY <1>4, <1>11 DEF InHand
<1>12. CASE BarrierRequests
    <2>1. CASE link.id = 0
        BY <1>11, <1>12, <2>1 DEF BarrierRequests
    <2>2. CASE link.id # 0
        <3>1. link'.queue = link.queue /\ link'.taken = link.taken /\ link'.bridge = link.bridge /\ link'.inHand = link.inHand
            BY <1>1, <1>12, <2>2, RequestsMoves DEF SocketOnly
        <3> QED
            BY <1>4, <3>1 DEF InHand
    <2> QED
        BY <2>1, <2>2
<1>13. CASE SourceLands
    BY <1>11, <1>13 DEF SourceLands
<1> QED
    BY <1>5, <1>6, <1>7, <1>8, <1>9, <1>10, <1>11, <1>12, <1>13, Frames DEF LinkSteps, LinkStep

\* Settled means sent
LEMMA SocketEnters ==
    ASSUME Base, BarrierAsks, link.settled >= barrier.target, barrier'.want = barrier.want, barrier'.pc # "ended",
           NEW p \in Path, QueueAhead(p)
    PROVE  SocketAhead(p)'
<1>1. LinkTyped /\ link.taken \in Nat /\ link.settled \in Nat /\ barrier.target \in Nat
    BY DEF Base, LinkInv, LinkTyped, BarrierTyped
<1>2. UNCHANGED <<link, landing, studio>>
    BY DEF BarrierAsks, Contents
<1>3. ~(Reached(p, InHand(p)) /\ link.taken <= barrier.target)
    <2>1. CASE link.bridge = "send"
        BY <1>1, <2>1 DEF LinkTyped
    <2>2. CASE link.bridge # "send"
        BY <2>2 DEF InHand, Reached
    <2> QED
        BY <2>1, <2>2
<1>4. \A i \in 1 .. Len(link.queue) : ~(link.taken + i <= barrier.target)
    <2>1. link.settled <= link.taken
        BY <1>1 DEF LinkTyped
    <2>2. Len(link.queue) \in Nat
        BY <1>1 DEF LinkTyped
    <2> QED
        BY <1>1, <2>1, <2>2
<1>5. SocketAhead(p)
    BY <1>3, <1>4 DEF QueueAhead, SocketAhead
<1>6. Landing(p)' = Landing(p) /\ Values(Sent(link.socket), p)' = Values(Sent(link.socket), p) /\ studio'[p] = studio[p]
    <2>1. Sent(link.socket)' = Sent(link.socket)
        BY <1>2 DEF Sent, ChangeOf
    <2> QED
        BY <1>2, <2>1 DEF Landing, Values
<1> QED
    BY <1>5, <1>6 DEF SocketAhead, StudioHas, Reached

\* The question goes behind what it is about
LEMMA AnswerEnters ==
    ASSUME Base, StageInv, BarrierRequests, link.id # 0, barrier.pc = "ask", barrier'.want = barrier.want,
           NEW p \in Path, SocketAhead(p)
    PROVE  AnswerAhead(p)'
<1>1. LinkTyped /\ link.socket \in Seq(Frame) /\ Len(link.socket) \in Nat
    BY DEF Base, LinkInv, LinkTyped
<1>2. PICK f : f = [type |-> "sync_barrier"]
    OBVIOUS
<1>3. f \in Frame /\ f.type = "sync_barrier"
    BY <1>2 DEF Frame
<1>4. link'.socket = Append(link.socket, f) /\ landing' = landing /\ studio' = studio
    BY <1>1, <1>2, RequestsMoves DEF SocketOnly, BarrierRequests, Contents
<1>5. \A j \in 1 .. Len(link.socket) : link.socket[j].type = "sync"
    BY DEF StageInv
<1>6. /\ Sent(link.socket) \in Seq(Message) /\ Len(Sent(link.socket)) = Len(link.socket) /\ ChangeOf(f) \in Message
      /\ Sent(link.socket)' = Append(Sent(link.socket), ChangeOf(f)) /\ Len(link'.socket) = Len(link.socket) + 1
    BY <1>1, <1>3, <1>4, SocketGrows
<1>7. \A i \in 1 .. Len(link.socket) : Sent(link'.socket)[i] = Sent(link.socket)[i] /\ link'.socket[i] = link.socket[i]
    BY <1>1, <1>4, <1>6
<1>8. Landing(p)' = Landing(p)
    BY <1>4 DEF Landing
<1>9. CASE StudioHas(p) \/ Reached(p, Landing(p))
    BY <1>4, <1>8, <1>9 DEF AnswerAhead, StudioHas, Reached
<1>10. CASE Reached(p, Values(Sent(link.socket), p))
    <2>1. PICK i \in 1 .. Len(link.socket) : Sent(link.socket)[i][p] # 0 /\ barrier.want[p] <= Sent(link.socket)[i][p]
        BY <1>6, <1>10 DEF Reached, Values
    <2>2. Sent(link'.socket)[i][p] # 0 /\ barrier'.want[p] <= Sent(link'.socket)[i][p]
        BY <1>7, <2>1
    <2>3. ASSUME NEW j \in 1 .. Len(link'.socket), link'.socket[j].type = "sync_barrier" PROVE i < j /\ i \in 1 .. Len(link'.socket)
        <3>1. j \notin 1 .. Len(link.socket)
            BY <1>5, <1>7, <2>3
        <3> QED
            BY <1>1, <1>6, <2>1, <2>3, <3>1
    <2> QED
        BY <2>2, <2>3 DEF AnswerAhead
<1> QED
    BY <1>9, <1>10 DEF SocketAhead

\* A frame ahead of a question stays ahead of it until it is applied
LEMMA AnswerStep ==
    ASSUME Base, [PipelineNext]_pipelineVars, ~LinkLost, ~LinkUp, Active, ~PluginAnswers, ~BarrierRequests,
           barrier'.want = barrier.want, NEW p \in Path, p \notin exempt', AnswerAhead(p)
    PROVE  AnswerAhead(p)'
<1>1. LinkTyped /\ ContentsTyped /\ link.socket \in Seq(Frame) /\ Len(link.socket) \in Nat
    BY DEF Base, LinkInv, LinkTyped
<1>2. CASE StudioHas(p) \/ Reached(p, Landing(p))
    BY <1>2, LandedKept DEF AnswerAhead
<1>3. CASE link'.socket = link.socket /\ ~(StudioHas(p) \/ Reached(p, Landing(p)))
    <2>1. Sent(link.socket)' = Sent(link.socket)
        BY <1>3 DEF Sent, ChangeOf
    <2> QED
        BY <1>3, <2>1 DEF AnswerAhead
<1>4. CASE BridgeSends /\ ~(StudioHas(p) \/ Reached(p, Landing(p)))
    <2>1. PICK f \in Frame : link'.socket = Append(link.socket, f) /\ f.type = "sync"
        BY <1>1, <1>4, SendsMoves
    <2>2. /\ Sent(link.socket) \in Seq(Message) /\ Len(Sent(link.socket)) = Len(link.socket) /\ ChangeOf(f) \in Message
          /\ Sent(link.socket)' = Append(Sent(link.socket), ChangeOf(f)) /\ Len(link'.socket) = Len(link.socket) + 1
        BY <1>1, <2>1, SocketGrows
    <2>3. \A i \in 1 .. Len(link.socket) : Sent(link'.socket)[i] = Sent(link.socket)[i] /\ link'.socket[i] = link.socket[i]
        BY <1>1, <2>1, <2>2
    <2>4. ASSUME NEW j \in 1 .. Len(link'.socket), link'.socket[j].type = "sync_barrier"
          PROVE  \E i \in 1 .. Len(link'.socket) : i < j /\ Sent(link'.socket)[i][p] # 0 /\ barrier'.want[p] <= Sent(link'.socket)[i][p]
        <3>1. link'.socket[Len(link.socket) + 1] = f
            BY <1>1, <2>1
        <3>2. j \in 1 .. Len(link.socket)
            BY <1>1, <2>1, <2>2, <2>4, <3>1
        <3>3. link.socket[j].type = "sync_barrier"
            BY <2>3, <2>4, <3>2
        <3>4. PICK i \in 1 .. Len(link.socket) : i < j /\ Sent(link.socket)[i][p] # 0 /\ barrier.want[p] <= Sent(link.socket)[i][p]
            BY <1>4, <3>2, <3>3 DEF AnswerAhead
        <3>5. i \in 1 .. Len(link'.socket)
            BY <1>1, <2>2, <3>4
        <3> QED
            BY <2>3, <3>4, <3>5
    <2> QED
        BY <2>4 DEF AnswerAhead
<1>5. CASE PluginApplies /\ ~(StudioHas(p) \/ Reached(p, Landing(p)))
    <2>1. /\ link.socket # <<>> /\ link'.socket = Tail(link.socket)
          /\ Landing(p)' = Landing(p) \cup ({ChangeOf(Head(link.socket))[p]} \ {0})
        BY <1>1, <1>5, AppliesMoves
    <2>2. /\ Len(Tail(link.socket)) = Len(link.socket) - 1 /\ Head(link.socket) = link.socket[1]
          /\ \A i \in 1 .. Len(link.socket) - 1 : Tail(link.socket)[i] = link.socket[i + 1]
        BY <1>1, <2>1, SocketShrinks
    <2>3. /\ \A i \in 1 .. Len(link.socket) : Sent(link.socket)[i] = ChangeOf(link.socket[i])
        BY <1>1, SentTyped
    <2>4. \A i \in 1 .. Len(link.socket) - 1 : Sent(link'.socket)[i] = Sent(link.socket)[i + 1]
        <3>1. PICK t \in Seq(Frame) : t = link'.socket
            BY <1>1, <2>1, SocketShrinks
        <3>2. \A i \in 1 .. Len(t) : Sent(t)[i] = ChangeOf(t[i])
            BY SentTyped
        <3>3. \A i \in 1 .. Len(link.socket) - 1 : i \in 1 .. Len(t) /\ t[i] = link.socket[i + 1] /\ i + 1 \in 1 .. Len(link.socket)
            BY <1>1, <2>1, <2>2, <3>1
        <3> QED
            BY <2>3, <3>1, <3>2, <3>3
    <2>5. ASSUME NEW j \in 1 .. Len(link'.socket), link'.socket[j].type = "sync_barrier"
          PROVE  \/ Reached(p, Landing(p))'
                 \/ \E i \in 1 .. Len(link'.socket) : i < j /\ Sent(link'.socket)[i][p] # 0 /\ barrier'.want[p] <= Sent(link'.socket)[i][p]
        <3>1. j \in 1 .. Len(link.socket) - 1 /\ j + 1 \in 1 .. Len(link.socket)
            BY <1>1, <2>1, <2>2, <2>5
        <3>2. link.socket[j + 1].type = "sync_barrier"
            BY <2>1, <2>2, <2>5, <3>1
        <3>3. PICK i \in 1 .. Len(link.socket) : i < j + 1 /\ Sent(link.socket)[i][p] # 0 /\ barrier.want[p] <= Sent(link.socket)[i][p]
            BY <1>5, <3>1, <3>2 DEF AnswerAhead
        <3>4. CASE i = 1
            <4>1. Sent(link.socket)[1] = ChangeOf(Head(link.socket))
                BY <2>2, <2>3, <3>3, <3>4
            <4> QED
                BY <2>1, <3>3, <3>4, <4>1 DEF Reached
        <3>5. CASE i # 1
            <4>1. i - 1 \in 1 .. Len(link.socket) - 1 /\ (i - 1) + 1 = i /\ i - 1 < j /\ i - 1 \in 1 .. Len(link'.socket)
                BY <1>1, <2>1, <2>2, <3>1, <3>3, <3>5
            <4>2. Sent(link'.socket)[i - 1] = Sent(link.socket)[i]
                BY <2>4, <4>1
            <4> QED
                BY <3>3, <4>1, <4>2
        <3> QED
            BY <3>4, <3>5
    <2> QED
        BY <2>5 DEF AnswerAhead
<1>6. CASE ProcessEvent \/ FenceDrains
    <2>1. PICK e : HandleEvent(e) /\ landing' = landing
        BY <1>6 DEF ProcessEvent, FenceDrains
    <2>2. link'.socket = link.socket
        BY <1>1, <2>1, HandleMoves
    <2> QED
        BY <1>2, <1>3, <2>2
<1>7. CASE BridgeWaits
    <2>1. link' = [link EXCEPT !.settled = link.taken, !.bridge = "wait"] /\ DOMAIN link = LinkField
        BY <1>1, <1>7 DEF BridgeWaits, LinkTyped
    <2>2. link'.socket = link.socket
        BY <2>1 DEF LinkField
    <2> QED
        BY <1>2, <1>3, <2>2
<1>8. CASE BridgeTakes
    BY <1>1, <1>2, <1>3, <1>8, TakesMoves
<1>9. CASE link' = link \/ SourceLands
    BY <1>2, <1>3, <1>9 DEF SourceLands
<1> QED
    BY <1>2, <1>4, <1>5, <1>6, <1>7, <1>8, <1>9, Frames DEF LinkSteps, LinkStep

\* The answer says that nothing is in flight, and nothing was ahead of the question
LEMMA AnsweredEnters ==
    ASSUME Base, PluginAnswers, landing = {}, barrier'.want = barrier.want, NEW p \in Path, AnswerAhead(p)
    PROVE  StudioHas(p)'
<1>1. link.socket \in Seq(Frame) /\ link.socket # <<>> /\ Head(link.socket).type = "sync_barrier" /\ studio' = studio
    BY AnswersMoves DEF Base, LinkInv, PluginAnswers, Contents
<1>2. link.socket[1].type = "sync_barrier" /\ 1 \in 1 .. Len(link.socket)
    BY <1>1
<1>3. Landing(p) = {}
    BY DEF Landing
<1>4. ~\E i \in 1 .. Len(link.socket) : i < 1
    BY <1>1
<1>5. StudioHas(p)
    BY <1>2, <1>3, <1>4 DEF AnswerAhead, Reached
<1> QED
    BY <1>1, <1>5 DEF StudioHas

LEMMA PromiseStep ==
    ASSUME PipelineInv, [PipelineNext]_pipelineVars
    PROVE  PromiseInv'
<1>1. /\ Base /\ EditsInv /\ QuietInv /\ LinkOfBarrier /\ PromiseInv /\ NotYet /\ StageInv
      /\ BarrierTyped /\ ContentsTyped /\ LinkTyped /\ exempt \subseteq exempt'
    BY Frames DEF PipelineInv, Base, LinkInv
<1>2. SUFFICES ASSUME Active', barrier'.quiet, NEW p \in Path, Owed(p)' PROVE Promised(p)'
    BY DEF PromiseInv
<1>3. Owed(p) /\ p \notin exempt /\ p \notin exempt'
    BY <1>1, <1>2, OwedBefore DEF Owed
<1>4. CASE BarrierStarts
    BY <1>1, <1>2, <1>3, <1>4, PromiseStarts
<1>5. CASE ~BarrierStarts
    <2>1. /\ Active /\ barrier'.id = barrier.id /\ barrier'.want = barrier.want /\ barrier.quiet /\ ~WriteStarts
          /\ barrier'.pc # "ended"
        BY <1>1, <1>2, <1>5, ActiveBefore DEF Active
    <2>2. Promised(p) /\ barrier.want[p] <= disk[p] /\ barrier.want[p] \in Nat
        BY <1>1, <1>3, <2>1 DEF PromiseInv, Promised, BarrierTyped, Active
    <2>3. /\ disk[p] <= disk'[p] /\ tree[p] <= tree'[p] /\ studio[p] <= studio'[p]
          /\ disk[p] \in Nat /\ tree[p] \in Nat /\ studio[p] \in Nat /\ disk'[p] \in Nat /\ tree'[p] \in Nat /\ studio'[p] \in Nat
        BY <1>1, <1>3, Monotone
    <2>4. /\ barrier'.want[p] <= disk'[p] /\ (TreeHas(p) => TreeHas(p)') /\ (StudioHas(p) => StudioHas(p)')
        BY <2>1, <2>2, <2>3 DEF TreeHas, StudioHas
    <2>5. ASSUME barrier'.pc \in {"held", "flush"} PROVE FlushAhead(p)'
        <3>1. barrier.pc \in {"held", "flush"}
            BY <1>1, <1>5, <2>5, PcMoves
        <3> QED
            BY <1>1, <1>3, <1>5, <2>1, <2>2, <3>1, FlushStep DEF Promised
    <2>6. ASSUME barrier'.pc = "fence" PROVE FenceAhead(p)'
        <3>1. barrier.pc = "fence" \/ (BarrierReadsFlush /\ barrier.pc = "flush" /\ flushed)
            BY <1>1, <2>6, PcMoves
        <3>2. CASE barrier.pc = "fence"
            <4>1. ~FenceAnswers
                BY <1>1, <2>6, <3>2, BarrierMoves DEF GoesTo, Goes
            <4> QED
                BY <1>1, <1>3, <2>1, <2>2, <3>2, <4>1, FenceStep DEF Promised
        <3>3. CASE BarrierReadsFlush /\ barrier.pc = "flush" /\ flushed
            BY <1>1, <2>1, <2>2, <3>3, FenceEnters DEF Promised
        <3> QED
            BY <3>1, <3>2, <3>3
    <2>7. ASSUME barrier'.pc = "mark" PROVE TreeHas(p)'
        <3>1. barrier.pc = "mark" \/ (FenceAnswers /\ barrier.pc = "fence")
            BY <1>1, <2>7, PcMoves
        <3>2. CASE barrier.pc = "mark"
            BY <2>2, <2>4, <3>2 DEF Promised
        <3>3. CASE FenceAnswers /\ barrier.pc = "fence"
            <4>1. processor.pc = "drain" /\ processor.left = 0 /\ FenceAhead(p)
                BY <2>2, <3>3 DEF FenceAnswers, Promised
            <4>2. TreeHas(p)
                BY <4>1 DEF FenceAhead
            <4> QED
                BY <2>4, <4>2
        <3> QED
            BY <3>1, <3>2, <3>3
    <2>8. ASSUME barrier'.pc = "synced" PROVE StudioHas(p)'
        <3>1. barrier.pc = "synced" \/ (barrier.pc = "answered" /\ GoodAnswer)
            BY <1>1, <2>8, PcMoves
        <3>2. StudioHas(p)
            BY <2>2, <3>1 DEF Promised, GoodAnswer
        <3> QED
            BY <2>4, <3>2
    <2>9. ASSUME link'.id = barrier'.id
          PROVE  /\ barrier'.pc = "queue" => QueueAhead(p)'
                 /\ barrier'.pc = "ask" => SocketAhead(p)'
                 /\ barrier'.pc = "asked" => AnswerAhead(p)'
                 /\ barrier'.pc = "answered" /\ barrier'.answer = "settled" => StudioHas(p)'
        <3>1. link.id = barrier.id /\ link.id # 0 /\ ~LinkLost /\ ~LinkUp
            <4>1. barrier.id # 0 /\ barrier.id \in Nat /\ barrier.id <= link.last
                BY <1>1, <2>1 DEF LinkOfBarrier, BarrierTyped
            <4>2. link'.id = link.id
                BY <1>1, <2>1, <2>9, <4>1, LinkIdStep
            <4>3. ~LinkLost
                <5>1. LinkLost => link'.id = 0
                    BY DEF LinkLost, NoLink
                <5> QED
                    BY <2>1, <2>9, <4>1, <5>1
            <4> QED
                BY <2>1, <2>9, <4>1, <4>2, <4>3 DEF LinkUp
        <3>2. ASSUME barrier'.pc = "queue" PROVE QueueAhead(p)'
            <4>1. \/ barrier.pc = "queue" /\ barrier'.target = barrier.target
                  \/ BarrierMarks /\ barrier.pc = "mark" /\ link.id = barrier.id /\ barrier'.target = link.pushed
                BY <1>1, <3>2, PcMoves
            <4>2. CASE barrier.pc = "queue" /\ barrier'.target = barrier.target
                BY <1>1, <1>3, <2>1, <2>2, <3>1, <4>2, QueueStep DEF Promised
            <4>3. CASE BarrierMarks /\ barrier.pc = "mark" /\ link.id = barrier.id /\ barrier'.target = link.pushed
                BY <1>1, <1>3, <2>1, <2>2, <4>3, QueueEnters DEF Promised
            <4> QED
                BY <4>1, <4>2, <4>3
        <3>3. ASSUME barrier'.pc = "ask" PROVE SocketAhead(p)'
            <4>1. barrier.pc = "ask" \/ (BarrierAsks /\ barrier.pc = "queue" /\ link.settled >= barrier.target)
                BY <1>1, <3>3, PcMoves
            <4>2. CASE barrier.pc = "ask"
                BY <1>1, <1>3, <2>1, <2>2, <3>1, <4>2, SocketStep DEF Promised
            <4>3. CASE BarrierAsks /\ barrier.pc = "queue" /\ link.settled >= barrier.target
                BY <1>1, <2>1, <2>2, <3>1, <4>3, SocketEnters DEF Promised
            <4> QED
                BY <4>1, <4>2, <4>3
        <3>4. ASSUME barrier'.pc = "asked" PROVE AnswerAhead(p)'
            <4>1. barrier.pc = "asked" \/ (BarrierRequests /\ barrier.pc = "ask")
                BY <1>1, <3>4, PcMoves
            <4>2. CASE barrier.pc = "asked"
                <5>1. ~PluginAnswers /\ ~BarrierRequests
                    BY <1>1, <3>4, <4>2, BarrierMoves DEF GoesTo, Goes
                <5> QED
                    BY <1>1, <1>3, <2>1, <2>2, <3>1, <4>2, <5>1, AnswerStep DEF Promised
            <4>3. CASE BarrierRequests /\ barrier.pc = "ask"
                BY <1>1, <2>1, <2>2, <3>1, <4>3, AnswerEnters DEF Promised
            <4> QED
                BY <4>1, <4>2, <4>3
        <3>5. ASSUME barrier'.pc = "answered", barrier'.answer = "settled" PROVE StudioHas(p)'
            <4>1. \/ barrier.pc = "answered" /\ barrier.answer = "settled"
                  \/ PluginAnswers /\ barrier.pc = "asked" /\ landing = {}
                BY <1>1, <3>5, PcMoves
            <4>2. CASE barrier.pc = "answered" /\ barrier.answer = "settled"
                BY <2>2, <2>4, <3>1, <4>2 DEF Promised
            <4>3. CASE PluginAnswers /\ barrier.pc = "asked" /\ landing = {}
                BY <1>1, <2>1, <2>2, <3>1, <4>3, AnsweredEnters DEF Promised
            <4> QED
                BY <4>1, <4>2, <4>3
        <3> QED
            BY <3>2, <3>3, <3>4, <3>5
    <2> QED
        BY <2>4, <2>5, <2>6, <2>7, <2>8, <2>9 DEF Promised
<1> QED
    BY <1>4, <1>5

-----------------------------------------------------------------------------
LEMMA PipelineInitInv ==
    ASSUME PipelineInit
    PROVE  PipelineInv
<1>1. /\ disk = [p \in Path |-> 1] /\ tree = disk /\ studio = disk /\ raw = {} /\ pass = NoPass /\ flushed = FALSE
      /\ pauseState = [paused |-> FALSE, recent |-> FALSE] /\ held = {} /\ events = <<>> /\ pushes = <<>> /\ processor = Idle
      /\ landing = {} /\ barrier = NoBarrier /\ spent = [edits |-> 0, faults |-> 0, fresh |-> 2] /\ exempt = {}
    BY DEF PipelineInit
<1>2. link = [NoLink EXCEPT !.id = 1, !.last = 1]
    BY DEF PipelineInit
<1>3. /\ DOMAIN link = LinkField /\ link.id = 1 /\ link.last = 1 /\ link.lost = {} /\ link.queue = <<>> /\ link.pushed = 0
      /\ link.taken = 0 /\ link.settled = 0 /\ link.bridge = "idle" /\ link.socket = <<>>
    BY <1>2 DEF NoLink, LinkField
<1>4. ContentsTyped
    BY <1>1 DEF ContentsTyped
<1>5. WatcherTyped
    <2>1. /\ pass = [pc |-> pass.pc, late |-> pass.late, writing |-> pass.writing, emits |-> pass.emits]
          /\ pass.pc = "idle" /\ pass.late = FALSE /\ pass.writing = FALSE /\ pass.emits = {}
        BY <1>1 DEF NoPass
    <2>2. flushed = FALSE /\ raw = {} /\ held = {} /\ events \in Seq(Path)
        BY <1>1
    <2> QED
        BY <2>1, <2>2, FS_EmptySet DEF WatcherTyped
<1>6. ProcessorTyped
    BY <1>1 DEF ProcessorTyped, Idle
<1>7. LinkTyped
    BY <1>1, <1>3, EmptyLinkTyped DEF LinkTyped
<1>8. DOMAIN barrier = BarrierField /\ barrier.pc = "none" /\ barrier.id = 0 /\ barrier.target = 0 /\ barrier.window = FALSE /\ barrier.quiet = TRUE
    BY <1>1 DEF NoBarrier, BarrierField
<1>9. BarrierTyped
    <2>1. barrier.window \in BOOLEAN /\ barrier.quiet \in BOOLEAN
        BY <1>8, Zenon
    <2> QED
        BY <1>3, <1>8, <2>1 DEF BarrierTyped
<1>10. ASSUME NEW p \in Path
      PROVE  /\ Landing(p) = {} /\ InHand(p) = {} /\ Values(Sent(link.socket), p) = {} /\ Values(link.queue, p) = {}
             /\ Rising(Sent(link.socket), p) /\ Rising(link.queue, p)
             /\ disk[p] = 1 /\ tree[p] = 1 /\ studio[p] = 1 /\ spent.fresh = 2
    <2>1. Landing(p) = {} /\ InHand(p) = {} /\ disk[p] = 1 /\ tree[p] = 1 /\ studio[p] = 1 /\ spent.fresh = 2
        BY <1>1, <1>3 DEF Landing, InHand
    <2>2. Sent(link.socket) = <<>> /\ \A s : s = <<>> => Values(s, p) = {} /\ Rising(s, p)
        BY <1>3 DEF Sent, Values, Rising
    <2> QED
        BY <1>3, <2>1, <2>2
<1>11. StreamInv
    BY <1>10 DEF StreamInv, InOrder, OnItsWay, Chain, Below
<1>12. EditsInv /\ QuietInv /\ LinkOfBarrier /\ PromiseInv /\ NotYet /\ StageInv
    <2>1. ~Active /\ ~pass.writing /\ ~pass.late /\ processor.pc = "idle" /\ Len(link.socket) = 0
        BY <1>1, <1>3, <1>8 DEF Active, NoPass, Idle
    <2>2. EditsInv
        BY <1>1 DEF EditsInv
    <2>3. QuietInv /\ LinkOfBarrier /\ PromiseInv
        BY <2>1 DEF QuietInv, LinkOfBarrier, PromiseInv
    <2>4. NotYet
        BY <1>1, <1>8, <2>1 DEF NotYet
    <2>5. StageInv
        BY <2>1 DEF StageInv
    <2> QED
        BY <2>2, <2>3, <2>4, <2>5
<1> QED
    BY <1>4, <1>5, <1>6, <1>7, <1>9, <1>11, <1>12 DEF PipelineInv, Base, LinkInv

LEMMA PipelineStep ==
    ASSUME PipelineInv, [PipelineNext]_pipelineVars
    PROVE  PipelineInv'
<1>1. Base /\ EditsInv /\ QuietInv /\ LinkOfBarrier /\ NotYet /\ StageInv
    BY DEF PipelineInv
<1> QED
    BY <1>1, BaseStep, EditsStep, QuietStep, LinkOfBarrierStep, NotYetStep, StageStep, PromiseStep DEF PipelineInv

\* When wait-synced reports success for a barrier that no write of the daemon's own
\* disturbed, Studio holds every edit finished before it was called, save those of paths
\* Studio wrote itself and those lost with an earlier link (run_barrier of
\* src/server/synced.rs, over the debouncer, the processor's fence, the queue's flow
\* accounting and the plugin's sync_barrier)
THEOREM WaitSyncedIsTrue == PipelineSpec => []QuietBarrierDelivers
<1>1. PipelineInit => PipelineInv
    BY PipelineInitInv
<1>2. PipelineInv /\ [PipelineNext]_pipelineVars => PipelineInv'
    BY PipelineStep
<1>3. PipelineInv => QuietBarrierDelivers
    BY DEF PipelineInv, PromiseInv, Promised, StudioHas, QuietBarrierDelivers, Active, Base, BarrierTyped, ContentsTyped
<1> QED
    BY <1>1, <1>2, <1>3, PTL DEF PipelineSpec
=============================================================================
