---------------------------- MODULE SessionProofs ----------------------------
(***************************************************************************)
(* Connects, the crash marker and what the base records, for every tree,   *)
(* every number of connections, edits and crashes.                         *)
(*                                                                         *)
(* Links       both ends of a connection agree how far it is, and only the *)
(*             plugin's own one is alive                                   *)
(* Connecting  every task has the plugin that waits for it, and a task     *)
(*             that changes something is the last connect begun            *)
(* Covered     its marker is there, and nobody is about to remove it       *)
(*             (ConnectsAreMarked)                                         *)
(* Safe        safe mode lasts until someone resumes (CrashesDoNotLoop)    *)
(* OneLink,    the slot has one owner, and a snapshot the writer holds was *)
(* WriterInv   taken on that connection (SnapshotsOfOneConnection)         *)
(* Flowing     the base and its file say only what was delivered, and both *)
(*             sides are the same but for what is on its way               *)
(*             (RecordedWasDelivered, ConnectsEndInSync, AppliesKeepDisk)  *)
(*                                                                         *)
(* The theorems name the races they exclude.                               *)
(***************************************************************************)
EXTENDS SyncSession, PlanProofs

\* The crash guard's steps leave everything else alone
LEMMA GuardRests ==
    Guard => UNCHANGED <<disk, generation, backlog, base, file, slot, conns, tasks, writer, plugin,
                         studio, held, sawOn>>
BY DEF Guard, ResumeByHand, SettleElapses, MarkerGoes, history

PluginPhase == {"offline", "redial", "hello", "rehello", "ready", "fetched", "waiting", "live"}

PluginShaped ==
    /\ plugin = [phase |-> plugin.phase, conn |-> plugin.conn, place |-> plugin.place, seen |-> plugin.seen]
    /\ plugin.phase \in PluginPhase /\ plugin.conn \in Conn \cup {0}

ConnPhase == {"none", "claimed", "open", "closing", "released", "unsubscribed", "gone"}

ConnShaped(c) ==
    /\ conns[c] = [phase |-> conns[c].phase, alive |-> conns[c].alive, queue |-> conns[c].queue]
    /\ conns[c].phase \in ConnPhase /\ conns[c].alive \in BOOLEAN

ConnsShaped == conns = [c \in Conn |-> conns[c]] /\ \A c \in Conn : ConnShaped(c)

\* Only the plugin's own connection is alive, and both ends agree how far it is
LinkInv ==
    /\ \A c \in Conn : conns[c].alive =>
          /\ c = plugin.conn
          /\ \/ conns[c].phase = "claimed" /\ plugin.phase \in {"hello", "rehello"}
             \/ conns[c].phase = "open" /\ plugin.phase \in {"ready", "fetched", "waiting", "live"}
    /\ plugin.phase \notin {"offline", "redial"} => plugin.conn \in Conn /\ conns[plugin.conn].alive

Links == PluginShaped /\ ConnsShaped /\ LinkInv

-----------------------------------------------------------------------------
(* Connections *)

LEMMA ConnIsNat == Conn \subseteq Nat \ {0}
BY SyncSessionAssumption DEF Conn, SyncSessionAssumption

\* Ends of a step: how the connection c and the plugin stand after it
LEMMA LinkInit == Init => Links
<1> SUFFICES ASSUME Init PROVE Links
    OBVIOUS
<1>1. conns = [c \in Conn |-> [phase |-> "none", alive |-> FALSE, queue |-> << >>]]
    BY DEF Init
<1>2. ConnsShaped /\ \A c \in Conn : conns[c].alive = FALSE
    BY <1>1 DEF ConnsShaped, ConnShaped, ConnPhase
<1>3. PICK pl \in Place : plugin = [phase |-> "offline", conn |-> 0, place |-> pl, seen |-> << >>]
    BY DEF Init
<1>4. PluginShaped /\ plugin.phase = "offline"
    BY <1>3 DEF PluginShaped, PluginPhase
<1> QED BY <1>2, <1>4 DEF Links, LinkInv

\* A step that changes neither how far a connection is nor what the plugin does
LEMMA LinksKept ==
    ASSUME Links, PluginShaped', ConnsShaped',
           plugin'.phase = plugin.phase, plugin'.conn = plugin.conn,
           \A c \in Conn : conns'[c].phase = conns[c].phase /\ conns'[c].alive = conns[c].alive
    PROVE  Links'
BY DEF Links, LinkInv

\* Frames change no connection
LEMMA QueuesShaped ==
    ASSUME ConnsShaped, NEW C, NEW frames, conns' = Queued(C, frames)
    PROVE  /\ ConnsShaped'
           /\ \A c \in Conn : conns'[c].phase = conns[c].phase /\ conns'[c].alive = conns[c].alive
<1>1. ASSUME NEW c \in Conn
      PROVE  /\ conns'[c].phase = conns[c].phase /\ conns'[c].alive = conns[c].alive
             /\ ConnShaped(c)'
    <2>1. conns'[c] = IF c \in C THEN [conns[c] EXCEPT !.queue = @ \o frames] ELSE conns[c]
        BY DEF Queued
    <2>2. ConnShaped(c)
        BY DEF ConnsShaped
    <2> QED BY <2>1, <2>2 DEF ConnShaped
<1>2. conns' = [c \in Conn |-> conns'[c]]
    BY DEF Queued
<1> QED BY <1>1, <1>2 DEF ConnsShaped

\* One connection changes
LEMMA ConnSet ==
    ASSUME ConnsShaped, NEW c \in Conn, NEW x,
           x = [phase |-> x.phase, alive |-> x.alive, queue |-> x.queue],
           x.phase \in ConnPhase, x.alive \in BOOLEAN,
           conns' = [conns EXCEPT ![c] = x]
    PROVE  /\ ConnsShaped' /\ conns'[c] = x
           /\ \A d \in Conn \ {c} : conns'[d] = conns[d]
<1>1. DOMAIN conns = Conn
    BY DEF ConnsShaped
<1>2. conns'[c] = x /\ \A d \in Conn \ {c} : conns'[d] = conns[d]
    BY <1>1
<1>3. conns' = [d \in Conn |-> conns'[d]]
    BY <1>1 DEF ConnsShaped
<1>4. ASSUME NEW d \in Conn PROVE ConnShaped(d)'
    BY <1>2 DEF ConnsShaped, ConnShaped
<1> QED BY <1>2, <1>3, <1>4 DEF ConnsShaped

LEMMA PhaseSet ==
    ASSUME ConnsShaped, NEW c \in Conn, NEW phase \in ConnPhase,
           conns' = [conns EXCEPT ![c].phase = phase]
    PROVE  /\ ConnsShaped' /\ conns'[c].phase = phase /\ conns'[c].alive = conns[c].alive
           /\ \A d \in Conn \ {c} : conns'[d] = conns[d]
<1> DEFINE x == [conns[c] EXCEPT !.phase = phase]
<1>1. ConnShaped(c)
    BY DEF ConnsShaped
<1>2. /\ x = [phase |-> x.phase, alive |-> x.alive, queue |-> x.queue]
      /\ x.phase = phase /\ x.alive = conns[c].alive /\ x.alive \in BOOLEAN
    BY <1>1 DEF ConnShaped
<1>3. PICK y : y = x
    OBVIOUS
<1>4. conns' = [conns EXCEPT ![c] = y]
    BY <1>3
<1> HIDE DEF x
<1> QED BY <1>2, <1>3, <1>4, ConnSet

LEMMA AliveSet ==
    ASSUME ConnsShaped, NEW c \in Conn, NEW up \in BOOLEAN, conns' = [conns EXCEPT ![c].alive = up]
    PROVE  /\ ConnsShaped' /\ conns'[c].phase = conns[c].phase /\ conns'[c].alive = up
           /\ \A d \in Conn \ {c} : conns'[d] = conns[d]
<1> DEFINE x == [conns[c] EXCEPT !.alive = up]
<1>1. ConnShaped(c)
    BY DEF ConnsShaped
<1>a. x = [phase |-> conns[c].phase, alive |-> up, queue |-> conns[c].queue]
    BY <1>1 DEF ConnShaped
<1>2. /\ x = [phase |-> x.phase, alive |-> x.alive, queue |-> x.queue]
      /\ x.phase = conns[c].phase /\ x.phase \in ConnPhase /\ x.alive = up
    BY <1>a, <1>1 DEF ConnShaped
<1>3. PICK y : y = x
    OBVIOUS
<1>4. conns' = [conns EXCEPT ![c] = y]
    BY <1>3
<1> HIDE DEF x
<1> QED BY <1>2, <1>3, <1>4, ConnSet

LEMMA Hangup ==
    ASSUME ConnsShaped, NEW c \in Conn, conns' = [conns EXCEPT ![c].alive = FALSE]
    PROVE  /\ ConnsShaped' /\ conns'[c].phase = conns[c].phase /\ conns'[c].alive = FALSE
           /\ \A d \in Conn \ {c} : conns'[d] = conns[d]
<1>1. PICK up \in BOOLEAN : up = FALSE
    OBVIOUS
<1> QED BY <1>1, AliveSet, Zenon

LEMMA PluginSet ==
    ASSUME PluginShaped, NEW phase \in PluginPhase, plugin' = [plugin EXCEPT !.phase = phase]
    PROVE  PluginShaped' /\ plugin'.phase = phase /\ plugin'.conn = plugin.conn
BY DEF PluginShaped

LEMMA PluginSees ==
    ASSUME PluginShaped, NEW phase \in PluginPhase, NEW seen,
           plugin' = [plugin EXCEPT !.phase = phase, !.seen = seen]
    PROVE  PluginShaped' /\ plugin'.phase = phase /\ plugin'.conn = plugin.conn
BY DEF PluginShaped

LEMMA LinksUnchanged == Links /\ UNCHANGED <<plugin, conns>> => Links'
BY DEF Links, LinkInv, PluginShaped, ConnsShaped, ConnShaped

LEMMA LinksDiskEdit ==
    ASSUME Links, NEW p \in Path, NEW t, DiskEdit(p, t) PROVE Links'
<1>1. plugin' = plugin /\ conns' = Queued(Subscribed, <<[path |-> p, content |-> Get(t, p)]>>)
    BY DEF DiskEdit
<1>2. PluginShaped' /\ PluginShaped /\ ConnsShaped
    BY <1>1 DEF Links, PluginShaped
<1> QED BY <1>1, <1>2, QueuesShaped, LinksKept

LEMMA LinksOpenPlace ==
    ASSUME Links, NEW place \in Place, OpenPlace(place) PROVE Links'
<1>1. plugin' = [plugin EXCEPT !.place = place] /\ conns' = conns /\ PluginShaped /\ ConnsShaped
    BY DEF OpenPlace, daemon, Links
<1>2. PluginShaped' /\ plugin'.phase = plugin.phase /\ plugin'.conn = plugin.conn
    BY <1>1 DEF PluginShaped
<1>3. ConnsShaped'
    BY <1>1 DEF ConnsShaped, ConnShaped
<1> QED BY <1>1, <1>2, <1>3, LinksKept

LEMMA LinksDial ==
    ASSUME Links, NEW c \in Conn, Dial(c) PROVE Links'
<1> DEFINE phase == IF plugin.phase = "redial" THEN "rehello" ELSE "hello"
<1>1. /\ plugin' = [plugin EXCEPT !.conn = c, !.phase = phase] /\ PluginShaped /\ ConnsShaped
      /\ plugin.phase \in {"offline", "redial"}
      /\ conns' = [conns EXCEPT ![c] = [phase |-> "claimed", alive |-> TRUE, queue |-> << >>]]
    BY DEF Dial, Links
<1>2. PluginShaped' /\ plugin'.phase \in {"hello", "rehello"} /\ plugin'.conn = c
    BY <1>1 DEF PluginShaped, PluginPhase
<1>3. PICK x : x = [phase |-> "claimed", alive |-> TRUE, queue |-> << >>]
    OBVIOUS
<1>4. /\ x.phase = "claimed" /\ x.alive = TRUE /\ x.phase \in ConnPhase
      /\ x = [phase |-> x.phase, alive |-> x.alive, queue |-> x.queue]
    BY <1>3 DEF ConnPhase
<1>5. conns' = [conns EXCEPT ![c] = x]
    BY <1>1, <1>3
<1>6. ConnsShaped' /\ conns'[c] = x /\ \A d \in Conn \ {c} : conns'[d] = conns[d]
    BY <1>1, <1>4, <1>5, ConnSet
<1>7. \A d \in Conn : ~conns[d].alive
    BY <1>1 DEF Links, LinkInv
<1> HIDE DEF phase
<1> QED BY <1>2, <1>4, <1>6, <1>7 DEF Links, LinkInv

LEMMA LinksOpen ==
    ASSUME Links, NEW c \in Conn, Open(c) PROVE Links'
<1> DEFINE phase == IF plugin.phase = "rehello" THEN "live" ELSE "ready"
<1>1. /\ plugin' = [plugin EXCEPT !.phase = phase] /\ PluginShaped /\ ConnsShaped
      /\ conns[c].alive /\ conns' = [conns EXCEPT ![c].phase = "open"]
    BY DEF Open, Links
<1>2. phase \in PluginPhase /\ "open" \in ConnPhase
    BY DEF PluginPhase, ConnPhase
<1>3. PluginShaped' /\ plugin'.phase = phase /\ plugin'.conn = plugin.conn
    BY <1>1, <1>2, PluginSet
<1>4. /\ ConnsShaped' /\ conns'[c].phase = "open" /\ conns'[c].alive = conns[c].alive
      /\ \A d \in Conn \ {c} : conns'[d] = conns[d]
    BY <1>1, <1>2, PhaseSet
<1>5. c = plugin.conn
    BY <1>1 DEF Links, LinkInv
<1> QED BY <1>1, <1>3, <1>4, <1>5 DEF Links, LinkInv

LEMMA LinksDrop ==
    ASSUME Links, NEW c \in Conn, NEW next \in {"redial", "offline"}, LinkDrops(c, next) PROVE Links'
<1>1. /\ plugin' = [plugin EXCEPT !.phase = next] /\ PluginShaped /\ ConnsShaped
      /\ conns[c].alive /\ conns' = [conns EXCEPT ![c].alive = FALSE] /\ next \in PluginPhase
    BY DEF LinkDrops, Links, PluginPhase
<1>2. PluginShaped' /\ plugin'.phase = next /\ plugin'.conn = plugin.conn
    BY <1>1, PluginSet
<1>3. /\ ConnsShaped' /\ conns'[c].alive = FALSE
      /\ \A d \in Conn \ {c} : conns'[d] = conns[d]
    BY <1>1, Hangup
<1>4. \A d \in Conn \ {c} : ~conns[d].alive
    BY <1>1 DEF Links, LinkInv
<1> QED BY <1>2, <1>3, <1>4 DEF Links, LinkInv

\* A connection that is dead goes one phase on
LEMMA LinksDeadGoes ==
    ASSUME Links, NEW c \in Conn, NEW phase \in ConnPhase, ~conns[c].alive,
           UNCHANGED plugin, conns' = [conns EXCEPT ![c].phase = phase]
    PROVE  Links'
<1>1. /\ ConnsShaped' /\ conns'[c].alive = conns[c].alive
      /\ \A d \in Conn \ {c} : conns'[d] = conns[d]
    BY PhaseSet DEF Links
<1>2. PluginShaped'
    BY DEF Links, PluginShaped
<1> QED BY <1>1, <1>2 DEF Links, LinkInv

LEMMA DeadPhase ==
    ASSUME Links, NEW c \in Conn, conns[c].phase \notin {"claimed", "open"} PROVE ~conns[c].alive
BY DEF Links, LinkInv

\* A connection whose queue changes
LEMMA RequeuedConn ==
    ASSUME NEW r, NEW queue, r = [phase |-> r.phase, alive |-> r.alive, queue |-> r.queue]
    PROVE  [r EXCEPT !.queue = queue] = [phase |-> r.phase, alive |-> r.alive, queue |-> queue]
OBVIOUS

LEMMA UnsubscribedConn ==
    ASSUME NEW r, NEW phase, NEW queue,
           r = [phase |-> r.phase, alive |-> r.alive, queue |-> r.queue]
    PROVE  [r EXCEPT !.phase = phase, !.queue = queue]
               = [phase |-> phase, alive |-> r.alive, queue |-> queue]
<1> DEFINE half == [r EXCEPT !.phase = phase]
<1>1. half = [phase |-> phase, alive |-> r.alive, queue |-> r.queue]
    OBVIOUS
<1>2. half = [phase |-> half.phase, alive |-> half.alive, queue |-> half.queue]
    BY <1>1
<1>3. half.phase = phase /\ half.alive = r.alive
    BY <1>1
<1> HIDE DEF half
<1>4. [half EXCEPT !.queue = queue] = [phase |-> phase, alive |-> r.alive, queue |-> queue]
    BY <1>2, <1>3, RequeuedConn
<1> QED BY <1>4 DEF half

LEMMA UnsubscribeShaped ==
    ASSUME ConnsShaped, NEW c \in Conn,
           conns' = [conns EXCEPT ![c].phase = "unsubscribed", ![c].queue = << >>]
    PROVE  /\ ConnsShaped' /\ conns'[c].phase = "unsubscribed" /\ conns'[c].alive = conns[c].alive
           /\ \A d \in Conn \ {c} : conns'[d] = conns[d]
<1> DEFINE x == [phase |-> "unsubscribed", alive |-> conns[c].alive, queue |-> << >>]
<1>1. ConnShaped(c) /\ DOMAIN conns = Conn
    BY DEF ConnsShaped
<1>2. [conns[c] EXCEPT !.phase = "unsubscribed", !.queue = << >>] = x
    BY <1>1, UnsubscribedConn, Zenon DEF ConnShaped
<1>3. conns' = [conns EXCEPT ![c] = x]
    BY <1>1, <1>2
<1>4. PICK y : y = x
    OBVIOUS
<1>5. /\ y = [phase |-> y.phase, alive |-> y.alive, queue |-> y.queue]
      /\ y.phase = "unsubscribed" /\ y.phase \in ConnPhase
      /\ y.alive = conns[c].alive /\ y.alive \in BOOLEAN
    BY <1>1, <1>4 DEF ConnShaped, ConnPhase
<1>6. conns' = [conns EXCEPT ![c] = y]
    BY <1>3, <1>4
<1> HIDE DEF x
<1> QED BY <1>5, <1>6, ConnSet

LEMMA LinksCleanup ==
    ASSUME Links, Cleanup PROVE Links'
<1>1. PICK c \in Conn : LoopEnds(c) \/ Release(c) \/ Unsubscribe(c) \/ Disconnected(c)
    BY DEF Cleanup
<1>2. UNCHANGED plugin
    BY <1>1 DEF LoopEnds, Release, Unsubscribe, Disconnected
<1>3. {"closing", "released", "gone"} \subseteq ConnPhase
    BY DEF ConnPhase
<1>4. CASE LoopEnds(c)
    <2>1. ~conns[c].alive /\ conns' = [conns EXCEPT ![c].phase = "closing"]
        BY <1>4 DEF LoopEnds
    <2> QED BY <1>2, <1>3, <2>1, LinksDeadGoes
<1>5. CASE Release(c)
    <2>1. conns[c].phase = "closing" /\ conns' = [conns EXCEPT ![c].phase = "released"]
        BY <1>5 DEF Release
    <2> QED BY <1>2, <1>3, <2>1, LinksDeadGoes, DeadPhase
<1>6. CASE Unsubscribe(c)
    <2>1. /\ conns[c].phase = "released"
          /\ conns' = [conns EXCEPT ![c].phase = "unsubscribed", ![c].queue = << >>]
        BY <1>6 DEF Unsubscribe
    <2>2. ~conns[c].alive
        BY <2>1, DeadPhase
    <2>3. /\ ConnsShaped' /\ conns'[c].alive = conns[c].alive
          /\ \A d \in Conn \ {c} : conns'[d] = conns[d]
        BY <2>1, UnsubscribeShaped DEF Links
    <2>4. PluginShaped'
        BY <1>2 DEF Links, PluginShaped
    <2> QED BY <1>2, <2>2, <2>3, <2>4 DEF Links, LinkInv
<1>7. CASE Disconnected(c)
    <2>1. conns[c].phase = "unsubscribed" /\ conns' = [conns EXCEPT ![c].phase = "gone"]
        BY <1>7 DEF Disconnected
    <2> QED BY <1>2, <1>3, <2>1, LinksDeadGoes, DeadPhase
<1> QED BY <1>1, <1>4, <1>5, <1>6, <1>7

LEMMA LinksFetch ==
    ASSUME Links, Fetch PROVE Links'
<1>1. /\ plugin.phase = "ready" /\ conns' = conns
      /\ plugin' = [plugin EXCEPT !.phase = "fetched", !.seen = disk] /\ "fetched" \in PluginPhase
    BY DEF Fetch, daemon, PluginPhase
<1>2. PluginShaped' /\ plugin'.phase = "fetched" /\ plugin'.conn = plugin.conn
    BY <1>1, PluginSees DEF Links
<1>3. ConnsShaped'
    BY <1>1 DEF Links, ConnsShaped, ConnShaped
<1> QED BY <1>1, <1>2, <1>3 DEF Links, LinkInv

LEMMA LinksCompare ==
    ASSUME Links, NEW named, NEW written, Compare(named, written) PROVE Links'
<1>1. /\ plugin.phase = "fetched" /\ conns' = conns
      /\ plugin' = [plugin EXCEPT !.phase = "waiting", !.seen = << >>] /\ "waiting" \in PluginPhase
    BY DEF Compare, PluginPhase
<1>2. PluginShaped' /\ plugin'.phase = "waiting" /\ plugin'.conn = plugin.conn
    BY <1>1, PluginSees DEF Links
<1>3. ConnsShaped'
    BY <1>1 DEF Links, ConnsShaped, ConnShaped
<1> QED BY <1>1, <1>2, <1>3 DEF Links, LinkInv

\* The plugin gives its connection up
LEMMA LinksGivenUp ==
    ASSUME Links, PluginShaped', plugin.phase \notin {"offline", "redial"},
           plugin'.phase = "offline", plugin'.conn = plugin.conn,
           conns' = [conns EXCEPT ![plugin.conn].alive = FALSE]
    PROVE  Links'
<1>1. PICK c \in Conn : c = plugin.conn
    BY DEF Links, LinkInv
<1>2. conns' = [conns EXCEPT ![c].alive = FALSE]
    BY <1>1
<1>3. /\ ConnsShaped' /\ conns'[c].alive = FALSE
      /\ \A d \in Conn \ {c} : conns'[d] = conns[d]
    BY <1>2, Hangup DEF Links
<1>4. \A d \in Conn \ {c} : ~conns[d].alive
    BY <1>1 DEF Links, LinkInv
<1> QED BY <1>3, <1>4 DEF Links, LinkInv

LEMMA LinksRefuse ==
    ASSUME Links, NEW named, Refuse(named) PROVE Links'
<1>1. /\ plugin.phase = "fetched" /\ "offline" \in PluginPhase
      /\ conns' = [conns EXCEPT ![plugin.conn].alive = FALSE]
      /\ plugin' = [plugin EXCEPT !.phase = "offline", !.seen = << >>]
    BY DEF Refuse, PluginPhase
<1>2. PluginShaped' /\ plugin'.phase = "offline" /\ plugin'.conn = plugin.conn
    BY <1>1, PluginSees DEF Links
<1> QED BY <1>1, <1>2, LinksGivenUp

LEMMA LinksApplyFails ==
    ASSUME Links, NEW k, ApplyFails(k) PROVE Links'
<1>1. CASE plugin.conn = k /\ plugin.phase = "waiting"
    <2>1. /\ "offline" \in PluginPhase /\ conns' = [conns EXCEPT ![plugin.conn].alive = FALSE]
          /\ plugin' = [plugin EXCEPT !.phase = "offline"]
        BY <1>1 DEF ApplyFails, PluginPhase
    <2>2. PluginShaped' /\ plugin'.phase = "offline" /\ plugin'.conn = plugin.conn
        BY <2>1, PluginSet DEF Links
    <2> QED BY <1>1, <2>1, <2>2, LinksGivenUp
<1>2. CASE ~(plugin.conn = k /\ plugin.phase = "waiting")
    <2>1. UNCHANGED <<plugin, conns>>
        BY <1>2 DEF ApplyFails
    <2> QED BY <2>1, LinksUnchanged
<1> QED BY <1>1, <1>2

LEMMA LinksCommitBase ==
    ASSUME Links, NEW k, NEW saved, CommitBase(k, saved) PROVE Links'
<1>1. CASE plugin.conn = k /\ plugin.phase = "waiting"
    <2>1. /\ "live" \in PluginPhase /\ conns' = conns
          /\ plugin' = [plugin EXCEPT !.phase = "live"]
        BY <1>1 DEF CommitBase, PluginPhase
    <2>2. PluginShaped' /\ plugin'.phase = "live" /\ plugin'.conn = plugin.conn
        BY <2>1, PluginSet DEF Links
    <2>3. ConnsShaped'
        BY <2>1 DEF Links, ConnsShaped, ConnShaped
    <2> QED BY <1>1, <2>1, <2>2, <2>3 DEF Links, LinkInv
<1>2. CASE ~(plugin.conn = k /\ plugin.phase = "waiting")
    <2>1. UNCHANGED <<plugin, conns>>
        BY <1>2 DEF CommitBase
    <2> QED BY <2>1, LinksUnchanged
<1> QED BY <1>1, <1>2

LEMMA LinksPush ==
    ASSUME Links, NEW k, Push(k) PROVE Links'
<1>1. /\ plugin' = plugin
      /\ \E C, frames : conns' = Queued(C, frames)
    BY Zenon DEF Push
<1>2. PluginShaped' /\ PluginShaped /\ ConnsShaped
    BY <1>1 DEF Links, PluginShaped
<1> QED BY <1>1, <1>2, QueuesShaped, LinksKept

LEMMA LinksDeliver ==
    ASSUME Links, Deliver PROVE Links'
<1>1. /\ plugin' = plugin /\ plugin.phase = "live"
      /\ conns' = [conns EXCEPT ![plugin.conn].queue = Tail(@)]
    BY DEF Deliver
<1>2. PluginShaped' /\ PluginShaped /\ ConnsShaped
    BY <1>1 DEF Links, PluginShaped
<1>3. PICK c \in Conn : c = plugin.conn
    BY <1>1 DEF Links, LinkInv
<1>4. conns' = [conns EXCEPT ![c] = [conns[c] EXCEPT !.queue = Tail(conns[c].queue)]]
    BY <1>1, <1>3
<1> DEFINE x == [conns[c] EXCEPT !.queue = Tail(conns[c].queue)]
<1>5. ConnShaped(c)
    BY <1>2 DEF ConnsShaped
<1>a. x = [phase |-> conns[c].phase, alive |-> conns[c].alive, queue |-> Tail(conns[c].queue)]
    BY <1>5, RequeuedConn, Zenon DEF ConnShaped
<1>6. /\ x = [phase |-> x.phase, alive |-> x.alive, queue |-> x.queue]
      /\ x.phase = conns[c].phase /\ x.alive = conns[c].alive
      /\ x.phase \in ConnPhase /\ x.alive \in BOOLEAN
    BY <1>a, <1>5 DEF ConnShaped
<1>7. PICK y : y = x
    OBVIOUS
<1>8. conns' = [conns EXCEPT ![c] = y]
    BY <1>4, <1>7
<1> HIDE DEF x
<1>9. ConnsShaped' /\ conns'[c] = y /\ \A d \in Conn \ {c} : conns'[d] = conns[d]
    BY <1>2, <1>6, <1>7, <1>8, ConnSet
<1> QED BY <1>1, <1>2, <1>6, <1>7, <1>9, LinksKept

LEMMA LinksRestart ==
    ASSUME Links, NEW graceful, Restart(graceful) PROVE Links'
<1>1. /\ plugin' = [plugin EXCEPT !.phase = "offline", !.seen = << >>] /\ "offline" \in PluginPhase
      /\ conns' = [c \in Conn |-> IF conns[c].phase = "none" THEN conns[c]
                                  ELSE [phase |-> "gone", alive |-> FALSE, queue |-> << >>]]
    BY DEF Restart, PluginPhase
<1>2. PluginShaped' /\ plugin'.phase = "offline" /\ plugin'.conn = plugin.conn
    BY <1>1, PluginSees DEF Links
<1>3. ASSUME NEW c \in Conn PROVE ConnShaped(c)' /\ ~conns'[c].alive
    <2>1. CASE conns[c].phase = "none"
        <3>1. conns'[c] = conns[c] /\ ConnShaped(c)
            BY <1>1, <2>1 DEF Links, ConnsShaped
        <3> QED BY <2>1, <3>1, DeadPhase DEF ConnShaped
    <2>2. CASE conns[c].phase # "none"
        <3>1. conns'[c] = [phase |-> "gone", alive |-> FALSE, queue |-> << >>]
            BY <1>1, <2>2
        <3> QED BY <3>1 DEF ConnShaped, ConnPhase
    <2> QED BY <2>1, <2>2
<1>4. conns' = [c \in Conn |-> conns'[c]]
    BY <1>1
<1> QED BY <1>2, <1>3, <1>4 DEF Links, LinkInv, ConnsShaped

LEMMA LinksStep == Links /\ [Next]_vars => Links'
<1> SUFFICES ASSUME Links, [Next]_vars PROVE Links'
    OBVIOUS
<1>1. CASE Users
    <2>1. ASSUME NEW p \in Path, NEW t, StudioEdit(p, t) PROVE UNCHANGED <<plugin, conns>>
        BY <2>1 DEF StudioEdit, daemon
    <2> QED BY <1>1, <2>1, LinksDiskEdit, LinksOpenPlace, LinksUnchanged DEF Users
<1>2. CASE Cleanup
    BY <1>2, LinksCleanup
<1>3. CASE Connects
    <2>1. ASSUME NEW k, Apply(k) \/ Snap(k) PROVE UNCHANGED <<plugin, conns>>
        BY <2>1 DEF Apply, Snap
    <2> QED BY <1>3, <2>1, LinksOpen, LinksFetch, LinksRefuse, LinksCompare, LinksApplyFails, LinksPush,
               LinksCommitBase, LinksUnchanged DEF Connects
<1>4. CASE Deliver
    BY <1>4, LinksDeliver
<1>5. CASE Writer \/ Guard
    <2>1. UNCHANGED <<plugin, conns>>
        BY <1>5, GuardRests DEF Writer, Sample, TickCommits, Take, Store
    <2> QED BY <2>1, LinksUnchanged
<1>6. CASE \E graceful \in BOOLEAN : Restart(graceful)
    BY <1>6, LinksRestart
<1>7. CASE \E c \in Conn : Dial(c) \/ \E next \in {"redial", "offline"} : LinkDrops(c, next)
    BY <1>7, LinksDial, LinksDrop
<1>8. CASE UNCHANGED vars
    BY <1>8, LinksUnchanged DEF vars
<1> QED BY <1>1, <1>2, <1>3, <1>4, <1>5, <1>6, <1>7, <1>8 DEF Next

-----------------------------------------------------------------------------
(* The connect in progress *)

TaskShaped(k) ==
    tasks[k] = [stage |-> tasks[k].stage, winners |-> tasks[k].winners, fence |-> tasks[k].fence,
                pushed |-> tasks[k].pushed, snapshot |-> tasks[k].snapshot,
                takenAt |-> tasks[k].takenAt, mark |-> tasks[k].mark]

TasksShaped == tasks = [k \in DOMAIN tasks |-> tasks[k]] /\ \A k \in DOMAIN tasks : TaskShaped(k)

\* The plugin waits for the connect, on its connection
Awaited == \A k \in DOMAIN tasks : k = plugin.conn /\ plugin.phase = "waiting"

GuardField == {"marker", "safe", "generation", "settling", "unlinking"}

IsGuard(g) ==
    /\ DOMAIN g = GuardField
    /\ g.marker \in BOOLEAN /\ g.safe \in BOOLEAN
    /\ g.generation \in Nat /\ g.settling \subseteq 1 .. g.generation

\* A connect with differences is the last one begun, outside safe mode, and has not
\* settled
Begun(k) ==
    /\ tasks[k].stage = "apply" => Differences(k)
    /\ Differences(k) => /\ guard.safe = FALSE
                         /\ tasks[k].mark = guard.generation /\ guard.generation > 0
                         /\ guard.generation \notin guard.settling

GuardInv ==
    /\ IsGuard(guard)
    /\ guard.safe = TRUE => guard.generation = 0
    /\ \A k \in DOMAIN tasks : Begun(k)

Connecting == TasksShaped /\ Awaited /\ GuardInv

\* The marker of the connect at risk is there and nobody is about to remove it
Covered == Risky => guard.marker = TRUE /\ guard.unlinking = {}

\* No link goes down during a connect; the marker can be written; no connect begins
\* while a settle or a resume is about to remove the marker, and nobody resumes while a
\* connect is at risk
Undisturbed == "lost connect" \notin Races
Writable == "unsaved" \notin Races
Unraced == "late unlink" \notin Races /\ "early resume" \notin Races

LEMMA LoadIsGuard ==
    ASSUME NEW marker \in BOOLEAN
    PROVE  /\ IsGuard(GuardLoad(marker)) /\ GuardLoad(marker).marker = marker
           /\ GuardLoad(marker).safe = marker /\ GuardLoad(marker).generation = 0
           /\ GuardLoad(marker).settling = {} /\ GuardLoad(marker).unlinking = {}
BY DEF IsGuard, GuardField, GuardLoad

LEMMA BeginIsGuard ==
    ASSUME NEW g, IsGuard(g), NEW written \in BOOLEAN
    PROVE  /\ IsGuard(Begin(g, written)) /\ Begin(g, written).safe = g.safe
           /\ Begin(g, written).generation = g.generation + 1
           /\ Begin(g, written).settling = g.settling
           /\ Begin(g, written).unlinking = g.unlinking
           /\ written = TRUE => Begin(g, written).marker = TRUE
<1>1. /\ DOMAIN Begin(g, written) = GuardField /\ Begin(g, written).safe = g.safe
      /\ Begin(g, written).generation = g.generation + 1
      /\ Begin(g, written).settling = g.settling
      /\ Begin(g, written).unlinking = g.unlinking
      /\ Begin(g, written).marker = (g.marker \/ written)
    BY DEF IsGuard, GuardField, Begin
<1>2. g.settling \subseteq 1 .. g.generation + 1
    BY DEF IsGuard
<1> QED BY <1>1, <1>2 DEF IsGuard

LEMMA SettleIsGuard ==
    ASSUME NEW g, IsGuard(g), NEW n \in 1 .. g.generation
    PROVE  /\ IsGuard(Settle(g, n)) /\ Settle(g, n).safe = g.safe
           /\ Settle(g, n).generation = g.generation /\ Settle(g, n).marker = g.marker
           /\ Settle(g, n).unlinking = g.unlinking
BY DEF IsGuard, GuardField, Settle

LEMMA SettledIsGuard ==
    ASSUME NEW g, IsGuard(g), NEW n
    PROVE  /\ IsGuard(Settled(g, n)) /\ Settled(g, n).safe = g.safe
           /\ Settled(g, n).generation = g.generation /\ Settled(g, n).marker = g.marker
           /\ Settled(g, n).settling = g.settling \ {n}
           /\ Settled(g, n).unlinking = g.unlinking \cup ({n} \cap {g.generation})
BY DEF IsGuard, GuardField, Settled

LEMMA ResumeIsGuard ==
    ASSUME NEW g, IsGuard(g)
    PROVE  /\ IsGuard(Resume(g)) /\ Resume(g).safe = FALSE
           /\ Resume(g).generation = g.generation /\ Resume(g).settling = g.settling
BY DEF IsGuard, GuardField, Resume

LEMMA UnlinkIsGuard ==
    ASSUME NEW g, IsGuard(g), NEW n
    PROVE  /\ IsGuard(Unlink(g, n)) /\ Unlink(g, n).safe = g.safe
           /\ Unlink(g, n).generation = g.generation /\ Unlink(g, n).settling = g.settling
BY DEF IsGuard, GuardField, Unlink

LEMMA ConnectingInit == Init => Connecting /\ Covered
<1> SUFFICES ASSUME Init PROVE Connecting /\ Covered
    OBVIOUS
<1>1. tasks = << >> /\ guard = GuardLoad(FALSE) /\ FALSE \in BOOLEAN
    BY DEF Init
<1>2. DOMAIN tasks = {} /\ tasks = [k \in {} |-> tasks[k]]
    BY <1>1
<1>3. /\ IsGuard(guard) /\ guard.safe = FALSE /\ guard.settling = {}
    BY <1>1, LoadIsGuard
<1> QED BY <1>2, <1>3 DEF Connecting, TasksShaped, Awaited, GuardInv, Covered, Risky

\* A step after which every connect is one there was, no further back
LEMMA ConnectingKept ==
    ASSUME Connecting, TasksShaped', Awaited', UNCHANGED guard,
           \A k \in DOMAIN tasks' : /\ k \in DOMAIN tasks
                                    /\ tasks'[k].winners = tasks[k].winners
                                    /\ tasks'[k].mark = tasks[k].mark
                                    /\ tasks'[k].stage = "apply" => tasks[k].stage = "apply"
    PROVE  Connecting'
BY DEF Connecting, GuardInv, Begun, Differences

\* No step but those of a connect changes it
LEMMA ConnectingUnchanged ==
    ASSUME Connecting, UNCHANGED <<tasks, guard>>,
           (plugin'.conn = plugin.conn /\ plugin'.phase = plugin.phase) \/ DOMAIN tasks = {}
    PROVE  Connecting'
BY DEF Connecting, GuardInv, Begun, Differences, TasksShaped, TaskShaped, Awaited

LEMMA NoConnect ==
    ASSUME Connecting, plugin.phase # "waiting" PROVE DOMAIN tasks = {}
BY DEF Connecting, Awaited

\* No connect is new or decides again
WinnersKept ==
    \A j \in DOMAIN tasks' : j \in DOMAIN tasks /\ tasks'[j].winners = tasks[j].winners

\* One connect goes on
LEMMA TaskSet ==
    ASSUME Connecting, NEW k \in DOMAIN tasks, NEW x, UNCHANGED <<guard, plugin>>,
           x = [stage |-> x.stage, winners |-> x.winners, fence |-> x.fence, pushed |-> x.pushed,
                snapshot |-> x.snapshot, takenAt |-> x.takenAt, mark |-> x.mark],
           x.winners = tasks[k].winners, x.mark = tasks[k].mark, x.stage # "apply",
           tasks' = [tasks EXCEPT ![k] = x]
    PROVE  Connecting' /\ WinnersKept
<1>1. DOMAIN tasks' = DOMAIN tasks /\ tasks' = [j \in DOMAIN tasks |-> tasks'[j]]
    BY DEF Connecting, TasksShaped
<1>2. tasks'[k] = x /\ \A j \in DOMAIN tasks \ {k} : tasks'[j] = tasks[j]
    BY DEF Connecting, TasksShaped
<1>3. TasksShaped'
    BY <1>1, <1>2 DEF Connecting, TasksShaped, TaskShaped
<1>4. Awaited'
    BY <1>1 DEF Connecting, Awaited
<1> QED BY <1>1, <1>2, <1>3, <1>4, ConnectingKept DEF WinnersKept

\* A connect with a new stage, and with what it found out
LEMMA StagedTask ==
    ASSUME NEW r, NEW stage,
           r = [stage |-> r.stage, winners |-> r.winners, fence |-> r.fence, pushed |-> r.pushed,
                snapshot |-> r.snapshot, takenAt |-> r.takenAt, mark |-> r.mark]
    PROVE  [r EXCEPT !.stage = stage]
               = [stage |-> stage, winners |-> r.winners, fence |-> r.fence, pushed |-> r.pushed,
                  snapshot |-> r.snapshot, takenAt |-> r.takenAt, mark |-> r.mark]
OBVIOUS

LEMMA PushedTask ==
    ASSUME NEW r, NEW pushed,
           r = [stage |-> r.stage, winners |-> r.winners, fence |-> r.fence, pushed |-> r.pushed,
                snapshot |-> r.snapshot, takenAt |-> r.takenAt, mark |-> r.mark]
    PROVE  [r EXCEPT !.pushed = pushed]
               = [stage |-> r.stage, winners |-> r.winners, fence |-> r.fence, pushed |-> pushed,
                  snapshot |-> r.snapshot, takenAt |-> r.takenAt, mark |-> r.mark]
OBVIOUS

LEMMA DatedTask ==
    ASSUME NEW r, NEW takenAt,
           r = [stage |-> r.stage, winners |-> r.winners, fence |-> r.fence, pushed |-> r.pushed,
                snapshot |-> r.snapshot, takenAt |-> r.takenAt, mark |-> r.mark]
    PROVE  [r EXCEPT !.takenAt = takenAt]
               = [stage |-> r.stage, winners |-> r.winners, fence |-> r.fence, pushed |-> r.pushed,
                  snapshot |-> r.snapshot, takenAt |-> takenAt, mark |-> r.mark]
OBVIOUS

LEMMA SnappedTask ==
    ASSUME NEW r, NEW snapshot,
           r = [stage |-> r.stage, winners |-> r.winners, fence |-> r.fence, pushed |-> r.pushed,
                snapshot |-> r.snapshot, takenAt |-> r.takenAt, mark |-> r.mark]
    PROVE  [r EXCEPT !.snapshot = snapshot]
               = [stage |-> r.stage, winners |-> r.winners, fence |-> r.fence, pushed |-> r.pushed,
                  snapshot |-> snapshot, takenAt |-> r.takenAt, mark |-> r.mark]
OBVIOUS

LEMMA ConnectingApply ==
    ASSUME Connecting, NEW k, Apply(k) PROVE Connecting' /\ WinnersKept
<1>1. PICK pushed : tasks' = [tasks EXCEPT ![k].stage = "push", ![k].pushed = pushed]
    BY Zenon DEF Apply
<1>2. k \in DOMAIN tasks /\ UNCHANGED <<guard, plugin>> /\ TaskShaped(k) /\ TasksShaped
    BY DEF Apply, At, Connecting, TasksShaped
<1> DEFINE half == [tasks[k] EXCEPT !.stage = "push"]
           x == [half EXCEPT !.pushed = pushed]
<1>3. half = [stage |-> "push", winners |-> tasks[k].winners, fence |-> tasks[k].fence,
              pushed |-> tasks[k].pushed, snapshot |-> tasks[k].snapshot,
              takenAt |-> tasks[k].takenAt, mark |-> tasks[k].mark]
    BY <1>2, StagedTask, Zenon DEF TaskShaped
<1>4. tasks' = [tasks EXCEPT ![k] = x]
    BY <1>1, <1>2 DEF TasksShaped
<1>5. PICK h : h = half
    OBVIOUS
<1>6. /\ h = [stage |-> h.stage, winners |-> h.winners, fence |-> h.fence, pushed |-> h.pushed,
              snapshot |-> h.snapshot, takenAt |-> h.takenAt, mark |-> h.mark]
      /\ h.stage = "push" /\ h.winners = tasks[k].winners /\ h.mark = tasks[k].mark
    BY <1>3, <1>5
<1>7. PICK y : y = [h EXCEPT !.pushed = pushed]
    OBVIOUS
<1>8. y = [stage |-> h.stage, winners |-> h.winners, fence |-> h.fence, pushed |-> pushed,
           snapshot |-> h.snapshot, takenAt |-> h.takenAt, mark |-> h.mark]
    BY <1>6, <1>7, PushedTask
<1>9. tasks' = [tasks EXCEPT ![k] = y]
    BY <1>4, <1>5, <1>7
<1> HIDE DEF half, x
<1> QED BY <1>2, <1>6, <1>8, <1>9, TaskSet

LEMMA ConnectingPush ==
    ASSUME Connecting, NEW k, Push(k) PROVE Connecting' /\ WinnersKept
<1>1. tasks' = [tasks EXCEPT ![k].stage = "snap"]
    BY DEF Push
<1>2. k \in DOMAIN tasks /\ UNCHANGED <<guard, plugin>> /\ TaskShaped(k) /\ TasksShaped
    BY DEF Push, At, Connecting, TasksShaped
<1>3. PICK x : x = [tasks[k] EXCEPT !.stage = "snap"]
    OBVIOUS
<1>4. x = [stage |-> "snap", winners |-> tasks[k].winners, fence |-> tasks[k].fence,
           pushed |-> tasks[k].pushed, snapshot |-> tasks[k].snapshot,
           takenAt |-> tasks[k].takenAt, mark |-> tasks[k].mark]
    BY <1>2, <1>3, StagedTask, Zenon DEF TaskShaped
<1>5. tasks' = [tasks EXCEPT ![k] = x]
    BY <1>1, <1>3
<1> QED BY <1>2, <1>4, <1>5, TaskSet

LEMMA ConnectingSnap ==
    ASSUME Connecting, NEW k, Snap(k) PROVE Connecting' /\ WinnersKept
<1>1. PICK snapshot : tasks' = [tasks EXCEPT ![k].stage = "commit", ![k].takenAt = generation,
                                             ![k].snapshot = snapshot]
    BY Zenon DEF Snap
<1>2. k \in DOMAIN tasks /\ UNCHANGED <<guard, plugin>> /\ TaskShaped(k) /\ TasksShaped
    BY DEF Snap, At, Connecting, TasksShaped
<1>3. PICK h : h = [tasks[k] EXCEPT !.stage = "commit"]
    OBVIOUS
<1>4. h = [stage |-> "commit", winners |-> tasks[k].winners, fence |-> tasks[k].fence,
           pushed |-> tasks[k].pushed, snapshot |-> tasks[k].snapshot,
           takenAt |-> tasks[k].takenAt, mark |-> tasks[k].mark]
    BY <1>2, <1>3, StagedTask, Zenon DEF TaskShaped
<1>5. PICK g : g = [h EXCEPT !.takenAt = generation]
    OBVIOUS
<1>6. g = [stage |-> "commit", winners |-> tasks[k].winners, fence |-> tasks[k].fence,
           pushed |-> tasks[k].pushed, snapshot |-> tasks[k].snapshot,
           takenAt |-> generation, mark |-> tasks[k].mark]
    BY <1>4, <1>5, DatedTask
<1>7. PICK x : x = [g EXCEPT !.snapshot = snapshot]
    OBVIOUS
<1>8. x = [stage |-> "commit", winners |-> tasks[k].winners, fence |-> tasks[k].fence,
           pushed |-> tasks[k].pushed, snapshot |-> snapshot,
           takenAt |-> generation, mark |-> tasks[k].mark]
    BY <1>6, <1>7, SnappedTask
<1>9. tasks' = [tasks EXCEPT ![k] = x]
    BY <1>1, <1>2, <1>3, <1>5, <1>7 DEF TasksShaped
<1> QED BY <1>2, <1>8, <1>9, TaskSet

\* The last connect ends
LEMMA ConnectEnds ==
    ASSUME Connecting, NEW k \in DOMAIN tasks, tasks' = Restrict(tasks, DOMAIN tasks \ {k}),
           IsGuard(guard'), guard'.safe = TRUE => guard'.generation = 0
    PROVE  Connecting' /\ DOMAIN tasks' = {}
<1>1. DOMAIN tasks = {k}
    BY DEF Connecting, Awaited
<1>2. DOMAIN tasks' = {} /\ tasks' = [j \in {} |-> tasks'[j]]
    BY <1>1 DEF Restrict
<1> QED BY <1>2 DEF Connecting, TasksShaped, Awaited, GuardInv

LEMMA ConnectingApplyFails ==
    ASSUME Connecting, NEW k, ApplyFails(k) PROVE Connecting'
<1>1. /\ k \in DOMAIN tasks /\ tasks[k].stage = "apply" /\ guard' = Settle(guard, tasks[k].mark)
      /\ tasks' = Restrict(tasks, DOMAIN tasks \ {k})
    BY DEF ApplyFails, At
<1>2. tasks[k].mark \in 1 .. guard.generation /\ IsGuard(guard) /\ guard.safe = FALSE
    BY <1>1 DEF Connecting, GuardInv, Begun, IsGuard
<1>3. IsGuard(guard') /\ guard'.safe = guard.safe
    BY <1>1, <1>2, SettleIsGuard
<1> QED BY <1>1, <1>2, <1>3, ConnectEnds

LEMMA ConnectingCommitBase ==
    ASSUME Connecting, NEW k, NEW saved, CommitBase(k, saved) PROVE Connecting'
<1>1. /\ k \in DOMAIN tasks /\ guard' = IF Differences(k) THEN Settle(guard, tasks[k].mark) ELSE guard
      /\ tasks' = Restrict(tasks, DOMAIN tasks \ {k})
    BY DEF CommitBase, At
<1>2. IsGuard(guard) /\ (guard.safe = TRUE => guard.generation = 0)
    BY DEF Connecting, GuardInv
<1>3. CASE Differences(k)
    <2>1. tasks[k].mark \in 1 .. guard.generation /\ guard.safe = FALSE
        BY <1>1, <1>2, <1>3 DEF Connecting, GuardInv, Begun, IsGuard
    <2>2. IsGuard(guard') /\ guard'.safe = guard.safe
        BY <1>1, <1>2, <1>3, <2>1, SettleIsGuard
    <2> QED BY <1>1, <2>1, <2>2, ConnectEnds
<1>4. CASE ~Differences(k)
    <2>1. guard' = guard
        BY <1>1, <1>4
    <2> QED BY <1>1, <1>2, <2>1, ConnectEnds
<1> QED BY <1>3, <1>4

LEMMA ConnectingCompare ==
    ASSUME Links, Connecting, NEW named \in BOOLEAN, NEW written \in BOOLEAN, Compare(named, written)
    PROVE  Connecting'
<1>1. plugin.phase = "fetched"
    BY DEF Compare
<1>2. DOMAIN tasks = {}
    BY <1>1, NoConnect
<1> DEFINE place == IF named THEN Some(plugin.place) ELSE None
           begun == BeginCompare(base, place)
           here == studio[plugin.place]
           all == Diff(plugin.seen, here)
           decided == Decide(View(begun, place), all, disk, here, TRUE, FALSE)
<1>3. PICK items, winners : items = all /\ winners = decided
    OBVIOUS
<1>4. DOMAIN winners = items
    BY <1>3 DEF Decide
<1>5. /\ items # {} => guard.safe = FALSE
      /\ guard' = IF items = {} THEN guard ELSE Begin(guard, written)
    <2>1. items # {} => ~guard.safe
        BY <1>3 DEF Compare
    <2>2. guard.safe \in BOOLEAN
        BY DEF Connecting, GuardInv, IsGuard
    <2> QED BY <1>3, <2>1, <2>2 DEF Compare
<1>6. PICK fence, snapshot :
         tasks' = [k \in DOMAIN tasks \cup {plugin.conn} |->
                     IF k # plugin.conn THEN tasks[k]
                     ELSE [stage |-> IF items = {} THEN "snap" ELSE "apply",
                           winners |-> winners, fence |-> fence, pushed |-> {},
                           snapshot |-> snapshot, takenAt |-> 0, mark |-> guard'.generation]]
    BY <1>3, Zenon DEF Compare
<1>7. plugin'.phase = "waiting" /\ plugin'.conn = plugin.conn
    <2>1. plugin' = [plugin EXCEPT !.phase = "waiting", !.seen = << >>] /\ "waiting" \in PluginPhase
        BY DEF Compare, PluginPhase
    <2> QED BY <2>1, PluginSees DEF Links
<1> HIDE DEF place, begun, here, all, decided
<1>8. PICK c : c = plugin.conn
    OBVIOUS
<1>9. DOMAIN tasks' = {c} /\ tasks' = [k \in {c} |-> tasks'[k]]
    BY <1>2, <1>6, <1>8
<1>10. tasks'[c] = [stage |-> IF items = {} THEN "snap" ELSE "apply",
                    winners |-> winners, fence |-> fence, pushed |-> {},
                    snapshot |-> snapshot, takenAt |-> 0, mark |-> guard'.generation]
    BY <1>6, <1>8, <1>2
<1>11. TaskShaped(c)'
    BY <1>10 DEF TaskShaped
<1>12. TasksShaped' /\ Awaited'
    BY <1>7, <1>8, <1>9, <1>11 DEF TasksShaped, Awaited
<1>13. /\ tasks'[c].stage = "apply" => items # {}
       /\ tasks'[c].winners = winners /\ tasks'[c].mark = guard'.generation
    BY <1>10
<1>14. IsGuard(guard) /\ (guard.safe = TRUE => guard.generation = 0)
    BY DEF Connecting, GuardInv
<1>15. CASE items = {}
    <2>1. guard' = guard
        BY <1>5, <1>15
    <2>2. Begun(c)'
        BY <1>4, <1>13, <1>15 DEF Begun, Differences
    <2> QED BY <1>9, <1>12, <1>14, <2>1, <2>2 DEF Connecting, GuardInv
<1>16. CASE items # {}
    <2>1. guard' = Begin(guard, written) /\ guard.safe = FALSE
        BY <1>5, <1>16
    <2>2. /\ IsGuard(guard') /\ guard'.safe = guard.safe
          /\ guard'.generation = guard.generation + 1 /\ guard'.settling = guard.settling
        BY <1>14, <2>1, BeginIsGuard
    <2>3. guard'.generation > 0 /\ guard'.generation \notin guard'.settling
        BY <1>14, <2>2 DEF IsGuard
    <2>4. Begun(c)'
        BY <1>4, <1>13, <1>16, <2>1, <2>2, <2>3 DEF Begun, Differences
    <2> QED BY <1>9, <1>12, <2>1, <2>2, <2>4 DEF Connecting, GuardInv
<1> QED BY <1>15, <1>16

LEMMA ConnectingGuard ==
    ASSUME Connecting, Guard PROVE Connecting'
<1>1. UNCHANGED <<tasks, plugin>> /\ IsGuard(guard)
    BY GuardRests DEF Connecting, GuardInv
<1>2. \/ guard' = Resume(guard)
      \/ \E n : guard' = Settled(guard, n)
      \/ \E n : guard' = Unlink(guard, n)
    BY DEF Guard, ResumeByHand, SettleElapses, MarkerGoes
<1>3. /\ IsGuard(guard') /\ guard'.generation = guard.generation
      /\ guard'.safe \in {guard.safe, FALSE} /\ guard'.settling \subseteq guard.settling
    <2>1. CASE guard' = Resume(guard)
        BY <1>1, <2>1, ResumeIsGuard
    <2>2. ASSUME NEW n, guard' = Settled(guard, n)
          PROVE  /\ IsGuard(guard') /\ guard'.generation = guard.generation
                 /\ guard'.safe = guard.safe /\ guard'.settling \subseteq guard.settling
        BY <1>1, <2>2, SettledIsGuard
    <2>3. ASSUME NEW n, guard' = Unlink(guard, n)
          PROVE  /\ IsGuard(guard') /\ guard'.generation = guard.generation
                 /\ guard'.safe = guard.safe /\ guard'.settling = guard.settling
        BY <1>1, <2>3, UnlinkIsGuard
    <2> QED BY <1>2, <2>1, <2>2, <2>3
<1>4. ASSUME NEW k \in DOMAIN tasks PROVE Begun(k)'
    <2>1. Begun(k)
        BY DEF Connecting, GuardInv
    <2> QED BY <1>1, <1>3, <2>1 DEF Begun, Differences
<1>5. TasksShaped' /\ Awaited'
    BY <1>1 DEF Connecting, TasksShaped, TaskShaped, Awaited
<1> QED BY <1>1, <1>3, <1>4, <1>5 DEF Connecting, GuardInv

LEMMA ConnectingRestarts ==
    ASSUME Connecting, NEW graceful \in BOOLEAN, Restart(graceful) PROVE Connecting'
<1>1. PICK g : g = IF graceful THEN OnShutdown(guard) ELSE guard
    OBVIOUS
<1>2. tasks' = << >> /\ guard' = GuardLoad(g.marker)
    BY <1>1 DEF Restart
<1>3. g.marker \in BOOLEAN
    <2>1. guard.marker \in BOOLEAN /\ OnShutdown(guard).marker \in BOOLEAN
        BY DEF OnShutdown, Connecting, GuardInv, IsGuard, GuardField
    <2> QED BY <1>1, <2>1
<1>4. DOMAIN tasks' = {} /\ tasks' = [k \in {} |-> tasks'[k]]
    BY <1>2
<1>5. IsGuard(guard') /\ guard'.generation = 0
    BY <1>2, <1>3, LoadIsGuard
<1> QED BY <1>4, <1>5 DEF Connecting, TasksShaped, Awaited, GuardInv

LEMMA ConnectingStep ==
    Undisturbed /\ Links /\ Connecting /\ [Next]_vars => Connecting'
<1> SUFFICES ASSUME Undisturbed, Links, Connecting, [Next]_vars PROVE Connecting'
    OBVIOUS
<1>1. CASE Users
    <2>1. UNCHANGED <<tasks, guard>>
        BY <1>1 DEF Users, DiskEdit, StudioEdit, OpenPlace, daemon
    <2>2. plugin'.conn = plugin.conn /\ plugin'.phase = plugin.phase
        <3>1. CASE UNCHANGED plugin
            BY <3>1
        <3>2. CASE \E place \in Place : OpenPlace(place)
            BY <3>2 DEF OpenPlace, Links, PluginShaped
        <3> QED BY <1>1, <3>1, <3>2 DEF Users, DiskEdit, StudioEdit
    <2> QED BY <2>1, <2>2, ConnectingUnchanged
<1>2. CASE Cleanup
    <2>1. UNCHANGED <<tasks, guard, plugin>>
        BY <1>2 DEF Cleanup, LoopEnds, Release, Unsubscribe, Disconnected
    <2> QED BY <2>1, ConnectingUnchanged
<1>3. CASE Connects
    <2>1. CASE (\E c \in Conn : Open(c)) \/ Fetch \/ \E named \in BOOLEAN : Refuse(named)
        <3>1. plugin.phase # "waiting"
            BY <2>1 DEF Open, Fetch, Refuse, Links, LinkInv
        <3>2. UNCHANGED <<tasks, guard>>
            BY <2>1 DEF Open, Fetch, Refuse, daemon
        <3> QED BY <3>1, <3>2, NoConnect, ConnectingUnchanged
    <2> QED BY <1>3, <2>1, ConnectingCompare, ConnectingApply, ConnectingApplyFails, ConnectingPush,
               ConnectingSnap, ConnectingCommitBase DEF Connects
<1>4. CASE Deliver \/ Writer \/ UNCHANGED vars
    <2>1. UNCHANGED <<tasks, guard, plugin>>
        BY <1>4 DEF Deliver, Writer, Sample, TickCommits, Take, Store, vars
    <2> QED BY <2>1, ConnectingUnchanged
<1>5. CASE Guard
    BY <1>5, ConnectingGuard
<1>6. CASE \E graceful \in BOOLEAN : Restart(graceful)
    BY <1>6, ConnectingRestarts
<1>7. CASE \E c \in Conn : Dial(c) \/ \E next \in {"redial", "offline"} : LinkDrops(c, next)
    <2>1. UNCHANGED <<tasks, guard>>
        BY <1>7 DEF Dial, LinkDrops
    <2>2. DOMAIN tasks = {}
        BY <1>7, NoConnect DEF Dial, LinkDrops, Comparing, Undisturbed
    <2> QED BY <2>1, <2>2, ConnectingUnchanged
<1> QED BY <1>1, <1>2, <1>3, <1>4, <1>5, <1>6, <1>7 DEF Next

\* The marker is there as long as it is needed
LEMMA CoveredStep ==
    Undisturbed /\ Writable /\ Unraced /\ Links /\ Connecting /\ Covered /\ [Next]_vars => Covered'
<1> SUFFICES ASSUME Undisturbed, Writable, Unraced, Links, Connecting, Covered, [Next]_vars PROVE Covered'
    OBVIOUS
<1>0. IsGuard(guard)
    BY DEF Connecting, GuardInv
<1>1. ASSUME UNCHANGED guard,
             \A k \in DOMAIN tasks' : k \in DOMAIN tasks /\ tasks'[k].winners = tasks[k].winners
      PROVE  Covered'
    BY <1>1 DEF Covered, Risky, Differences
<1>2. CASE Users \/ Cleanup \/ Deliver \/ Writer \/ UNCHANGED vars
    <2>1. UNCHANGED <<tasks, guard>>
        BY <1>2 DEF Users, DiskEdit, StudioEdit, OpenPlace, daemon, Cleanup, LoopEnds, Release, Unsubscribe,
                    Disconnected, Deliver, Writer, Sample, TickCommits, Take, Store, vars
    <2> QED BY <1>1, <2>1
<1>3. CASE \E c \in Conn : Dial(c) \/ \E next \in {"redial", "offline"} : LinkDrops(c, next)
    <2>1. UNCHANGED <<tasks, guard>>
        BY <1>3 DEF Dial, LinkDrops
    <2> QED BY <1>1, <2>1
<1>4. CASE \E graceful \in BOOLEAN : Restart(graceful)
    <2>1. PICK graceful \in BOOLEAN : Restart(graceful)
        BY <1>4
    <2>2. PICK g : g = IF graceful THEN OnShutdown(guard) ELSE guard
        OBVIOUS
    <2>3. tasks' = << >> /\ guard' = GuardLoad(g.marker)
        BY <2>1, <2>2 DEF Restart
    <2>4. g.marker \in BOOLEAN
        <3>1. guard.marker \in BOOLEAN /\ OnShutdown(guard).marker \in BOOLEAN
            BY <1>0 DEF OnShutdown, IsGuard, GuardField
        <3> QED BY <2>2, <3>1
    <2>5. guard'.settling = {} /\ DOMAIN tasks' = {}
        BY <2>3, <2>4, LoadIsGuard
    <2> QED BY <2>5 DEF Covered, Risky
<1>5. CASE Guard
    <2>1. UNCHANGED tasks
        BY <1>5, GuardRests
    <2>2. CASE ResumeByHand
        <3>1. ~Risky /\ guard' = Resume(guard)
            BY <2>2 DEF ResumeByHand, Unraced
        <3>2. guard'.generation = guard.generation /\ guard'.settling = guard.settling
            BY <1>0, <3>1, ResumeIsGuard
        <3>3. ~Risky'
            BY <2>1, <3>1, <3>2 DEF Risky, Differences
        <3> QED BY <3>3 DEF Covered
    <2>3. ASSUME NEW n \in guard.settling, SettleElapses(n) PROVE Covered'
        <3>1. /\ guard'.generation = guard.generation /\ guard'.marker = guard.marker
              /\ guard'.settling = guard.settling \ {n}
              /\ guard'.unlinking = guard.unlinking \cup ({n} \cap {guard.generation})
            BY <1>0, <2>3, SettledIsGuard DEF SettleElapses
        <3>2. CASE n = guard.generation
            <4>1. \A k \in DOMAIN tasks : ~Differences(k)
                BY <3>2 DEF Connecting, GuardInv, Begun
            <4>2. ~Risky'
                BY <2>1, <3>1, <3>2, <4>1 DEF Risky, Differences
            <4> QED BY <4>2 DEF Covered
        <3>3. CASE n # guard.generation
            <4>1. guard'.unlinking = guard.unlinking /\ Risky' => Risky
                BY <2>1, <3>1, <3>3 DEF Risky, Differences
            <4>2. guard'.unlinking = guard.unlinking
                BY <3>1, <3>3
            <4> QED BY <3>1, <4>1, <4>2 DEF Covered
        <3> QED BY <3>2, <3>3
    <2>4. ASSUME NEW n \in guard.unlinking, MarkerGoes(n) PROVE Covered'
        <3>1. ~Risky
            BY <2>4 DEF Covered
        <3>2. guard'.generation = guard.generation /\ guard'.settling = guard.settling
            BY <1>0, <2>4, UnlinkIsGuard DEF MarkerGoes
        <3>3. ~Risky'
            BY <2>1, <3>1, <3>2 DEF Risky, Differences
        <3> QED BY <3>3 DEF Covered
    <2> QED BY <1>5, <2>2, <2>3, <2>4 DEF Guard
<1>6. ASSUME NEW named \in BOOLEAN, NEW written \in BOOLEAN, Compare(named, written) PROVE Covered'
    <2>1. written = TRUE /\ DOMAIN tasks = {}
        BY <1>6, NoConnect DEF Compare, Writable
    <2> DEFINE place == IF named THEN Some(plugin.place) ELSE None
               begun == BeginCompare(base, place)
               here == studio[plugin.place]
               all == Diff(plugin.seen, here)
               decided == Decide(View(begun, place), all, disk, here, TRUE, FALSE)
    <2>2. PICK items, winners : items = all /\ winners = decided
        OBVIOUS
    <2>3. DOMAIN winners = items
        BY <2>2 DEF Decide
    <2>4. /\ items # {} => guard.unlinking = {}
          /\ guard' = IF items = {} THEN guard ELSE Begin(guard, written)
        BY <1>6, <2>2 DEF Compare, Unraced
    <2>5. PICK fence, snapshot :
             tasks' = [k \in DOMAIN tasks \cup {plugin.conn} |->
                         IF k # plugin.conn THEN tasks[k]
                         ELSE [stage |-> IF items = {} THEN "snap" ELSE "apply",
                               winners |-> winners, fence |-> fence, pushed |-> {},
                               snapshot |-> snapshot, takenAt |-> 0, mark |-> guard'.generation]]
        BY <1>6, <2>2, Zenon DEF Compare
    <2>9. PICK c : c = plugin.conn
        OBVIOUS
    <2> HIDE DEF place, begun, here, all, decided
    <2>6. DOMAIN tasks' = {c} /\ tasks'[c].winners = winners
        BY <2>1, <2>5, <2>9
    <2>7. CASE items = {}
        <3>1. \A k \in DOMAIN tasks' : ~Differences(k)'
            BY <2>3, <2>6, <2>7 DEF Differences
        <3> QED BY <2>4, <2>7, <3>1 DEF Covered, Risky
    <2>8. CASE items # {}
        BY <1>0, <2>1, <2>4, <2>8, BeginIsGuard DEF Covered
    <2> QED BY <2>7, <2>8
<1>7. ASSUME NEW k \in DOMAIN tasks, ApplyFails(k) \/ \E saved \in BOOLEAN : CommitBase(k, saved)
      PROVE  Covered'
    <2>1. DOMAIN tasks = {k} /\ tasks' = Restrict(tasks, DOMAIN tasks \ {k})
        BY <1>7 DEF ApplyFails, CommitBase, Connecting, Awaited
    <2>2. DOMAIN tasks' = {}
        BY <2>1 DEF Restrict
    <2>3. guard' = guard \/ (Differences(k) /\ guard' = Settle(guard, tasks[k].mark))
        BY <1>7 DEF ApplyFails, CommitBase, At, Connecting, GuardInv, Begun
    <2>4. CASE guard' = guard
        BY <2>2, <2>4 DEF Covered, Risky
    <2>5. CASE Differences(k) /\ guard' = Settle(guard, tasks[k].mark)
        <3>1. guard.marker = TRUE /\ guard.unlinking = {} /\ tasks[k].mark \in 1 .. guard.generation
            BY <1>0, <2>5 DEF Covered, Risky, Connecting, GuardInv, Begun, IsGuard
        <3>2. guard'.marker = guard.marker /\ guard'.unlinking = guard.unlinking
            BY <1>0, <2>5, <3>1, SettleIsGuard
        <3> QED BY <3>1, <3>2 DEF Covered
    <2> QED BY <2>3, <2>4, <2>5
<1>8. CASE Connects
    <2>1. ASSUME (\E c \in Conn : Open(c)) \/ Fetch \/ (\E named \in BOOLEAN : Refuse(named)) PROVE Covered'
        <3>1. UNCHANGED <<tasks, guard>>
            BY <2>1 DEF Open, Fetch, Refuse, daemon
        <3> QED BY <1>1, <3>1
    <2>2. ASSUME NEW k \in DOMAIN tasks, Apply(k) \/ Push(k) \/ Snap(k) PROVE Covered'
        <3>1. UNCHANGED guard
            BY <2>2 DEF Apply, Push, Snap
        <3>2. WinnersKept
            BY <2>2, ConnectingApply, ConnectingPush, ConnectingSnap
        <3> QED BY <1>1, <3>1, <3>2 DEF WinnersKept
    <2> QED BY <1>6, <1>7, <1>8, <2>1, <2>2 DEF Connects
<1> QED BY <1>2, <1>3, <1>4, <1>5, <1>8 DEF Next

\* While a daemon died in a connect and nobody resumed, the daemon is in safe mode, the
\* marker is there and nobody is about to remove it
Safe ==
    /\ died \in BOOLEAN
    /\ died = TRUE => guard.safe = TRUE /\ guard.marker = TRUE /\ guard.unlinking = {}

LEMMA SafeInit == Init => Safe
BY DEF Init, Safe

LEMMA SafeStep ==
    "stop" \notin Races /\ Connecting /\ Covered /\ Safe /\ [Next]_vars => Safe'
<1> SUFFICES ASSUME "stop" \notin Races, Connecting, Covered, Safe, [Next]_vars PROVE Safe'
    OBVIOUS
<1>0. IsGuard(guard)
    BY DEF Connecting, GuardInv
<1>1. CASE UNCHANGED <<guard, died>>
    BY <1>1 DEF Safe
<1>2. CASE ResumeByHand
    BY <1>2 DEF ResumeByHand, Safe
<1>3. ASSUME NEW n \in guard.settling, SettleElapses(n) PROVE Safe'
    <2>1. died' = died
        BY <1>3 DEF SettleElapses, history
    <2>2. n \in 1 .. guard.generation /\ guard.generation \in Nat
        BY <1>0 DEF IsGuard
    <2>3. guard.generation # 0
        BY <2>2
    <2>4. guard.safe # TRUE
        BY <2>3 DEF Connecting, GuardInv
    <2> QED BY <2>1, <2>4 DEF Safe
<1>11. ASSUME NEW n \in guard.unlinking, MarkerGoes(n) PROVE Safe'
    <2>1. died' = died
        BY <1>11 DEF MarkerGoes, history
    <2> QED BY <2>1 DEF Safe
<1>4. ASSUME NEW graceful \in BOOLEAN, Restart(graceful) PROVE Safe'
    <2>1. graceful = FALSE
        BY <1>4 DEF Restart
    <2>2. guard' = GuardLoad(guard.marker) /\ died' = (died \/ Risky) /\ guard.marker \in BOOLEAN
        BY <1>0, <1>4, <2>1 DEF Restart, IsGuard
    <2>3. guard'.safe = guard.marker /\ guard'.marker = guard.marker /\ guard'.unlinking = {}
        BY <2>2, LoadIsGuard
    <2>4. Risky => guard.marker = TRUE
        BY DEF Covered
    <2>5. died' \in BOOLEAN /\ (died' = TRUE => guard.marker = TRUE)
        BY <2>2, <2>4 DEF Safe
    <2> QED BY <2>3, <2>5 DEF Safe
<1>6. ASSUME NEW named \in BOOLEAN, NEW written \in BOOLEAN, Compare(named, written) PROVE Safe'
    <2>1. died' = died
        BY <1>6 DEF Compare, history
    <2>2. guard' = guard \/ ~guard.safe
        BY <1>6 DEF Compare
    <2>3. guard' = guard \/ guard.safe = FALSE
        BY <1>0, <2>2 DEF IsGuard
    <2> QED BY <2>1, <2>3 DEF Safe
<1>7. ASSUME NEW k \in DOMAIN tasks, ApplyFails(k) \/ \E saved \in BOOLEAN : CommitBase(k, saved)
      PROVE  Safe'
    <2>1. died' = died
        BY <1>7 DEF ApplyFails, CommitBase, history
    <2>2. guard' = guard \/ Differences(k)
        BY <1>7 DEF ApplyFails, CommitBase, At, Connecting, GuardInv, Begun
    <2>3. guard' = guard \/ guard.safe = FALSE
        BY <2>2 DEF Connecting, GuardInv, Begun
    <2> QED BY <2>1, <2>3 DEF Safe
<1>8. CASE Users \/ Cleanup \/ Deliver \/ Writer \/ UNCHANGED vars
    <2>1. UNCHANGED <<guard, died>>
        BY <1>8 DEF Users, DiskEdit, StudioEdit, OpenPlace, daemon, Cleanup, LoopEnds, Release, Unsubscribe,
                    Disconnected, Deliver, Writer, Sample, TickCommits, Take, Store, vars, history
    <2> QED BY <1>1, <2>1
<1>9. CASE Connects
    <2>1. ASSUME \/ \E c \in Conn : Open(c)
                 \/ Fetch
                 \/ \E named \in BOOLEAN : Refuse(named)
                 \/ \E k \in DOMAIN tasks : Apply(k) \/ Push(k) \/ Snap(k)
          PROVE  Safe'
        <3>1. UNCHANGED <<guard, died>>
            BY <2>1 DEF Open, Fetch, Refuse, Apply, Push, Snap, daemon, history
        <3> QED BY <1>1, <3>1
    <2> QED BY <1>6, <1>7, <1>9, <2>1 DEF Connects
<1>10. CASE \E c \in Conn : Dial(c) \/ \E next \in {"redial", "offline"} : LinkDrops(c, next)
    <2>1. UNCHANGED <<guard, died>>
        BY <1>10 DEF Dial, LinkDrops, history
    <2> QED BY <1>1, <2>1
<1> QED BY <1>2, <1>3, <1>4, <1>8, <1>9, <1>10, <1>11 DEF Next, Guard

\* While a connect that changes something runs, and until the daemon has survived it by
\* SETTLE, the crash marker is on disk, although earlier connects settle at any time
\* and somebody may resume between connects: for every tree, every number of connections,
\* edits, crashes and resumes.  The timings it excludes each break it: a link that
\* goes down during the connect, a marker that cannot be written, a connect that
\* begins between a settle's or a resume's decision and its removal of the file, and a resume
\* during a connect (src/server/crash_guard.rs begin, settle, clear_if_current and
\* resume, divergence.rs connect_commit).
THEOREM ConnectsAreMarked ==
    Undisturbed /\ Writable /\ Unraced /\ Spec => []MarkerCovers
<1> SUFFICES ASSUME Undisturbed, Writable, Unraced PROVE Spec => []MarkerCovers
    OBVIOUS
<1> DEFINE Inv == Links /\ Connecting /\ Covered
<1>1. Init => Inv
    BY LinkInit, ConnectingInit
<1>2. Inv /\ [Next]_vars => Inv'
    BY LinksStep, ConnectingStep, CoveredStep
<1>3. Inv => MarkerCovers
    BY DEF Covered, MarkerCovers
<1> HIDE DEF Inv
<1> QED BY <1>1, <1>2, <1>3, PTL DEF Spec

\* A daemon that starts after one died in a connect, or before it had survived one by
\* SETTLE, applies no connect until someone resumes, for every instance, under the
\* provisos of ConnectsAreMarked and as long as nobody stops a daemon that is in
\* safe mode (crash_guard.rs load, on_shutdown and resume).
THEOREM CrashesDoNotLoop ==
    Undisturbed /\ Writable /\ Unraced /\ "stop" \notin Races /\ Spec => NoCrashLoop
<1> SUFFICES ASSUME Undisturbed, Writable, Unraced, "stop" \notin Races PROVE Spec => NoCrashLoop
    OBVIOUS
<1> DEFINE Inv == Links /\ Connecting /\ Covered /\ Safe
<1>1. Init => Inv
    BY LinkInit, ConnectingInit, SafeInit
<1>2. Inv /\ [Next]_vars => Inv'
    BY LinksStep, ConnectingStep, CoveredStep, SafeStep
<1>3. Inv => (died => \A k \in DOMAIN tasks : ~Applies(k))
    BY DEF Safe, Connecting, GuardInv, Begun, Applies, At
<1>4. Inv /\ [Next]_vars => [died => \A k \in DOMAIN tasks : ~Applies(k)]_vars
    BY <1>3
<1> HIDE DEF Inv
<1> QED BY <1>1, <1>2, <1>4, PTL DEF Spec, NoCrashLoop

-----------------------------------------------------------------------------
(* The sync base *)

Field == {"stored", "synced", "epoch", "place", "pending", "lastGeneration", "resumeGeneration"}
IsBase(b) == DOMAIN b = Field /\ b.synced \in BOOLEAN /\ b.epoch \in Nat

LEMMA LoadIsBase ==
    ASSUME NEW f PROVE IsBase(Load(f)) /\ Load(f).synced = FALSE /\ Load(f).pending = {}
BY DEF IsBase, Load, Field, None

LEMMA BeginCompareIsBase ==
    ASSUME NEW b, IsBase(b), NEW place
    PROVE  /\ IsBase(BeginCompare(b, place)) /\ BeginCompare(b, place).synced = FALSE
           /\ BeginCompare(b, place).epoch = b.epoch + 1 /\ BeginCompare(b, place).pending = {}
BY DEF IsBase, BeginCompare, Field, None

LEMMA PauseIsBase ==
    ASSUME NEW b, IsBase(b), NEW g
    PROVE  /\ IsBase(Pause(b, g)) /\ Pause(b, g).synced = FALSE
           /\ Pause(b, g).epoch = b.epoch + 1 /\ Pause(b, g).pending = {}
           /\ Pause(b, g).stored = b.stored
BY DEF IsBase, Pause, Field, None

LEMMA CommitIsBase ==
    ASSUME NEW b, IsBase(b), NEW snapshot, NEW g, NEW settle
    PROVE  /\ IsBase(Commit(b, snapshot, g, settle))
           /\ Commit(b, snapshot, g, settle).epoch = b.epoch + 1
           /\ Commit(b, snapshot, g, settle).pending = {}
BY DEF IsBase, Commit, Field, None

LEMMA OnReconnectIsBase ==
    ASSUME NEW b, IsBase(b), NEW g
    PROVE  /\ IsBase(OnReconnect(b, g)) /\ OnReconnect(b, g).pending = b.pending
           /\ \/ OnReconnect(b, g).epoch = b.epoch + 1
              \/ OnReconnect(b, g).epoch = b.epoch /\ OnReconnect(b, g).synced = b.synced
<1>1. CASE b.resumeGeneration = Some(g)
    <2>1. OnReconnect(b, g) = [b EXCEPT !.resumeGeneration = None, !.synced = TRUE, !.epoch = @ + 1]
        BY <1>1 DEF OnReconnect
    <2> QED BY <2>1 DEF IsBase, Field, None
<1>2. CASE b.resumeGeneration # Some(g)
    <2>1. OnReconnect(b, g) = [b EXCEPT !.resumeGeneration = None]
        BY <1>2 DEF OnReconnect
    <2> QED BY <2>1 DEF IsBase, Field, None
<1> QED BY <1>1, <1>2

LEMMA OnDisconnectIsBase ==
    ASSUME NEW b, IsBase(b), NEW g
    PROVE  /\ IsBase(OnDisconnect(b, g)) /\ OnDisconnect(b, g).synced = FALSE
           /\ \/ OnDisconnect(b, g) = b
              \/ OnDisconnect(b, g).epoch = b.epoch + 1 /\ OnDisconnect(b, g).pending = {}
BY PauseIsBase DEF OnDisconnect, IsBase

LEMMA TickTailIsBase ==
    ASSUME NEW b, IsBase(b), NEW e, NEW snapshot, NEW g
    PROVE  /\ IsBase(TickTail(b, e, snapshot, g))
           /\ TickTail(b, e, snapshot, g).epoch = b.epoch
           /\ TickTail(b, e, snapshot, g).synced = b.synced
BY DEF IsBase, TickTail, Field, Some

\* The snapshot that waits is of this session
Due(b) == b.synced = TRUE /\ \E pending \in b.pending : pending.epoch = b.epoch

\* What n has pending that b had not is of session e, which is b's
Pends(b, n, e) ==
    \/ n.pending = b.pending
    \/ b.synced = TRUE /\ b.epoch = e /\ \A pending \in n.pending : pending.epoch = e

LEMMA TickTailPends ==
    ASSUME NEW b, IsBase(b), NEW e, NEW snapshot, NEW g
    PROVE  Pends(b, TickTail(b, e, snapshot, g), e)
<1>1. CASE b.synced /\ b.epoch = e
    <2>1. PICK x, y, z : x = Some(g) /\ y = Some(z) /\ z = [epoch |-> e, snapshot |-> snapshot]
        OBVIOUS
    <2>2. TickTail(b, e, snapshot, g) = [b EXCEPT !.lastGeneration = x, !.pending = y]
        BY <1>1, <2>1 DEF TickTail
    <2>3. TickTail(b, e, snapshot, g).pending = y
        BY <2>2 DEF IsBase, Field
    <2>4. z.epoch = e /\ y = {z}
        BY <2>1 DEF Some
    <2>5. b.synced = TRUE
        BY <1>1 DEF IsBase
    <2> QED BY <1>1, <2>3, <2>4, <2>5 DEF Pends
<1>2. CASE ~(b.synced /\ b.epoch = e)
    <2>1. TickTail(b, e, snapshot, g) = b
        BY <1>2 DEF TickTail
    <2>2. PICK n : n = TickTail(b, e, snapshot, g)
        OBVIOUS
    <2>3. n.pending = b.pending
        BY <2>1, <2>2
    <2>4. Pends(b, n, e)
        BY <2>3 DEF Pends
    <2> QED BY <2>2, <2>4
<1> QED BY <1>1, <1>2

LEMMA TickHeadIsBase ==
    ASSUME NEW b, IsBase(b), NEW g, NEW present
    PROVE  /\ IsBase(TickHead(b, g, present)) /\ TickHead(b, g, present).pending = {}
           /\ TickHead(b, g, present).synced \in {b.synced, FALSE}
           /\ TickHead(b, g, present).stored # b.stored => Due(b)
<1> DEFINE here == IF b.synced /\ ~present THEN Pause(b, g) ELSE b
           due == {pending \in here.pending : here.synced /\ pending.epoch = here.epoch}
           head == TickHead(b, g, present)
<1>1. /\ IsBase(here) /\ here.epoch \in {b.epoch, b.epoch + 1} /\ here.synced \in {b.synced, FALSE}
      /\ here.stored = b.stored
      /\ here.pending # {} => here = b
    BY PauseIsBase
<1>2. head = [here EXCEPT !.stored = IF due = None THEN @
                                     ELSE Some(Merge(@, Unwrap(due).snapshot, here.place)),
                          !.pending = None]
    BY DEF TickHead
<1>3. due # {} => Due(b)
    BY <1>1 DEF IsBase, Due
<1>4. PICK h, d : h = here /\ d = due
    OBVIOUS
<1> HIDE DEF here, due
<1>5. /\ IsBase(head) /\ head.pending = {} /\ head.epoch = h.epoch /\ head.synced = h.synced
      /\ d = {} => head.stored = h.stored
    BY <1>1, <1>2, <1>4 DEF IsBase, Field, None
<1> QED BY <1>1, <1>3, <1>4, <1>5

\* The connect in progress has its plugin waiting, whether or not its marker is written
LEMMA AwaitedKept ==
    ASSUME Awaited, DOMAIN tasks' \subseteq DOMAIN tasks,
           (plugin'.conn = plugin.conn /\ plugin'.phase = plugin.phase) \/ DOMAIN tasks' = {}
    PROVE  Awaited'
BY DEF Awaited

LEMMA AwaitedStep == Undisturbed /\ Links /\ Awaited /\ [Next]_vars => Awaited'
<1> SUFFICES ASSUME Undisturbed, Links, Awaited, [Next]_vars PROVE Awaited'
    OBVIOUS
<1>1. CASE Users \/ Cleanup \/ Deliver \/ Writer \/ Guard \/ UNCHANGED vars
    <2>1. UNCHANGED tasks
        BY <1>1, GuardRests DEF Users, DiskEdit, StudioEdit, OpenPlace, daemon, Cleanup, LoopEnds, Release, Unsubscribe,
                    Disconnected, Deliver, Writer, Sample, TickCommits, Take, Store, vars
    <2>2. plugin'.conn = plugin.conn /\ plugin'.phase = plugin.phase
        <3>1. CASE UNCHANGED plugin
            BY <3>1
        <3>2. CASE \E place \in Place : OpenPlace(place)
            BY <3>2 DEF OpenPlace, Links, PluginShaped
        <3> QED BY <1>1, <3>1, <3>2, GuardRests
                DEF Users, DiskEdit, StudioEdit, Cleanup, LoopEnds, Release, Unsubscribe, Disconnected,
                    Deliver, Writer, Sample, TickCommits, Take, Store, vars
    <2> QED BY <2>1, <2>2, AwaitedKept
<1>2. CASE Connects
    <2>1. CASE (\E c \in Conn : Open(c)) \/ Fetch \/ \E named \in BOOLEAN : Refuse(named)
        <3>1. plugin.phase # "waiting"
            BY <2>1 DEF Open, Fetch, Refuse, Links, LinkInv
        <3>2. UNCHANGED tasks
            BY <2>1 DEF Open, Fetch, Refuse, daemon
        <3> QED BY <3>1, <3>2, AwaitedKept DEF Awaited
    <2>2. ASSUME NEW named \in BOOLEAN, NEW written \in BOOLEAN, Compare(named, written) PROVE Awaited'
        <3>1. plugin.phase = "fetched" /\ DOMAIN tasks' = DOMAIN tasks \cup {plugin.conn}
            BY <2>2 DEF Compare
        <3>2. plugin' = [plugin EXCEPT !.phase = "waiting", !.seen = << >>] /\ "waiting" \in PluginPhase
            BY <2>2 DEF Compare, PluginPhase
        <3>3. plugin'.phase = "waiting" /\ plugin'.conn = plugin.conn
            BY <3>2, PluginSees DEF Links
        <3> QED BY <3>1, <3>3 DEF Awaited
    <2>3. ASSUME NEW k \in DOMAIN tasks, Apply(k) \/ Push(k) \/ Snap(k) PROVE Awaited'
        <3>1. plugin' = plugin /\ DOMAIN tasks' = DOMAIN tasks
            BY <2>3 DEF Apply, Push, Snap
        <3> QED BY <3>1, AwaitedKept
    <2>4. ASSUME NEW k \in DOMAIN tasks, ApplyFails(k) \/ \E saved \in BOOLEAN : CommitBase(k, saved)
          PROVE  Awaited'
        <3>1. tasks' = Restrict(tasks, DOMAIN tasks \ {k})
            BY <2>4 DEF ApplyFails, CommitBase
        <3>2. DOMAIN tasks' = {}
            BY <3>1 DEF Awaited, Restrict
        <3> QED BY <3>2 DEF Awaited
    <2> QED BY <1>2, <2>1, <2>2, <2>3, <2>4 DEF Connects
<1>3. CASE \E graceful \in BOOLEAN : Restart(graceful)
    <2>1. tasks' = << >>
        BY <1>3 DEF Restart
    <2>2. DOMAIN tasks' = {}
        BY <2>1
    <2> QED BY <2>2 DEF Awaited
<1>4. CASE \E c \in Conn : Dial(c) \/ \E next \in {"redial", "offline"} : LinkDrops(c, next)
    <2>1. UNCHANGED tasks
        BY <1>4 DEF Dial, LinkDrops
    <2>2. DOMAIN tasks = {}
        BY <1>4 DEF Dial, LinkDrops, Comparing, Undisturbed, Awaited
    <2> QED BY <2>1, <2>2, AwaitedKept
<1> QED BY <1>1, <1>2, <1>3, <1>4 DEF Next

\* Nobody goes on while the daemon cleans up
Swept == "slow cleanup" \notin Races

\* One connection at a time: it owns the slot until it releases it, and only while
\* it is open does the base record
OneLink ==
    /\ slot \in Conn \cup {0} /\ IsBase(base)
    /\ \A c \in Conn : conns[c].phase \notin {"none", "gone"} => c = plugin.conn
    /\ \A c \in Conn : conns[c].phase \in {"claimed", "open", "closing"} <=> slot = c
    /\ base.synced = TRUE => plugin.conn \in Conn /\ conns[plugin.conn].phase \notin {"none", "gone", "claimed"}

LEMMA OneLinkInit == Init => OneLink
<1> SUFFICES ASSUME Init PROVE OneLink
    OBVIOUS
<1>1. slot = 0 /\ base = Load(None) /\ \A c \in Conn : conns[c].phase = "none"
    BY DEF Init
<1> QED BY <1>1, LoadIsBase, ConnIsNat DEF OneLink

LEMMA OneLinkKept ==
    ASSUME OneLink, UNCHANGED slot, plugin'.conn = plugin.conn, IsBase(base'),
           base'.synced = TRUE => base.synced = TRUE,
           \A c \in Conn : conns'[c].phase = conns[c].phase
    PROVE  OneLink'
BY DEF OneLink

\* What a step that changes no connection's phase, nor the slot, does to the base
LEMMA OneLinkStep ==
    Undisturbed /\ Swept /\ Links /\ Awaited /\ OneLink /\ [Next]_vars => OneLink'
<1> SUFFICES ASSUME Undisturbed, Swept, Links, Awaited, OneLink, [Next]_vars PROVE OneLink'
    OBVIOUS
<1>a. ConnsShaped /\ PluginShaped /\ LinkInv /\ IsBase(base)
    BY DEF Links, OneLink
<1>b. {"open", "closing", "released", "gone"} \subseteq ConnPhase
    BY DEF ConnPhase
<1>1. ASSUME NEW p \in Path, NEW t, DiskEdit(p, t) PROVE OneLink'
    <2>1. UNCHANGED <<slot, plugin, base>> /\ conns' = Queued(Subscribed, <<[path |-> p, content |-> Get(t, p)]>>)
        BY <1>1 DEF DiskEdit
    <2> QED BY <1>a, <2>1, QueuesShaped, OneLinkKept
<1>2. ASSUME NEW place \in Place, OpenPlace(place) PROVE OneLink'
    <2>1. UNCHANGED <<slot, conns, base>> /\ plugin' = [plugin EXCEPT !.place = place]
        BY <1>2 DEF OpenPlace, daemon
    <2>2. plugin'.conn = plugin.conn
        BY <1>a, <2>1 DEF PluginShaped
    <2> QED BY <1>a, <2>1, <2>2, OneLinkKept
<1>3. ASSUME NEW c \in Conn, Dial(c) PROVE OneLink'
    <2>1. /\ slot = 0 /\ slot' = c /\ UNCHANGED base /\ \A d \in Conn : ~Dead(d)
          /\ plugin' = [plugin EXCEPT !.conn = c, !.phase = IF @ = "redial" THEN "rehello" ELSE "hello"]
          /\ conns' = [conns EXCEPT ![c] = [phase |-> "claimed", alive |-> TRUE, queue |-> << >>]]
        BY <1>3 DEF Dial, Clean, Swept
    <2>2. plugin'.conn = c
        BY <1>a, <2>1 DEF PluginShaped
    <2>3. \A d \in Conn : conns[d].phase \in {"none", "gone"}
        <3>1. SUFFICES ASSUME NEW d \in Conn, conns[d].phase \notin {"none", "gone"} PROVE FALSE
            OBVIOUS
        <3>2. conns[d].alive
            BY <2>1, <3>1 DEF Dead
        <3>3. conns[d].phase \in {"claimed", "open"}
            BY <1>a, <3>2 DEF LinkInv
        <3>4. slot = d
            BY <3>3 DEF OneLink
        <3> QED BY <2>1, <3>4, ConnIsNat
    <2>4. base.synced # TRUE
        BY <2>3 DEF OneLink
    <2>5. DOMAIN conns = Conn
        BY <1>a DEF ConnsShaped
    <2>6. conns'[c].phase = "claimed" /\ \A d \in Conn \ {c} : conns'[d] = conns[d]
        BY <2>1, <2>5
    <2> QED BY <1>a, <2>1, <2>2, <2>3, <2>4, <2>6 DEF OneLink
<1>4. ASSUME NEW c \in Conn, Open(c) PROVE OneLink'
    <2>1. /\ conns[c].phase = "claimed" /\ conns[c].alive /\ UNCHANGED slot
          /\ base' = OnReconnect(base, generation) /\ conns' = [conns EXCEPT ![c].phase = "open"]
          /\ plugin' = [plugin EXCEPT !.phase = IF @ = "rehello" THEN "live" ELSE "ready"]
        BY <1>4 DEF Open
    <2>2. plugin'.conn = plugin.conn /\ c = plugin.conn
        BY <1>a, <2>1 DEF PluginShaped, LinkInv
    <2>3. conns'[c].phase = "open" /\ \A d \in Conn \ {c} : conns'[d] = conns[d]
        BY <1>a, <1>b, <2>1, PhaseSet
    <2>4. IsBase(base')
        BY <1>a, <2>1, OnReconnectIsBase
    <2> QED BY <2>1, <2>2, <2>3, <2>4 DEF OneLink
<1>5. ASSUME NEW c \in Conn, NEW next \in {"redial", "offline"}, LinkDrops(c, next) PROVE OneLink'
    <2>1. /\ UNCHANGED <<slot, base>> /\ conns' = [conns EXCEPT ![c].alive = FALSE]
          /\ plugin' = [plugin EXCEPT !.phase = next]
        BY <1>5 DEF LinkDrops
    <2>2. plugin'.conn = plugin.conn
        BY <1>a, <2>1 DEF PluginShaped
    <2>3. \A d \in Conn : conns'[d].phase = conns[d].phase
        BY <1>a, <2>1, Hangup
    <2> QED BY <1>a, <2>1, <2>2, <2>3, OneLinkKept
<1>6. ASSUME NEW c \in Conn, LoopEnds(c) PROVE OneLink'
    <2>1. /\ conns[c].phase \in {"claimed", "open"} /\ UNCHANGED <<slot, plugin, base>>
          /\ conns' = [conns EXCEPT ![c].phase = "closing"]
        BY <1>6 DEF LoopEnds
    <2>2. conns'[c].phase = "closing" /\ \A d \in Conn \ {c} : conns'[d] = conns[d]
        BY <1>a, <1>b, <2>1, PhaseSet
    <2> QED BY <2>1, <2>2 DEF OneLink
<1>7. ASSUME NEW c \in Conn, Release(c) PROVE OneLink'
    <2>1. /\ conns[c].phase = "closing" /\ UNCHANGED <<plugin, base>> /\ slot' = IF slot = c THEN 0 ELSE slot
          /\ conns' = [conns EXCEPT ![c].phase = "released"]
        BY <1>7 DEF Release
    <2>2. conns'[c].phase = "released" /\ \A d \in Conn \ {c} : conns'[d] = conns[d]
        BY <1>a, <1>b, <2>1, PhaseSet
    <2>3. slot = c /\ slot' = 0
        BY <2>1 DEF OneLink
    <2>4. 0 \notin Conn
        BY ConnIsNat
    <2> QED BY <2>1, <2>2, <2>3, <2>4 DEF OneLink
<1>8. ASSUME NEW c \in Conn, Unsubscribe(c) PROVE OneLink'
    <2>1. /\ conns[c].phase = "released" /\ UNCHANGED <<slot, plugin, base>>
          /\ conns' = [conns EXCEPT ![c].phase = "unsubscribed", ![c].queue = << >>]
        BY <1>8 DEF Unsubscribe
    <2>2. conns'[c].phase = "unsubscribed" /\ \A d \in Conn \ {c} : conns'[d] = conns[d]
        BY <1>a, <2>1, UnsubscribeShaped
    <2> QED BY <2>1, <2>2 DEF OneLink
<1>9. ASSUME NEW c \in Conn, Disconnected(c) PROVE OneLink'
    <2>1. /\ conns[c].phase = "unsubscribed" /\ UNCHANGED <<slot, plugin>>
          /\ base' = OnDisconnect(base, generation) /\ conns' = [conns EXCEPT ![c].phase = "gone"]
        BY <1>9 DEF Disconnected
    <2>2. conns'[c].phase = "gone" /\ \A d \in Conn \ {c} : conns'[d] = conns[d]
        BY <1>a, <1>b, <2>1, PhaseSet
    <2>3. IsBase(base') /\ base'.synced = FALSE
        BY <1>a, <2>1, OnDisconnectIsBase
    <2> QED BY <2>1, <2>2, <2>3 DEF OneLink
<1>10. CASE Fetch
    <2>1. UNCHANGED <<slot, conns, base>> /\ plugin' = [plugin EXCEPT !.phase = "fetched", !.seen = disk]
        BY <1>10 DEF Fetch, daemon
    <2>2. plugin'.conn = plugin.conn
        BY <1>a, <2>1 DEF PluginShaped
    <2> QED BY <1>a, <2>1, <2>2, OneLinkKept
<1>11. ASSUME NEW named \in BOOLEAN, NEW written \in BOOLEAN, Compare(named, written) PROVE OneLink'
    <2>1. UNCHANGED <<slot, conns>> /\ plugin' = [plugin EXCEPT !.phase = "waiting", !.seen = << >>]
        BY <1>11 DEF Compare
    <2>2. plugin'.conn = plugin.conn
        BY <1>a, <2>1 DEF PluginShaped
    <2>3. \E place : base' = BeginCompare(base, place)
        BY <1>11 DEF Compare
    <2>4. IsBase(base') /\ base'.synced = FALSE
        BY <1>a, <2>3, BeginCompareIsBase
    <2> QED BY <2>1, <2>2, <2>4, OneLinkKept
<1>12. ASSUME NEW named \in BOOLEAN, Refuse(named) PROVE OneLink'
    <2>1. /\ UNCHANGED slot /\ plugin' = [plugin EXCEPT !.phase = "offline", !.seen = << >>]
          /\ plugin.phase = "fetched" /\ conns' = [conns EXCEPT ![plugin.conn].alive = FALSE]
        BY <1>12 DEF Refuse
    <2>2. plugin'.conn = plugin.conn
        BY <1>a, <2>1 DEF PluginShaped
    <2>3. PICK c \in Conn : c = plugin.conn
        BY <1>a, <2>1 DEF LinkInv
    <2>4. \A d \in Conn : conns'[d].phase = conns[d].phase
        BY <1>a, <2>1, <2>3, Hangup
    <2>5. \E place : base' = BeginCompare(base, place)
        BY <1>12 DEF Refuse
    <2>6. IsBase(base') /\ base'.synced = FALSE
        BY <1>a, <2>5, BeginCompareIsBase
    <2> QED BY <2>1, <2>2, <2>4, <2>6, OneLinkKept
<1>13. ASSUME NEW k \in DOMAIN tasks, ApplyFails(k) PROVE OneLink'
    <2>1. PICK c \in Conn : c = plugin.conn /\ k = c /\ plugin.phase = "waiting"
        BY <1>a, <1>13 DEF Awaited, LinkInv
    <2>2. /\ UNCHANGED <<slot, base>> /\ plugin' = [plugin EXCEPT !.phase = "offline"]
          /\ conns' = [conns EXCEPT ![c].alive = FALSE]
        BY <1>13, <2>1 DEF ApplyFails
    <2>3. plugin'.conn = plugin.conn
        BY <1>a, <2>2 DEF PluginShaped
    <2>4. \A d \in Conn : conns'[d].phase = conns[d].phase
        BY <1>a, <2>2, Hangup
    <2> QED BY <1>a, <2>2, <2>3, <2>4, OneLinkKept
<1>14. ASSUME NEW k \in DOMAIN tasks, Push(k) PROVE OneLink'
    <2>1. UNCHANGED <<slot, plugin, base>> /\ \E C, frames : conns' = Queued(C, frames)
        BY <1>14, Zenon DEF Push
    <2> QED BY <1>a, <2>1, QueuesShaped, OneLinkKept
<1>15. ASSUME NEW k \in DOMAIN tasks, NEW saved \in BOOLEAN, CommitBase(k, saved) PROVE OneLink'
    <2>1. plugin.phase = "waiting" /\ k = plugin.conn /\ UNCHANGED <<slot, conns>>
        BY <1>15 DEF Awaited, CommitBase
    <2>2. plugin' = [plugin EXCEPT !.phase = "live"]
          /\ base' = Commit(base, tasks[k].snapshot, tasks[k].takenAt, tasks[k].pushed # {})
        BY <1>15, <2>1 DEF CommitBase
    <2>3. plugin'.conn = plugin.conn
        BY <1>a, <2>2 DEF PluginShaped
    <2>4. IsBase(base')
        BY <1>a, <2>2, CommitIsBase
    <2>5. plugin.conn \in Conn /\ conns[plugin.conn].phase = "open"
        BY <1>a, <2>1 DEF LinkInv
    <2> QED BY <2>1, <2>3, <2>4, <2>5 DEF OneLink
<1>16. CASE Deliver
    <2>1. UNCHANGED <<slot, plugin, base>> /\ plugin.phase = "live"
          /\ conns' = [conns EXCEPT ![plugin.conn].queue = Tail(@)]
        BY <1>16 DEF Deliver
    <2>2. PICK c \in Conn : c = plugin.conn
        BY <1>a, <2>1 DEF LinkInv
    <2>3. DOMAIN conns = Conn /\ ConnShaped(c)
        BY <1>a DEF ConnsShaped
    <2>4. conns'[c] = [conns[c] EXCEPT !.queue = Tail(conns[c].queue)] /\ \A d \in Conn \ {c} : conns'[d] = conns[d]
        BY <2>1, <2>2, <2>3
    <2>5. \A d \in Conn : conns'[d].phase = conns[d].phase
        BY <2>3, <2>4, RequeuedConn DEF ConnShaped
    <2> QED BY <1>a, <2>1, <2>5, OneLinkKept
<1>17. ASSUME NEW saved \in BOOLEAN, TickCommits(saved) PROVE OneLink'
    <2>1. UNCHANGED <<slot, plugin, conns>> /\ base' = TickHead(base, writer.generation, writer.present)
        BY <1>17 DEF TickCommits
    <2>2. IsBase(base') /\ base'.synced \in {base.synced, FALSE}
        BY <1>a, <2>1, TickHeadIsBase
    <2> QED BY <2>1, <2>2, OneLinkKept
<1>18. CASE Store
    <2>1. UNCHANGED <<slot, plugin, conns>>
          /\ base' = TickTail(base, writer.epoch, writer.snapshot, writer.takenAt)
        BY <1>18 DEF Store
    <2>a. PICK e, snapshot, g : base' = TickTail(base, e, snapshot, g)
        BY <2>1
    <2>b. IsBase(base)
        BY <1>a
    <2>2. IsBase(base') /\ base'.synced = base.synced
        BY <2>b, <2>a, TickTailIsBase
    <2> QED BY <2>1, <2>2, OneLinkKept
<1>19. ASSUME NEW graceful \in BOOLEAN, Restart(graceful) PROVE OneLink'
    <2>1. /\ slot' = 0 /\ base' = Load(file)
          /\ conns' = [c \in Conn |-> IF conns[c].phase = "none" THEN conns[c]
                                      ELSE [phase |-> "gone", alive |-> FALSE, queue |-> << >>]]
        BY <1>19 DEF Restart
    <2>2. \A c \in Conn : conns'[c].phase \in {"none", "gone"}
        BY <2>1
    <2>3. IsBase(base') /\ base'.synced = FALSE /\ 0 \notin Conn
        BY <2>1, LoadIsBase, ConnIsNat
    <2> QED BY <2>1, <2>2, <2>3 DEF OneLink
<1>20. ASSUME UNCHANGED <<slot, plugin, conns, base>> PROVE OneLink'
    BY <1>a, <1>20, OneLinkKept
<1>21. CASE Users
    <2>1. ASSUME NEW p \in Path, NEW t, StudioEdit(p, t) PROVE UNCHANGED <<slot, plugin, conns, base>>
        BY <2>1 DEF StudioEdit, daemon
    <2> QED BY <1>1, <1>2, <1>20, <1>21, <2>1 DEF Users
<1>22. CASE Cleanup
    BY <1>6, <1>7, <1>8, <1>9, <1>22 DEF Cleanup
<1>23. CASE Connects
    <2>1. ASSUME NEW k, Apply(k) \/ Snap(k) PROVE UNCHANGED <<slot, plugin, conns, base>>
        BY <2>1 DEF Apply, Snap
    <2> QED BY <1>4, <1>10, <1>11, <1>12, <1>13, <1>14, <1>15, <1>20, <1>23, <2>1 DEF Connects
<1>24. CASE Writer
    <2>1. ASSUME Sample \/ Take PROVE UNCHANGED <<slot, plugin, conns, base>>
        BY <2>1 DEF Sample, Take
    <2> QED BY <1>17, <1>18, <1>20, <1>24, <2>1 DEF Writer
<1>25. CASE Guard \/ UNCHANGED vars
    <2>1. UNCHANGED <<slot, plugin, conns, base>>
        BY <1>25, GuardRests DEF vars
    <2> QED BY <1>20, <2>1
<1> QED BY <1>3, <1>5, <1>16, <1>19, <1>21, <1>22, <1>23, <1>24, <1>25 DEF Next

\* What was taken was taken on the plugin's connection, or the daemon has yet to
\* clean up after it
TakenHere == sawOn.take = plugin.conn \/ conns[plugin.conn].alive = FALSE

\* A snapshot of the current session, about to be stored or stored
Current(epoch) == base.synced = TRUE /\ epoch = base.epoch

WriterInv ==
    /\ sawOn \in [sample : Conn \cup {0}, take : Conn \cup {0}]
    /\ writer.stage \in {"taking", "taken"} =>
          base.pending = {} /\ writer.epoch \in Nat /\ writer.epoch <= base.epoch
    /\ writer.stage = "taken" /\ Current(writer.epoch) => TakenHere
    /\ \A pending \in base.pending :
          /\ pending.epoch \in Nat /\ pending.epoch <= base.epoch
          /\ Current(pending.epoch) => TakenHere
          /\ Current(pending.epoch) /\ writer.stage = "sampled" =>
                sawOn.take = plugin.conn /\ sawOn.sample = plugin.conn

LEMMA WriterInit == Init => WriterInv
<1> SUFFICES ASSUME Init PROVE WriterInv
    OBVIOUS
<1>1. sawOn = [sample |-> 0, take |-> 0] /\ writer = [stage |-> "idle"] /\ base = Load(None)
    BY DEF Init, Idle
<1>2. base.pending = {} /\ writer.stage = "idle"
    BY <1>1, LoadIsBase
<1> QED BY <1>1, <1>2 DEF WriterInv

\* A step of others: a later session has nothing taken yet, and the same one keeps
\* its connection
LEMMA WriterKept ==
    ASSUME WriterInv, OneLink, IsBase(base'), UNCHANGED <<writer, sawOn>>, plugin'.conn = plugin.conn,
           base'.pending \subseteq base.pending,
           \/ base'.epoch = base.epoch + 1
           \/ base'.epoch = base.epoch /\ (base'.synced = TRUE => base.synced = TRUE),
           conns[plugin.conn].alive = FALSE => conns'[plugin.conn].alive = FALSE
    PROVE  WriterInv'
<1>1. base.epoch \in Nat /\ base'.epoch \in Nat /\ base.epoch <= base'.epoch
    BY DEF OneLink, IsBase
<1>2. ASSUME NEW e \in Nat, e <= base.epoch, Current(e)' PROVE Current(e)
    BY <1>1, <1>2 DEF Current
<1>3. TakenHere => TakenHere'
    BY DEF TakenHere
<1>4. writer.stage \in {"taking", "taken"} => base'.pending = {} /\ writer.epoch <= base'.epoch
    BY <1>1 DEF WriterInv
<1>5. writer.stage = "taken" /\ Current(writer.epoch)' => TakenHere'
    BY <1>2, <1>3 DEF WriterInv
<1>6. ASSUME NEW pending \in base'.pending
      PROVE  /\ pending.epoch \in Nat /\ pending.epoch <= base'.epoch
             /\ Current(pending.epoch)' => TakenHere'
             /\ Current(pending.epoch)' /\ writer.stage = "sampled" =>
                   sawOn.take = plugin.conn /\ sawOn.sample = plugin.conn
    <2>1. pending \in base.pending
        OBVIOUS
    <2>2. pending.epoch \in Nat /\ pending.epoch <= base.epoch
        BY <2>1 DEF WriterInv
    <2>3. pending.epoch <= base'.epoch
        BY <1>1, <2>2
    <2> QED BY <1>2, <1>3, <2>1, <2>2, <2>3 DEF WriterInv
<1> QED BY <1>4, <1>5, <1>6 DEF WriterInv, Current, TakenHere

\* A base that records nothing has no current snapshot
LEMMA WriterOff ==
    ASSUME WriterInv, OneLink', UNCHANGED <<base, writer, sawOn>>, base.synced # TRUE
    PROVE  WriterInv'
BY DEF WriterInv, Current

LEMMA WriterStep ==
    Undisturbed /\ Swept /\ Links /\ Awaited /\ OneLink /\ OneLink' /\ WriterInv /\ [Next]_vars => WriterInv'
<1> SUFFICES ASSUME Undisturbed, Swept, Links, Awaited, OneLink, OneLink', WriterInv, [Next]_vars
             PROVE  WriterInv'
    OBVIOUS
<1>a. ConnsShaped /\ PluginShaped /\ LinkInv /\ IsBase(base) /\ IsBase(base')
    BY DEF Links, OneLink
<1>0. ASSUME UNCHANGED <<base, writer, sawOn, plugin, conns>> PROVE WriterInv'
    BY <1>0, <1>a, WriterKept
<1>1. CASE Users
    <2>1. ASSUME NEW p \in Path, NEW t, DiskEdit(p, t) PROVE WriterInv'
        <3>1. UNCHANGED <<writer, sawOn, plugin, base>>
              /\ conns' = Queued(Subscribed, <<[path |-> p, content |-> Get(t, p)]>>)
            BY <2>1 DEF DiskEdit, history
        <3>2. \A c \in Conn : conns'[c].alive = conns[c].alive
            BY <1>a, <3>1, QueuesShaped
        <3>3. CASE plugin.conn \in Conn
            BY <1>a, <3>1, <3>2, <3>3, WriterKept
        <3>4. CASE plugin.conn \notin Conn
            BY <3>1, <3>4, WriterOff DEF OneLink
        <3> QED BY <3>3, <3>4
    <2>2. ASSUME NEW place \in Place, OpenPlace(place) PROVE WriterInv'
        <3>1. UNCHANGED <<writer, sawOn, conns, base>> /\ plugin' = [plugin EXCEPT !.place = place]
            BY <2>2 DEF OpenPlace, daemon, history
        <3>2. plugin'.conn = plugin.conn
            BY <1>a, <3>1 DEF PluginShaped
        <3> QED BY <1>a, <3>1, <3>2, WriterKept
    <2>3. ASSUME NEW p \in Path, NEW t, StudioEdit(p, t) PROVE WriterInv'
        BY <1>0, <2>3 DEF StudioEdit, daemon
    <2> QED BY <1>1, <2>1, <2>2, <2>3 DEF Users
<1>2. ASSUME NEW c \in Conn, LoopEnds(c) \/ Release(c) \/ Unsubscribe(c) PROVE WriterInv'
    <2>1. UNCHANGED <<writer, sawOn, plugin, base>>
        BY <1>2 DEF LoopEnds, Release, Unsubscribe, history
    <2>2. \A d \in Conn : conns'[d].alive = conns[d].alive
        <3>1. {"closing", "released"} \subseteq ConnPhase
            BY DEF ConnPhase
        <3> QED BY <1>a, <1>2, <3>1, PhaseSet, UnsubscribeShaped DEF LoopEnds, Release, Unsubscribe
    <2>3. CASE plugin.conn \in Conn
        BY <1>a, <2>1, <2>2, <2>3, WriterKept
    <2>4. CASE plugin.conn \notin Conn
        BY <2>1, <2>4, WriterOff DEF OneLink
    <2> QED BY <2>3, <2>4
<1>3. ASSUME NEW c \in Conn, Disconnected(c) PROVE WriterInv'
    <2>1. /\ UNCHANGED <<writer, sawOn, plugin>> /\ conns[c].phase = "unsubscribed"
          /\ base' = OnDisconnect(base, generation) /\ conns' = [conns EXCEPT ![c].phase = "gone"]
        BY <1>3 DEF Disconnected, history
    <2>2. \A d \in Conn : conns'[d].alive = conns[d].alive
        <3>1. "gone" \in ConnPhase
            BY DEF ConnPhase
        <3> QED BY <1>a, <2>1, <3>1, PhaseSet
    <2>3. plugin.conn \in Conn
        BY <2>1 DEF OneLink
    <2>4. /\ \/ base'.epoch = base.epoch + 1
             \/ base'.epoch = base.epoch /\ (base'.synced = TRUE => base.synced = TRUE)
          /\ base'.pending \subseteq base.pending
        BY <1>a, <2>1, OnDisconnectIsBase
    <2> QED BY <1>a, <2>1, <2>2, <2>3, <2>4, WriterKept
<1>4. ASSUME NEW c \in Conn, Open(c) PROVE WriterInv'
    <2>1. /\ conns[c].alive /\ UNCHANGED <<writer, sawOn>>
          /\ base' = OnReconnect(base, generation) /\ conns' = [conns EXCEPT ![c].phase = "open"]
          /\ plugin' = [plugin EXCEPT !.phase = IF @ = "rehello" THEN "live" ELSE "ready"]
        BY <1>4 DEF Open, history
    <2>2. plugin'.conn = plugin.conn /\ plugin.conn \in Conn
        BY <1>a, <2>1 DEF PluginShaped, LinkInv
    <2>3. \A d \in Conn : conns'[d].alive = conns[d].alive
        <3>1. "open" \in ConnPhase
            BY DEF ConnPhase
        <3> QED BY <1>a, <2>1, <3>1, PhaseSet
    <2>4. /\ \/ base'.epoch = base.epoch + 1
             \/ base'.epoch = base.epoch /\ (base'.synced = TRUE => base.synced = TRUE)
          /\ base'.pending \subseteq base.pending
        BY <1>a, <2>1, OnReconnectIsBase
    <2> QED BY <1>a, <2>1, <2>2, <2>3, <2>4, WriterKept
<1>5. CASE Fetch
    <2>1. UNCHANGED <<writer, sawOn, conns, base>> /\ plugin' = [plugin EXCEPT !.phase = "fetched", !.seen = disk]
        BY <1>5 DEF Fetch, daemon, history
    <2>2. plugin'.conn = plugin.conn
        BY <1>a, <2>1 DEF PluginShaped
    <2> QED BY <1>a, <2>1, <2>2, WriterKept
<1>6. ASSUME NEW named \in BOOLEAN, NEW written \in BOOLEAN, Compare(named, written) PROVE WriterInv'
    <2>1. UNCHANGED <<writer, sawOn, conns>> /\ plugin' = [plugin EXCEPT !.phase = "waiting", !.seen = << >>]
        BY <1>6 DEF Compare, history
    <2>2. plugin'.conn = plugin.conn
        BY <1>a, <2>1 DEF PluginShaped
    <2>3. \E place : base' = BeginCompare(base, place)
        BY <1>6 DEF Compare
    <2>4. base'.epoch = base.epoch + 1 /\ base'.pending = {}
        BY <1>a, <2>3, BeginCompareIsBase
    <2> QED BY <1>a, <2>1, <2>2, <2>4, WriterKept
<1>7. ASSUME NEW named \in BOOLEAN, Refuse(named) PROVE WriterInv'
    <2>1. /\ UNCHANGED <<writer, sawOn>> /\ plugin' = [plugin EXCEPT !.phase = "offline", !.seen = << >>]
          /\ plugin.phase = "fetched" /\ conns' = [conns EXCEPT ![plugin.conn].alive = FALSE]
        BY <1>7 DEF Refuse, history
    <2>2. plugin'.conn = plugin.conn
        BY <1>a, <2>1 DEF PluginShaped
    <2>3. PICK c \in Conn : c = plugin.conn
        BY <1>a, <2>1 DEF LinkInv
    <2>4. conns'[plugin.conn].alive = FALSE
        BY <1>a, <2>1, <2>3, Hangup
    <2>5. \E place : base' = BeginCompare(base, place)
        BY <1>7 DEF Refuse
    <2>6. base'.epoch = base.epoch + 1 /\ base'.pending = {}
        BY <1>a, <2>5, BeginCompareIsBase
    <2> QED BY <1>a, <2>1, <2>2, <2>4, <2>6, WriterKept
<1>8. ASSUME NEW k \in DOMAIN tasks, ApplyFails(k) PROVE WriterInv'
    <2>1. PICK c \in Conn : c = plugin.conn /\ k = c /\ plugin.phase = "waiting"
        BY <1>a, <1>8 DEF Awaited, LinkInv
    <2>2. /\ UNCHANGED <<writer, sawOn, base>> /\ plugin' = [plugin EXCEPT !.phase = "offline"]
          /\ conns' = [conns EXCEPT ![c].alive = FALSE]
        BY <1>8, <2>1 DEF ApplyFails, history
    <2>3. plugin'.conn = plugin.conn
        BY <1>a, <2>2 DEF PluginShaped
    <2>4. conns'[plugin.conn].alive = FALSE
        BY <1>a, <2>1, <2>2, Hangup
    <2> QED BY <1>a, <2>2, <2>3, <2>4, WriterKept
<1>9. ASSUME NEW k \in DOMAIN tasks, Push(k) PROVE WriterInv'
    <2>1. UNCHANGED <<writer, sawOn, plugin, base>> /\ \E C, frames : conns' = Queued(C, frames)
        BY <1>9, Zenon DEF Push, history
    <2>2. \A c \in Conn : conns'[c].alive = conns[c].alive
        BY <1>a, <2>1, QueuesShaped
    <2>3. plugin.conn \in Conn
        BY <1>a, <1>9 DEF Awaited, LinkInv
    <2> QED BY <1>a, <2>1, <2>2, <2>3, WriterKept
<1>10. ASSUME NEW k \in DOMAIN tasks, NEW saved \in BOOLEAN, CommitBase(k, saved) PROVE WriterInv'
    <2>1. plugin.phase = "waiting" /\ k = plugin.conn /\ UNCHANGED <<writer, sawOn, conns>>
        BY <1>10 DEF Awaited, CommitBase, history
    <2>2. plugin' = [plugin EXCEPT !.phase = "live"]
          /\ base' = Commit(base, tasks[k].snapshot, tasks[k].takenAt, tasks[k].pushed # {})
        BY <1>10, <2>1 DEF CommitBase
    <2>3. plugin'.conn = plugin.conn
        BY <1>a, <2>2 DEF PluginShaped
    <2>4. base'.epoch = base.epoch + 1 /\ base'.pending = {}
        BY <1>a, <2>2, CommitIsBase
    <2> QED BY <1>a, <2>1, <2>3, <2>4, WriterKept
<1>11. CASE Deliver
    <2>1. UNCHANGED <<writer, sawOn, plugin, base>> /\ plugin.phase = "live"
          /\ conns' = [conns EXCEPT ![plugin.conn].queue = Tail(@)]
        BY <1>11 DEF Deliver
    <2>2. PICK c \in Conn : c = plugin.conn
        BY <1>a, <2>1 DEF LinkInv
    <2>3. DOMAIN conns = Conn /\ ConnShaped(c)
        BY <1>a DEF ConnsShaped
    <2>4. conns'[c] = [conns[c] EXCEPT !.queue = Tail(conns[c].queue)]
        BY <2>1, <2>2, <2>3
    <2>5. conns'[plugin.conn].alive = conns[plugin.conn].alive
        BY <2>2, <2>3, <2>4, RequeuedConn DEF ConnShaped
    <2> QED BY <1>a, <2>1, <2>5, WriterKept
<1>12. CASE Sample
    <2>1. /\ writer' = [stage |-> "sampled", generation |-> generation, present |-> slot # 0]
          /\ sawOn' = [sawOn EXCEPT !.sample = slot] /\ UNCHANGED <<base, plugin, conns>>
          /\ \A c \in Conn : ~Dead(c)
        BY <1>12 DEF Sample, Clean, Swept
    <2>2. writer'.stage = "sampled"
        BY <2>1
    <2>3. sawOn' \in [sample : Conn \cup {0}, take : Conn \cup {0}] /\ sawOn'.sample = slot /\ sawOn'.take = sawOn.take
        BY <2>1 DEF WriterInv, OneLink
    <2>4. ASSUME NEW pending \in base.pending, Current(pending.epoch)
          PROVE  sawOn.take = plugin.conn /\ slot = plugin.conn
        <3>1. plugin.conn \in Conn /\ conns[plugin.conn].phase \notin {"none", "gone", "claimed"}
            BY <2>4 DEF Current, OneLink
        <3>2. conns[plugin.conn].alive
            BY <2>1, <3>1 DEF Dead
        <3>3. conns[plugin.conn].phase = "open"
            BY <1>a, <3>1, <3>2 DEF LinkInv
        <3>4. slot = plugin.conn
            BY <3>1, <3>3 DEF OneLink
        <3> QED BY <2>4, <3>2, <3>4 DEF WriterInv, TakenHere
    <2> QED BY <2>1, <2>2, <2>3, <2>4 DEF WriterInv, Current, TakenHere
<1>13. ASSUME NEW saved \in BOOLEAN, TickCommits(saved) PROVE WriterInv'
    <2>1. /\ UNCHANGED <<sawOn, plugin, conns>> /\ base' = TickHead(base, writer.generation, writer.present)
          /\ writer' = IF TickTakes(base', writer.generation)
                       THEN [stage |-> "taking", epoch |-> base'.epoch] ELSE Idle
        BY <1>13 DEF TickCommits, history
    <2>2. base'.pending = {} /\ base'.epoch \in Nat
        BY <1>a, <2>1, TickHeadIsBase DEF IsBase
    <2>3. \/ writer'.stage = "idle"
          \/ writer'.stage = "taking" /\ writer'.epoch = base'.epoch
        BY <2>1 DEF Idle
    <2> QED BY <2>1, <2>2, <2>3 DEF WriterInv
<1>14. CASE Take
    <2>1. /\ writer.stage = "taking" /\ UNCHANGED <<base, plugin, conns>> /\ sawOn' = [sawOn EXCEPT !.take = slot]
          /\ writer' = [stage |-> "taken", epoch |-> writer.epoch, takenAt |-> generation,
                        snapshot |-> SnapshotTree(Keys(disk), {})]
        BY <1>14 DEF Take
    <2>2. writer'.stage = "taken" /\ writer'.epoch = writer.epoch
        BY <2>1
    <2>3. sawOn' \in [sample : Conn \cup {0}, take : Conn \cup {0}] /\ sawOn'.take = slot
        BY <2>1 DEF WriterInv, OneLink
    <2>4. base.synced = TRUE => slot = plugin.conn \/ conns[plugin.conn].alive = FALSE
        <3>1. SUFFICES ASSUME base.synced = TRUE, conns[plugin.conn].alive # FALSE PROVE slot = plugin.conn
            OBVIOUS
        <3>2. plugin.conn \in Conn /\ conns[plugin.conn].phase \notin {"none", "gone", "claimed"}
            BY <3>1 DEF OneLink
        <3>3. conns[plugin.conn].alive
            BY <1>a, <3>1, <3>2 DEF ConnsShaped, ConnShaped
        <3>4. conns[plugin.conn].phase = "open"
            BY <1>a, <3>2, <3>3 DEF LinkInv
        <3> QED BY <3>2, <3>4 DEF OneLink
    <2>5. base.pending = {} /\ writer.epoch \in Nat /\ writer.epoch <= base.epoch
        BY <2>1 DEF WriterInv
    <2> QED BY <2>1, <2>2, <2>3, <2>4, <2>5 DEF WriterInv, Current, TakenHere
<1>15. CASE Store
    <2>1. /\ UNCHANGED <<sawOn, plugin, conns>> /\ writer.stage = "taken" /\ writer' = Idle
          /\ base' = TickTail(base, writer.epoch, writer.snapshot, writer.takenAt)
        BY <1>15 DEF Store, history
    <2>2. writer'.stage = "idle" /\ base.pending = {}
        BY <2>1 DEF Idle, WriterInv
    <2>a. PICK e, snapshot, g : /\ e = writer.epoch /\ snapshot = writer.snapshot
                                /\ base' = TickTail(base, e, snapshot, g)
        BY <2>1
    <2>3. base'.epoch = base.epoch /\ base'.synced = base.synced
        BY <1>a, <2>a, TickTailIsBase
    <2>4. \/ base'.pending = {}
          \/ /\ Current(writer.epoch)
             /\ \A pending \in base'.pending : pending.epoch = writer.epoch
        <3>1. PICK b, n : b = base /\ n = base'
            OBVIOUS
        <3>2. IsBase(b) /\ n = TickTail(b, e, snapshot, g)
            BY <1>a, <2>a, <3>1
        <3>3. Pends(b, n, e)
            BY <3>2, TickTailPends
        <3> QED BY <2>a, <2>2, <3>1, <3>3 DEF Current, Pends
    <2>5. ASSUME NEW pending \in base'.pending
          PROVE  pending.epoch = base.epoch /\ base.epoch \in Nat /\ TakenHere
        BY <1>a, <2>1, <2>4 DEF WriterInv, Current, IsBase
    <2>6. TakenHere => TakenHere'
        BY <2>1 DEF TakenHere
    <2>7. ASSUME NEW pending \in base'.pending
          PROVE  pending.epoch \in Nat /\ pending.epoch <= base'.epoch /\ TakenHere'
        BY <2>3, <2>5, <2>6
    <2>8. sawOn' \in [sample : Conn \cup {0}, take : Conn \cup {0}]
        BY <2>1 DEF WriterInv
    <2> QED BY <2>2, <2>7, <2>8 DEF WriterInv
<1>16. ASSUME NEW graceful \in BOOLEAN, Restart(graceful) PROVE WriterInv'
    <2>1. base' = Load(file) /\ writer' = [stage |-> "idle"] /\ UNCHANGED sawOn
        BY <1>16 DEF Restart, Idle
    <2>2. base'.pending = {} /\ writer'.stage = "idle"
        BY <2>1, LoadIsBase
    <2> QED BY <2>1, <2>2 DEF WriterInv
<1>17. ASSUME NEW c \in Conn, Dial(c) PROVE WriterInv'
    <2>1. /\ UNCHANGED <<base, writer, sawOn>>
          /\ plugin' = [plugin EXCEPT !.conn = c, !.phase = IF @ = "redial" THEN "rehello" ELSE "hello"]
          /\ conns' = [conns EXCEPT ![c] = [phase |-> "claimed", alive |-> TRUE, queue |-> << >>]]
        BY <1>17 DEF Dial, history
    <2>2. plugin'.conn = c /\ conns'[c].phase = "claimed"
        BY <1>a, <2>1 DEF PluginShaped, ConnsShaped
    <2> QED BY <2>1, <2>2, WriterOff DEF OneLink
<1>18. ASSUME NEW c \in Conn, NEW next \in {"redial", "offline"}, LinkDrops(c, next) PROVE WriterInv'
    <2>1. /\ UNCHANGED <<writer, sawOn, base>> /\ conns' = [conns EXCEPT ![c].alive = FALSE]
          /\ plugin' = [plugin EXCEPT !.phase = next] /\ conns[c].alive
        BY <1>18 DEF LinkDrops, history
    <2>2. plugin'.conn = plugin.conn /\ c = plugin.conn
        BY <1>a, <2>1 DEF PluginShaped, LinkInv
    <2>3. conns'[plugin.conn].alive = FALSE
        BY <1>a, <2>1, <2>2, Hangup
    <2> QED BY <1>a, <2>1, <2>2, <2>3, WriterKept
<1>19. CASE Cleanup
    BY <1>2, <1>3, <1>19 DEF Cleanup
<1>20. CASE Connects
    <2>1. ASSUME NEW k, Apply(k) \/ Snap(k) PROVE WriterInv'
        BY <1>0, <2>1 DEF Apply, Snap, history
    <2> QED BY <1>4, <1>5, <1>6, <1>7, <1>8, <1>9, <1>10, <1>20, <2>1 DEF Connects
<1>21. CASE Writer
    BY <1>12, <1>13, <1>14, <1>15, <1>21 DEF Writer
<1>22. CASE Guard \/ UNCHANGED vars
    BY <1>0, <1>22, GuardRests DEF vars
<1> QED BY <1>1, <1>11, <1>16, <1>17, <1>18, <1>19, <1>20, <1>21, <1>22 DEF Next

\* The writer of the sync base commits a snapshot only if the plugin it sees connected
\* is on the connection it was on when the snapshot was taken, for every instance,
\* as long as no link goes down during a connect and nobody comes in while the daemon
\* cleans up after a dead link (src/server/sync_base.rs tick, on_disconnect, ws/mod.rs
\* cleanup_plugin).
THEOREM SnapshotsOfOneConnection ==
    Undisturbed /\ Swept /\ Spec => ConnectionHeld
<1> SUFFICES ASSUME Undisturbed, Swept PROVE Spec => ConnectionHeld
    OBVIOUS
<1> DEFINE Inv == Links /\ Awaited /\ OneLink /\ WriterInv
           Holds == (\E saved \in BOOLEAN : TickCommits(saved)) /\ base'.stored # base.stored
                       => sawOn.sample # 0 /\ sawOn.sample = sawOn.take
<1>1. Init => Inv
    <2>1. Init => Awaited
        BY ConnectingInit DEF Connecting
    <2> QED BY <2>1, LinkInit, OneLinkInit, WriterInit
<1>2. Inv /\ [Next]_vars => Inv'
    BY LinksStep, AwaitedStep, OneLinkStep, WriterStep
<1>3. Inv => Holds
    <2> SUFFICES ASSUME Inv, NEW saved \in BOOLEAN, TickCommits(saved), base'.stored # base.stored
                 PROVE  sawOn.sample # 0 /\ sawOn.sample = sawOn.take
        OBVIOUS
    <2>1. writer.stage = "sampled" /\ base' = TickHead(base, writer.generation, writer.present)
        BY DEF TickCommits
    <2>2. PICK pending \in base.pending : Current(pending.epoch)
        <3>0. IsBase(base)
            BY DEF OneLink
        <3>a. PICK g, present : base' = TickHead(base, g, present)
            BY <2>1
        <3>b. PICK b, n : b = base /\ n = base'
            OBVIOUS
        <3>c. IsBase(b) /\ n = TickHead(b, g, present) /\ n.stored # b.stored
            BY <3>0, <3>a, <3>b
        <3>1. Due(b)
            BY <3>c, TickHeadIsBase
        <3> QED BY <3>b, <3>1 DEF Current, Due
    <2>3. sawOn.take = plugin.conn /\ sawOn.sample = plugin.conn
        BY <2>1, <2>2 DEF WriterInv
    <2>4. plugin.conn \in Conn
        BY <2>2 DEF Current, OneLink
    <2> QED BY <2>3, <2>4, ConnIsNat
<1>4. Inv /\ [Next]_vars => [Holds]_vars
    BY <1>3
<1> HIDE DEF Inv
<1> QED BY <1>1, <1>2, <1>4, PTL DEF Spec, ConnectionHeld

-----------------------------------------------------------------------------
(* What was delivered *)

\* No instance is below another
Flat == \A p \in Path : Len(p) = 1

\* Frames arrive, a compare is about what the plugin read, plugins say where they are
Orderly ==
    /\ Undisturbed /\ Swept
    /\ "lost frame" \notin Races /\ "edit in connect" \notin Races /\ "no place" \notin Races

Frame == [path : Path, content : {{}} \cup {{c} : c \in Content}]

\* The frames on their way to the plugin, and where it is
Wire == IF plugin.phase \in {"offline", "redial"} THEN << >> ELSE conns[plugin.conn].queue
Here == studio[plugin.place]

KeyIn(frame) == {KeyOf(c) : c \in frame.content}

\* The key was held in the place, or is about to arrive there
Delivered(place, p, key) ==
    \/ key \in held[place][p]
    \/ plugin.place = place /\ \E k \in DOMAIN Wire : Wire[k].path = p /\ key = KeyIn(Wire[k])

\* When the frames of q have arrived at s, it has at p what d has
Arrives(q, s, d, p) ==
    \/ \E k \in DOMAIN q : /\ q[k].path = p /\ q[k].content = Get(d, p)
                           /\ \A j \in DOMAIN q : j > k => q[j].path # p
    \/ Get(s, p) = Get(d, p) /\ \A j \in DOMAIN q : q[j].path # p

-----------------------------------------------------------------------------
(* Frames *)

\* A frame for p
LEMMA FrameIs ==
    ASSUME NEW t \in Tree, NEW p \in Path
    PROVE  [path |-> p, content |-> Get(t, p)] \in Frame
<1>1. Get(t, p) = {} \/ \E c \in Content : Get(t, p) = {c}
    BY TreeMeans, GetMeans
<1> QED
    BY <1>1 DEF Frame

LEMMA FrameMeans ==
    ASSUME NEW f \in Frame
    PROVE  f.path \in Path /\ (f.content = {} \/ \E c \in Content : f.content = {c})
BY DEF Frame

\* One more frame, at another path or with what d has
LEMMA ArrivesAppend ==
    ASSUME NEW q \in Seq(Frame), NEW f \in Frame, NEW s, NEW d, NEW p, f.path # p, Arrives(q, s, d, p)
    PROVE  Arrives(Append(q, f), s, d, p)
<1> DEFINE n == Append(q, f)
<1>1. /\ DOMAIN n = DOMAIN q \cup {Len(q) + 1} /\ n[Len(q) + 1] = f
      /\ \A k \in DOMAIN q : n[k] = q[k]
    OBVIOUS
<1> HIDE DEF n
<1>2. CASE Get(s, p) = Get(d, p) /\ \A j \in DOMAIN q : q[j].path # p
    BY <1>1, <1>2 DEF Arrives
<1>3. ASSUME NEW k \in DOMAIN q, q[k].path = p, q[k].content = Get(d, p),
             \A j \in DOMAIN q : j > k => q[j].path # p
      PROVE  Arrives(n, s, d, p)
    <2>1. k \in DOMAIN n /\ n[k].path = p /\ n[k].content = Get(d, p)
        BY <1>1, <1>3
    <2>2. \A j \in DOMAIN n : j > k => n[j].path # p
        BY <1>1, <1>3
    <2> QED
        BY <2>1, <2>2 DEF Arrives
<1> QED
    BY <1>2, <1>3 DEF Arrives, n

LEMMA ArrivesNew ==
    ASSUME NEW q \in Seq(Frame), NEW f \in Frame, NEW s, NEW d, NEW p, f.path = p, f.content = Get(d, p)
    PROVE  Arrives(Append(q, f), s, d, p)
<1> DEFINE n == Append(q, f)
<1>1. Len(q) + 1 \in DOMAIN n /\ n[Len(q) + 1] = f /\ \A k \in DOMAIN n : k <= Len(q) + 1
    OBVIOUS
<1>2. Len(q) \in Nat /\ DOMAIN n \subseteq Nat
    OBVIOUS
<1> HIDE DEF n
<1>3. \A j \in DOMAIN n : j > Len(q) + 1 => n[j].path # p
    BY <1>1, <1>2
<1> QED
    BY <1>1, <1>3 DEF Arrives, n

\* The first frame is applied
LEMMA ArrivesTail ==
    ASSUME NEW q \in Seq(Frame), q # << >>, NEW s, NEW d, NEW p, Arrives(q, s, d, p), NEW t,
           Head(q).path = p => Get(t, p) = Head(q).content,
           Head(q).path # p => Get(t, p) = Get(s, p)
    PROVE  Arrives(Tail(q), t, d, p)
<1> DEFINE n == Tail(q)
<1>1. /\ DOMAIN n = 1 .. (Len(q) - 1) /\ \A k \in DOMAIN n : n[k] = q[k + 1]
      /\ DOMAIN q = 1 .. Len(q) /\ Len(q) \in Nat /\ Len(q) > 0 /\ q[1] = Head(q)
    OBVIOUS
<1> HIDE DEF n
<1>2. CASE Get(s, p) = Get(d, p) /\ \A j \in DOMAIN q : q[j].path # p
    <2>1. Head(q).path # p /\ \A j \in DOMAIN n : n[j].path # p
        BY <1>1, <1>2
    <2> QED
        BY <1>2, <2>1 DEF Arrives
<1>3. ASSUME NEW k \in DOMAIN q, q[k].path = p, q[k].content = Get(d, p),
             \A j \in DOMAIN q : j > k => q[j].path # p
      PROVE  Arrives(n, t, d, p)
    <2>1. CASE k = 1
        <3>1. Get(t, p) = Get(d, p)
            BY <1>1, <1>3, <2>1
        <3>2. \A j \in DOMAIN n : n[j].path # p
            BY <1>1, <1>3, <2>1
        <3> QED
            BY <3>1, <3>2 DEF Arrives
    <2>2. CASE k # 1
        <3>1. k - 1 \in DOMAIN n /\ n[k - 1] = q[k]
            BY <1>1, <1>3, <2>2
        <3>2. \A j \in DOMAIN n : j > k - 1 => n[j].path # p
            BY <1>1, <1>3, <2>2
        <3> QED
            BY <1>3, <3>1, <3>2 DEF Arrives
    <2> QED
        BY <2>1, <2>2
<1> QED
    BY <1>2, <1>3 DEF Arrives, n

\* Frames of which each has what d has
LEMMA ArrivesAll ==
    ASSUME NEW q \in Seq(Frame), NEW s, NEW d, NEW p,
           \A k \in DOMAIN q : q[k].content = Get(d, q[k].path),
           (\E k \in DOMAIN q : q[k].path = p) \/ Get(s, p) = Get(d, p)
    PROVE  Arrives(q, s, d, p)
<1>1. CASE \A k \in DOMAIN q : q[k].path # p
    BY <1>1 DEF Arrives
<1>2. CASE \E k \in DOMAIN q : q[k].path = p
    <2> DEFINE T == {n \in Nat : \E k \in DOMAIN q : q[k].path = p /\ n = Len(q) - k}
    <2>1. DOMAIN q = 1 .. Len(q) /\ Len(q) \in Nat
        OBVIOUS
    <2>2. T # {} /\ T \subseteq Nat
        <3>1. PICK k \in DOMAIN q : q[k].path = p
            BY <1>2
        <3>2. Len(q) - k \in Nat
            BY <2>1
        <3>3. Len(q) - k \in T
            BY <3>1, <3>2
        <3> QED
            BY <3>3
    <2>3. PICK x \in T : \A y \in T : x <= y
        BY <2>2, Least
    <2>4. PICK k \in DOMAIN q : q[k].path = p /\ x = Len(q) - k
        BY <2>3
    <2>5. ASSUME NEW j \in DOMAIN q, j > k PROVE q[j].path # p
        BY <2>1, <2>3, <2>4, <2>5
    <2> QED
        BY <2>4, <2>5 DEF Arrives
<1> QED
    BY <1>1, <1>2

\* The sequence of a finite set has all its members and no other
LEMMA SetToSeqMeans ==
    ASSUME NEW S, IsFiniteSet(S)
    PROVE  SetToSeq(S) \in Seq(S) /\ \A x \in S : \E k \in DOMAIN SetToSeq(S) : SetToSeq(S)[k] = x
<1> DEFINE n == Cardinality(S)
           f == SetToSeq(S)
<1>1. n \in Nat /\ ExistsBijection(1 .. n, S)
    BY FS_CardinalityType
<1>2. \E g \in [1 .. n -> S] : IsInjective(g)
    BY <1>1 DEF ExistsBijection, Bijection, Injection
<1>3. f \in [1 .. n -> S] /\ IsInjective(f)
    BY <1>2 DEF SetToSeq
<1> HIDE DEF f
<1>4. f \in Injection(1 .. n, S)
    BY <1>3 DEF Injection
<1>5. Cardinality(1 .. n) = n
    BY <1>1, FS_Interval
<1>6. f \in Surjection(1 .. n, S)
    BY <1>4, <1>5, FS_Injection
<1>7. f \in Seq(S)
    BY <1>1, <1>3
<1>8. \A x \in S : \E k \in DOMAIN f : f[k] = x
    BY <1>3, <1>6 DEF Surjection
<1> QED
    BY <1>7, <1>8 DEF f

-----------------------------------------------------------------------------
(* The wire *)

\* Only frames on the wire are on their way
LEMMA OnItsWayMeans ==
    ASSUME Links, NEW place, NEW p, NEW key
    PROVE  OnItsWay(place, p, key) <=>
              plugin.place = place /\ \E k \in DOMAIN Wire : Wire[k].path = p /\ key = KeyIn(Wire[k])
<1>1. ASSUME OnItsWay(place, p, key)
      PROVE  plugin.place = place /\ \E k \in DOMAIN Wire : Wire[k].path = p /\ key = KeyIn(Wire[k])
    <2>1. PICK c \in Conn : conns[c].alive /\ \E k \in DOMAIN conns[c].queue :
             conns[c].queue[k].path = p /\ key = KeyIn(conns[c].queue[k])
        BY <1>1 DEF OnItsWay, KeyIn
    <2>2. c = plugin.conn /\ plugin.phase \notin {"offline", "redial"}
        BY <2>1 DEF Links, LinkInv
    <2>3. Wire = conns[c].queue
        BY <2>2 DEF Wire
    <2> QED
        BY <1>1, <2>1, <2>3 DEF OnItsWay
<1>2. ASSUME plugin.place = place, NEW k \in DOMAIN Wire, Wire[k].path = p, key = KeyIn(Wire[k])
      PROVE  OnItsWay(place, p, key)
    <2>1. plugin.phase \notin {"offline", "redial"}
        BY <1>2 DEF Wire
    <2>2. Wire = conns[plugin.conn].queue /\ plugin.conn \in Conn /\ conns[plugin.conn].alive
        BY <2>1 DEF Wire, Links, LinkInv
    <2> QED
        BY <1>2, <2>2 DEF OnItsWay, KeyIn
<1> QED
    BY <1>1, <1>2

\* Both sides, and what Studio has held
Sides ==
    /\ disk \in Tree /\ studio \in [Place -> Tree] /\ generation \in Nat
    /\ plugin.place \in Place /\ Wire \in Seq(Frame)
    /\ held = [pl \in Place |-> [p \in Path |-> held[pl][p]]]
    /\ \A pl \in Place : \A p \in Path : Get(Keys(studio[pl]), p) \in held[pl][p]

\* A step after which everything that was delivered still is
Flows ==
    \A place \in Place : \A p \in Path : \A key : Delivered(place, p, key) => Delivered(place, p, key)'

\* Such are steps that take nothing from the wire but what Studio comes to hold
LEMMA FlowsIf ==
    ASSUME \A place \in Place : \A p \in Path : held[place][p] \subseteq held'[place][p],
           Wire = << >> \/ plugin'.place = plugin.place,
           \A k \in DOMAIN Wire : \/ \E j \in DOMAIN Wire' : Wire'[j] = Wire[k]
                                  \/ KeyIn(Wire[k]) \in held'[plugin.place][Wire[k].path]
    PROVE  Flows
<1> SUFFICES ASSUME NEW place \in Place, NEW p \in Path, NEW key, Delivered(place, p, key)
             PROVE  Delivered(place, p, key)'
    BY DEF Flows
<1>1. CASE key \in held[place][p]
    BY <1>1 DEF Delivered
<1>2. ASSUME plugin.place = place, NEW k \in DOMAIN Wire, Wire[k].path = p, key = KeyIn(Wire[k])
      PROVE  Delivered(place, p, key)'
    <2>1. plugin'.place = place
        BY <1>2
    <2>2. CASE KeyIn(Wire[k]) \in held'[plugin.place][Wire[k].path]
        BY <1>2, <2>2 DEF Delivered
    <2>3. ASSUME NEW j \in DOMAIN Wire', Wire'[j] = Wire[k] PROVE Delivered(place, p, key)'
        <3>1. Wire'[j].path = p /\ key = KeyIn(Wire'[j])
            BY <1>2, <2>3
        <3> QED
            BY <2>1, <2>3, <3>1 DEF Delivered, KeyIn
    <2> QED
        BY <1>2, <2>2, <2>3
<1> QED
    BY <1>1, <1>2 DEF Delivered

LEMMA FlowsSame ==
    ASSUME UNCHANGED held, Wire' = Wire, Wire = << >> \/ plugin'.place = plugin.place
    PROVE  Flows
BY FlowsIf

LEMMA FlowsMore ==
    ASSUME Wire \in Seq(Frame), NEW frames \in Seq(Frame),
           UNCHANGED held, Wire' = Wire \o frames, plugin'.place = plugin.place
    PROVE  Flows
<1>1. \A k \in DOMAIN Wire : k \in DOMAIN Wire' /\ Wire'[k] = Wire[k]
    BY ONLY Wire \in Seq(Frame), frames \in Seq(Frame), Wire' = Wire \o frames
<1> QED
    BY <1>1, FlowsIf

\* The plugin goes on to another phase, and perhaps sees something else
LEMMA PluginGoes ==
    ASSUME PluginShaped, NEW phase, plugin' = [plugin EXCEPT !.phase = phase]
    PROVE  /\ plugin'.phase = phase /\ plugin'.conn = plugin.conn
           /\ plugin'.place = plugin.place /\ plugin'.seen = plugin.seen
BY DEF PluginShaped

LEMMA PluginLooks ==
    ASSUME PluginShaped, NEW phase, NEW seen, plugin' = [plugin EXCEPT !.phase = phase, !.seen = seen]
    PROVE  /\ plugin'.phase = phase /\ plugin'.conn = plugin.conn
           /\ plugin'.place = plugin.place /\ plugin'.seen = seen
BY DEF PluginShaped

\* How far a connection is says nothing of its queue
LEMMA QueuesKept ==
    ASSUME ConnsShaped, NEW c \in Conn, NEW phase, conns' = [conns EXCEPT ![c].phase = phase]
    PROVE  \A d \in Conn : conns'[d].queue = conns[d].queue
<1>1. DOMAIN conns = Conn /\ \A d \in Conn : ConnShaped(d)
    BY DEF ConnsShaped
<1>2. ASSUME NEW d \in Conn PROVE conns'[d].queue = conns[d].queue
    <2>1. ConnShaped(d)
        BY <1>1
    <2>2. conns'[d] = IF d = c THEN [conns[c] EXCEPT !.phase = phase] ELSE conns[d]
        BY <1>1
    <2> QED
        BY <2>1, <2>2 DEF ConnShaped
<1> QED
    BY <1>2

LEMMA WireKept ==
    ASSUME plugin'.conn = plugin.conn,
           plugin'.phase \in {"offline", "redial"} <=> plugin.phase \in {"offline", "redial"},
           plugin.phase \notin {"offline", "redial"} =>
               conns'[plugin.conn].queue = conns[plugin.conn].queue
    PROVE  Wire' = Wire
BY DEF Wire

LEMMA WireOff ==
    ASSUME plugin.phase \in {"offline", "redial"} PROVE Wire = << >>
BY DEF Wire

LEMMA WireOffNext ==
    ASSUME plugin'.phase \in {"offline", "redial"} PROVE Wire' = << >>
BY DEF Wire

\* An edit reaches a plugin that is there
LEMMA WireDiskEdit ==
    ASSUME Links, NEW p, NEW t, DiskEdit(p, t)
    PROVE  /\ plugin.phase \in {"offline", "redial"} => Wire' = Wire
           /\ plugin.phase \notin {"offline", "redial"} =>
                 Wire' = Wire \o <<[path |-> p, content |-> Get(t, p)]>>
<1>1. UNCHANGED plugin /\ conns' = Queued(Subscribed, <<[path |-> p, content |-> Get(t, p)]>>)
    BY DEF DiskEdit
<1>2. CASE plugin.phase \in {"offline", "redial"}
    BY <1>1, <1>2 DEF Wire
<1>3. CASE plugin.phase \notin {"offline", "redial"}
    <2>1. PICK c \in Conn : c = plugin.conn /\ conns[c].alive
        BY <1>3 DEF Links, LinkInv
    <2>2. c \in Subscribed /\ ConnShaped(c)
        BY <2>1 DEF Links, LinkInv, Subscribed, ConnsShaped
    <2>3. PICK frames : frames = <<[path |-> p, content |-> Get(t, p)]>>
        OBVIOUS
    <2>4. conns'[c] = [conns[c] EXCEPT !.queue = @ \o frames]
        BY <1>1, <2>2, <2>3 DEF Queued
    <2>5. conns'[c].queue = conns[c].queue \o frames
        BY <2>2, <2>4 DEF ConnShaped
    <2>6. Wire = conns[c].queue /\ Wire' = conns'[c].queue
        BY <1>1, <1>3, <2>1 DEF Wire
    <2> QED
        BY <1>3, <2>3, <2>5, <2>6
<1> QED
    BY <1>2, <1>3

LEMMA WireOpenPlace ==
    ASSUME Links, NEW place, OpenPlace(place)
    PROVE  /\ Wire = << >> /\ Wire' = << >> /\ plugin.phase = "offline" /\ plugin'.phase = "offline"
           /\ plugin'.place = place /\ plugin'.conn = plugin.conn
<1>1. plugin.phase = "offline" /\ plugin' = [plugin EXCEPT !.place = place] /\ PluginShaped
    BY DEF OpenPlace, Links
<1>2. plugin'.phase = "offline" /\ plugin'.place = place /\ plugin'.conn = plugin.conn
    BY <1>1 DEF PluginShaped
<1> QED
    BY <1>1, <1>2 DEF Wire

LEMMA WireDial ==
    ASSUME Links, NEW c \in Conn, Dial(c)
    PROVE  /\ Wire = << >> /\ Wire' = << >> /\ plugin.phase \in {"offline", "redial"}
           /\ plugin'.phase = (IF plugin.phase = "redial" THEN "rehello" ELSE "hello")
           /\ plugin'.place = plugin.place
<1> DEFINE phase == IF plugin.phase = "redial" THEN "rehello" ELSE "hello"
<1>1. /\ plugin' = [plugin EXCEPT !.conn = c, !.phase = phase] /\ PluginShaped /\ ConnsShaped
      /\ plugin.phase \in {"offline", "redial"}
      /\ conns' = [conns EXCEPT ![c] = [phase |-> "claimed", alive |-> TRUE, queue |-> << >>]]
    BY DEF Dial, Links
<1>2. plugin'.phase = phase /\ plugin'.conn = c /\ plugin'.place = plugin.place
    BY <1>1 DEF PluginShaped
<1>3. DOMAIN conns = Conn
    BY <1>1 DEF ConnsShaped
<1>4. conns'[c].queue = << >>
    BY <1>1, <1>3
<1>5. phase \notin {"offline", "redial"}
    OBVIOUS
<1> HIDE DEF phase
<1> QED
    BY <1>1, <1>2, <1>4, <1>5 DEF Wire, phase

LEMMA WireOpen ==
    ASSUME Links, NEW c \in Conn, Open(c)
    PROVE  /\ Wire' = Wire /\ plugin'.place = plugin.place /\ plugin'.conn = plugin.conn
           /\ plugin.phase \in {"hello", "rehello"}
           /\ plugin'.phase = (IF plugin.phase = "rehello" THEN "live" ELSE "ready")
<1> DEFINE phase == IF plugin.phase = "rehello" THEN "live" ELSE "ready"
<1>1. /\ conns[c].phase = "claimed" /\ conns[c].alive /\ conns' = [conns EXCEPT ![c].phase = "open"]
      /\ plugin' = [plugin EXCEPT !.phase = phase] /\ PluginShaped /\ ConnsShaped
    BY DEF Open, Links
<1>2. plugin.phase \in {"hello", "rehello"} /\ c = plugin.conn
    BY <1>1 DEF Links, LinkInv
<1>3. plugin'.phase = phase /\ plugin'.conn = plugin.conn /\ plugin'.place = plugin.place
    BY <1>1, PluginGoes
<1>4. conns'[plugin.conn].queue = conns[plugin.conn].queue
    BY <1>1, <1>2, QueuesKept
<1>5. phase \notin {"offline", "redial"}
    OBVIOUS
<1> HIDE DEF phase
<1> QED
    BY <1>2, <1>3, <1>4, <1>5, WireKept DEF phase

LEMMA WireDrops ==
    ASSUME Links, Orderly, NEW c \in Conn, NEW next \in {"redial", "offline"}, LinkDrops(c, next)
    PROVE  /\ Wire = << >> /\ Wire' = << >> /\ plugin'.place = plugin.place /\ plugin'.phase = next
           /\ next = "redial" => plugin.phase \in {"live", "rehello"}
           /\ plugin.phase \in {"live", "rehello"}
<1>1. /\ conns[c].alive /\ conns[c].queue = << >> /\ plugin' = [plugin EXCEPT !.phase = next]
      /\ next = "redial" => plugin.phase \in {"live", "rehello"}
      /\ PluginShaped
      /\ ~Comparing
    BY DEF LinkDrops, Links, Orderly, Undisturbed
<1>2. c = plugin.conn /\ plugin.phase \notin {"offline", "redial"}
    BY <1>1 DEF Links, LinkInv
<1>3. plugin'.phase = next /\ plugin'.place = plugin.place
    BY <1>1, PluginGoes
<1>4. plugin.phase \in {"live", "rehello"}
    BY <1>1, <1>2 DEF Comparing, PluginShaped, PluginPhase
<1> QED
    BY <1>1, <1>2, <1>3, <1>4 DEF Wire

LEMMA WireCleanup ==
    ASSUME Links, Cleanup
    PROVE  Wire' = Wire /\ UNCHANGED plugin
<1>1. PICK c \in Conn : LoopEnds(c) \/ Release(c) \/ Unsubscribe(c) \/ Disconnected(c)
    BY DEF Cleanup
<1>2. UNCHANGED plugin
    BY <1>1 DEF LoopEnds, Release, Unsubscribe, Disconnected
<1>3. ASSUME plugin.phase \notin {"offline", "redial"}
      PROVE  conns'[plugin.conn].queue = conns[plugin.conn].queue
    <2>1. plugin.conn \in Conn /\ conns[plugin.conn].alive /\ ConnsShaped
          /\ conns[plugin.conn].phase \in {"claimed", "open"}
        BY <1>3 DEF Links, LinkInv
    <2>2. c # plugin.conn
        BY <1>1, <2>1 DEF LoopEnds, Release, Unsubscribe, Disconnected
    <2>3. DOMAIN conns = Conn
        BY <2>1 DEF ConnsShaped
    <2>4. conns'[plugin.conn] = conns[plugin.conn]
        BY <1>1, <2>1, <2>2, <2>3 DEF LoopEnds, Release, Unsubscribe, Disconnected
    <2> QED
        BY <2>4
<1> QED
    BY <1>2, <1>3, WireKept

LEMMA WireFetch ==
    ASSUME Links, Fetch
    PROVE  /\ Wire' = Wire /\ plugin'.place = plugin.place /\ plugin'.conn = plugin.conn
           /\ plugin.phase = "ready" /\ plugin'.phase = "fetched" /\ plugin'.seen = disk
<1>1. /\ plugin.phase = "ready" /\ UNCHANGED conns /\ PluginShaped
      /\ plugin' = [plugin EXCEPT !.phase = "fetched", !.seen = disk]
    BY DEF Fetch, daemon, Links
<1>2. /\ plugin'.phase = "fetched" /\ plugin'.conn = plugin.conn
      /\ plugin'.place = plugin.place /\ plugin'.seen = disk
    BY <1>1, PluginLooks
<1> QED
    BY <1>1, <1>2, WireKept

LEMMA WireCompare ==
    ASSUME Links, NEW named, NEW written, Compare(named, written)
    PROVE  /\ Wire' = Wire /\ plugin'.place = plugin.place /\ plugin'.conn = plugin.conn
           /\ plugin.phase = "fetched" /\ plugin'.phase = "waiting"
<1>1. /\ plugin.phase = "fetched" /\ UNCHANGED conns /\ PluginShaped
      /\ plugin' = [plugin EXCEPT !.phase = "waiting", !.seen = << >>]
    BY DEF Compare, Links
<1>2. plugin'.phase = "waiting" /\ plugin'.conn = plugin.conn /\ plugin'.place = plugin.place
    BY <1>1, PluginLooks
<1> QED
    BY <1>1, <1>2, WireKept

LEMMA WireRefuse ==
    ASSUME Links, NEW named, Refuse(named)
    PROVE  /\ Wire' = << >> /\ plugin'.place = plugin.place
           /\ plugin.phase = "fetched" /\ plugin'.phase = "offline"
<1>1. /\ plugin.phase = "fetched" /\ PluginShaped
      /\ plugin' = [plugin EXCEPT !.phase = "offline", !.seen = << >>]
    BY DEF Refuse, Links
<1>2. plugin'.phase = "offline" /\ plugin'.place = plugin.place
    BY <1>1, PluginLooks
<1> QED
    BY <1>1, <1>2, WireOffNext

LEMMA WireApplyFails ==
    ASSUME Links, Awaited, NEW k \in DOMAIN tasks, ApplyFails(k)
    PROVE  Wire' = << >> /\ plugin'.place = plugin.place /\ plugin'.phase = "offline" /\ DOMAIN tasks' = {}
<1>1. k = plugin.conn /\ plugin.phase = "waiting" /\ DOMAIN tasks = {k}
    BY DEF Awaited
<1>2. plugin' = [plugin EXCEPT !.phase = "offline"] /\ PluginShaped
      /\ tasks' = Restrict(tasks, DOMAIN tasks \ {k})
    BY <1>1 DEF ApplyFails, Links
<1>3. plugin'.phase = "offline" /\ plugin'.place = plugin.place
    BY <1>2, PluginGoes
<1>4. DOMAIN tasks' = {}
    BY <1>1, <1>2 DEF Restrict
<1> QED
    BY <1>3, <1>4, WireOffNext

LEMMA WireCommitBase ==
    ASSUME Links, Awaited, NEW k \in DOMAIN tasks, NEW saved, CommitBase(k, saved)
    PROVE  /\ Wire' = Wire /\ plugin'.place = plugin.place /\ plugin'.phase = "live"
           /\ DOMAIN tasks' = {}
<1>1. k = plugin.conn /\ plugin.phase = "waiting" /\ DOMAIN tasks = {k}
    BY DEF Awaited
<1>2. /\ plugin' = [plugin EXCEPT !.phase = "live"] /\ PluginShaped /\ UNCHANGED conns
      /\ tasks' = Restrict(tasks, DOMAIN tasks \ {k})
    BY <1>1 DEF CommitBase, Links
<1>3. plugin'.phase = "live" /\ plugin'.place = plugin.place /\ plugin'.conn = plugin.conn
    BY <1>2, PluginGoes
<1>4. DOMAIN tasks' = {}
    BY <1>1, <1>2 DEF Restrict
<1>5. Wire' = Wire
    BY <1>1, <1>2, <1>3, WireKept
<1> QED
    BY <1>3, <1>4, <1>5

\* What a connect pushes goes to its own plugin
LEMMA WirePush ==
    ASSUME Links, Awaited, OneLink, NEW k \in DOMAIN tasks, NEW frames,
           conns' = Queued(IF slot # 0 THEN {slot} ELSE Subscribed, frames), UNCHANGED plugin
    PROVE  Wire' = Wire \o frames
<1>1. plugin.phase = "waiting" /\ plugin.conn \in Conn
    BY DEF Awaited, Links, LinkInv
<1>2. PICK c \in Conn : c = plugin.conn
    BY <1>1
<1>3. conns[c].phase = "open" /\ ConnShaped(c)
    BY <1>1, <1>2 DEF Links, LinkInv, ConnsShaped
<1>4. slot = c /\ slot # 0
    BY <1>3, ConnIsNat DEF OneLink
<1>5. conns'[c] = [conns[c] EXCEPT !.queue = @ \o frames]
    BY <1>4 DEF Queued
<1>6. conns'[c].queue = conns[c].queue \o frames
    BY <1>3, <1>5 DEF ConnShaped
<1>7. Wire = conns[c].queue /\ Wire' = conns'[c].queue
    BY <1>1, <1>2 DEF Wire
<1> QED
    BY <1>6, <1>7

LEMMA WireDeliver ==
    ASSUME Links, Deliver
    PROVE  /\ Wire # << >> /\ Wire = conns[plugin.conn].queue /\ Wire' = Tail(Wire)
           /\ plugin.phase = "live"
<1>1. /\ UNCHANGED plugin /\ plugin.phase = "live" /\ conns[plugin.conn].queue # << >>
      /\ conns' = [conns EXCEPT ![plugin.conn].queue = Tail(@)]
    BY DEF Deliver
<1>2. PICK c \in Conn : c = plugin.conn
    BY <1>1 DEF Links, LinkInv
<1>3. DOMAIN conns = Conn /\ ConnShaped(c)
    BY DEF Links, ConnsShaped
<1>4. conns'[c] = [conns[c] EXCEPT !.queue = Tail(conns[c].queue)]
    BY <1>1, <1>2, <1>3
<1>5. conns'[c].queue = Tail(conns[c].queue)
    BY <1>3, <1>4 DEF ConnShaped
<1>6. Wire = conns[c].queue /\ Wire' = conns'[c].queue
    BY <1>1, <1>2 DEF Wire
<1> QED
    BY <1>1, <1>2, <1>5, <1>6

LEMMA WireRestart ==
    ASSUME Links, Orderly, NEW graceful, Restart(graceful)
    PROVE  Wire = << >> /\ Wire' = << >> /\ plugin'.place = plugin.place /\ plugin'.phase = "offline"
<1>1. /\ plugin' = [plugin EXCEPT !.phase = "offline", !.seen = << >>] /\ PluginShaped
      /\ \A c \in Conn : conns[c].alive => conns[c].queue = << >>
    BY DEF Restart, Links, Orderly
<1>2. plugin'.phase = "offline" /\ plugin'.place = plugin.place
    BY <1>1, PluginLooks
<1>3. Wire = << >>
    BY <1>1 DEF Wire, Links, LinkInv
<1> QED
    BY <1>2, <1>3, WireOffNext

-----------------------------------------------------------------------------
(* Edits of flat trees *)

LEMMA KeysGet ==
    ASSUME NEW t, NEW p
    PROVE  Get(Keys(t), p) = {KeyOf(c) : c \in Get(t, p)}
BY KeysMean, GetMeans

LEMMA WithoutAt ==
    ASSUME Flat, NEW t \in Tree, NEW p \in Path, NEW u, u = Without(t, {p})
    PROVE  u \in Tree /\ Get(u, p) = {} /\ \A q \in Path : q # p => Get(u, q) = Get(t, q)
<1>1. u \in Tree
    BY WithoutTree
<1>a. PICK P : P = {p}
    OBVIOUS
<1>b. /\ DOMAIN Without(t, P) = {q \in DOMAIN t : \A r \in P : ~Within(r, q)}
      /\ \A q \in DOMAIN Without(t, P) : Without(t, P)[q] = t[q]
    BY ONLY WithoutMeans
<1>2. /\ DOMAIN u = {q \in DOMAIN t : ~Within(p, q)} /\ \A q \in DOMAIN u : u[q] = t[q]
    <2>1. u = Without(t, P)
        BY <1>a
    <2>2. /\ DOMAIN u = {q \in DOMAIN t : \A r \in P : ~Within(r, q)}
          /\ \A q \in DOMAIN u : u[q] = t[q]
        BY ONLY <1>b, <2>1
    <2> QED
        BY ONLY <1>a, <2>2
<1>3. p \notin DOMAIN u
    BY <1>2, WithinSelf
<1>4. ASSUME NEW q \in Path, q # p PROVE Get(u, q) = Get(t, q)
    <2>1. ~Within(p, q)
        BY <1>4, WithinSame, PathIsSeq DEF Flat
    <2>2. q \in DOMAIN u <=> q \in DOMAIN t
        BY <1>2, <2>1
    <2> QED
        BY <1>2, <2>2, GetMeans
<1> QED
    BY <1>1, <1>3, <1>4, GetMeans

LEMMA WithAt ==
    ASSUME Flat, NEW t \in Tree, NEW p \in Path, NEW c \in Content, NEW u, u = With(t, p, c)
    PROVE  u \in Tree /\ Get(u, p) = {c} /\ \A q \in Path : q # p => Get(u, q) = Get(t, q)
<1>1. /\ DOMAIN t \subseteq Path /\ \A q \in DOMAIN t : t[q] \in Content
    BY TreeMeans
<1>2. /\ DOMAIN u = DOMAIN t \cup {p} /\ u = [q \in DOMAIN u |-> u[q]] /\ u[p] = c
      /\ \A q \in DOMAIN t : q # p => u[q] = t[q]
    <2>1. /\ DOMAIN With(t, p, c) = DOMAIN t \cup {p}
          /\ With(t, p, c) = [q \in DOMAIN With(t, p, c) |-> With(t, p, c)[q]]
          /\ With(t, p, c)[p] = c
          /\ \A q \in DOMAIN t : q # p => With(t, p, c)[q] = t[q]
        BY DEF With
    <2> QED
        BY ONLY <2>1, u = With(t, p, c)
<1>a. DOMAIN u \subseteq Path /\ \A q \in DOMAIN u : u[q] \in Content
    BY <1>1, <1>2
<1>3. \A q \in DOMAIN u : ~(Len(q) > 1)
    <2>1. \A q \in Path : Len(q) = 1
        BY DEF Flat
    <2>2. \A q \in Path : ~(Len(q) > 1)
        BY ONLY <2>1, PathIsSeq
    <2> QED
        BY <1>a, <2>2
<1>4. u \in Tree
    BY <1>2, <1>a, <1>3, TreeIs
<1>5. \A q \in Path : q # p => Get(u, q) = Get(t, q)
    BY <1>2, GetMeans
<1> QED
    BY <1>2, <1>4, <1>5, GetMeans

LEMMA ChangesAt ==
    ASSUME Flat, NEW t \in Tree, NEW p \in Path, NEW u \in Changes(t, p)
    PROVE  u \in Tree /\ \A q \in Path : q # p => Get(u, q) = Get(t, q)
<1>1. CASE u = Without(t, {p})
    BY <1>1, WithoutAt
<1>2. ASSUME NEW c \in Script, u = With(t, p, c)
      PROVE  u \in Tree /\ \A q \in Path : q # p => Get(u, q) = Get(t, q)
    <2>1. c \in Content
        BY DEF Content
    <2> QED
        BY <1>2, <2>1, WithAt
<1> QED
    BY <1>1, <1>2 DEF Changes

\* Studio's tree becomes t, and this is noted
LEMMA Noted ==
    ASSUME Sides, NEW place \in Place, NEW t \in Tree,
           studio' = [studio EXCEPT ![place] = t], Note(place, t)
    PROVE  /\ studio' \in [Place -> Tree] /\ studio'[place] = t
           /\ held' = [pl \in Place |-> [p \in Path |-> held'[pl][p]]]
           /\ \A pl \in Place : \A p \in Path : held[pl][p] \subseteq held'[pl][p]
           /\ \A pl \in Place : \A p \in Path : Get(Keys(studio'[pl]), p) \in held'[pl][p]
<1>1. studio \in [Place -> Tree] /\ held = [pl \in Place |-> [p \in Path |-> held[pl][p]]]
    BY DEF Sides
<1>2. studio' \in [Place -> Tree] /\ studio'[place] = t /\ \A pl \in Place \ {place} : studio'[pl] = studio[pl]
    BY <1>1
<1>3. /\ held' = [pl \in Place |-> IF pl = place THEN [p \in Path |-> held[place][p] \cup {Get(Keys(t), p)}]
                                   ELSE held[pl]]
    BY <1>1 DEF Note
<1>4. /\ \A p \in Path : held'[place][p] = held[place][p] \cup {Get(Keys(t), p)}
      /\ \A pl \in Place \ {place} : held'[pl] = held[pl]
    BY <1>3
<1>5. held' = [pl \in Place |-> [p \in Path |-> held'[pl][p]]]
    <2>1. \A pl \in Place : held'[pl] = [p \in Path |-> held'[pl][p]]
        BY <1>1, <1>3, <1>4
    <2>2. held' = [pl \in Place |-> held'[pl]]
        BY <1>3
    <2> QED
        BY <2>1, <2>2
<1>6. \A pl \in Place : \A p \in Path : held[pl][p] \subseteq held'[pl][p]
    BY <1>4
<1>7. ASSUME NEW pl \in Place, NEW p \in Path PROVE Get(Keys(studio'[pl]), p) \in held'[pl][p]
    <2>1. CASE pl = place
        BY <1>2, <1>4, <2>1
    <2>2. CASE pl # place
        BY <1>2, <1>4, <2>2 DEF Sides
    <2> QED
        BY <2>1, <2>2
<1> QED
    BY <1>2, <1>5, <1>6, <1>7

-----------------------------------------------------------------------------
(* What the base comes to say *)

\* The base n records no more than b, at generation g
Quieter(b, n, g) ==
    /\ n.stored = b.stored /\ n.place = b.place /\ n.pending \subseteq b.pending
    /\ \/ n.epoch = b.epoch + 1
       \/ n.epoch = b.epoch /\ (n.synced = TRUE => b.synced = TRUE)
    /\ n.synced = TRUE \/ n.resumeGeneration = {g} => b.synced = TRUE \/ b.resumeGeneration = {g}
    /\ n.synced = TRUE \/ n.resumeGeneration # {} => b.synced = TRUE \/ b.resumeGeneration # {}
    /\ n.resumeGeneration \subseteq b.resumeGeneration \cup {h \in Nat : h <= g}

\* Nothing is recorded any more
Silent(b) == b.synced = FALSE /\ b.resumeGeneration = {}

LEMMA LoadFields ==
    ASSUME NEW f
    PROVE  /\ Load(f).stored = f /\ Load(f).place = {} /\ Load(f).pending = {} /\ Silent(Load(f))
BY DEF Load, None, Silent

LEMMA BeginCompareFields ==
    ASSUME NEW b, IsBase(b), NEW pl
    PROVE  /\ BeginCompare(b, {pl}).stored = b.stored /\ BeginCompare(b, {pl}).place = {pl}
           /\ Silent(BeginCompare(b, {pl}))
BY DEF IsBase, BeginCompare, Field, None, Silent, Or

LEMMA PauseFields ==
    ASSUME NEW b, IsBase(b), NEW g
    PROVE  Pause(b, g).place = b.place /\ Pause(b, g).resumeGeneration = {g}
BY DEF IsBase, Pause, Field, None, Some

LEMMA PauseQuieter ==
    ASSUME NEW b, IsBase(b), b.synced = TRUE, NEW g \in Nat, NEW h \in Nat, h <= g
    PROVE  Quieter(b, Pause(b, h), g)
<1>1. PICK n : n = Pause(b, h)
    OBVIOUS
<1>2. /\ n.synced = FALSE /\ n.epoch = b.epoch + 1 /\ n.pending = {} /\ n.stored = b.stored
      /\ n.place = b.place /\ n.resumeGeneration = {h}
    BY <1>1, PauseIsBase, PauseFields
<1>3. Quieter(b, n, g)
    BY <1>2 DEF Quieter
<1> QED
    BY <1>1, <1>3

LEMMA SameQuieter ==
    ASSUME NEW b, NEW g PROVE Quieter(b, b, g)
BY DEF Quieter

LEMMA OnDisconnectQuieter ==
    ASSUME NEW b, IsBase(b), NEW g \in Nat
    PROVE  Quieter(b, OnDisconnect(b, g), g)
<1>1. CASE b.synced
    <2>1. b.synced = TRUE /\ OnDisconnect(b, g) = Pause(b, g)
        BY <1>1 DEF OnDisconnect, IsBase
    <2>2. Quieter(b, Pause(b, g), g)
        <3>1. g <= g
            OBVIOUS
        <3> QED
            BY <2>1, <3>1, PauseQuieter
    <2> QED
        BY <2>1, <2>2
<1>2. CASE ~b.synced
    <2>1. OnDisconnect(b, g) = b
        BY <1>2 DEF OnDisconnect
    <2> QED
        BY <2>1, SameQuieter
<1> QED
    BY <1>1, <1>2

LEMMA OnReconnectQuieter ==
    ASSUME NEW b, IsBase(b), NEW g \in Nat
    PROVE  Quieter(b, OnReconnect(b, g), g)
<1>0. PICK n : n = OnReconnect(b, g)
    OBVIOUS
<1>1. CASE b.resumeGeneration = {g}
    <2>1. n = [b EXCEPT !.resumeGeneration = None, !.synced = TRUE, !.epoch = @ + 1]
        BY <1>0, <1>1 DEF OnReconnect, Some
    <2>2. /\ n.stored = b.stored /\ n.place = b.place /\ n.pending = b.pending
          /\ n.epoch = b.epoch + 1 /\ n.resumeGeneration = {}
        BY <2>1 DEF IsBase, Field, None
    <2>3. Quieter(b, n, g)
        BY <1>1, <2>2 DEF Quieter
    <2> QED
        BY <1>0, <2>3
<1>2. CASE b.resumeGeneration # {g}
    <2>1. n = [b EXCEPT !.resumeGeneration = None]
        BY <1>0, <1>2 DEF OnReconnect, Some
    <2>2. /\ n.stored = b.stored /\ n.place = b.place /\ n.pending = b.pending
          /\ n.epoch = b.epoch /\ n.resumeGeneration = {} /\ n.synced = b.synced
        BY <2>1 DEF IsBase, Field, None
    <2>3. Quieter(b, n, g)
        BY <2>2 DEF Quieter
    <2> QED
        BY <1>0, <2>3
<1> QED
    BY <1>1, <1>2

\* A tick that commits nothing
LEMMA TickHeadQuieter ==
    ASSUME NEW b, IsBase(b), NEW g \in Nat, NEW h \in Nat, h <= g, NEW present,
           ~Due(b) \/ ~present
    PROVE  Quieter(b, TickHead(b, h, present), g)
<1> DEFINE here == IF b.synced /\ ~present THEN Pause(b, h) ELSE b
           due == {pending \in here.pending : here.synced /\ pending.epoch = here.epoch}
           head == TickHead(b, h, present)
<1>1. IsBase(here) /\ Quieter(b, here, g)
    <2>1. CASE b.synced /\ ~present
        <3>1. here = Pause(b, h) /\ b.synced = TRUE
            BY <2>1 DEF IsBase
        <3>2. IsBase(Pause(b, h)) /\ Quieter(b, Pause(b, h), g)
            BY <3>1, PauseIsBase, PauseQuieter
        <3> QED
            BY <3>1, <3>2
    <2>2. CASE ~(b.synced /\ ~present)
        <3>1. here = b
            BY <2>2
        <3> QED
            BY <3>1, SameQuieter
    <2> QED
        BY <2>1, <2>2
<1>2. due = {}
    <2>1. CASE b.synced /\ ~present
        <3>1. here = Pause(b, h)
            BY <2>1
        <3>2. Pause(b, h).pending = {}
            BY PauseIsBase
        <3> QED
            BY <3>1, <3>2
    <2>2. CASE ~(b.synced /\ ~present)
        <3>1. here = b
            BY <2>2
        <3> HIDE DEF here
        <3>2. ASSUME NEW x \in due PROVE FALSE
            <4>1. b.synced /\ x \in b.pending /\ x.epoch = b.epoch
                BY <3>1, <3>2
            <4>2. Due(b)
                BY <4>1 DEF Due, IsBase
            <4> QED
                BY <2>2, <4>1, <4>2
        <3> HIDE DEF due
        <3> QED
            BY <3>2
    <2> QED
        BY <2>1, <2>2
<1>3. head = [here EXCEPT !.stored = IF due = None THEN @
                                     ELSE Some(Merge(@, Unwrap(due).snapshot, here.place)),
                          !.pending = None]
    BY DEF TickHead
<1>4. PICK x : x = here
    OBVIOUS
<1> HIDE DEF here, due
<1>5. head = [x EXCEPT !.stored = x.stored, !.pending = {}]
    BY <1>2, <1>3, <1>4 DEF None
<1>6. PICK n : n = head
    OBVIOUS
<1> HIDE DEF head
<1>7. /\ n.stored = x.stored /\ n.place = x.place /\ n.pending = {} /\ n.epoch = x.epoch
      /\ n.synced = x.synced /\ n.resumeGeneration = x.resumeGeneration
    BY <1>1, <1>4, <1>5, <1>6 DEF IsBase, Field
<1>8. Quieter(b, n, g)
    BY <1>1, <1>4, <1>7 DEF Quieter
<1> QED
    BY <1>6, <1>8 DEF head

\* A tick that commits the snapshot taken last
Commits(b, n) ==
    \E x \in b.pending : /\ x.epoch = b.epoch /\ n.stored = {Merge(b.stored, x.snapshot, b.place)}
                         /\ n.place = b.place /\ n.epoch = b.epoch /\ n.synced = b.synced
                         /\ n.resumeGeneration = b.resumeGeneration

LEMMA TickHeadCommits ==
    ASSUME NEW b, IsBase(b), NEW h, NEW present, Due(b), present
    PROVE  Commits(b, TickHead(b, h, present))
<1> DEFINE due == {pending \in b.pending : b.synced /\ pending.epoch = b.epoch}
           head == TickHead(b, h, present)
<1>2. due # {}
    BY DEF Due
<1>3. PICK x : x = Unwrap(due) /\ x \in due
    BY <1>2 DEF Unwrap
<1>1. x \in b.pending /\ x.epoch = b.epoch
    BY <1>3
<1>4. head = [b EXCEPT !.stored = IF due = None THEN @ ELSE Some(Merge(@, Unwrap(due).snapshot, b.place)),
                       !.pending = None]
    BY DEF TickHead
<1> HIDE DEF due
<1>5. PICK m : m = {Merge(b.stored, x.snapshot, b.place)}
    OBVIOUS
<1>6. head = [b EXCEPT !.stored = m, !.pending = {}]
    BY <1>2, <1>3, <1>4, <1>5 DEF None, Some
<1> HIDE DEF head
<1>7. /\ head.stored = m /\ head.place = b.place /\ head.epoch = b.epoch
      /\ head.synced = b.synced /\ head.resumeGeneration = b.resumeGeneration
    BY <1>6 DEF IsBase, Field
<1>8. Commits(b, head)
    BY <1>1, <1>5, <1>7 DEF Commits
<1> QED
    BY <1>8 DEF head

LEMMA TickTailFields ==
    ASSUME NEW b, IsBase(b), NEW e, NEW snapshot, NEW g
    PROVE  /\ TickTail(b, e, snapshot, g).stored = b.stored /\ TickTail(b, e, snapshot, g).place = b.place
           /\ TickTail(b, e, snapshot, g).resumeGeneration = b.resumeGeneration
           /\ \/ TickTail(b, e, snapshot, g).pending = b.pending
              \/ TickTail(b, e, snapshot, g).pending = {[epoch |-> e, snapshot |-> snapshot]}
BY DEF IsBase, TickTail, Field, Some

LEMMA CommitFields ==
    ASSUME NEW b, IsBase(b), NEW snapshot, NEW g, NEW settle
    PROVE  /\ Commit(b, snapshot, g, settle).stored = {Merge(b.stored, snapshot, b.place)}
           /\ Commit(b, snapshot, g, settle).place = b.place
           /\ Commit(b, snapshot, g, settle).synced = TRUE
           /\ Commit(b, snapshot, g, settle).resumeGeneration = {}
BY DEF IsBase, Commit, Field, None, Some

-----------------------------------------------------------------------------
(* The books *)

\* What the entries say of every path was delivered in the place
Agreed(entries, place) == \A p \in Path : Delivered(place, p, Get(entries, p))

\* A base, if any, is of one place and says what was delivered there
Filed(opt) ==
    \/ opt = {}
    \/ \E x : \E place \in Place : /\ opt = {x} /\ x.place = {place} /\ DOMAIN x.entries \subseteq Path
                                   /\ Agreed(x.entries, place)

\* The base records, or will when the plugin comes back
Holding == base.synced = TRUE \/ base.resumeGeneration = {generation}

\* The plugin's connect is behind it
Compared == plugin.phase \in {"live", "redial", "rehello"}

\* A snapshot that may be committed
Snapped(snapshot) ==
    /\ snapshot.held = {} /\ DOMAIN snapshot.entries \subseteq Path
    /\ \A place \in base.place : Agreed(snapshot.entries, place)

Recorded == Filed(base.stored) /\ Filed(file)

Placed ==
    /\ base.place = {} \/ \E place \in Place : base.place = {place}
    /\ Compared \/ plugin.phase = "waiting" => base.place = {plugin.place}
    /\ base.place = {} => Silent(base)

Dated == \A g \in base.resumeGeneration : g \in Nat /\ g <= generation

DiskAgreed == Holding => \A place \in base.place : Agreed(Keys(disk), place)

Waits == \A x \in base.pending : Current(x.epoch) => Snapped(x.snapshot)

BaseBooks == Recorded /\ Placed /\ Dated /\ DiskAgreed /\ Waits

WriterBooks ==
    /\ writer.stage = "sampled" => writer.generation \in Nat /\ writer.generation <= generation
    /\ writer.stage = "taken" /\ Current(writer.epoch) => Snapped(writer.snapshot)

\* After a connect both sides are the same, but for what is on its way
InStep == Holding /\ Compared => \A p \in Path : Arrives(Wire, Here, disk, p)

LEMMA AgreedFlows ==
    ASSUME Flows, NEW entries, NEW place \in Place, Agreed(entries, place)
    PROVE  Agreed(entries, place)'
<1> SUFFICES ASSUME NEW p \in Path PROVE Delivered(place, p, Get(entries, p))'
    BY DEF Agreed
<1>1. PICK key : key = Get(entries, p)
    OBVIOUS
<1>2. Delivered(place, p, key)
    BY <1>1 DEF Agreed
<1>3. Delivered(place, p, key)'
    BY <1>2 DEF Flows
<1> QED
    BY <1>1, <1>3

LEMMA FiledFlows ==
    ASSUME Flows, NEW opt, Filed(opt) PROVE Filed(opt)'
<1>1. CASE opt = {}
    BY <1>1 DEF Filed
<1>2. ASSUME NEW x, NEW place \in Place, opt = {x}, x.place = {place}, DOMAIN x.entries \subseteq Path,
             Agreed(x.entries, place)
      PROVE  Filed(opt)'
    <2>1. PICK entries : entries = x.entries
        OBVIOUS
    <2>2. Agreed(entries, place)'
        BY <1>2, <2>1, AgreedFlows
    <2> QED
        BY <1>2, <2>1, <2>2 DEF Filed
<1> QED
    BY <1>1, <1>2 DEF Filed

LEMMA SnappedFlows ==
    ASSUME Flows, Placed, base'.place = base.place, NEW snapshot, Snapped(snapshot)
    PROVE  Snapped(snapshot)'
<1>1. PICK entries : entries = snapshot.entries
    OBVIOUS
<1>2. ASSUME NEW place \in base.place PROVE Agreed(entries, place)'
    <2>1. place \in Place /\ Agreed(entries, place)
        BY <1>1, <1>2 DEF Placed, Snapped
    <2> QED
        BY <2>1, AgreedFlows
<1> QED
    BY <1>1, <1>2 DEF Snapped

LEMMA RecordedFlows ==
    ASSUME Flows, Recorded, base'.stored = base.stored, UNCHANGED file
    PROVE  Recorded'
<1>1. PICK stored, saved : stored = base.stored /\ saved = file
    OBVIOUS
<1>2. Filed(stored)' /\ Filed(saved)'
    BY <1>1, FiledFlows DEF Recorded
<1> QED
    BY <1>1, <1>2 DEF Recorded

\* The base records no more than it did
LEMMA BooksQuieter ==
    ASSUME BaseBooks, WriterInv, IsBase(base), IsBase(base'), Flows, UNCHANGED <<file, disk, generation>>, generation \in Nat,
           Quieter(base, base', generation),
           Compared' \/ plugin'.phase = "waiting" =>
               plugin'.place = plugin.place /\ (Compared \/ plugin.phase = "waiting")
    PROVE  BaseBooks' /\ (Holding' => Holding)
<1>0. PICK b, n : b = base /\ n = base'
    OBVIOUS
<1>1. Quieter(b, n, generation)
    BY <1>0
<1>2. /\ base'.stored = base.stored /\ base'.place = base.place /\ base'.pending \subseteq base.pending
      /\ \/ base'.epoch = base.epoch + 1
         \/ base'.epoch = base.epoch /\ (base'.synced = TRUE => base.synced = TRUE)
      /\ Holding' => Holding
      /\ Silent(base) => base'.synced # TRUE /\ base'.resumeGeneration = {}
      /\ base'.resumeGeneration \subseteq base.resumeGeneration \cup {h \in Nat : h <= generation}
    BY <1>0, <1>1 DEF Quieter, Holding, Silent
<1>3. Recorded'
    BY <1>2, RecordedFlows DEF BaseBooks
<1>4. Dated'
    BY <1>2 DEF BaseBooks, Dated
<1>5. DiskAgreed'
    <2> SUFFICES ASSUME Holding', NEW place \in base'.place PROVE Agreed(Keys(disk), place)'
        BY DEF DiskAgreed
    <2>1. PICK keys : keys = Keys(disk)
        OBVIOUS
    <2>2. place \in Place /\ Agreed(keys, place)
        BY <1>2, <2>1 DEF BaseBooks, Placed, DiskAgreed
    <2>3. Agreed(keys, place)'
        BY <2>2, AgreedFlows
    <2>4. keys = Keys(disk')
        BY <2>1
    <2> QED
        BY <2>3, <2>4
<1>6. Waits'
    <2> SUFFICES ASSUME NEW x \in base'.pending, Current(x.epoch)' PROVE Snapped(x.snapshot)'
        BY DEF Waits
    <2>1. x \in base.pending /\ x.epoch \in Nat /\ x.epoch <= base.epoch
        BY <1>2 DEF WriterInv
    <2>2. x.epoch = base'.epoch /\ base'.synced = TRUE
        BY DEF Current
    <2>3. Current(x.epoch)
        BY <1>2, <2>1, <2>2 DEF Current, IsBase
    <2>4. Snapped(x.snapshot) /\ Placed
        BY <2>1, <2>3 DEF BaseBooks, Waits
    <2>5. PICK snapshot : snapshot = x.snapshot
        OBVIOUS
    <2>6. Snapped(snapshot)'
        BY <1>2, <2>4, <2>5, SnappedFlows
    <2> QED
        BY <2>5, <2>6
<1>7. Placed'
    <2>1. Silent(base) => Silent(base')
        BY <1>2 DEF Silent, IsBase
    <2>2. Placed
        BY DEF BaseBooks
    <2> QED
        BY <1>2, <2>1, <2>2 DEF Placed
<1> QED
    BY <1>2, <1>3, <1>4, <1>5, <1>6, <1>7 DEF BaseBooks

\* The base records nothing
LEMMA BooksSilent ==
    ASSUME BaseBooks, Flows, Silent(base'), base'.stored \in {base.stored, file}, UNCHANGED file,
           base'.place = {} \/ base'.place = {plugin'.place}, plugin'.place \in Place,
           Compared' \/ plugin'.phase = "waiting" => base'.place = {plugin'.place},
           generation' \in Nat
    PROVE  BaseBooks' /\ ~Holding'
<1>1. base'.synced = FALSE /\ base'.resumeGeneration = {}
    BY DEF Silent
<1>2. Recorded'
    <2>1. PICK stored, saved : stored = base'.stored /\ saved = file
        OBVIOUS
    <2>2. Filed(stored) /\ Filed(saved)
        BY <2>1 DEF BaseBooks, Recorded
    <2>3. Filed(stored)' /\ Filed(saved)'
        BY <2>2, FiledFlows
    <2> QED
        BY <2>1, <2>3 DEF Recorded
<1>3. ~Holding'
    BY <1>1 DEF Holding
<1>4. Placed'
    BY DEF Placed
<1>5. Dated' /\ DiskAgreed' /\ Waits'
    BY <1>1, <1>3 DEF Dated, DiskAgreed, Waits, Current
<1> QED
    BY <1>2, <1>3, <1>4, <1>5 DEF BaseBooks

\* A step of others than the writer
LEMMA WriterReads ==
    ASSUME WriterBooks, WriterInv, Placed, IsBase(base), Flows, UNCHANGED writer,
           generation \in Nat, generation' \in Nat, generation <= generation',
           \/ base'.epoch = base.epoch + 1
           \/ /\ base'.epoch = base.epoch /\ base'.place = base.place
              /\ base'.synced = TRUE => base.synced = TRUE
    PROVE  WriterBooks'
<1>1. writer.stage = "sampled" => writer.generation \in Nat /\ writer.generation <= generation'
    BY DEF WriterBooks
<1>2. ASSUME writer.stage = "taken", Current(writer.epoch)' PROVE Snapped(writer.snapshot)'
    <2>1. writer.epoch \in Nat /\ writer.epoch <= base.epoch
        BY <1>2 DEF WriterInv
    <2>2. writer.epoch = base'.epoch /\ base'.synced = TRUE
        BY <1>2 DEF Current
    <2>3. base'.place = base.place /\ Current(writer.epoch)
        BY <2>1, <2>2 DEF Current, IsBase
    <2>4. PICK snapshot : snapshot = writer.snapshot
        OBVIOUS
    <2>5. Snapped(snapshot)
        BY <1>2, <2>3, <2>4 DEF WriterBooks
    <2>6. Snapped(snapshot)'
        BY <2>3, <2>5, SnappedFlows
    <2> QED
        BY <2>4, <2>6
<1> QED
    BY <1>1, <1>2 DEF WriterBooks

LEMMA WriterFree ==
    ASSUME writer'.stage \in {"idle", "taking"} PROVE WriterBooks'
BY DEF WriterBooks

LEMMA InStepKept ==
    ASSUME InStep, Holding' => Holding, Compared' => Compared, Wire' = Wire,
           UNCHANGED <<disk, studio>>, plugin'.place = plugin.place
    PROVE  InStep'
<1>1. Here' = Here
    BY DEF Here
<1>2. PICK w, h : w = Wire /\ h = Here
    OBVIOUS
<1>3. ASSUME Holding', Compared', NEW p \in Path PROVE Arrives(Wire, Here, disk, p)'
    <2>1. Arrives(w, h, disk, p)
        BY <1>2, <1>3 DEF InStep
    <2> QED
        BY <1>1, <1>2, <2>1 DEF Arrives
<1> QED
    BY <1>3 DEF InStep

\* Frames have come off the wire, or gone onto it, as long as the rest holds
LEMMA SidesKept ==
    ASSUME Sides, UNCHANGED <<studio, held>>, disk' \in Tree, generation' \in Nat,
           plugin'.place \in Place, Wire' \in Seq(Frame)
    PROVE  Sides'
BY DEF Sides

-----------------------------------------------------------------------------
(* The connect's own state *)

PushedPaths(k) == {item.path : item \in tasks[k].pushed}

\* What the connect pushes is all that Studio has not
Pushes(k) ==
    /\ \A p \in Path \ PushedPaths(k) : Get(disk, p) = Get(Here, p)
    /\ \A item \in tasks[k].pushed : item.path \in Path /\ (item.state = MissingOnDisk \/ item.path \in DOMAIN disk)
    /\ tasks[k].pushed # {} => View(base, {plugin.place}) # {}

TaskFine(k) ==
    /\ tasks[k].stage \in {"apply", "push", "snap", "commit"}
    /\ tasks[k].stage \in {"apply", "push"} => Wire = << >>
    /\ tasks[k].stage = "apply" =>
          tasks[k].winners = Decide(View(base, {plugin.place}), Diff(disk, Here), disk, Here, TRUE, FALSE)
    /\ tasks[k].stage # "apply" => Pushes(k)
    /\ tasks[k].stage \in {"snap", "commit"} => \A p \in Path : Arrives(Wire, Here, disk, p)
    /\ tasks[k].stage = "commit" =>
          /\ tasks[k].snapshot.held = PushedPaths(k)
          /\ DOMAIN tasks[k].snapshot.entries \subseteq Path \ PushedPaths(k)
          /\ \A p \in Path \ PushedPaths(k) : Get(tasks[k].snapshot.entries, p) = Get(Keys(disk), p)

Jobs == TasksShaped /\ \A k \in DOMAIN tasks : TaskFine(k)

\* A plugin that connects has nothing on its way, has read the tree there is and
\* stops what is recorded
Calm ==
    /\ plugin.phase \in {"hello", "ready", "fetched"} => Wire = << >>
    /\ plugin.phase = "fetched" => plugin.seen = disk
    /\ plugin.phase = "waiting" => Silent(base) /\ plugin.conn \in DOMAIN tasks

LEMMA JobsKept ==
    ASSUME Jobs, UNCHANGED <<tasks, disk, studio, plugin>>, base'.stored = base.stored, Wire' = Wire
    PROVE  Jobs'
<1>0. Here' = Here
    BY DEF Here
<1>1. PICK w, h, v : w = Wire /\ h = Here /\ v = View(base, {plugin.place})
    OBVIOUS
<1>2. w = Wire' /\ h = Here' /\ v = View(base', {plugin.place})
    BY <1>0, <1>1 DEF View
<1>3. ASSUME NEW k \in DOMAIN tasks PROVE TaskFine(k)'
    <2>0. TaskFine(k) /\ PushedPaths(k)' = PushedPaths(k)
        BY DEF Jobs, PushedPaths
    <2>1. Pushes(k) => Pushes(k)'
        BY <1>1, <1>2, <2>0 DEF Pushes
    <2>2. (\A p \in Path : Arrives(w, h, disk, p)) => \A p \in Path : Arrives(Wire, Here, disk, p)'
        BY <1>2 DEF Arrives
    <2>3. /\ tasks'[k].stage \in {"apply", "push", "snap", "commit"}
          /\ tasks'[k].stage \in {"apply", "push"} => Wire' = << >>
        BY <2>0 DEF TaskFine
    <2>4. tasks'[k].stage = "apply" =>
             tasks'[k].winners = Decide(View(base, {plugin.place}), Diff(disk, Here), disk, Here, TRUE, FALSE)'
        BY <1>1, <1>2, <2>0 DEF TaskFine
    <2>5. (tasks'[k].stage # "apply" => Pushes(k)')
        BY <2>0, <2>1 DEF TaskFine
    <2>6. (tasks'[k].stage \in {"snap", "commit"} => \A p \in Path : Arrives(Wire, Here, disk, p)')
        BY <1>1, <2>0, <2>2 DEF TaskFine
    <2>7. tasks'[k].stage = "commit" =>
             /\ tasks'[k].snapshot.held = PushedPaths(k)'
             /\ DOMAIN tasks'[k].snapshot.entries \subseteq Path \ PushedPaths(k)'
             /\ \A p \in Path \ PushedPaths(k)' : Get(tasks'[k].snapshot.entries, p) = Get(Keys(disk'), p)
        BY <2>0 DEF TaskFine
    <2> QED
        BY <2>3, <2>4, <2>5, <2>6, <2>7 DEF TaskFine
<1>4. TasksShaped'
    BY DEF Jobs, TasksShaped, TaskShaped
<1> QED
    BY <1>3, <1>4 DEF Jobs

LEMMA JobsNone ==
    ASSUME DOMAIN tasks' = {}, tasks' = [k \in DOMAIN tasks' |-> tasks'[k]]
    PROVE  Jobs'
BY DEF Jobs, TasksShaped

LEMMA JobsIdle ==
    ASSUME Jobs, Awaited, UNCHANGED tasks, plugin.phase # "waiting" PROVE Jobs' /\ DOMAIN tasks = {}
<1>1. DOMAIN tasks = {}
    BY DEF Awaited
<1>2. tasks = [k \in DOMAIN tasks |-> tasks[k]]
    BY DEF Jobs, TasksShaped
<1>3. DOMAIN tasks' = {} /\ tasks' = [k \in DOMAIN tasks' |-> tasks'[k]]
    BY <1>1, <1>2
<1> QED
    BY <1>1, <1>3, JobsNone

LEMMA CalmKept ==
    ASSUME Calm, UNCHANGED <<disk, tasks, plugin>>, Wire' = Wire, Silent(base) => Silent(base')
    PROVE  Calm'
BY DEF Calm

LEMMA CalmElse ==
    ASSUME plugin'.phase \in {"offline", "redial", "rehello", "live"}
    PROVE  Calm'
BY DEF Calm

LEMMA QuieterSilent ==
    ASSUME NEW b, NEW n, NEW g, Quieter(b, n, g), IsBase(n), Silent(b) PROVE Silent(n)
BY DEF Quieter, Silent, IsBase

-----------------------------------------------------------------------------
(* Steps of the connections *)

Context == Links /\ Awaited /\ OneLink /\ WriterInv

Flowing == Sides /\ Calm /\ Jobs /\ BaseBooks /\ WriterBooks /\ InStep

LEMMA WriterQuieter ==
    ASSUME WriterBooks, WriterInv, Placed, IsBase(base), Flows, UNCHANGED <<writer, generation>>,
           generation \in Nat, Quieter(base, base', generation)
    PROVE  WriterBooks'
<1>0. PICK b, n : b = base /\ n = base'
    OBVIOUS
<1>1. Quieter(b, n, generation)
    BY <1>0
<1>2. \/ base'.epoch = base.epoch + 1
      \/ /\ base'.epoch = base.epoch /\ base'.place = base.place
         /\ base'.synced = TRUE => base.synced = TRUE
    BY <1>0, <1>1 DEF Quieter
<1>3. generation' \in Nat /\ generation <= generation'
    OBVIOUS
<1> QED
    BY <1>2, <1>3, WriterReads

\* Nothing moves but the daemon's books
LEMMA FlowingRests ==
    ASSUME Context, Flowing, IsBase(base'), UNCHANGED <<disk, generation, file, tasks, studio, held, plugin>>,
           Wire' = Wire, Quieter(base, base', generation), UNCHANGED writer \/ WriterBooks'
    PROVE  Flowing'
<1>a. /\ Sides /\ Calm /\ Jobs /\ BaseBooks /\ WriterBooks /\ InStep /\ Placed /\ WriterInv /\ IsBase(base)
      /\ generation \in Nat
    BY DEF Flowing, Context, OneLink, Sides, BaseBooks
<1>0. PICK b, n : b = base /\ n = base'
    OBVIOUS
<1>1. Quieter(b, n, generation) /\ IsBase(n)
    BY <1>0
<1>2. Flows
    BY FlowsSame
<1>3. BaseBooks' /\ (Holding' => Holding)
    BY <1>a, <1>2, BooksQuieter DEF Compared
<1>4. WriterBooks'
    BY <1>a, <1>2, WriterQuieter
<1>5. InStep'
    BY <1>a, <1>3, InStepKept DEF Compared
<1>6. Sides'
    BY <1>a, SidesKept DEF Sides
<1>7. Calm'
    <2>1. Silent(base) => Silent(base')
        BY <1>0, <1>1, QuieterSilent
    <2> QED
        BY <1>a, <2>1, CalmKept
<1>8. Jobs'
    <2>1. base'.stored = base.stored
        BY <1>0, <1>1 DEF Quieter
    <2> QED
        BY <1>a, <2>1, JobsKept
<1> QED
    BY <1>3, <1>4, <1>5, <1>6, <1>7, <1>8 DEF Flowing

\* The plugin goes on, but not with a connect
LEMMA FlowingMoves ==
    ASSUME Context, Flowing, IsBase(base'), UNCHANGED <<disk, generation, file, tasks, studio, held, writer>>,
           plugin'.place = plugin.place, plugin.phase # "waiting", plugin'.phase # "waiting",
           Compared' => Compared, Calm', Wire' = Wire, Quieter(base, base', generation)
    PROVE  Flowing'
<1>a. /\ Sides /\ Jobs /\ BaseBooks /\ WriterBooks /\ InStep /\ Placed /\ WriterInv /\ IsBase(base) /\ Awaited
      /\ generation \in Nat
    BY DEF Flowing, Context, OneLink, Sides, BaseBooks
<1>2. Flows
    BY FlowsSame
<1>3. BaseBooks' /\ (Holding' => Holding)
    BY <1>a, <1>2, BooksQuieter
<1>4. WriterBooks'
    BY <1>a, <1>2, WriterQuieter
<1>5. InStep'
    BY <1>a, <1>3, InStepKept
<1>6. Sides'
    BY <1>a, SidesKept DEF Sides
<1>8. Jobs'
    BY <1>a, JobsIdle
<1> QED
    BY <1>3, <1>4, <1>5, <1>6, <1>8 DEF Flowing

LEMMA FlowingDial ==
    ASSUME Context, Flowing, NEW c \in Conn, Dial(c) PROVE Flowing'
<1>1. /\ Wire = << >> /\ Wire' = << >> /\ plugin.phase \in {"offline", "redial"}
      /\ plugin'.phase = (IF plugin.phase = "redial" THEN "rehello" ELSE "hello")
      /\ plugin'.place = plugin.place
    BY WireDial DEF Context
<1>2. UNCHANGED <<disk, generation, file, tasks, studio, held, writer, base>>
    BY DEF Dial, history
<1>3. Calm' /\ (Compared' => Compared) /\ plugin.phase # "waiting" /\ plugin'.phase # "waiting"
    BY <1>1 DEF Calm, Compared
<1>4. Quieter(base, base', generation) /\ IsBase(base')
    BY <1>2, SameQuieter DEF Context, OneLink
<1> QED
    BY <1>1, <1>2, <1>3, <1>4, FlowingMoves

LEMMA FlowingOpen ==
    ASSUME Context, Flowing, IsBase(base'), NEW c \in Conn, Open(c) PROVE Flowing'
<1>1. /\ Wire' = Wire /\ plugin'.place = plugin.place /\ plugin.phase \in {"hello", "rehello"}
      /\ plugin'.phase = (IF plugin.phase = "rehello" THEN "live" ELSE "ready")
    BY WireOpen DEF Context
<1>2. UNCHANGED <<disk, generation, file, tasks, studio, held, writer>> /\ base' = OnReconnect(base, generation)
    BY DEF Open, history
<1>3. Calm' /\ (Compared' => Compared) /\ plugin.phase # "waiting" /\ plugin'.phase # "waiting"
    BY <1>1 DEF Calm, Compared, Flowing
<1>4. Quieter(base, base', generation)
    <2>1. PICK b, g : b = base /\ g = generation
        OBVIOUS
    <2>2. IsBase(b) /\ g \in Nat
        BY <2>1 DEF Context, OneLink, Flowing, Sides
    <2>3. Quieter(b, OnReconnect(b, g), g)
        BY <2>2, OnReconnectQuieter
    <2> QED
        BY <1>2, <2>1, <2>3
<1> QED
    BY <1>1, <1>2, <1>3, <1>4, FlowingMoves

LEMMA FlowingDrops ==
    ASSUME Orderly, Context, Flowing, NEW c \in Conn, NEW next \in {"redial", "offline"}, LinkDrops(c, next)
    PROVE  Flowing'
<1>1. /\ Wire = << >> /\ Wire' = << >> /\ plugin'.place = plugin.place /\ plugin'.phase = next
      /\ plugin.phase \in {"live", "rehello"}
    BY WireDrops DEF Context
<1>2. UNCHANGED <<disk, generation, file, tasks, studio, held, writer, base>>
    BY DEF LinkDrops, history
<1>3. Calm' /\ (Compared' => Compared) /\ plugin.phase # "waiting" /\ plugin'.phase # "waiting"
    BY <1>1 DEF Calm, Compared
<1>4. Quieter(base, base', generation) /\ IsBase(base')
    BY <1>2, SameQuieter DEF Context, OneLink
<1> QED
    BY <1>1, <1>2, <1>3, <1>4, FlowingMoves

LEMMA FlowingFetch ==
    ASSUME Context, Flowing, Fetch PROVE Flowing'
<1>1. /\ Wire' = Wire /\ plugin'.place = plugin.place /\ plugin.phase = "ready"
      /\ plugin'.phase = "fetched" /\ plugin'.seen = disk
    BY WireFetch DEF Context
<1>2. UNCHANGED <<disk, generation, file, tasks, studio, held, writer, base>>
    BY DEF Fetch, history, daemon
<1>3. Calm' /\ (Compared' => Compared) /\ plugin.phase # "waiting" /\ plugin'.phase # "waiting"
    BY <1>1, <1>2 DEF Calm, Compared, Flowing
<1>4. Quieter(base, base', generation) /\ IsBase(base')
    BY <1>2, SameQuieter DEF Context, OneLink
<1> QED
    BY <1>1, <1>2, <1>3, <1>4, FlowingMoves

LEMMA FlowingCleanup ==
    ASSUME Context, Flowing, IsBase(base'), Cleanup PROVE Flowing'
<1>1. Wire' = Wire /\ UNCHANGED plugin
    BY WireCleanup DEF Context
<1>2. PICK c \in Conn : LoopEnds(c) \/ Release(c) \/ Unsubscribe(c) \/ Disconnected(c)
    BY DEF Cleanup
<1>3. UNCHANGED <<disk, generation, file, tasks, studio, held, writer>>
    BY <1>2 DEF LoopEnds, Release, Unsubscribe, Disconnected, history
<1>4. Quieter(base, base', generation)
    <2>1. PICK b, g : b = base /\ g = generation
        OBVIOUS
    <2>2. IsBase(b) /\ g \in Nat
        BY <2>1 DEF Context, OneLink, Flowing, Sides
    <2>3. Quieter(b, OnDisconnect(b, g), g) /\ Quieter(b, b, g)
        BY <2>2, OnDisconnectQuieter, SameQuieter
    <2>4. base' = base \/ base' = OnDisconnect(base, generation)
        BY <1>2 DEF LoopEnds, Release, Unsubscribe, Disconnected
    <2> QED
        BY <2>1, <2>3, <2>4
<1> QED
    BY <1>1, <1>3, <1>4, FlowingRests

-----------------------------------------------------------------------------
(* Edits and frames *)

LEMMA ArrivesSame ==
    ASSUME NEW q, NEW s, NEW d, NEW t, NEW p, Get(d, p) = Get(t, p), Arrives(q, s, d, p)
    PROVE  Arrives(q, s, t, p)
BY DEF Arrives

LEMMA AppendOne ==
    ASSUME NEW S, NEW q \in Seq(S), NEW x \in S
    PROVE  /\ <<x>> \in Seq(S) /\ q \o <<x>> \in Seq(S) /\ q \o <<x>> = Append(q, x)
           /\ Len(q) + 1 \in DOMAIN Append(q, x) /\ Append(q, x)[Len(q) + 1] = x
OBVIOUS

\* While the daemon has nothing to clean up, only a live plugin is recorded
LEMMA SyncedIsLive ==
    ASSUME Context, base.synced = TRUE, ~Comparing, \A c \in Conn : ~Dead(c)
    PROVE  plugin.phase = "live"
<1>1. plugin.conn \in Conn /\ conns[plugin.conn].phase \notin {"none", "gone", "claimed"}
    BY DEF Context, OneLink
<1>2. conns[plugin.conn].alive
    BY <1>1 DEF Dead
<1>3. plugin.phase \in {"ready", "fetched", "waiting", "live"}
    BY <1>1, <1>2 DEF Context, Links, LinkInv
<1> QED
    BY <1>3 DEF Comparing

LEMMA FlowingDiskEdit ==
    ASSUME Flat, Orderly, Context, Flowing, NEW p \in Path, NEW t \in Changes(disk, p), DiskEdit(p, t)
    PROVE  Flowing'
<1>a. /\ Sides /\ Jobs /\ BaseBooks /\ WriterBooks /\ InStep /\ Placed /\ Dated /\ DiskAgreed
      /\ WriterInv /\ IsBase(base) /\ Awaited /\ Links
      /\ disk \in Tree /\ generation \in Nat /\ Wire \in Seq(Frame) /\ plugin.place \in Place
    BY DEF Flowing, Context, OneLink, Sides, BaseBooks
<1>b. /\ UNCHANGED <<base, file, tasks, writer, plugin, studio, held>> /\ disk' = t
      /\ generation' = generation + 1
    BY DEF DiskEdit, history
<1>c. ~Comparing /\ \A c \in Conn : ~Dead(c)
    BY DEF DiskEdit, Orderly, Swept, Clean
<1>1. t \in Tree /\ \A q \in Path : q # p => Get(t, q) = Get(disk, q)
    BY <1>a, ChangesAt
<1> DEFINE f == [path |-> p, content |-> Get(t, p)]
<1>2. f \in Frame /\ f.path = p /\ f.content = Get(t, p)
    BY <1>1, FrameIs
<1> HIDE DEF f
<1>3. /\ plugin.phase \in {"offline", "redial"} => Wire' = Wire
      /\ plugin.phase \notin {"offline", "redial"} => Wire' = Wire \o <<f>>
    BY <1>a, WireDiskEdit DEF f
<1>4. <<f>> \in Seq(Frame) /\ Wire \o <<f>> \in Seq(Frame) /\ Wire \o <<f>> = Append(Wire, f)
    BY <1>a, <1>2, AppendOne
<1>5. Flows
    <2>1. PICK frames : frames = <<f>>
        OBVIOUS
    <2>2. frames \in Seq(Frame)
        BY <1>4, <2>1
    <2>3. CASE Wire' = Wire \o frames
        BY <1>a, <1>b, <2>2, <2>3, FlowsMore
    <2>4. CASE Wire' = Wire
        BY <1>b, <2>4, FlowsSame
    <2> QED
        BY <1>3, <2>1, <2>3, <2>4
<1>6. Wire' \in Seq(Frame)
    BY <1>3, <1>4, <1>a
<1>7. Sides'
    BY <1>a, <1>b, <1>1, <1>6, SidesKept
<1>8. plugin.phase # "waiting" /\ plugin'.phase \in {"offline", "redial", "rehello", "live"}
    BY <1>a, <1>b, <1>c DEF Comparing, Links, PluginShaped, PluginPhase
<1>9. Calm' /\ Jobs'
    BY <1>a, <1>b, <1>8, CalmElse, JobsIdle
<1>10. Holding' => base.synced = TRUE /\ plugin.phase = "live" /\ Holding /\ base.place = {plugin.place}
    <2>1. base.resumeGeneration # {generation + 1}
        <3>1. ~(generation + 1 <= generation)
            BY <1>a
        <3> QED
            BY <1>a, <3>1 DEF Dated
    <2>2. Holding' => base.synced = TRUE
        BY <1>b, <2>1 DEF Holding
    <2> QED
        BY <1>a, <1>c, <2>2, SyncedIsLive DEF Holding, Placed, Compared
<1>11. WriterBooks'
    <2>1. generation' \in Nat /\ generation <= generation'
        BY <1>a, <1>b
    <2> QED
        BY <1>a, <1>b, <1>5, <2>1, WriterReads
<1>12. DiskAgreed'
    <2> SUFFICES ASSUME Holding', NEW place \in base'.place, NEW q \in Path
                 PROVE  Delivered(place, q, Get(Keys(disk), q))'
        BY DEF DiskAgreed, Agreed
    <2>1. place = plugin.place /\ place \in Place /\ Agreed(Keys(disk), place) /\ plugin'.place = place
          /\ Wire' = Append(Wire, f)
        BY <1>a, <1>b, <1>3, <1>4, <1>10 DEF DiskAgreed
    <2>2. PICK key : key = Get(Keys(t), q)
        OBVIOUS
    <2>3. CASE q = p
        <3>1. key = KeyIn(f)
            BY <1>2, <2>2, <2>3, KeysGet DEF KeyIn
        <3>2. Len(Wire) + 1 \in DOMAIN Wire' /\ Wire'[Len(Wire) + 1] = f
            BY <1>a, <1>2, <2>1, AppendOne
        <3>3. \E k \in DOMAIN Wire' : Wire'[k].path = q /\ key = KeyIn(Wire'[k])
            BY <1>2, <2>3, <3>1, <3>2
        <3>4. Delivered(place, q, key)'
            BY <2>1, <3>3 DEF Delivered, KeyIn
        <3> QED
            BY <1>b, <2>2, <3>4
    <2>4. CASE q # p
        <3>1. key = Get(Keys(disk), q)
            BY <1>1, <2>2, <2>4, KeysGet
        <3>2. Delivered(place, q, key)
            BY <2>1, <3>1 DEF Agreed
        <3>3. Delivered(place, q, key)'
            BY <1>5, <2>1, <3>2 DEF Flows
        <3> QED
            BY <1>b, <2>2, <3>3
    <2> QED
        BY <2>3, <2>4
<1>13. BaseBooks'
    <2>1. Recorded'
        BY <1>a, <1>b, <1>5, RecordedFlows DEF BaseBooks
    <2>2. Placed'
        BY <1>a, <1>b DEF Placed, Compared
    <2>3. Dated'
        BY <1>a, <1>b DEF Dated
    <2>4. ASSUME NEW x \in base'.pending, Current(x.epoch)' PROVE Snapped(x.snapshot)'
        <3>1. PICK snapshot : snapshot = x.snapshot
            OBVIOUS
        <3>2. Snapped(snapshot)
            BY <1>b, <2>4, <3>1 DEF Flowing, BaseBooks, Waits, Current
        <3>3. Snapped(snapshot)'
            BY <1>a, <1>b, <1>5, <3>2, SnappedFlows
        <3> QED
            BY <3>1, <3>3
    <2> QED
        BY <1>12, <2>1, <2>2, <2>3, <2>4 DEF BaseBooks, Waits
<1>14. InStep'
    <2> SUFFICES ASSUME Holding', Compared', NEW q \in Path PROVE Arrives(Wire, Here, disk, q)'
        BY DEF InStep
    <2>a. Holding /\ Compared /\ Wire' = Append(Wire, f)
        BY <1>3, <1>4, <1>10 DEF Compared
    <2>b. Here' = Here
        BY <1>b DEF Here
    <2>1. Here' = Here /\ Wire' = Append(Wire, f) /\ Arrives(Wire, Here, disk, q)
        BY <1>a, <2>a, <2>b DEF InStep
    <2>2. PICK w, h, d : w = Wire /\ h = Here /\ d = disk
        OBVIOUS
    <2>3. CASE q = p
        <3>1. Arrives(Append(w, f), h, t, q)
            BY <1>a, <1>2, <2>2, <2>3, ArrivesNew
        <3> QED
            BY <1>b, <2>1, <2>2, <3>1
    <2>4. CASE q # p
        <3>1. Arrives(Append(w, f), h, d, q)
            BY <1>a, <1>2, <2>1, <2>2, <2>4, ArrivesAppend
        <3>2. Get(d, q) = Get(t, q)
            BY <1>1, <2>2, <2>4
        <3>3. PICK x : x = Append(w, f)
            OBVIOUS
        <3>4. Arrives(x, h, t, q)
            BY <3>1, <3>2, <3>3, ArrivesSame
        <3> QED
            BY <1>b, <2>1, <2>2, <3>3, <3>4
    <2> QED
        BY <2>3, <2>4
<1> QED
    BY <1>7, <1>9, <1>11, <1>13, <1>14 DEF Flowing

\* The plugin is offline, and something happens in Studio
LEMMA FlowingOffline ==
    ASSUME Context, Flowing, UNCHANGED <<disk, generation, file, tasks, writer, base>>,
           plugin.phase = "offline", plugin'.phase = "offline", Flows, Sides'
    PROVE  Flowing'
<1>a. /\ Jobs /\ BaseBooks /\ WriterBooks /\ Placed /\ WriterInv /\ IsBase(base) /\ Awaited
      /\ generation \in Nat
    BY DEF Flowing, Context, OneLink, Sides, BaseBooks
<1>1. Quieter(base, base', generation) /\ IsBase(base')
    BY <1>a, SameQuieter
<1>2. ~Compared' /\ plugin'.phase # "waiting"
    BY DEF Compared
<1>3. BaseBooks'
    BY <1>a, <1>1, <1>2, BooksQuieter
<1>4. WriterBooks'
    BY <1>a, <1>1, WriterQuieter
<1>5. Calm' /\ Jobs' /\ InStep'
    BY <1>a, <1>2, CalmElse, JobsIdle DEF InStep
<1> QED
    BY <1>3, <1>4, <1>5 DEF Flowing

LEMMA FlowingStudioEdit ==
    ASSUME Flat, Context, Flowing, NEW p \in Path, NEW t \in Changes(studio[plugin.place], p), StudioEdit(p, t)
    PROVE  Flowing'
<1>1. /\ UNCHANGED <<disk, generation, file, tasks, writer, base, plugin, conns>> /\ plugin.phase = "offline"
      /\ studio' = [studio EXCEPT ![plugin.place] = t] /\ Note(plugin.place, t)
    BY DEF StudioEdit, daemon
<1>2. PICK place \in Place : place = plugin.place
    BY DEF Flowing, Sides
<1>3. Sides /\ studio[place] \in Tree
    BY <1>2 DEF Flowing, Sides
<1>4. t \in Tree
    <2>1. PICK s \in Tree : s = studio[place]
        BY <1>3
    <2>2. t \in Changes(s, p)
        BY <1>2, <2>1
    <2> QED
        BY <2>2, ChangesAt
<1>5. /\ studio' \in [Place -> Tree]
      /\ held' = [pl \in Place |-> [q \in Path |-> held'[pl][q]]]
      /\ \A pl \in Place : \A q \in Path : held[pl][q] \subseteq held'[pl][q]
      /\ \A pl \in Place : \A q \in Path : Get(Keys(studio'[pl]), q) \in held'[pl][q]
    BY <1>1, <1>2, <1>3, <1>4, Noted
<1>6. Wire = << >> /\ Wire' = << >>
    BY <1>1, WireOff, WireOffNext
<1>7. Flows
    BY <1>5, <1>6, FlowsIf
<1>8. Sides'
    BY <1>1, <1>3, <1>5, <1>6 DEF Sides
<1> QED
    BY <1>1, <1>7, <1>8, FlowingOffline

LEMMA FlowingOpenPlace ==
    ASSUME Context, Flowing, NEW place \in Place, OpenPlace(place) PROVE Flowing'
<1>1. /\ Wire = << >> /\ Wire' = << >> /\ plugin.phase = "offline" /\ plugin'.phase = "offline"
      /\ plugin'.place = place
    BY WireOpenPlace DEF Context
<1>2. UNCHANGED <<disk, generation, file, tasks, writer, base, studio, held>>
    BY DEF OpenPlace, daemon, history
<1>3. Flows
    BY <1>1, <1>2, FlowsSame
<1>4. Sides'
    BY <1>1, <1>2 DEF Flowing, Sides
<1> QED
    BY <1>1, <1>2, <1>3, <1>4, FlowingOffline

\* What a frame does to a flat tree
Becomes(s, f) == IF f.content = None THEN Without(s, {f.path}) ELSE With(s, f.path, Unwrap(f.content))

LEMMA FrameApplied ==
    ASSUME Flat, NEW s \in Tree, NEW f \in Frame, NEW t, t = Becomes(s, f)
    PROVE  /\ t \in Tree /\ Get(t, f.path) = f.content
           /\ \A p \in Path : p # f.path => Get(t, p) = Get(s, p)
<1>1. PICK p \in Path : p = f.path
    BY FrameMeans
<1>2. CASE f.content = {}
    <2>1. t = Without(s, {p})
        BY <1>1, <1>2 DEF None, Becomes
    <2>2. t \in Tree /\ Get(t, p) = {} /\ \A q \in Path : q # p => Get(t, q) = Get(s, q)
        BY <2>1, WithoutAt
    <2> QED
        BY ONLY <1>1, <1>2, <2>2
<1>3. ASSUME NEW c \in Content, f.content = {c}
      PROVE  /\ t \in Tree /\ Get(t, f.path) = f.content
             /\ \A q \in Path : q # f.path => Get(t, q) = Get(s, q)
    <2>1. Unwrap(f.content) = c
        BY <1>3 DEF Unwrap
    <2>2. t = With(s, p, c)
        BY <1>1, <1>3, <2>1 DEF None, Becomes
    <2>3. t \in Tree /\ Get(t, p) = {c} /\ \A q \in Path : q # p => Get(t, q) = Get(s, q)
        BY <2>2, WithAt
    <2> QED
        BY ONLY <1>1, <1>3, <2>3
<1> QED
    BY <1>2, <1>3, FrameMeans

LEMMA FlowingDeliver ==
    ASSUME Flat, Context, Flowing, Deliver PROVE Flowing'
<1>a. /\ Sides /\ Jobs /\ BaseBooks /\ WriterBooks /\ InStep /\ Placed /\ WriterInv /\ IsBase(base) /\ Awaited
      /\ Links /\ generation \in Nat /\ Wire \in Seq(Frame)
    BY DEF Flowing, Context, OneLink, Sides, BaseBooks
<1>1. /\ Wire # << >> /\ Wire = conns[plugin.conn].queue /\ Wire' = Tail(Wire) /\ plugin.phase = "live"
    BY <1>a, WireDeliver
<1>2. UNCHANGED <<disk, generation, file, tasks, writer, base, plugin>>
    BY DEF Deliver
<1>3. PICK w \in Seq(Frame) : w = Wire /\ w # << >>
    BY <1>a, <1>1
<1>4. PICK place \in Place : place = plugin.place
    BY <1>a DEF Sides
<1>5. PICK s \in Tree : s = studio[place]
    BY <1>a DEF Sides
<1>6. PICK f \in Frame : f = Head(w)
    BY <1>3
<1>7. PICK t : t = Becomes(s, f)
    OBVIOUS
<1>8. studio' = [studio EXCEPT ![place] = t] /\ Note(place, t)
    BY <1>1, <1>3, <1>4, <1>5, <1>6, <1>7 DEF Deliver, Becomes
<1>9. /\ t \in Tree /\ Get(t, f.path) = f.content /\ f.path \in Path
      /\ \A p \in Path : p # f.path => Get(t, p) = Get(s, p)
    BY <1>7, FrameApplied, FrameMeans
<1>10. /\ studio' \in [Place -> Tree] /\ studio'[place] = t
       /\ held' = [pl \in Place |-> [q \in Path |-> held'[pl][q]]]
       /\ \A pl \in Place : \A q \in Path : held[pl][q] \subseteq held'[pl][q]
       /\ \A pl \in Place : \A q \in Path : Get(Keys(studio'[pl]), q) \in held'[pl][q]
    BY <1>a, <1>8, <1>9, Noted
<1>11. /\ DOMAIN Tail(w) = 1 .. (Len(w) - 1) /\ \A k \in DOMAIN Tail(w) : Tail(w)[k] = w[k + 1]
       /\ DOMAIN w = 1 .. Len(w) /\ Len(w) \in Nat /\ Len(w) > 0 /\ w[1] = Head(w) /\ Tail(w) \in Seq(Frame)
    BY <1>3
<1>12. Flows
    <2>1. KeyIn(f) = Get(Keys(t), f.path)
        BY <1>9, KeysGet DEF KeyIn
    <2>2. KeyIn(f) \in held'[place][f.path]
        BY <1>9, <1>10, <2>1
    <2>3. ASSUME NEW k \in DOMAIN w, k # 1 PROVE \E j \in DOMAIN Tail(w) : Tail(w)[j] = w[k]
        <3>1. k - 1 \in DOMAIN Tail(w) /\ Tail(w)[k - 1] = w[k]
            BY <1>11, <2>3
        <3> QED
            BY <3>1
    <2>4. \A k \in DOMAIN Wire : \/ \E j \in DOMAIN Wire' : Wire'[j] = Wire[k]
                                 \/ KeyIn(Wire[k]) \in held'[plugin.place][Wire[k].path]
        BY <1>1, <1>3, <1>4, <1>6, <1>11, <2>2, <2>3
    <2> QED
        BY <1>2, <1>10, <2>4, FlowsIf
<1>13. Sides'
    BY <1>a, <1>1, <1>2, <1>3, <1>10, <1>11 DEF Sides
<1>14. plugin.phase # "waiting" /\ plugin'.phase = "live"
    BY <1>1, <1>2
<1>15. Calm' /\ Jobs'
    BY <1>a, <1>2, <1>14, CalmElse, JobsIdle
<1>16. Quieter(base, base', generation) /\ IsBase(base')
    BY <1>a, <1>2, SameQuieter
<1>17. BaseBooks' /\ (Holding' => Holding)
    BY <1>a, <1>2, <1>12, <1>16, BooksQuieter DEF Compared
<1>18. WriterBooks'
    BY <1>a, <1>2, <1>12, <1>16, WriterQuieter
<1>19. InStep'
    <2> SUFFICES ASSUME Holding', Compared', NEW p \in Path PROVE Arrives(Wire, Here, disk, p)'
        BY DEF InStep
    <2>1. Holding /\ Compared
        BY <1>1, <1>17 DEF Compared
    <2>2. Arrives(w, s, disk, p)
        BY <1>a, <1>3, <1>4, <1>5, <2>1 DEF InStep, Here
    <2>3. PICK d : d = disk
        OBVIOUS
    <2>4. Arrives(Tail(w), t, d, p)
        BY <1>3, <1>6, <1>9, <2>2, <2>3, ArrivesTail
    <2>5. Here' = t
        BY <1>2, <1>4, <1>10 DEF Here
    <2> QED
        BY <1>1, <1>2, <1>3, <2>3, <2>4, <2>5
<1> QED
    BY <1>13, <1>15, <1>17, <1>18, <1>19 DEF Flowing

-----------------------------------------------------------------------------
(* Ends *)

LEMMA FlowingRestart ==
    ASSUME Orderly, Context, Flowing, NEW graceful, Restart(graceful) PROVE Flowing'
<1>1. Wire = << >> /\ Wire' = << >> /\ plugin'.place = plugin.place /\ plugin'.phase = "offline"
    BY WireRestart DEF Context
<1>2. /\ UNCHANGED <<disk, file, studio, held>> /\ base' = Load(file) /\ generation' = 0
      /\ tasks' = << >> /\ writer' = [stage |-> "idle"]
    BY DEF Restart, Idle
<1>3. Flows
    BY <1>1, <1>2, FlowsSame
<1>4. Sides'
    BY <1>1, <1>2, SidesKept DEF Flowing, Sides
<1>5. base'.stored = file /\ base'.place = {} /\ Silent(base')
    <2>1. PICK f : f = file
        OBVIOUS
    <2> QED
        BY <1>2, <2>1, LoadFields
<1>6. BaseBooks' /\ ~Holding'
    <2>1. ~(Compared' \/ plugin'.phase = "waiting") /\ generation' \in Nat
        BY <1>1, <1>2 DEF Compared
    <2>2. plugin'.place \in Place
        BY <1>4 DEF Sides
    <2> QED
        BY <1>2, <1>3, <1>5, <2>1, <2>2, BooksSilent DEF Flowing
<1>7. WriterBooks'
    BY <1>2, WriterFree
<1>8. Jobs'
    <2>1. DOMAIN tasks' = {} /\ tasks' = [k \in DOMAIN tasks' |-> tasks'[k]]
        BY <1>2
    <2> QED
        BY <2>1, JobsNone
<1>9. Calm' /\ InStep'
    BY <1>1, <1>6, CalmElse DEF InStep
<1> QED
    BY <1>4, <1>6, <1>7, <1>8, <1>9 DEF Flowing

\* A compare of the plugin's place begins
LEMMA Begins ==
    ASSUME Context, Flowing, base' = BeginCompare(base, {plugin.place})
    PROVE  /\ base'.stored = base.stored /\ base'.place = {plugin.place} /\ Silent(base')
           /\ base'.epoch = base.epoch + 1
<1>1. PICK b, pl : b = base /\ pl = plugin.place
    OBVIOUS
<1>2. IsBase(b)
    BY <1>1 DEF Context, OneLink
<1>3. /\ BeginCompare(b, {pl}).stored = b.stored /\ BeginCompare(b, {pl}).place = {pl}
      /\ Silent(BeginCompare(b, {pl}))
    BY <1>2, BeginCompareFields
<1>4. PICK place : place = {pl}
    OBVIOUS
<1>5. BeginCompare(b, place).epoch = b.epoch + 1
    BY <1>2, BeginCompareIsBase
<1>6. base' = BeginCompare(b, {pl})
    BY <1>1
<1> QED
    BY <1>1, <1>3, <1>4, <1>5, <1>6

LEMMA FlowingRefuse ==
    ASSUME Orderly, Context, Flowing, NEW named \in BOOLEAN, Refuse(named) PROVE Flowing'
<1>a. /\ Sides /\ Jobs /\ BaseBooks /\ WriterBooks /\ Placed /\ WriterInv /\ IsBase(base) /\ Awaited
      /\ generation \in Nat /\ plugin.place \in Place
    BY DEF Flowing, Context, OneLink, Sides, BaseBooks
<1>1. /\ Wire' = << >> /\ plugin'.place = plugin.place /\ plugin.phase = "fetched" /\ plugin'.phase = "offline"
    BY WireRefuse DEF Context
<1>2. Wire = << >>
    BY <1>1 DEF Flowing, Calm
<1>3. /\ UNCHANGED <<disk, generation, file, tasks, writer, studio, held>>
      /\ base' = BeginCompare(base, IF named THEN Some(plugin.place) ELSE None) /\ named = TRUE
    BY DEF Refuse, history, Orderly
<1>4. base' = BeginCompare(base, {plugin.place})
    BY <1>3 DEF Some
<1>5. /\ base'.stored = base.stored /\ base'.place = {plugin.place} /\ Silent(base')
      /\ base'.epoch = base.epoch + 1
    BY <1>4, Begins
<1>6. Flows
    BY <1>1, <1>2, <1>3, FlowsSame
<1>7. Sides'
    BY <1>a, <1>1, <1>3, SidesKept DEF Sides
<1>8. BaseBooks' /\ ~Holding'
    BY <1>a, <1>1, <1>3, <1>5, <1>6, BooksSilent DEF Compared
<1>9. WriterBooks'
    BY <1>a, <1>3, <1>5, <1>6, WriterReads
<1>10. Calm' /\ Jobs' /\ InStep'
    BY <1>a, <1>1, <1>3, <1>8, CalmElse, JobsIdle DEF InStep
<1> QED
    BY <1>7, <1>8, <1>9, <1>10 DEF Flowing

LEMMA FlowingApplyFails ==
    ASSUME Context, Flowing, NEW k \in DOMAIN tasks, ApplyFails(k) PROVE Flowing'
<1>a. /\ Sides /\ Jobs /\ BaseBooks /\ WriterBooks /\ Placed /\ WriterInv /\ IsBase(base) /\ Awaited
      /\ generation \in Nat /\ plugin.place \in Place /\ Calm
    BY DEF Flowing, Context, OneLink, Sides, BaseBooks
<1>1. Wire' = << >> /\ plugin'.place = plugin.place /\ plugin'.phase = "offline" /\ DOMAIN tasks' = {}
    BY WireApplyFails DEF Context
<1>2. Wire = << >>
    BY DEF ApplyFails, At, Flowing, Jobs, TaskFine
<1>3. /\ UNCHANGED <<disk, generation, file, writer, studio, held, base>>
      /\ tasks' = Restrict(tasks, DOMAIN tasks \ {k})
    BY DEF ApplyFails, history
<1>4. plugin.phase = "waiting"
    BY <1>a DEF Awaited
<1>5. Silent(base') /\ base'.stored = base.stored /\ base'.place = {plugin'.place}
    BY <1>a, <1>1, <1>3, <1>4 DEF Calm, Placed
<1>6. Flows
    BY <1>1, <1>2, <1>3, FlowsSame
<1>7. Sides'
    BY <1>a, <1>1, <1>3, SidesKept DEF Sides
<1>8. BaseBooks' /\ ~Holding'
    BY <1>a, <1>1, <1>3, <1>5, <1>6, BooksSilent DEF Compared
<1>9. WriterBooks'
    <2>1. /\ base'.epoch = base.epoch /\ base'.place = base.place /\ (base'.synced = TRUE => base.synced = TRUE)
          /\ generation' \in Nat /\ generation <= generation' /\ UNCHANGED writer
        BY <1>a, <1>3
    <2> QED
        BY <1>a, <1>6, <2>1, WriterReads
<1>10. Jobs'
    <2>1. tasks' = [j \in DOMAIN tasks' |-> tasks'[j]]
        BY <1>3 DEF Restrict
    <2> QED
        BY <1>1, <2>1, JobsNone
<1>11. Calm' /\ InStep'
    BY <1>1, <1>8, CalmElse DEF InStep
<1> QED
    BY <1>7, <1>8, <1>9, <1>10, <1>11 DEF Flowing

-----------------------------------------------------------------------------
(* The connect *)

\* No differences, no difference
LEMMA DiffNone ==
    ASSUME NEW d \in Tree, NEW s \in Tree, Diff(d, s) = {}, NEW p \in Path
    PROVE  Get(d, p) = Get(s, p)
<1>1. CASE Paired(d, s, p)
    <2>1. p \in DOMAIN d /\ p \in DOMAIN s
        BY <1>1, PairedMeans
    <2>2. d[p] = s[p]
        BY <1>1, <2>1, DiffMeans
    <2> QED
        BY <2>1, <2>2, GetMeans
<1>2. CASE ~Paired(d, s, p)
    <2>1. PICK q \in Path : Within(q, p) /\ Unpaired(d, s, q)
        BY <1>2, UnpairedTop
    <2>2. p \notin DOMAIN d /\ p \notin DOMAIN s
        BY <2>1, DiffCovers
    <2> QED
        BY <2>2, GetMeans
<1> QED
    BY <1>1, <1>2

LEMMA ArrivesAtOnce ==
    ASSUME NEW q, q = << >>, NEW s, NEW d, NEW p, Get(s, p) = Get(d, p)
    PROVE  Arrives(q, s, d, p)
BY DEF Arrives

LEMMA JobsCompare ==
    ASSUME Orderly, Context, Flowing, NEW named \in BOOLEAN, NEW written \in BOOLEAN, Compare(named, written)
    PROVE  Jobs' /\ DOMAIN tasks' = {plugin.conn} /\ base' = BeginCompare(base, {plugin.place})
<1>a. /\ Sides /\ Jobs /\ Awaited /\ disk \in Tree /\ studio \in [Place -> Tree] /\ plugin.place \in Place
    BY DEF Flowing, Context, Sides
<1>1. /\ Wire' = Wire /\ plugin'.place = plugin.place /\ plugin'.conn = plugin.conn
      /\ plugin.phase = "fetched" /\ plugin'.phase = "waiting"
    BY WireCompare DEF Context
<1>2. Wire = << >> /\ plugin.seen = disk
    BY <1>1 DEF Flowing, Calm
<1>3. DOMAIN tasks = {}
    BY <1>1, <1>a DEF Awaited
<1>4. named = TRUE /\ UNCHANGED <<disk, studio>>
    BY DEF Compare, Orderly
<1> DEFINE place == IF named THEN Some(plugin.place) ELSE None
           begun == BeginCompare(base, place)
           here == studio[plugin.place]
           all == Diff(plugin.seen, here)
           decided == Decide(View(begun, place), all, disk, here, TRUE, FALSE)
<1>5. place = {plugin.place} /\ base' = begun
    BY <1>4 DEF Compare, Some
<1>6. PICK items, winners : items = all /\ winners = decided
    OBVIOUS
<1>7. PICK fence, snapshot :
         tasks' = [k \in DOMAIN tasks \cup {plugin.conn} |->
                     IF k # plugin.conn THEN tasks[k]
                     ELSE [stage |-> IF items = {} THEN "snap" ELSE "apply",
                           winners |-> winners, fence |-> fence, pushed |-> {},
                           snapshot |-> snapshot, takenAt |-> 0, mark |-> guard'.generation]]
    BY <1>6, Zenon DEF Compare
<1>8. /\ items = Diff(disk, here)
      /\ winners = Decide(View(base', {plugin.place}), Diff(disk, here), disk, here, TRUE, FALSE)
    BY <1>2, <1>5, <1>6
<1>9. Here' = here /\ here \in Tree
    BY <1>a, <1>1, <1>4 DEF Here
<1>10. base' = BeginCompare(base, {plugin.place})
    BY <1>5
<1> HIDE DEF place, begun, here, all, decided
<1>11. PICK c : c = plugin.conn
    OBVIOUS
<1>12. DOMAIN tasks' = {c} /\ tasks' = [k \in {c} |-> tasks'[k]]
    BY <1>3, <1>7, <1>11
<1>13. tasks'[c] = [stage |-> IF items = {} THEN "snap" ELSE "apply",
                    winners |-> winners, fence |-> fence, pushed |-> {},
                    snapshot |-> snapshot, takenAt |-> 0, mark |-> guard'.generation]
    BY <1>3, <1>7, <1>11
<1>14. TasksShaped'
    <2>1. TaskShaped(c)'
        BY <1>13 DEF TaskShaped
    <2> QED
        BY <1>12, <2>1 DEF TasksShaped
<1>15. /\ tasks'[c].stage = (IF items = {} THEN "snap" ELSE "apply") /\ tasks'[c].winners = winners
       /\ tasks'[c].pushed = {}
    BY <1>13
<1>16. Wire' = << >>
    BY <1>1, <1>2
<1>17. CASE items # {}
    <2>1. tasks'[c].stage = "apply"
        BY <1>15, <1>17
    <2>2. tasks'[c].winners = Decide(View(base, {plugin.place}), Diff(disk, Here), disk, Here, TRUE, FALSE)'
        BY <1>1, <1>4, <1>8, <1>9, <1>15
    <2>3. TaskFine(c)'
        BY <1>16, <2>1, <2>2 DEF TaskFine
    <2> QED
        BY <1>10, <1>11, <1>12, <1>14, <2>3 DEF Jobs
<1>18. CASE items = {}
    <2>1. tasks'[c].stage = "snap"
        BY <1>15, <1>18
    <2>2. PICK d \in Tree, s \in Tree : d = disk /\ s = here
        BY <1>a, <1>9
    <2>3. \A p \in Path : Get(d, p) = Get(s, p)
        BY <1>8, <1>18, <2>2, DiffNone
    <2>4. PushedPaths(c)' = {}
        BY <1>15 DEF PushedPaths
    <2>5. Pushes(c)'
        BY <1>4, <1>9, <1>15, <2>2, <2>3, <2>4 DEF Pushes
    <2>6. \A p \in Path : Arrives(Wire, Here, disk, p)'
        BY <1>4, <1>9, <1>16, <2>2, <2>3, ArrivesAtOnce
    <2>7. TaskFine(c)'
        BY <2>1, <2>5, <2>6 DEF TaskFine
    <2> QED
        BY <1>10, <1>11, <1>12, <1>14, <2>7 DEF Jobs
<1> QED
    BY <1>17, <1>18

LEMMA FlowingCompare ==
    ASSUME Orderly, Context, Flowing, NEW named \in BOOLEAN, NEW written \in BOOLEAN, Compare(named, written)
    PROVE  Flowing'
<1>a. /\ Sides /\ BaseBooks /\ WriterBooks /\ Placed /\ WriterInv /\ IsBase(base)
      /\ generation \in Nat /\ plugin.place \in Place
    BY DEF Flowing, Context, OneLink, Sides, BaseBooks
<1>1. /\ Wire' = Wire /\ plugin'.place = plugin.place /\ plugin'.conn = plugin.conn
      /\ plugin.phase = "fetched" /\ plugin'.phase = "waiting"
    BY WireCompare DEF Context
<1>2. Jobs' /\ DOMAIN tasks' = {plugin.conn} /\ base' = BeginCompare(base, {plugin.place})
    BY JobsCompare
<1>3. UNCHANGED <<disk, generation, file, writer, studio, held>>
    BY DEF Compare, history
<1>5. /\ base'.stored = base.stored /\ base'.place = {plugin.place} /\ Silent(base')
      /\ base'.epoch = base.epoch + 1
    BY <1>2, Begins
<1>6. Flows
    BY <1>1, <1>3, FlowsSame
<1>7. Sides'
    BY <1>a, <1>1, <1>3, SidesKept DEF Sides
<1>8. BaseBooks' /\ ~Holding'
    BY <1>a, <1>1, <1>3, <1>5, <1>6, BooksSilent DEF Compared
<1>9. WriterBooks'
    BY <1>a, <1>3, <1>5, <1>6, WriterReads
<1>10. Calm' /\ InStep'
    BY <1>1, <1>2, <1>5, <1>8 DEF Calm, InStep
<1> QED
    BY <1>2, <1>7, <1>8, <1>9, <1>10 DEF Flowing

\* What an apply leaves on disk, and pushes
Planned(v, d, s, w, m, x) ==
    /\ w = Decide(v, Diff(d, s), d, s, TRUE, FALSE)
    /\ m = Merged(w, d, s) /\ x = ToPush(w, d, s)

LEMMA PushedMeans ==
    ASSUME Rest = {Plain}, Flat, NEW d \in Tree, NEW s \in Tree, NEW v, NEW w, NEW m, NEW x,
           Planned(v, d, s, w, m, x)
    PROVE  /\ m \in Tree
           /\ \A p \in Path : p \notin {item.path : item \in x} => Get(m, p) = Get(s, p)
           /\ \A item \in x : item.path \in Path /\ (item.state = MissingOnDisk \/ item.path \in DOMAIN m)
           /\ x # {} => v # {}
<1>0. /\ w = Decide(v, Diff(d, s), d, s, TRUE, FALSE)
      /\ m = Merged(w, d, s) /\ x = ToPush(w, d, s)
    BY DEF Planned
<1>1. Decided(w, d, s)
    BY <1>0, DecideDecided, Zenon
<1>2. x = Won(w) /\ DOMAIN w = Diff(d, s)
    BY <1>0, <1>1, NoSidecars DEF Decided
<1>3. m \in Tree
    BY <1>0, <1>1, MergedTree
<1>4. ASSUME NEW item \in x
      PROVE  /\ item \in Diff(d, s) /\ item.path \in Path /\ w[item] = ToStudio
             /\ item.state \in {OnlyOnDisk, Differs, MissingOnDisk} /\ item = Item(item.state, item.path)
    BY <1>2, DiffMeans DEF Won
<1>5. ASSUME NEW p \in Path, p \notin {item.path : item \in x} PROVE Get(m, p) = Get(s, p)
    <2>1. ASSUME NEW item \in x, Covers(item, p) PROVE FALSE
        <3>1. item.path \in Path /\ Within(item.path, p)
            BY <1>4, <2>1 DEF Covers
        <3>2. PICK q \in Path : q = item.path
            BY <3>1
        <3>3. Len(q) >= Len(p)
            BY PathIsSeq DEF Flat
        <3>4. q = p
            BY <3>1, <3>2, <3>3, WithinSame
        <3> QED
            BY <1>5, <3>2, <3>4
    <2>2. ~CoveredBy(Won(w), p)
        BY <1>2, <2>1 DEF CoveredBy
    <2> QED
        BY <1>0, <1>1, <2>2, MergedAt
<1>6. ASSUME NEW item \in x, item.state # MissingOnDisk PROVE item.path \in DOMAIN m
    <2>1. PICK p \in Path : p = item.path
        BY <1>4
    <2>2. p \in DOMAIN d
        <3>1. /\ Item(OnlyOnDisk, p) \in Diff(d, s) <=> p \in DOMAIN d /\ Unpaired(d, s, p)
              /\ Item(Differs, p) \in Diff(d, s) <=> p \in DOMAIN d /\ Paired(d, s, p) /\ d[p] # s[p]
            BY DiffMeans
        <3>2. Item(item.state, p) \in Diff(d, s) /\ item.state \in {OnlyOnDisk, Differs}
            BY <1>4, <1>6, <2>1
        <3> QED
            BY <3>1, <3>2
    <2>3. Covers(item, p)
        BY <2>1, WithinSelf DEF Covers
    <2>4. CoveredBy(Won(w), p)
        BY <1>2, <2>3 DEF CoveredBy
    <2>5. Get(m, p) = Get(d, p)
        BY <1>0, <1>1, <2>4, MergedAt
    <2>a. Get(d, p) = {d[p]} /\ (p \notin DOMAIN m => Get(m, p) = {})
        BY ONLY <2>2, GetMeans
    <2>6. p \in DOMAIN m
        BY ONLY <2>5, <2>a
    <2> QED
        BY <2>1, <2>6
<1>7. ASSUME NEW item \in x PROVE v # {}
    <2>1. PICK input : input = InputOf(item, Diff(d, s), d, s, TRUE, FALSE)
        OBVIOUS
    <2>2. w[item] = Classify(v, input)
        BY <1>0, <1>4, <2>1 DEF Decide
    <2>3. Classify(v, input) # StudioFirst(input.state)
        BY <1>4, <2>2 DEF StudioFirst, ToStudio, ToDisk, ToDiskKeepDisk
    <2> QED
        BY <2>3, JudgedAgainstBase
<1> QED
    BY <1>3, <1>4, <1>5, <1>6, <1>7

\* How a connect's record changes
LEMMA TaskBecomes ==
    ASSUME TasksShaped, NEW k \in DOMAIN tasks, NEW x, tasks' = [tasks EXCEPT ![k] = x],
           x = [stage |-> x.stage, winners |-> x.winners, fence |-> x.fence, pushed |-> x.pushed,
                snapshot |-> x.snapshot, takenAt |-> x.takenAt, mark |-> x.mark]
    PROVE  TasksShaped' /\ DOMAIN tasks' = DOMAIN tasks /\ tasks'[k] = x
<1>1. DOMAIN tasks' = DOMAIN tasks /\ tasks'[k] = x /\ \A j \in DOMAIN tasks \ {k} : tasks'[j] = tasks[j]
    BY DEF TasksShaped
<1>2. tasks' = [j \in DOMAIN tasks |-> tasks'[j]]
    BY DEF TasksShaped
<1> QED
    BY <1>1, <1>2 DEF TasksShaped, TaskShaped

LEMMA TaskPushes ==
    ASSUME TasksShaped, NEW k \in DOMAIN tasks, NEW pushed,
           tasks' = [tasks EXCEPT ![k].stage = "push", ![k].pushed = pushed]
    PROVE  /\ TasksShaped' /\ DOMAIN tasks' = DOMAIN tasks
           /\ tasks'[k].stage = "push" /\ tasks'[k].pushed = pushed
<1>1. PICK h : h = [tasks[k] EXCEPT !.stage = "push"]
    OBVIOUS
<1>2. h = [stage |-> "push", winners |-> tasks[k].winners, fence |-> tasks[k].fence,
           pushed |-> tasks[k].pushed, snapshot |-> tasks[k].snapshot,
           takenAt |-> tasks[k].takenAt, mark |-> tasks[k].mark]
    BY <1>1, StagedTask, Zenon DEF TasksShaped, TaskShaped
<1>3. PICK y : y = [h EXCEPT !.pushed = pushed]
    OBVIOUS
<1>4. y = [stage |-> "push", winners |-> tasks[k].winners, fence |-> tasks[k].fence,
           pushed |-> pushed, snapshot |-> tasks[k].snapshot,
           takenAt |-> tasks[k].takenAt, mark |-> tasks[k].mark]
    BY <1>2, <1>3, PushedTask
<1>5. tasks' = [tasks EXCEPT ![k] = y]
    BY <1>1, <1>3 DEF TasksShaped
<1>6. y = [stage |-> y.stage, winners |-> y.winners, fence |-> y.fence, pushed |-> y.pushed,
           snapshot |-> y.snapshot, takenAt |-> y.takenAt, mark |-> y.mark]
    BY ONLY <1>4
<1>7. TasksShaped' /\ DOMAIN tasks' = DOMAIN tasks /\ tasks'[k] = y
    BY <1>5, <1>6, TaskBecomes
<1> QED
    BY <1>4, <1>7

LEMMA TaskSnaps ==
    ASSUME TasksShaped, NEW k \in DOMAIN tasks, tasks' = [tasks EXCEPT ![k].stage = "snap"]
    PROVE  /\ TasksShaped' /\ DOMAIN tasks' = DOMAIN tasks
           /\ tasks'[k].stage = "snap" /\ tasks'[k].pushed = tasks[k].pushed
<1>1. PICK y : y = [tasks[k] EXCEPT !.stage = "snap"]
    OBVIOUS
<1>2. y = [stage |-> "snap", winners |-> tasks[k].winners, fence |-> tasks[k].fence,
           pushed |-> tasks[k].pushed, snapshot |-> tasks[k].snapshot,
           takenAt |-> tasks[k].takenAt, mark |-> tasks[k].mark]
    BY <1>1, StagedTask, Zenon DEF TasksShaped, TaskShaped
<1>3. tasks' = [tasks EXCEPT ![k] = y]
    BY <1>1
<1>4. y = [stage |-> y.stage, winners |-> y.winners, fence |-> y.fence, pushed |-> y.pushed,
           snapshot |-> y.snapshot, takenAt |-> y.takenAt, mark |-> y.mark]
    BY ONLY <1>2
<1>5. TasksShaped' /\ DOMAIN tasks' = DOMAIN tasks /\ tasks'[k] = y
    BY <1>3, <1>4, TaskBecomes
<1> QED
    BY <1>2, <1>5

LEMMA TaskCommits ==
    ASSUME TasksShaped, NEW k \in DOMAIN tasks, NEW takenAt, NEW snapshot,
           tasks' = [tasks EXCEPT ![k].stage = "commit", ![k].takenAt = takenAt, ![k].snapshot = snapshot]
    PROVE  /\ TasksShaped' /\ DOMAIN tasks' = DOMAIN tasks /\ tasks'[k].stage = "commit"
           /\ tasks'[k].pushed = tasks[k].pushed /\ tasks'[k].snapshot = snapshot
<1>1. PICK h : h = [tasks[k] EXCEPT !.stage = "commit"]
    OBVIOUS
<1>2. h = [stage |-> "commit", winners |-> tasks[k].winners, fence |-> tasks[k].fence,
           pushed |-> tasks[k].pushed, snapshot |-> tasks[k].snapshot,
           takenAt |-> tasks[k].takenAt, mark |-> tasks[k].mark]
    BY <1>1, StagedTask, Zenon DEF TasksShaped, TaskShaped
<1>3. PICK g : g = [h EXCEPT !.takenAt = takenAt]
    OBVIOUS
<1>4. g = [stage |-> "commit", winners |-> tasks[k].winners, fence |-> tasks[k].fence,
           pushed |-> tasks[k].pushed, snapshot |-> tasks[k].snapshot,
           takenAt |-> takenAt, mark |-> tasks[k].mark]
    BY <1>2, <1>3, DatedTask
<1>5. PICK y : y = [g EXCEPT !.snapshot = snapshot]
    OBVIOUS
<1>6. y = [stage |-> "commit", winners |-> tasks[k].winners, fence |-> tasks[k].fence,
           pushed |-> tasks[k].pushed, snapshot |-> snapshot,
           takenAt |-> takenAt, mark |-> tasks[k].mark]
    BY <1>4, <1>5, SnappedTask
<1>7. tasks' = [tasks EXCEPT ![k] = y]
    BY <1>1, <1>3, <1>5 DEF TasksShaped
<1>8. y = [stage |-> y.stage, winners |-> y.winners, fence |-> y.fence, pushed |-> y.pushed,
           snapshot |-> y.snapshot, takenAt |-> y.takenAt, mark |-> y.mark]
    BY ONLY <1>6
<1>9. TasksShaped' /\ DOMAIN tasks' = DOMAIN tasks /\ tasks'[k] = y
    BY <1>7, <1>8, TaskBecomes
<1> QED
    BY <1>6, <1>9

-----------------------------------------------------------------------------
(* The steps of a connect's task *)

\* A step of the task moves neither the plugin nor the base, which records nothing
LEMMA FlowingJob ==
    ASSUME Context, Flowing, NEW k \in DOMAIN tasks, UNCHANGED <<base, file, writer, plugin, studio, held>>,
           disk' \in Tree, generation' \in Nat, generation <= generation', Flows, Wire' \in Seq(Frame),
           Jobs', DOMAIN tasks' = DOMAIN tasks
    PROVE  Flowing'
<1>a. /\ Sides /\ Calm /\ BaseBooks /\ WriterBooks /\ Placed /\ WriterInv /\ IsBase(base) /\ Awaited
      /\ generation \in Nat /\ plugin.place \in Place
    BY DEF Flowing, Context, OneLink, Sides, BaseBooks
<1>1. plugin.phase = "waiting"
    BY <1>a DEF Awaited
<1>2. Silent(base) /\ plugin.conn \in DOMAIN tasks /\ base.place = {plugin.place}
    BY <1>a, <1>1 DEF Calm, Placed
<1>3. Sides'
    BY <1>a, SidesKept
<1>4. BaseBooks' /\ ~Holding'
    BY <1>a, <1>2, BooksSilent
<1>5. WriterBooks'
    <2>1. /\ base'.epoch = base.epoch /\ base'.place = base.place /\ (base'.synced = TRUE => base.synced = TRUE)
        OBVIOUS
    <2> QED
        BY <1>a, <2>1, WriterReads
<1>6. Calm'
    BY <1>1, <1>2 DEF Calm
<1>7. InStep'
    BY <1>4 DEF InStep
<1> QED
    BY <1>3, <1>4, <1>5, <1>6, <1>7 DEF Flowing

\* There is one task
LEMMA JobsOne ==
    ASSUME Awaited, NEW k \in DOMAIN tasks, TasksShaped', DOMAIN tasks' = DOMAIN tasks, TaskFine(k)'
    PROVE  Jobs'
<1>1. DOMAIN tasks' = {k}
    BY DEF Awaited
<1> QED
    BY <1>1 DEF Jobs

LEMMA FlowingApply ==
    ASSUME Rest = {Plain}, Flat, Context, Flowing, NEW k \in DOMAIN tasks, Apply(k) PROVE Flowing'
<1>a. /\ Jobs /\ TaskFine(k) /\ TasksShaped /\ Awaited /\ Sides
      /\ disk \in Tree /\ generation \in Nat /\ studio \in [Place -> Tree] /\ plugin.place \in Place /\ Wire \in Seq(Frame)
    BY DEF Flowing, Context, Jobs, Sides
<1>1. /\ tasks[k].stage = "apply" /\ UNCHANGED <<base, file, writer, plugin, studio, held, conns>>
    BY DEF Apply, At, history
<1>2. /\ Wire = << >>
      /\ tasks[k].winners = Decide(View(base, {plugin.place}), Diff(disk, Here), disk, Here, TRUE, FALSE)
    BY <1>a, <1>1 DEF TaskFine
<1>b. PICK d \in Tree, s \in Tree : d = disk /\ s = Here
    BY <1>a DEF Here
<1>3. PICK v, w, m, x :
         /\ d = disk /\ s = Here /\ v = View(base, {plugin.place}) /\ w = tasks[k].winners
         /\ m = Merged(w, d, s) /\ x = ToPush(w, d, s)
    BY <1>b
<1>4. Planned(v, d, s, w, m, x)
    BY <1>2, <1>3 DEF Planned
<1>5. /\ m \in Tree
      /\ \A p \in Path : p \notin {item.path : item \in x} => Get(m, p) = Get(s, p)
      /\ \A item \in x : item.path \in Path /\ (item.state = MissingOnDisk \/ item.path \in DOMAIN m)
      /\ x # {} => v # {}
    BY <1>4, PushedMeans
<1>6. /\ disk' = m /\ tasks' = [tasks EXCEPT ![k].stage = "push", ![k].pushed = x]
      /\ generation' = (IF m = disk THEN generation ELSE generation + 1)
    BY <1>3 DEF Apply, Here
<1>7. TasksShaped' /\ DOMAIN tasks' = DOMAIN tasks /\ tasks'[k].stage = "push" /\ tasks'[k].pushed = x
    BY <1>a, <1>6, TaskPushes
<1>8. Wire' = Wire /\ Here' = s /\ v = View(base', {plugin'.place})
    BY <1>1, <1>3 DEF Wire, Here
<1>9. TaskFine(k)'
    <2>1. PushedPaths(k)' = {item.path : item \in x}
        BY <1>7 DEF PushedPaths
    <2>2. Pushes(k)'
        BY <1>5, <1>6, <1>7, <1>8, <2>1 DEF Pushes
    <2> QED
        BY <1>2, <1>7, <1>8, <2>2 DEF TaskFine
<1>10. Jobs'
    BY <1>a, <1>7, <1>9, JobsOne
<1>11. Flows
    BY <1>1, <1>8, FlowsSame
<1>12. generation' \in Nat /\ generation <= generation' /\ disk' \in Tree /\ Wire' \in Seq(Frame)
    BY <1>a, <1>5, <1>6, <1>8
<1> QED
    BY <1>1, <1>7, <1>10, <1>11, <1>12, FlowingJob

\* The frames for what disk won
PushFrames(d, x) == {[path |-> item.path, content |-> Get(d, item.path)] : item \in x}

LEMMA PushFramesMean ==
    ASSUME NEW d \in Tree, NEW x, \A item \in x : item.path \in Path, NEW q, q = SetToSeq(PushFrames(d, x))
    PROVE  /\ q \in Seq(Frame)
           /\ \A k \in DOMAIN q : q[k].content = Get(d, q[k].path)
           /\ \A item \in x : \E k \in DOMAIN q : q[k].path = item.path
<1> DEFINE f == [p \in Path |-> [path |-> p, content |-> Get(d, p)]]
           all == {f[p] : p \in Path}
<1>1. f \in Surjection(Path, all)
    BY DEF Surjection
<1>2. IsFiniteSet(Path)
    BY PlanAssumption
<1>3. IsFiniteSet(all)
    BY <1>1, <1>2, FS_Surjection
<1>4. PushFrames(d, x) \subseteq all
    BY DEF PushFrames
<1>5. \A y \in all : y \in Frame /\ y.content = Get(d, y.path)
    BY FrameIs
<1> HIDE DEF f, all
<1>6. PICK F : F = PushFrames(d, x)
    OBVIOUS
<1>7. IsFiniteSet(F)
    BY <1>3, <1>4, <1>6, FS_Subset
<1>8. q \in Seq(F) /\ \A y \in F : \E k \in DOMAIN q : q[k] = y
    BY <1>6, <1>7, SetToSeqMeans
<1>9. F \subseteq Frame
    BY <1>4, <1>5, <1>6
<1>10. q \in Seq(Frame) /\ \A k \in DOMAIN q : q[k] \in F
    BY <1>8, <1>9
<1>11. \A k \in DOMAIN q : q[k].content = Get(d, q[k].path)
    BY <1>4, <1>5, <1>6, <1>10
<1>12. ASSUME NEW item \in x PROVE \E k \in DOMAIN q : q[k].path = item.path
    <2>1. PICK y : y = [path |-> item.path, content |-> Get(d, item.path)]
        OBVIOUS
    <2>2. y \in F /\ y.path = item.path
        BY <1>6, <2>1 DEF PushFrames
    <2> QED
        BY <1>8, <2>2
<1> QED
    BY <1>10, <1>11, <1>12

LEMMA FlowingPush ==
    ASSUME Context, Flowing, NEW k \in DOMAIN tasks, Push(k) PROVE Flowing'
<1>a. /\ Jobs /\ TaskFine(k) /\ TasksShaped /\ Awaited /\ Sides
      /\ disk \in Tree /\ generation \in Nat
    BY DEF Flowing, Context, Jobs, Sides
<1>1. /\ tasks[k].stage = "push" /\ UNCHANGED <<disk, generation, base, file, writer, plugin, studio, held>>
      /\ tasks' = [tasks EXCEPT ![k].stage = "snap"]
    BY DEF Push, At, history
<1>2. Wire = << >> /\ Pushes(k)
    BY <1>a, <1>1 DEF TaskFine
<1>b. PICK d \in Tree : d = disk
    BY <1>a
<1>3. PICK x : d = disk /\ x = tasks[k].pushed
    BY <1>b
<1>4. {item \in tasks[k].pushed : item.state = MissingOnDisk \/ item.path \in DOMAIN disk} = x
    BY <1>2, <1>3 DEF Pushes
<1>5. PICK q : q = SetToSeq(PushFrames(d, x))
    OBVIOUS
<1>6. conns' = Queued(IF slot # 0 THEN {slot} ELSE Subscribed, q)
    BY <1>3, <1>4, <1>5 DEF Push, PushFrames
<1>7. \A item \in x : item.path \in Path
    BY <1>2, <1>3 DEF Pushes
<1>8. /\ q \in Seq(Frame)
      /\ \A j \in DOMAIN q : q[j].content = Get(d, q[j].path)
      /\ \A item \in x : \E j \in DOMAIN q : q[j].path = item.path
    BY <1>5, <1>7, PushFramesMean
<1>9. Wire' = Wire \o q
    BY <1>1, <1>6, WirePush DEF Context
<1>10. Wire' = q
    BY <1>2, <1>8, <1>9
<1>11. TasksShaped' /\ DOMAIN tasks' = DOMAIN tasks /\ tasks'[k].stage = "snap" /\ tasks'[k].pushed = x
    BY <1>a, <1>1, <1>3, TaskSnaps
<1>12. Here' = Here /\ PushedPaths(k)' = PushedPaths(k) /\ PushedPaths(k) = {item.path : item \in x}
    BY <1>1, <1>3, <1>11 DEF Here, PushedPaths
<1>13. PICK s : s = Here
    OBVIOUS
<1>14. ASSUME NEW p \in Path PROVE Arrives(q, s, d, p)
    <2>1. (\E j \in DOMAIN q : q[j].path = p) \/ Get(s, p) = Get(d, p)
        BY <1>2, <1>3, <1>8, <1>12, <1>13 DEF Pushes
    <2> QED
        BY <1>8, <2>1, ArrivesAll
<1>15. \A p \in Path : Arrives(Wire, Here, disk, p)'
    BY <1>1, <1>3, <1>10, <1>12, <1>13, <1>14
<1>16. Pushes(k)'
    BY <1>1, <1>2, <1>3, <1>11, <1>12 DEF Pushes, View
<1>17. TaskFine(k)'
    BY <1>11, <1>15, <1>16 DEF TaskFine
<1>18. Jobs'
    BY <1>a, <1>11, <1>17, JobsOne
<1>19. Flows
    BY <1>1, <1>2, FlowsIf
<1>20. generation' \in Nat /\ generation <= generation' /\ disk' \in Tree /\ Wire' \in Seq(Frame)
    BY <1>a, <1>1, <1>8, <1>10
<1> QED
    BY <1>1, <1>11, <1>18, <1>19, <1>20, FlowingJob

LEMMA SnapshotFields ==
    ASSUME NEW keys, NEW hold, NEW t, t = SnapshotTree(keys, hold), NEW y, y = [t EXCEPT !.held = hold]
    PROVE  /\ y.held = hold /\ y.entries = t.entries
           /\ DOMAIN y.entries = DOMAIN keys \ hold /\ \A p \in DOMAIN keys \ hold : y.entries[p] = keys[p]
<1>1. t = [entries |-> [p \in DOMAIN keys \ hold |-> keys[p]], ambiguous |-> {}, held |-> hold \cap DOMAIN keys]
    BY DEF SnapshotTree
<1>2. y.held = hold /\ y.entries = [p \in DOMAIN keys \ hold |-> keys[p]]
    BY <1>1
<1> QED
    BY <1>1, <1>2

LEMMA FlowingSnap ==
    ASSUME Context, Flowing, NEW k \in DOMAIN tasks, Snap(k) PROVE Flowing'
<1>a. /\ Jobs /\ TaskFine(k) /\ TasksShaped /\ Awaited /\ Sides
      /\ disk \in Tree /\ generation \in Nat /\ Wire \in Seq(Frame)
    BY DEF Flowing, Context, Jobs, Sides
<1>1. tasks[k].stage = "snap" /\ UNCHANGED <<disk, generation, base, file, writer, plugin, studio, held, conns>>
    BY DEF Snap, At, history
<1>2. Pushes(k) /\ \A p \in Path : Arrives(Wire, Here, disk, p)
    BY <1>a, <1>1 DEF TaskFine
<1>3. PICK paths, keys, taken, y :
         /\ paths = PushedPaths(k) /\ keys = Keys(disk) /\ taken = SnapshotTree(keys, paths)
         /\ y = [taken EXCEPT !.held = paths]
    OBVIOUS
<1>4. tasks' = [tasks EXCEPT ![k].stage = "commit", ![k].takenAt = generation, ![k].snapshot = y]
    BY <1>3 DEF Snap, PushedPaths
<1>5. /\ TasksShaped' /\ DOMAIN tasks' = DOMAIN tasks /\ tasks'[k].stage = "commit"
      /\ tasks'[k].pushed = tasks[k].pushed /\ tasks'[k].snapshot = y
    BY <1>a, <1>4, TaskCommits
<1>6. /\ y.held = paths /\ DOMAIN y.entries = DOMAIN keys \ paths
      /\ \A p \in DOMAIN keys \ paths : y.entries[p] = keys[p]
    BY <1>3, SnapshotFields
<1>7. DOMAIN keys \subseteq Path
    BY <1>a, <1>3, KeysMean, TreeMeans
<1>8. ASSUME NEW p \in Path \ paths PROVE Get(y.entries, p) = Get(keys, p)
    <2>1. PICK e : e = y.entries
        OBVIOUS
    <2>2. (p \in DOMAIN e <=> p \in DOMAIN keys) /\ (p \in DOMAIN keys => e[p] = keys[p])
        BY <1>6, <1>8, <2>1
    <2>3. Get(e, p) = Get(keys, p)
        BY ONLY <2>2, GetMeans
    <2> QED
        BY <2>1, <2>3
<1>9. Wire' = Wire /\ Here' = Here /\ PushedPaths(k)' = paths
    BY <1>1, <1>3, <1>5 DEF Wire, Here, PushedPaths
<1>10. Pushes(k)'
    BY <1>1, <1>2, <1>3, <1>5, <1>9 DEF Pushes, View
<1>11. \A p \in Path : Arrives(Wire, Here, disk, p)'
    <2>1. PICK w, s : w = Wire /\ s = Here
        OBVIOUS
    <2> QED
        BY <1>1, <1>2, <1>9, <2>1 DEF Arrives
<1>12. TaskFine(k)'
    BY <1>1, <1>3, <1>5, <1>6, <1>7, <1>8, <1>9, <1>10, <1>11 DEF TaskFine
<1>13. Jobs'
    BY <1>a, <1>5, <1>12, JobsOne
<1>14. Flows
    BY <1>1, <1>9, FlowsSame
<1>15. generation' \in Nat /\ generation <= generation' /\ disk' \in Tree /\ Wire' \in Seq(Frame)
    BY <1>a, <1>1, <1>9
<1> QED
    BY <1>1, <1>5, <1>13, <1>14, <1>15, FlowingJob

\* What is on disk has arrived, or will
LEMMA ArrivesDelivered ==
    ASSUME Sides, NEW p \in Path, Arrives(Wire, Here, disk, p)
    PROVE  Delivered(plugin.place, p, Get(Keys(disk), p))
<1>1. PICK key : key = Get(Keys(disk), p) /\ key = {KeyOf(c) : c \in Get(disk, p)}
    BY KeysGet
<1>2. CASE Get(Here, p) = Get(disk, p)
    <2>1. Get(Keys(Here), p) = {KeyOf(c) : c \in Get(Here, p)}
        BY KeysGet
    <2>2. key = Get(Keys(Here), p)
        BY <1>1, <1>2, <2>1
    <2>3. key \in held[plugin.place][p]
        BY <2>2 DEF Sides, Here
    <2> QED
        BY <1>1, <2>3 DEF Delivered
<1>3. ASSUME NEW k \in DOMAIN Wire, Wire[k].path = p, Wire[k].content = Get(disk, p)
      PROVE  Delivered(plugin.place, p, key)
    <2>1. key = KeyIn(Wire[k])
        BY <1>1, <1>3 DEF KeyIn
    <2> QED
        BY <1>3, <2>1 DEF Delivered
<1> QED
    BY <1>1, <1>2, <1>3 DEF Arrives

\* A snapshot folded into the base of one place
Folded(previous, snapshot, place, m) == m = Merge(previous, snapshot, {place})

LEMMA MergeFields ==
    ASSUME NEW previous, NEW snapshot, NEW place, NEW m, Folded(previous, snapshot, place, m)
    PROVE  /\ m.place = {place} /\ DOMAIN m.entries \subseteq DOMAIN snapshot.entries \cup snapshot.held
           /\ \A p : p \notin snapshot.held => Get(m.entries, p) = Get(snapshot.entries, p)
           /\ \A p \in snapshot.held : \A old :
                 previous = {old} /\ p \notin DOMAIN snapshot.entries => Get(m.entries, p) = Get(old.entries, p)
<1> DEFINE kept == {p \in snapshot.held : \E old \in previous : p \in DOMAIN old.entries}
<1>1. PICK e, s : e = m.entries /\ s = snapshot.entries
    OBVIOUS
<1>2. /\ m.place = {place} /\ DOMAIN e = DOMAIN s \cup kept
      /\ \A p \in DOMAIN e : e[p] = IF p \in kept THEN Unwrap(previous).entries[p] ELSE s[p]
    <2> DEFINE all == [p \in DOMAIN s \cup kept |-> IF p \in kept THEN Unwrap(previous).entries[p] ELSE s[p]]
               here == Or({place}, UNION {old.place : old \in previous})
    <2>1. m = [entries |-> all, ambiguous |-> snapshot.ambiguous, place |-> here]
        BY <1>1 DEF Merge, Folded
    <2>2. here = {place}
        BY DEF Or, None
    <2> HIDE DEF all, here
    <2>3. e = all /\ m.place = {place}
        BY <1>1, <2>1, <2>2
    <2> HIDE DEF kept
    <2> QED
        BY <2>3 DEF all
<1>3. ASSUME NEW p, p \notin snapshot.held PROVE Get(e, p) = Get(s, p)
    <2>1. p \notin kept
        BY <1>3
    <2> HIDE DEF kept
    <2> QED
        BY <1>2, <2>1, GetMeans
<1>4. ASSUME NEW p \in snapshot.held, NEW old, previous = {old}, p \notin DOMAIN s
      PROVE  Get(e, p) = Get(old.entries, p)
    <2>1. PICK o : o = old.entries
        OBVIOUS
    <2>2. Unwrap(previous) = old
        BY <1>4 DEF Unwrap
    <2>3. p \in kept <=> p \in DOMAIN o
        BY <1>4, <2>1
    <2> HIDE DEF kept
    <2>4. (p \in DOMAIN e <=> p \in DOMAIN o) /\ (p \in DOMAIN o => e[p] = o[p])
        BY <1>2, <1>4, <2>1, <2>2, <2>3
    <2>5. Get(e, p) = Get(o, p)
        BY ONLY <2>4, GetMeans
    <2> QED
        BY <2>1, <2>5
<1> QED
    BY <1>1, <1>2, <1>3, <1>4

\* Both halves of what a connect records
LEMMA CommitAgreed ==
    ASSUME Sides, BaseBooks, plugin.phase = "waiting", NEW k \in DOMAIN tasks, TaskFine(k),
           tasks[k].stage = "commit", NEW m, Folded(base.stored, tasks[k].snapshot, plugin.place, m)
    PROVE  m.place = {plugin.place} /\ DOMAIN m.entries \subseteq Path /\ Agreed(m.entries, plugin.place)
<1>a. Placed /\ Filed(base.stored) /\ plugin.place \in Place
    BY DEF BaseBooks, Recorded, Sides
<1>1. /\ Pushes(k) /\ tasks[k].snapshot.held = PushedPaths(k)
      /\ DOMAIN tasks[k].snapshot.entries \subseteq Path \ PushedPaths(k)
      /\ \A p \in Path \ PushedPaths(k) : Get(tasks[k].snapshot.entries, p) = Get(Keys(disk), p)
    BY DEF TaskFine
<1>2. PICK stored, snapshot, place, paths :
         /\ stored = base.stored /\ snapshot = tasks[k].snapshot /\ place = plugin.place /\ paths = PushedPaths(k)
    OBVIOUS
<1>3. Folded(stored, snapshot, place, m)
    BY <1>2 DEF Folded
<1>4. /\ m.place = {place} /\ DOMAIN m.entries \subseteq DOMAIN snapshot.entries \cup snapshot.held
      /\ \A p : p \notin snapshot.held => Get(m.entries, p) = Get(snapshot.entries, p)
      /\ \A p \in snapshot.held : \A old :
            stored = {old} /\ p \notin DOMAIN snapshot.entries => Get(m.entries, p) = Get(old.entries, p)
    BY ONLY <1>3, MergeFields
<1>5. paths \subseteq Path
    BY <1>1, <1>2 DEF Pushes, PushedPaths
<1>6. DOMAIN m.entries \subseteq Path
    BY <1>1, <1>2, <1>4, <1>5
<1>7. ASSUME NEW p \in Path \ paths PROVE Get(m.entries, p) \in held[place][p]
    <2>1. Get(m.entries, p) = Get(Keys(disk), p)
        BY <1>1, <1>2, <1>4, <1>7
    <2>2. Get(disk, p) = Get(Here, p)
        BY <1>1, <1>2, <1>7 DEF Pushes
    <2>3. /\ Get(Keys(disk), p) = {KeyOf(c) : c \in Get(disk, p)}
          /\ Get(Keys(Here), p) = {KeyOf(c) : c \in Get(Here, p)}
        BY KeysGet
    <2>4. Get(m.entries, p) = Get(Keys(Here), p)
        BY <2>1, <2>2, <2>3
    <2> QED
        BY <1>a, <1>2, <2>4 DEF Sides, Here
<1>8. ASSUME NEW p \in paths PROVE Delivered(place, p, Get(m.entries, p))
    <2>1. PICK item \in tasks[k].pushed : item.path = p
        BY <1>2, <1>8 DEF PushedPaths
    <2>2. PICK view \in base.stored : view.place = {} \/ view.place = {plugin.place}
        BY <1>1, <2>1 DEF Pushes, View, None
    <2>3. PICK old : stored = {old} /\ old.place = {place} /\ Agreed(old.entries, place)
        BY <1>a, <1>2, <2>2 DEF Filed
    <2>4. Get(m.entries, p) = Get(old.entries, p)
        BY <1>1, <1>2, <1>4, <1>8, <2>3
    <2> QED
        BY <1>5, <2>3, <2>4 DEF Agreed
<1>9. Agreed(m.entries, place)
    BY <1>7, <1>8 DEF Agreed, Delivered
<1> QED
    BY <1>2, <1>4, <1>6, <1>9

\* What the base comes to hold is of the place and was delivered there
LEMMA FiledOne ==
    ASSUME Flows, NEW place \in Place, NEW m, m.place = {place}, DOMAIN m.entries \subseteq Path, Agreed(m.entries, place)
    PROVE  Filed({m})'
<1>1. PICK e : e = m.entries
    OBVIOUS
<1>2. Agreed(e, place)'
    BY <1>1, AgreedFlows
<1> QED
    BY <1>1, <1>2 DEF Filed

LEMMA RecordedNext ==
    ASSUME Flows, Recorded, NEW s, base'.stored = s, Filed(s)', file' \in {s, file}
    PROVE  Recorded'
<1>1. PICK f : f = file
    OBVIOUS
<1>2. Filed(f)'
    BY <1>1, FiledFlows DEF Recorded
<1>3. file' = s \/ file' = f
    BY <1>1
<1> QED
    BY <1>1, <1>2, <1>3 DEF Recorded

LEMMA FlowingCommitBase ==
    ASSUME Context, Flowing, NEW k \in DOMAIN tasks, NEW saved \in BOOLEAN, CommitBase(k, saved) PROVE Flowing'
<1>a. /\ Jobs /\ TaskFine(k) /\ Awaited /\ Sides /\ BaseBooks /\ WriterBooks /\ Placed /\ WriterInv /\ IsBase(base)
      /\ Recorded /\ generation \in Nat /\ plugin.place \in Place
    BY DEF Flowing, Context, Jobs, Sides, BaseBooks, OneLink
<1>1. /\ Wire' = Wire /\ plugin'.place = plugin.place /\ plugin'.phase = "live" /\ DOMAIN tasks' = {}
    BY WireCommitBase DEF Context
<1>2. /\ tasks[k].stage = "commit" /\ UNCHANGED <<disk, generation, writer, studio, held>>
      /\ Persist(base', saved) /\ tasks' = Restrict(tasks, DOMAIN tasks \ {k})
      /\ base' = Commit(base, tasks[k].snapshot, tasks[k].takenAt, tasks[k].pushed # {})
    BY DEF CommitBase, At, history
<1>3. plugin.phase = "waiting" /\ base.place = {plugin.place}
    BY <1>a DEF Awaited, Placed
<1>4. PICK m : Folded(base.stored, tasks[k].snapshot, plugin.place, m)
    BY DEF Folded
<1>5. /\ base'.stored = {m} /\ base'.place = {plugin.place} /\ base'.synced = TRUE
      /\ base'.resumeGeneration = {} /\ base'.epoch = base.epoch + 1 /\ base'.pending = {}
    <2>1. PICK b, n, snapshot, g, settle :
             /\ b = base /\ n = base' /\ snapshot = tasks[k].snapshot /\ n = Commit(b, snapshot, g, settle)
        BY <1>2, Zenon
    <2>2. /\ n.stored = {Merge(b.stored, snapshot, b.place)} /\ n.place = b.place /\ n.synced = TRUE
          /\ n.resumeGeneration = {} /\ n.epoch = b.epoch + 1 /\ n.pending = {}
        <3>1. IsBase(b)
            BY <1>a, <2>1
        <3>2. /\ Commit(b, snapshot, g, settle).stored = {Merge(b.stored, snapshot, b.place)}
              /\ Commit(b, snapshot, g, settle).place = b.place
              /\ Commit(b, snapshot, g, settle).synced = TRUE
              /\ Commit(b, snapshot, g, settle).resumeGeneration = {}
            BY ONLY <3>1, CommitFields
        <3>3. /\ Commit(b, snapshot, g, settle).epoch = b.epoch + 1
              /\ Commit(b, snapshot, g, settle).pending = {}
            BY ONLY <3>1, CommitIsBase
        <3> QED
            BY <2>1, <3>2, <3>3
    <2> QED
        BY <1>3, <1>4, <2>1, <2>2 DEF Folded
<1>6. m.place = {plugin.place} /\ DOMAIN m.entries \subseteq Path /\ Agreed(m.entries, plugin.place)
    BY <1>a, <1>2, <1>3, <1>4, CommitAgreed
<1>7. Flows
    BY <1>1, <1>2, FlowsSame
<1>8. Filed({m})'
    BY <1>a, <1>6, <1>7, FiledOne
<1>9. Recorded'
    <2>1. file' \in {{m}, file}
        BY <1>2, <1>5 DEF Persist
    <2> QED
        BY <1>a, <1>5, <1>7, <1>8, <2>1, RecordedNext
<1>10. \A p \in Path : Arrives(Wire, Here, disk, p)
    BY <1>a, <1>2 DEF TaskFine
<1>11. DiskAgreed'
    <2>1. PICK keys, place : keys = Keys(disk) /\ place = plugin.place
        OBVIOUS
    <2>2. Agreed(keys, place)
        BY <1>a, <1>10, <2>1, ArrivesDelivered DEF Agreed
    <2>3. Agreed(keys, place)'
        BY <1>a, <1>7, <2>1, <2>2, AgreedFlows
    <2> QED
        BY <1>2, <1>5, <2>1, <2>3 DEF DiskAgreed
<1>12. BaseBooks'
    BY <1>a, <1>1, <1>5, <1>9, <1>11 DEF BaseBooks, Placed, Dated, Waits
<1>13. WriterBooks'
    <2>1. generation' \in Nat /\ generation <= generation'
        BY <1>a, <1>2
    <2> QED
        BY <1>a, <1>2, <1>5, <1>7, <2>1, WriterReads
<1>14. Jobs'
    <2>1. tasks' = [j \in DOMAIN tasks' |-> tasks'[j]]
        BY <1>2 DEF Restrict
    <2> QED
        BY <1>1, <2>1, JobsNone
<1>15. InStep'
    <2>1. PICK w, s : w = Wire /\ s = Here
        OBVIOUS
    <2>2. Wire' = w /\ Here' = s
        BY <1>1, <1>2, <2>1 DEF Here
    <2> QED
        BY <1>2, <1>10, <2>1, <2>2 DEF InStep, Arrives
<1>16. Sides' /\ Calm'
    BY <1>a, <1>1, <1>2, SidesKept, CalmElse DEF Sides
<1> QED
    BY <1>12, <1>13, <1>14, <1>15, <1>16 DEF Flowing

-----------------------------------------------------------------------------
(* The writer *)

LEMMA DiskStaysAgreed ==
    ASSUME Flows, Placed, DiskAgreed, UNCHANGED disk, base'.place = base.place, Holding' => Holding
    PROVE  DiskAgreed'
<1> SUFFICES ASSUME Holding', NEW place \in base'.place PROVE Agreed(Keys(disk), place)'
    BY DEF DiskAgreed
<1>1. PICK keys : keys = Keys(disk)
    OBVIOUS
<1>2. place \in Place /\ Agreed(keys, place)
    BY <1>1 DEF Placed, DiskAgreed
<1>3. Agreed(keys, place)'
    BY <1>2, AgreedFlows
<1> QED
    BY <1>1, <1>3

LEMMA FlowingSample ==
    ASSUME Context, Flowing, Sample PROVE Flowing'
<1>1. /\ UNCHANGED <<disk, generation, file, tasks, studio, held, plugin, base, conns>>
      /\ writer' = [stage |-> "sampled", generation |-> generation, present |-> slot # 0]
    BY DEF Sample
<1>2. writer'.stage = "sampled" /\ writer'.generation = generation
    BY <1>1
<1>3. WriterBooks'
    BY <1>1, <1>2 DEF WriterBooks, Flowing, Sides
<1>4. Wire' = Wire
    BY <1>1 DEF Wire
<1>5. Quieter(base, base', generation) /\ IsBase(base')
    BY <1>1, SameQuieter DEF Context, OneLink
<1> QED
    BY <1>1, <1>3, <1>4, <1>5, FlowingRests

LEMMA SnappedNow ==
    ASSUME BaseBooks, base.synced = TRUE, disk \in Tree, NEW snapshot, snapshot = SnapshotTree(Keys(disk), {})
    PROVE  Snapped(snapshot)
<1>1. PICK keys, e : keys = Keys(disk) /\ e = snapshot.entries
    OBVIOUS
<1>2. snapshot = [entries |-> [p \in DOMAIN keys \ {} |-> keys[p]], ambiguous |-> {}, held |-> {} \cap DOMAIN keys]
    BY <1>1 DEF SnapshotTree
<1>3. snapshot.held = {} /\ DOMAIN e = DOMAIN keys /\ \A p \in DOMAIN keys : e[p] = keys[p]
    BY <1>1, <1>2
<1>4. DOMAIN keys \subseteq Path
    BY <1>1, KeysMean, TreeMeans
<1>5. ASSUME NEW p PROVE Get(e, p) = Get(keys, p)
    BY ONLY <1>3, GetMeans
<1>6. ASSUME NEW place \in base.place PROVE Agreed(e, place)
    <2>1. Agreed(keys, place)
        BY <1>1 DEF BaseBooks, DiskAgreed, Holding
    <2> QED
        BY <1>5, <2>1 DEF Agreed
<1> QED
    BY <1>1, <1>3, <1>4, <1>6 DEF Snapped

LEMMA FlowingTake ==
    ASSUME Context, Flowing, Take PROVE Flowing'
<1>a. BaseBooks /\ Placed /\ disk \in Tree
    BY DEF Flowing, BaseBooks, Sides
<1>0. PICK snapshot : snapshot = SnapshotTree(Keys(disk), {})
    OBVIOUS
<1>1. /\ UNCHANGED <<disk, generation, file, tasks, studio, held, plugin, base, conns>>
      /\ writer' = [stage |-> "taken", epoch |-> writer.epoch, takenAt |-> generation, snapshot |-> snapshot]
    BY <1>0 DEF Take
<1>2. writer'.stage = "taken" /\ writer'.snapshot = snapshot
    BY <1>1
<1>3. Wire' = Wire
    BY <1>1 DEF Wire
<1>4. Flows
    BY <1>1, <1>3, FlowsSame
<1>5. base.synced = TRUE => Snapped(snapshot)'
    <2>1. base.synced = TRUE => Snapped(snapshot)
        BY <1>a, <1>0, SnappedNow
    <2> QED
        BY <1>a, <1>1, <1>4, <2>1, SnappedFlows
<1>6. WriterBooks'
    BY <1>1, <1>2, <1>5 DEF WriterBooks, Current
<1>7. Quieter(base, base', generation) /\ IsBase(base')
    BY <1>1, SameQuieter DEF Context, OneLink
<1> QED
    BY <1>1, <1>3, <1>6, <1>7, FlowingRests

LEMMA FlowingStore ==
    ASSUME Context, Flowing, Store PROVE Flowing'
<1>a. /\ Sides /\ Calm /\ Jobs /\ BaseBooks /\ WriterBooks /\ InStep /\ IsBase(base)
      /\ Recorded /\ Placed /\ Dated /\ DiskAgreed /\ Waits
    BY DEF Flowing, Context, OneLink, BaseBooks
<1>1. /\ UNCHANGED <<disk, generation, file, tasks, studio, held, plugin, conns>>
      /\ writer' = Idle /\ writer.stage = "taken"
      /\ base' = TickTail(base, writer.epoch, writer.snapshot, writer.takenAt)
    BY DEF Store, history
<1>2. PICK b, n, e, snapshot, g :
         /\ b = base /\ n = base' /\ e = writer.epoch /\ snapshot = writer.snapshot /\ g = writer.takenAt
         /\ n = TickTail(b, e, snapshot, g)
    BY <1>1
<1>3. IsBase(b)
    BY <1>a, <1>2
<1>4. /\ TickTail(b, e, snapshot, g).stored = b.stored /\ TickTail(b, e, snapshot, g).place = b.place
      /\ TickTail(b, e, snapshot, g).resumeGeneration = b.resumeGeneration
      /\ \/ TickTail(b, e, snapshot, g).pending = b.pending
         \/ TickTail(b, e, snapshot, g).pending = {[epoch |-> e, snapshot |-> snapshot]}
    BY ONLY <1>3, TickTailFields
<1>5. TickTail(b, e, snapshot, g).epoch = b.epoch /\ TickTail(b, e, snapshot, g).synced = b.synced
    BY ONLY <1>3, TickTailIsBase
<1>6. /\ base'.stored = base.stored /\ base'.place = base.place /\ base'.epoch = base.epoch
      /\ base'.synced = base.synced /\ base'.resumeGeneration = base.resumeGeneration
      /\ base'.pending = base.pending \/ base'.pending = {[epoch |-> e, snapshot |-> snapshot]}
    BY <1>2, <1>4, <1>5
<1>7. Wire' = Wire
    BY <1>1 DEF Wire
<1>8. Flows
    BY <1>1, <1>7, FlowsSame
<1>9. Waits'
    <2> SUFFICES ASSUME NEW x \in base'.pending, Current(x.epoch)' PROVE Snapped(x.snapshot)'
        BY DEF Waits
    <2>1. Current(x.epoch)
        BY <1>6 DEF Current
    <2>2. Snapped(x.snapshot)
        <3>1. CASE x \in base.pending
            BY <1>a, <2>1, <3>1 DEF Waits
        <3>2. CASE x = [epoch |-> e, snapshot |-> snapshot]
            <4>1. x.epoch = e /\ x.snapshot = snapshot
                BY <3>2
            <4> QED
                BY <1>a, <1>1, <1>2, <2>1, <4>1 DEF WriterBooks
        <3> QED
            BY <1>6, <3>1, <3>2
    <2>3. PICK y : y = x.snapshot
        OBVIOUS
    <2>4. Snapped(y)'
        BY <1>a, <1>6, <1>8, <2>2, <2>3, SnappedFlows
    <2> QED
        BY <2>3, <2>4
<1>10. Recorded'
    BY <1>a, <1>1, <1>6, <1>8, RecordedFlows
<1>11. Holding' => Holding
    BY <1>1, <1>6 DEF Holding
<1>12. DiskAgreed'
    BY <1>a, <1>1, <1>6, <1>8, <1>11, DiskStaysAgreed
<1>13. Placed' /\ Dated'
    BY <1>a, <1>1, <1>6 DEF Placed, Dated, Compared, Silent
<1>14. BaseBooks'
    BY <1>9, <1>10, <1>12, <1>13 DEF BaseBooks
<1>15. WriterBooks'
    BY <1>1, WriterFree DEF Idle
<1>16. InStep'
    BY <1>a, <1>1, <1>7, <1>11, InStepKept DEF Compared
<1>17. Sides' /\ Jobs' /\ Calm'
    BY <1>a, <1>1, <1>6, <1>7, SidesKept, JobsKept, CalmKept DEF Sides, Silent
<1> QED
    BY <1>14, <1>15, <1>16, <1>17 DEF Flowing

\* A tick commits what was taken on the last one
LEMMA TickAgreed ==
    ASSUME BaseBooks, NEW x \in base.pending, Current(x.epoch), NEW m,
           m = Merge(base.stored, x.snapshot, base.place)
    PROVE  \E place \in Place : /\ base.place = {place} /\ m.place = {place} /\ DOMAIN m.entries \subseteq Path
                                /\ Agreed(m.entries, place)
<1>1. Placed /\ Snapped(x.snapshot) /\ base.synced = TRUE
    BY DEF BaseBooks, Waits, Current
<1>2. PICK place \in Place : base.place = {place}
    BY <1>1 DEF Placed, Silent
<1>3. PICK stored, snapshot : stored = base.stored /\ snapshot = x.snapshot
    OBVIOUS
<1>4. Folded(stored, snapshot, place, m)
    BY <1>2, <1>3 DEF Folded
<1>5. /\ m.place = {place} /\ DOMAIN m.entries \subseteq DOMAIN snapshot.entries \cup snapshot.held
      /\ \A p : p \notin snapshot.held => Get(m.entries, p) = Get(snapshot.entries, p)
    BY ONLY <1>4, MergeFields
<1>6. /\ snapshot.held = {} /\ DOMAIN snapshot.entries \subseteq Path /\ Agreed(snapshot.entries, place)
    BY <1>1, <1>2, <1>3 DEF Snapped
<1>7. Agreed(m.entries, place)
    BY <1>5, <1>6 DEF Agreed
<1> QED
    BY <1>2, <1>5, <1>6, <1>7

LEMMA FlowingTicks ==
    ASSUME Context, Flowing, IsBase(base'), NEW saved \in BOOLEAN, TickCommits(saved) PROVE Flowing'
<1>a. /\ Sides /\ Calm /\ Jobs /\ BaseBooks /\ WriterBooks /\ InStep /\ IsBase(base) /\ Awaited
      /\ Recorded /\ Placed /\ Dated /\ DiskAgreed /\ Waits /\ generation \in Nat
    BY DEF Flowing, Context, OneLink, BaseBooks, Sides
<1>1. /\ UNCHANGED <<disk, generation, tasks, studio, held, plugin, conns>> /\ writer.stage = "sampled"
      /\ base' = TickHead(base, writer.generation, writer.present)
      /\ base'.stored = base.stored => UNCHANGED file
      /\ file' \in {base'.stored, file}
    BY DEF TickCommits, Persist, history
<1>2. writer.generation \in Nat /\ writer.generation <= generation
    BY <1>a, <1>1 DEF WriterBooks
<1>3. writer'.stage \in {"idle", "taking"}
    BY DEF TickCommits, Idle
<1>4. Wire' = Wire /\ WriterBooks'
    BY <1>1, <1>3, WriterFree DEF Wire
<1>5. PICK b, n, h, present :
         b = base /\ n = base' /\ h = writer.generation /\ present = writer.present /\ n = TickHead(b, h, present)
    BY <1>1, Zenon
<1>6. IsBase(b) /\ h \in Nat /\ h <= generation
    BY <1>a, <1>2, <1>5
<1>7. CASE ~Due(b) \/ ~present
    <2>1. Quieter(b, TickHead(b, h, present), generation)
        BY ONLY <1>a, <1>6, <1>7, TickHeadQuieter
    <2>2. Quieter(base, base', generation)
        BY <1>5, <2>1
    <2>3. UNCHANGED file
        BY <1>1, <2>2 DEF Quieter
    <2> QED
        BY <1>1, <1>4, <2>2, <2>3, FlowingRests
<1>8. CASE Due(b) /\ present
    <2>1. Commits(b, TickHead(b, h, present))
        BY ONLY <1>6, <1>8, TickHeadCommits
    <2>2. PICK x \in base.pending :
             /\ x.epoch = base.epoch /\ base'.stored = {Merge(base.stored, x.snapshot, base.place)}
             /\ base'.place = base.place /\ base'.epoch = base.epoch /\ base'.synced = base.synced
             /\ base'.resumeGeneration = base.resumeGeneration
        BY <1>5, <2>1 DEF Commits
    <2>3. base.synced = TRUE /\ Current(x.epoch) /\ base'.pending = {}
        <3>1. TickHead(b, h, present).pending = {}
            BY ONLY <1>6, TickHeadIsBase, Zenon
        <3> QED
            BY <1>5, <1>8, <2>2, <3>1 DEF Due, Current
    <2>4. PICK m : m = Merge(base.stored, x.snapshot, base.place)
        OBVIOUS
    <2>5. PICK place \in Place : /\ base.place = {place} /\ m.place = {place} /\ DOMAIN m.entries \subseteq Path
                                 /\ Agreed(m.entries, place)
        BY <1>a, <2>3, <2>4, TickAgreed
    <2>6. Flows
        BY <1>1, <1>4, FlowsSame
    <2>7. Filed({m})'
        BY <2>5, <2>6, FiledOne
    <2>8. base'.stored = {m} /\ file' \in {{m}, file}
        BY <1>1, <2>2, <2>4
    <2>9. Recorded'
        BY <1>a, <2>6, <2>7, <2>8, RecordedNext
    <2>10. Holding' => Holding
        BY <1>1, <2>2 DEF Holding
    <2>11. DiskAgreed'
        BY <1>a, <1>1, <2>2, <2>6, <2>10, DiskStaysAgreed
    <2>12. Placed' /\ Dated' /\ Waits'
        BY <1>a, <1>1, <2>2, <2>3 DEF Placed, Dated, Waits, Compared, Silent
    <2>13. BaseBooks'
        BY <2>9, <2>11, <2>12 DEF BaseBooks
    <2>14. InStep'
        BY <1>a, <1>1, <1>4, <2>10, InStepKept DEF Compared
    <2>15. ~Silent(base)
        BY <2>3 DEF Silent
    <2>16. plugin.phase # "waiting"
        BY <1>a, <2>15 DEF Calm
    <2>17. Sides' /\ Jobs' /\ Calm'
        BY <1>a, <1>1, <1>4, <2>15, <2>16, SidesKept, JobsIdle, CalmKept DEF Sides
    <2> QED
        BY <1>4, <2>13, <2>14, <2>17 DEF Flowing
<1> QED
    BY <1>7, <1>8

-----------------------------------------------------------------------------
(* Every step *)

LEMMA FlowingInit == Init => Flowing
<1> SUFFICES ASSUME Init PROVE Flowing
    OBVIOUS
<1>1. /\ disk \in Tree /\ generation = 0 /\ studio = [pl \in Place |-> disk] /\ base = Load({}) /\ file = {}
      /\ tasks = << >> /\ writer = [stage |-> "idle"]
      /\ held = [pl \in Place |-> [p \in Path |-> {Get(Keys(disk), p)}]]
    BY DEF Init, None, Idle
<1>2. PICK pl \in Place : plugin = [phase |-> "offline", conn |-> 0, place |-> pl, seen |-> << >>]
    BY DEF Init
<1>3. plugin.phase = "offline" /\ plugin.place \in Place
    BY <1>2
<1>4. Wire = << >>
    BY <1>3, WireOff
<1>5. Sides
    <2>1. studio \in [Place -> Tree] /\ << >> \in Seq(Frame) /\ generation \in Nat
        BY <1>1
    <2>2. held = [place \in Place |-> [p \in Path |-> held[place][p]]]
        BY <1>1
    <2>3. \A place \in Place : \A p \in Path : Get(Keys(studio[place]), p) \in held[place][p]
        BY <1>1
    <2> QED
        BY <1>1, <1>3, <1>4, <2>1, <2>2, <2>3 DEF Sides
<1>6. Calm
    BY <1>3 DEF Calm
<1>7. Jobs
    <2>1. TasksShaped /\ DOMAIN tasks = {}
        BY <1>1, ConnectingInit DEF Connecting
    <2> QED
        BY <2>1 DEF Jobs
<1>8. base.stored = {} /\ base.place = {} /\ base.pending = {} /\ Silent(base)
    BY <1>1, LoadFields
<1>9. ~Holding
    BY <1>8 DEF Holding, Silent
<1>10. Recorded /\ Placed
    BY <1>1, <1>3, <1>8 DEF Recorded, Filed, Placed, Compared
<1>11. Dated /\ DiskAgreed /\ Waits /\ InStep
    BY <1>8, <1>9 DEF Dated, DiskAgreed, Waits, InStep, Silent
<1>12. WriterBooks
    BY <1>1 DEF WriterBooks
<1> QED
    BY <1>5, <1>6, <1>7, <1>10, <1>11, <1>12 DEF Flowing, BaseBooks

LEMMA FlowingStep ==
    ASSUME Rest = {Plain}, Flat, Orderly, Context, IsBase(base'), Flowing, [Next]_vars
    PROVE  Flowing'
<1>1. CASE Users
    <2>1. ASSUME NEW p \in Path, NEW t \in Changes(disk, p), DiskEdit(p, t) PROVE Flowing'
        BY <2>1, FlowingDiskEdit
    <2>2. ASSUME NEW p \in Path, NEW t \in Changes(studio[plugin.place], p), StudioEdit(p, t) PROVE Flowing'
        BY <2>2, FlowingStudioEdit
    <2>3. ASSUME NEW place \in Place, OpenPlace(place) PROVE Flowing'
        BY <2>3, FlowingOpenPlace
    <2> QED
        BY <1>1, <2>1, <2>2, <2>3 DEF Users
<1>2. CASE Cleanup
    BY <1>2, FlowingCleanup
<1>3. CASE Connects
    <2>1. ASSUME NEW c \in Conn, Open(c) PROVE Flowing'
        BY <2>1, FlowingOpen
    <2>2. CASE Fetch
        BY <2>2, FlowingFetch
    <2>3. ASSUME NEW named \in BOOLEAN, Refuse(named) PROVE Flowing'
        BY <2>3, FlowingRefuse
    <2>4. ASSUME NEW named \in BOOLEAN, NEW written \in BOOLEAN, Compare(named, written) PROVE Flowing'
        BY <2>4, FlowingCompare
    <2>5. ASSUME NEW k \in DOMAIN tasks, Apply(k) \/ ApplyFails(k) \/ Push(k) \/ Snap(k) PROVE Flowing'
        BY <2>5, FlowingApply, FlowingApplyFails, FlowingPush, FlowingSnap
    <2>6. ASSUME NEW k \in DOMAIN tasks, NEW saved \in BOOLEAN, CommitBase(k, saved) PROVE Flowing'
        BY <2>6, FlowingCommitBase
    <2> QED
        BY <1>3, <2>1, <2>2, <2>3, <2>4, <2>5, <2>6 DEF Connects
<1>4. CASE Deliver
    BY <1>4, FlowingDeliver
<1>5. CASE Writer
    <2>1. ASSUME NEW saved \in BOOLEAN, TickCommits(saved) PROVE Flowing'
        BY <2>1, FlowingTicks
    <2> QED
        BY <1>5, <2>1, FlowingSample, FlowingTake, FlowingStore DEF Writer
<1>6. CASE Guard \/ UNCHANGED vars
    <2>1. UNCHANGED <<disk, generation, file, tasks, studio, held, plugin, base, conns, writer>>
        BY <1>6, GuardRests DEF vars
    <2>2. Wire' = Wire
        BY <2>1 DEF Wire
    <2>3. Quieter(base, base', generation)
        BY <2>1, SameQuieter
    <2> QED
        BY <2>1, <2>2, <2>3, FlowingRests
<1>7. ASSUME NEW graceful \in BOOLEAN, Restart(graceful) PROVE Flowing'
    BY <1>7, FlowingRestart
<1>8. ASSUME NEW c \in Conn, Dial(c) PROVE Flowing'
    BY <1>8, FlowingDial
<1>9. ASSUME NEW c \in Conn, NEW next \in {"redial", "offline"}, LinkDrops(c, next) PROVE Flowing'
    BY <1>9, FlowingDrops
<1> QED
    BY <1>1, <1>2, <1>3, <1>4, <1>5, <1>6, <1>7, <1>8, <1>9 DEF Next

ContextFlowing == Context /\ Flowing

LEMMA ContextFlowingInit == Init => ContextFlowing
<1>1. Init => Awaited
    BY ConnectingInit DEF Connecting
<1> QED
    BY <1>1, LinkInit, OneLinkInit, WriterInit, FlowingInit DEF Context, ContextFlowing

LEMMA ContextFlowingStep ==
    ASSUME Rest = {Plain}, Flat, Orderly PROVE ContextFlowing /\ [Next]_vars => ContextFlowing'
<1> SUFFICES ASSUME ContextFlowing, [Next]_vars PROVE ContextFlowing'
    OBVIOUS
<1>1. Context /\ Flowing /\ Undisturbed /\ Swept
    BY DEF ContextFlowing, Orderly
<1>2. Links' /\ Awaited'
    BY <1>1, LinksStep, AwaitedStep DEF Context
<1>3. OneLink'
    BY <1>1, OneLinkStep DEF Context
<1>4. WriterInv'
    BY <1>1, <1>3, WriterStep DEF Context
<1>5. IsBase(base')
    BY <1>3 DEF OneLink
<1>6. Flowing'
    BY <1>1, <1>5, FlowingStep
<1> QED
    BY <1>2, <1>3, <1>4, <1>6 DEF ContextFlowing, Context

-----------------------------------------------------------------------------
(* What follows *)

LEMMA FlowingDelivered == ContextFlowing => AgreedWasDelivered
<1> SUFFICES ASSUME ContextFlowing, NEW stored \in base.stored \cup file, NEW place \in stored.place, NEW p \in Path,
                    NEW key, key = Get(stored.entries, p)
             PROVE  key \in held[place][p] \/ OnItsWay(place, p, key)
    BY DEF AgreedWasDelivered
<1>1. Links /\ Filed(base.stored) /\ Filed(file)
    BY DEF ContextFlowing, Context, Flowing, BaseBooks, Recorded
<1>2. Agreed(stored.entries, place)
    BY <1>1 DEF Filed
<1>3. Delivered(place, p, key)
    BY <1>2 DEF Agreed
<1>4. CASE key \in held[place][p]
    BY <1>4
<1>5. CASE plugin.place = place /\ \E k \in DOMAIN Wire : Wire[k].path = p /\ key = KeyIn(Wire[k])
    BY <1>1, <1>5, OnItsWayMeans
<1> QED
    BY <1>3, <1>4, <1>5 DEF Delivered

LEMMA FlowingInSync == ContextFlowing => InSync
<1> SUFFICES ASSUME ContextFlowing, Steady, base.synced PROVE disk = studio[plugin.place]
    BY DEF InSync
<1>1. Wire = << >> /\ plugin.phase = "live"
    BY DEF Steady, Wire
<1>2. base.synced = TRUE /\ InStep /\ disk \in Tree /\ Here \in Tree
    BY DEF ContextFlowing, Context, OneLink, IsBase, Flowing, Sides, Here
<1>a. PICK d \in Tree, s \in Tree : d = disk /\ s = Here
    BY <1>2
<1>3. PICK w : d = disk /\ s = Here /\ w = Wire
    BY <1>a
<1>4. \A p \in Path : Arrives(w, s, d, p)
    BY <1>1, <1>2, <1>3 DEF InStep, Holding, Compared
<1>5. \A p \in Path : Get(d, p) = Get(s, p)
    <2>1. DOMAIN w = {}
        BY <1>1, <1>3
    <2> QED
        BY <1>4, <2>1 DEF Arrives
<1>6. /\ d = [p \in DOMAIN d |-> d[p]] /\ s = [p \in DOMAIN s |-> s[p]]
      /\ DOMAIN d \subseteq Path /\ DOMAIN s \subseteq Path
    BY TreeMeans
<1>7. d = s
    BY <1>5, <1>6, SameMap
<1> QED
    BY <1>3, <1>7 DEF Here

\* Only Apply applies
LEMMA AppliesOnce ==
    ASSUME Awaited, TasksShaped, [Next]_vars, NEW k \in DOMAIN tasks, Applies(k) PROVE Apply(k)
<1>1. /\ tasks[k].stage = "apply" /\ k \in DOMAIN tasks' /\ tasks'[k].stage = "push"
      /\ plugin.phase = "waiting" /\ \A j \in DOMAIN tasks : j = k
    BY DEF Applies, At, Awaited
<1>2. tasks' # tasks
    BY <1>1
<1>3. ~(Users \/ Cleanup \/ Deliver \/ Writer \/ Guard \/ UNCHANGED vars)
    BY <1>2, GuardRests DEF Users, DiskEdit, StudioEdit, OpenPlace, daemon, Cleanup, LoopEnds, Release, Unsubscribe, Disconnected,
                Deliver, Writer, Sample, TickCommits, Take, Store, vars
<1>4. \A c : ~Dial(c) /\ \A next : ~LinkDrops(c, next)
    BY <1>2 DEF Dial, LinkDrops
<1>5. ASSUME NEW graceful, Restart(graceful) PROVE FALSE
    <2>1. tasks' = << >>
        BY <1>5 DEF Restart
    <2>2. DOMAIN tasks' = {}
        BY <2>1
    <2> QED
        BY <1>1, <2>2
<1>6. /\ \A c : ~Open(c)
      /\ ~Fetch
    BY <1>2 DEF Open, Fetch, daemon
<1>7. ASSUME NEW named, Refuse(named) \/ \E written \in BOOLEAN : Compare(named, written) PROVE FALSE
    BY <1>1, <1>7 DEF Refuse, Compare
<1>8. ASSUME NEW j \in DOMAIN tasks, ApplyFails(j) \/ Push(j) \/ Snap(j) \/ \E saved \in BOOLEAN : CommitBase(j, saved)
      PROVE  FALSE
    <2>1. j = k
        BY <1>1
    <2>2. ~Push(k) /\ ~Snap(k) /\ \A saved : ~CommitBase(k, saved)
        BY <1>1 DEF Push, Snap, CommitBase, At
    <2>3. ~ApplyFails(k)
        BY <1>1 DEF ApplyFails, Restrict
    <2> QED
        BY <1>8, <2>1, <2>2, <2>3
<1>9. Connects
    BY <1>3, <1>4, <1>5 DEF Next
<1>10. PICK j \in DOMAIN tasks : Apply(j)
    BY <1>6, <1>7, <1>8, <1>9 DEF Connects
<1> QED
    BY <1>1, <1>10

LEMMA FlowingKeepsDisk ==
    ASSUME Rest = {Plain}, ContextFlowing, NEW k \in DOMAIN tasks, Apply(k), NEW p \in DOMAIN disk
    PROVE  \/ Get(disk', p) = {disk[p]} \/ <<p, disk[p]>> \in backlog'
           \/ {KeyOf(disk[p])} \in held[plugin.place][p]
<1>a. /\ TaskFine(k) /\ Filed(base.stored)
      /\ disk \in Tree /\ studio \in [Place -> Tree] /\ plugin.place \in Place
    BY DEF ContextFlowing, Flowing, Jobs, Sides, BaseBooks, Recorded
<1>1. tasks[k].stage = "apply"
    BY DEF Apply, At
<1>2. /\ Wire = << >>
      /\ tasks[k].winners = Decide(View(base, {plugin.place}), Diff(disk, Here), disk, Here, TRUE, FALSE)
    BY <1>a, <1>1 DEF TaskFine
<1>b. PICK d \in Tree, s \in Tree : d = disk /\ s = Here
    BY <1>a DEF Here
<1>3. PICK v, w :
         d = disk /\ s = Here /\ v = View(base, {plugin.place}) /\ w = tasks[k].winners
    BY <1>b
<1>4. w = Decide(v, Diff(d, s), d, s, TRUE, FALSE)
    BY <1>2, <1>3
<1>5. \A view \in v : view \in base.stored /\ (view.place = {} \/ view.place = {plugin.place})
    BY <1>3 DEF View, None
<1>6. \A view \in v : DOMAIN view.entries \subseteq Path /\ Agreed(view.entries, plugin.place)
    BY <1>a, <1>5 DEF Filed
<1>7. p \in DOMAIN d /\ p \in Path
    BY <1>3, TreeMeans
<1>8. \/ Get(Merged(w, d, s), p) = {d[p]} \/ <<p, d[p]>> \in Backlogged(w, d, s)
      \/ \E view \in v : p \in DOMAIN view.entries /\ view.entries[p] = KeyOf(d[p])
    <2>1. PICK hashes \in BOOLEAN, truncated \in BOOLEAN : hashes = TRUE /\ truncated = FALSE
        OBVIOUS
    <2>2. w = Decide(v, Diff(d, s), d, s, hashes, truncated)
        BY <1>4, <2>1
    <2>3. \A view \in v : DOMAIN view.entries \subseteq Path
        BY <1>6
    <2> QED
        BY <1>7, <2>2, <2>3, MergeKeeps
<1>9. disk' = Merged(w, d, s) /\ backlog' = backlog \cup Backlogged(w, d, s)
    BY <1>3 DEF Apply, Here
<1>10. ASSUME NEW view \in v, p \in DOMAIN view.entries, view.entries[p] = KeyOf(d[p])
       PROVE  {KeyOf(d[p])} \in held[plugin.place][p]
    <2>1. Get(view.entries, p) = {KeyOf(d[p])}
        BY <1>10, GetMeans
    <2>2. Delivered(plugin.place, p, Get(view.entries, p))
        BY <1>6, <1>7 DEF Agreed
    <2>3. DOMAIN Wire = {}
        BY <1>2
    <2> QED
        BY <2>1, <2>2, <2>3 DEF Delivered
<1> QED
    BY <1>3, <1>8, <1>9, <1>10

\* Whatever the sync base or its file says was agreed, instance or absence, the place
\* it was recorded for has held, or its frame is on a link that works, for every
\* number of places, connections, edits and crashes and for paths none of which is
\* below another, when frames are not lost, the disk rests during a connect, plugins
\* name their place, no link goes down in a connect and nobody comes in during a
\* cleanup (src/server/sync_base.rs merge, commit, tick, divergence.rs
\* commit_sync_base).
THEOREM RecordedWasDelivered ==
    ASSUME Rest = {Plain}, Flat PROVE Orderly /\ Spec => []AgreedWasDelivered
<1> SUFFICES ASSUME Orderly PROVE Spec => []AgreedWasDelivered
    OBVIOUS
<1>1. ContextFlowing /\ [Next]_vars => ContextFlowing'
    BY ContextFlowingStep
<1> QED
    BY <1>1, ContextFlowingInit, FlowingDelivered, PTL DEF Spec

\* When a connect is over and nothing is on its way, disk and Studio are the same, in
\* the same circumstances: the plan is applied on both sides whatever was edited while
\* the plugin was away, after a reconnect that resumes without a compare too
\* (src/server/divergence.rs connect_commit, sync_base.rs on_reconnect).
THEOREM ConnectsEndInSync ==
    ASSUME Rest = {Plain}, Flat PROVE Orderly /\ Spec => []InSync
<1> SUFFICES ASSUME Orderly PROVE Spec => []InSync
    OBVIOUS
<1>1. ContextFlowing /\ [Next]_vars => ContextFlowing'
    BY ContextFlowingStep
<1> QED
    BY <1>1, ContextFlowingInit, FlowingInSync, PTL DEF Spec

\* A connect takes a file from disk only if Studio has held it or a copy goes to the
\* backlog, in the same circumstances: the base that lets Studio win says only what
\* was delivered (src/server/divergence.rs apply, three_way.rs classify).
THEOREM AppliesKeepDisk ==
    ASSUME Rest = {Plain}, Flat PROVE Orderly /\ Spec => DiskKept
<1> SUFFICES ASSUME Orderly PROVE Spec => DiskKept
    OBVIOUS
<1> DEFINE Keeps == \A k \in DOMAIN tasks : Applies(k) =>
                       \A p \in DOMAIN disk :
                           \/ Get(disk', p) = {disk[p]} \/ <<p, disk[p]>> \in backlog'
                           \/ {KeyOf(disk[p])} \in held[plugin.place][p]
<1>1. ContextFlowing /\ [Next]_vars => ContextFlowing'
    BY ContextFlowingStep
<1>2. ContextFlowing /\ [Next]_vars => [Keeps]_vars
    <2> SUFFICES ASSUME ContextFlowing, [Next]_vars, NEW k \in DOMAIN tasks, Applies(k), NEW p \in DOMAIN disk
                 PROVE  \/ Get(disk', p) = {disk[p]} \/ <<p, disk[p]>> \in backlog'
                        \/ {KeyOf(disk[p])} \in held[plugin.place][p]
        OBVIOUS
    <2>1. Apply(k)
        BY AppliesOnce DEF ContextFlowing, Context, Flowing, Jobs
    <2> QED
        BY <2>1, FlowingKeepsDisk
<1> QED
    BY <1>1, <1>2, ContextFlowingInit, PTL DEF Spec, DiskKept
=============================================================================
