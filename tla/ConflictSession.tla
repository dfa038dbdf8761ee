---------------------------- MODULE ConflictSession ----------------------------
(***************************************************************************)
(* A connected session around the conflict engine: files edited on disk,   *)
(* instances edited in Studio, the processor thread that reads the one and *)
(* applies the other (src/core/processor/mod.rs), the plugin's sync and    *)
(* syncback loops (plugin/src/Core/init.luau), and the tasks that resolve  *)
(* parked conflicts (src/server/resolve.rs).  The link stays up; losing it *)
(* is the subject of SyncSession.                                          *)
(*                                                                         *)
(* One processor thread holds the tree lock for a whole event, so an event *)
(* is one step.  A resolver is a task on another thread: one step per      *)
(* lock it takes.  Every push is a batch of one operation.                 *)
(*                                                                         *)
(* Races names the timings the environment may show on top of ordinary     *)
(* interleaving:                                                           *)
(*   "slow link"      the race window may elapse while something for the   *)
(*                    instance is still under way on the link;             *)
(*   "unread file"    a push may be applied while the watcher still owes   *)
(*                    the processor an edit of the same file;              *)
(*   "busy resolver"  an instance may be edited while it is parked or a    *)
(*                    resolver works on it;                                *)
(*   "debounce"       Studio may be edited within SYNCBACK_DEBOUNCE of an  *)
(*                    arriving frame;                                      *)
(*   "echo"           Studio may report the change a frame makes before    *)
(*                    lastSync is set, so that it is read back;            *)
(*   "unflushed"      a frame may be applied to an instance whose last     *)
(*                    Studio edit is still collected (SYNCBACK_RATE);      *)
(*   "write error"    the write middleware may fail.                       *)
(***************************************************************************)
EXTENDS ConflictEngine, FiniteSets

CONSTANTS
    Races,
    Existing,       \* the instances both sides start with
    Original,       \* their content
    MaxDiskEdits, MaxStudioEdits, MaxResolves   \* bounds

ASSUME SessionAssumption ==
    /\ Existing \subseteq Instance
    /\ Original \in Content
    /\ Races \subseteq {"slow link", "unread file", "busy resolver", "debounce",
                        "echo", "unflushed", "write error"}

VARIABLES
    engine,     \* the conflict engine
    disk,       \* content of the file behind each instance
    tree,       \* the daemon's tree
    studio,     \* the instances in Studio
    toStudio,   \* sync frames under way to the plugin, in order
    collected,  \* the plugin's aggregateChanges: content last read per instance
    toDaemon,   \* the processor's client queue
    quiet,      \* within SYNCBACK_DEBOUNCE of the last applied frame
    tasks,      \* resolver tasks by number
    nextTask,
    backlog,    \* disk contents moved to the backlog, per instance
    used,       \* refs handed out so far
    budget,     \* edits left: disk, studio, resolves
    seen,       \* history: the contents each side of an instance ever held
    replaced    \* history: the contents a user replaced, who had them in view

vars == <<engine, disk, tree, studio, toStudio, collected, toDaemon, quiet, tasks,
          nextTask, backlog, used, budget, seen, replaced>>

Frame == [inst : Instance, content : Side]
Push == [kind : {"add", "update", "remove"}, inst : Instance, content : Side,
         task : Nat]     \* task 0: the plugin, otherwise RESOLUTION_CLIENT_ID
Task == [kind : {"auto", "local", "studio"}, parked : Parked,
         stage : {"capture", "write", "applying", "take", "restore",
                  "read", "stamp", "push"},
         content : Side]

TypeOK ==
    /\ engine \in EngineState
    /\ disk \in [Instance -> Side] /\ tree \in [Instance -> Side]
    /\ studio \in [Instance -> Side]
    /\ toStudio \in Seq(Frame) /\ toDaemon \in Seq(Push)
    /\ collected \in MapTo(Side)
    /\ quiet \in BOOLEAN
    /\ DOMAIN tasks \subseteq Nat /\ \A n \in DOMAIN tasks : tasks[n] \in Task
    /\ nextTask \in Nat \ {0}
    /\ backlog \in [Instance -> SUBSET Content]
    /\ used \subseteq Instance
    /\ seen \in [{"disk", "studio"} -> [Instance -> SUBSET Side]]
    /\ replaced \in [Instance -> SUBSET Side]

Init ==
    /\ engine = NewEngine
    /\ disk = [i \in Instance |-> IF i \in Existing THEN Original ELSE Absent]
    /\ tree = disk
    /\ studio = disk
    /\ toStudio = << >> /\ toDaemon = << >>
    /\ collected = << >>
    /\ quiet = FALSE
    /\ tasks = << >> /\ nextTask = 1
    /\ backlog = [i \in Instance |-> {}]
    /\ used = Existing
    /\ budget = [disk |-> MaxDiskEdits, studio |-> MaxStudioEdits,
                 resolve |-> MaxResolves]
    /\ seen = [s \in {"disk", "studio"} |->
                  [i \in Instance |-> {IF i \in Existing THEN Original ELSE Absent}]]
    /\ replaced = [i \in Instance |-> {}]

-----------------------------------------------------------------------------
(* Helpers *)

Saw(s, i, c) == seen' = [seen EXCEPT ![s][i] = @ \cup {c}]

\* Resolver tasks spawned by the notifier (Server::start)
Spawn(notice) ==
    IF notice = {} THEN UNCHANGED <<tasks, nextTask>>
    ELSE /\ \E rec \in notice :
               tasks' = Put(tasks, nextTask, [kind |-> "auto", parked |-> rec,
                                              stage |-> "capture", content |-> Absent])
         /\ nextTask' = nextTask + 1

\* Adopts an engine outcome together with the resolver it may have caused
Adopt(outcome) == engine' = outcome.engine /\ Spawn(outcome.notice)

Send(i, c) == toStudio' = Append(toStudio, [inst |-> i, content |-> c])

Resolving(i) == IsParked(engine, i) \/ \E n \in DOMAIN tasks : tasks[n].parked.instance = i

MayEdit(i) == "busy resolver" \in Races \/ ~Resolving(i)

OnLink(i) ==
    \/ \E k \in DOMAIN toStudio : toStudio[k].inst = i
    \/ \E k \in DOMAIN toDaemon : toDaemon[k].inst = i
    \/ i \in DOMAIN collected

-----------------------------------------------------------------------------
(* The two users *)

\* Someone edits, deletes or (for a ref never used) creates the file.  A file
\* that comes back after its instance left the tree gets a new ref
DiskEdit(i, c) ==
    /\ budget.disk > 0 /\ MayEdit(i)
    /\ c # disk[i]
    /\ \/ disk[i] # Absent \/ tree[i] # Absent
       \/ i \notin used
    /\ disk' = [disk EXCEPT ![i] = c]
    /\ used' = used \cup {i}
    /\ budget' = [budget EXCEPT !.disk = @ - 1]
    /\ Saw("disk", i, c)
    /\ replaced' = [replaced EXCEPT ![i] = @ \cup {disk[i]}]
    /\ UNCHANGED <<engine, tree, studio, toStudio, collected, toDaemon, quiet,
                   tasks, nextTask, backlog>>

\* Someone edits or deletes the instance in Studio.  The syncback loop reads
\* the change at once, unless a frame was applied within SYNCBACK_DEBOUNCE
StudioEdit(i, c) ==
    /\ budget.studio > 0 /\ MayEdit(i)
    /\ studio[i] # Absent /\ c # studio[i]
    /\ quiet => "debounce" \in Races
    /\ studio' = [studio EXCEPT ![i] = c]
    /\ collected' = IF quiet THEN collected ELSE Put(collected, i, c)
    /\ budget' = [budget EXCEPT !.studio = @ - 1]
    /\ Saw("studio", i, c)
    /\ replaced' = [replaced EXCEPT ![i] = @ \cup {studio[i]}]
    /\ UNCHANGED <<engine, disk, tree, toStudio, toDaemon, quiet, tasks, nextTask,
                   backlog, used>>

\* Someone creates an instance in Studio
StudioCreate(i, c) ==
    /\ budget.studio > 0 /\ i \notin used
    /\ studio' = [studio EXCEPT ![i] = c]
    /\ toDaemon' = Append(toDaemon, [kind |-> "add", inst |-> i, content |-> c, task |-> 0])
    /\ used' = used \cup {i}
    /\ budget' = [budget EXCEPT !.studio = @ - 1]
    /\ Saw("studio", i, c)
    /\ UNCHANGED <<engine, disk, tree, toStudio, collected, quiet, tasks, nextTask,
                   backlog, replaced>>

-----------------------------------------------------------------------------
(* The plugin *)

\* A sync frame is applied as it comes, over whatever Studio holds
ApplyFrame(echo) ==
    /\ toStudio # << >>
    /\ echo => "echo" \in Races
    /\ LET i == Head(toStudio).inst
           c == Head(toStudio).content
       IN  /\ i \in DOMAIN collected => "unflushed" \in Races
           /\ studio' = [studio EXCEPT ![i] = c]
           /\ collected' = IF echo /\ c # studio[i] THEN Put(collected, i, c) ELSE collected
           /\ Saw("studio", i, c)
    /\ toStudio' = Tail(toStudio)
    /\ quiet' = TRUE
    /\ UNCHANGED <<engine, disk, tree, toDaemon, tasks, nextTask, backlog, used, budget, replaced>>

DebounceEnds ==
    /\ quiet
    /\ quiet' = FALSE
    /\ UNCHANGED <<engine, disk, tree, studio, toStudio, collected, toDaemon, tasks,
                   nextTask, backlog, used, budget, seen, replaced>>

\* The syncback loop writes what it collected
Flush(i) ==
    /\ i \in DOMAIN collected
    /\ toDaemon' = Append(toDaemon,
                          [kind |-> IF collected[i] = Absent THEN "remove" ELSE "update",
                           inst |-> i, content |-> collected[i], task |-> 0])
    /\ collected' = Drop(collected, i)
    /\ UNCHANGED <<engine, disk, tree, studio, toStudio, quiet, tasks, nextTask,
                   backlog, used, budget, seen, replaced>>

-----------------------------------------------------------------------------
(* The processor thread *)

\* on_vfs_event: the tree takes the file's content, the engine decides whether
\* the change goes to Studio
FsEvent(i) ==
    /\ disk[i] # tree[i]
    /\ LET outcome ==
               CASE tree[i] = Absent -> OnFsAddition(engine, i, disk[i])
                 [] disk[i] = Absent -> OnFsRemoval(engine, i, tree[i])
                 [] OTHER -> OnFsUpdate(engine, i, tree[i], disk[i])
       IN  /\ Adopt(outcome)
           /\ IF outcome.decision = "Propagate" THEN Send(i, disk[i])
                                               ELSE UNCHANGED toStudio
    /\ tree' = [tree EXCEPT ![i] = disk[i]]
    /\ UNCHANGED <<disk, studio, collected, toDaemon, quiet, backlog, used, budget, seen, replaced>>

\* The decision on one pushed operation; a resolver's write bypasses it
DecidePush(m) ==
    CASE m.task # 0 -> Outcome("Apply", engine)
      [] m.task = 0 /\ m.kind = "add" -> OnPushAddition(engine, m.inst)
      [] m.task = 0 /\ m.kind = "update" /\ tree[m.inst] # Absent ->
            OnPushUpdate(engine, m.inst, tree[m.inst], m.content)
      [] m.task = 0 /\ m.kind = "update" /\ tree[m.inst] = Absent ->
            OnPushUpdateMissing(engine, m.inst, m.content)
      [] m.task = 0 /\ m.kind = "remove" /\ tree[m.inst] # Absent ->
            OnPushRemoval(engine, m.inst, tree[m.inst])
      [] OTHER -> OnPushRemovalMissing(engine, m.inst)

\* The task that waits for the write of m moves on
Answered(m, ts, ok) ==
    IF m.task = 0 THEN ts
    ELSE IF ok /\ ts[m.task].kind = "auto" THEN [ts EXCEPT ![m.task].stage = "take"]
    ELSE IF ~ok /\ ts[m.task].kind = "studio" THEN [ts EXCEPT ![m.task].stage = "restore"]
    ELSE Drop(ts, m.task)

\* on_client_event: decide, write the file and the tree, stamp or forget.  An
\* update of an instance the tree lacks writes nothing and still succeeds
ClientEvent(ok) ==
    /\ toDaemon # << >>
    /\ ok \/ "write error" \in Races
    /\ LET m == Head(toDaemon)
           i == m.inst
           r == DecidePush(m)
           applies == r.decision = "Apply"
           writes == applies /\ ok /\ (m.kind = "update" => tree[i] # Absent)
       IN  /\ (m.task = 0 /\ applies) =>
                  ("unread file" \in Races \/ disk[i] = tree[i])
           /\ ~ok => applies
           /\ engine' = IF ~writes THEN r.engine
                        ELSE IF m.kind = "remove" THEN Forget(r.engine, i)
                        ELSE Stamp(r.engine, i, m.content)
           /\ IF writes
              THEN /\ disk' = [disk EXCEPT ![i] = m.content]
                   /\ tree' = [tree EXCEPT ![i] = m.content]
                   /\ Saw("disk", i, m.content)
              ELSE UNCHANGED <<disk, tree, seen>>
           /\ IF r.notice = {}
              THEN tasks' = Answered(m, tasks, ok) /\ UNCHANGED nextTask
              ELSE Spawn(r.notice)
    /\ toDaemon' = Tail(toDaemon)
    /\ UNCHANGED <<studio, toStudio, collected, quiet, backlog, used, budget, replaced>>

\* The race window of a pending edit or of a tombstone elapses
WindowElapses(i) ==
    /\ "slow link" \in Races \/ ~OnLink(i)
    /\ \/ /\ i \in DOMAIN engine.pending /\ ~engine.pending[i].expired
          /\ engine' = [engine EXCEPT !.pending = Put(@, i, [@[i] EXCEPT !.expired = TRUE])]
       \/ /\ i \in DOMAIN engine.tombstones /\ ~engine.tombstones[i].expired
          /\ engine' = [engine EXCEPT !.tombstones =
                            Put(@, i, [@[i] EXCEPT !.expired = TRUE])]
    /\ UNCHANGED <<disk, tree, studio, toStudio, collected, toDaemon, quiet, tasks,
                   nextTask, backlog, used, budget, seen, replaced>>

-----------------------------------------------------------------------------
(* Resolvers: auto_keep_studio, spawned for every notice, and POST /resolve *)

Enter(n, stage) == tasks' = [tasks EXCEPT ![n].stage = stage]

End(n) == tasks' = Drop(tasks, n)

At(n, stage) == n \in DOMAIN tasks /\ tasks[n].stage = stage

\* Mutant: the file is deleted, not moved
CaptureDiskDeletes(n, ok) ==
    /\ At(n, "capture")
    /\ disk' = [disk EXCEPT ![tasks[n].parked.instance] = Absent]
    /\ Enter(n, "write")
    /\ UNCHANGED <<engine, tree, studio, toStudio, collected, toDaemon, quiet,
                   nextTask, backlog, used, budget, seen, replaced>>

\* auto_keep_studio moves the live file to the backlog.  A failed capture is
\* only logged
CaptureDisk(n, ok) ==
    /\ At(n, "capture")
    /\ ok \/ "write error" \in Races
    /\ LET i == tasks[n].parked.instance
       IN  IF disk[i] # Absent /\ ok
           THEN /\ backlog' = [backlog EXCEPT ![i] = @ \cup {disk[i]}]
                /\ disk' = [disk EXCEPT ![i] = Absent]
           ELSE UNCHANGED <<backlog, disk>>
    /\ Enter(n, "write")
    /\ UNCHANGED <<engine, tree, studio, toStudio, collected, toDaemon, quiet, nextTask,
                   used, budget, seen, replaced>>

\* keep_studio queues the record's Studio side, as it was when the task started,
\* for the processor; a both-edited record needs the instance to be in the tree
KeepStudio(n) ==
    /\ At(n, "write")
    /\ LET rec == tasks[n].parked
           write(kind) == Append(toDaemon, [kind |-> kind, inst |-> rec.instance,
                                            content |-> rec.studio, task |-> n])
       IN  \/ /\ rec.classification = StudioDeleted
              /\ toDaemon' = write("remove") /\ Enter(n, "applying")
           \/ /\ rec.classification = FsDeleted
              /\ toDaemon' = write("add") /\ Enter(n, "applying")
           \/ /\ rec.classification = BothEdited /\ tree[rec.instance] # Absent
              /\ toDaemon' = write("update") /\ Enter(n, "applying")
           \/ /\ rec.classification = BothEdited /\ tree[rec.instance] = Absent
              /\ IF tasks[n].kind = "auto" THEN End(n) ELSE Enter(n, "restore")
              /\ UNCHANGED toDaemon
    /\ UNCHANGED <<engine, disk, tree, studio, toStudio, collected, quiet, nextTask,
                   backlog, used, budget, seen, replaced>>

\* Mutant: the record stays
TakeRecordNever(n) ==
    /\ At(n, "take")
    /\ End(n)
    /\ UNCHANGED <<engine, disk, tree, studio, toStudio, collected, toDaemon, quiet,
                   nextTask, backlog, used, budget, seen, replaced>>

\* auto_keep_studio drops the record once its write landed
TakeRecord(n) ==
    /\ At(n, "take")
    /\ engine' = Take(engine, tasks[n].parked.id)
    /\ End(n)
    /\ UNCHANGED <<disk, tree, studio, toStudio, collected, toDaemon, quiet, nextTask,
                   backlog, used, budget, seen, replaced>>

\* POST /resolve takes the record before it resolves it
Resolve(k, keep) ==
    /\ budget.resolve > 0 /\ k \in DOMAIN engine.parked
    /\ LET rec == engine.parked[k]
       IN  /\ engine' = Take(engine, rec.id)
           /\ tasks' = Put(tasks, nextTask,
                           [kind |-> keep, parked |-> rec, content |-> Absent,
                            stage |-> IF keep = "local" THEN "read" ELSE "write"])
    /\ nextTask' = nextTask + 1
    /\ budget' = [budget EXCEPT !.resolve = @ - 1]
    /\ UNCHANGED <<disk, tree, studio, toStudio, collected, toDaemon, quiet, backlog,
                   used, seen, replaced>>

\* ... and puts it back when that failed
RestoreRecord(n) ==
    /\ At(n, "restore")
    /\ engine' = Restore(engine, tasks[n].parked)
    /\ End(n)
    /\ UNCHANGED <<disk, tree, studio, toStudio, collected, toDaemon, quiet, nextTask,
                   backlog, used, budget, seen, replaced>>

\* keep_local reads the tree,
ReadTree(n) ==
    /\ At(n, "read")
    /\ LET rec == tasks[n].parked
           gone == tree[rec.instance] = Absent /\ rec.classification # FsDeleted
           content == IF rec.classification = FsDeleted THEN Absent ELSE tree[rec.instance]
       IN  tasks' = [tasks EXCEPT ![n].stage = IF gone THEN "restore" ELSE "stamp",
                                  ![n].content = content]
    /\ UNCHANGED <<engine, disk, tree, studio, toStudio, collected, toDaemon, quiet,
                   nextTask, backlog, used, budget, seen, replaced>>

\* stamps the baseline (from the tree again, for a subtree Studio deleted),
StampLocal(n) ==
    /\ At(n, "stamp")
    /\ LET rec == tasks[n].parked
           i == rec.instance
           content == IF rec.classification = StudioDeleted THEN tree[i] ELSE tasks[n].content
       IN  engine' = CASE rec.classification = FsDeleted -> Forget(engine, i)
                       [] rec.classification # FsDeleted /\ content # Absent ->
                             Stamp(engine, i, content)
                       [] OTHER -> engine
    /\ Enter(n, "push")
    /\ UNCHANGED <<disk, tree, studio, toStudio, collected, toDaemon, quiet, nextTask,
                   backlog, used, budget, seen, replaced>>

\* and sends Studio what it read
PushLocal(n) ==
    /\ At(n, "push")
    /\ Send(tasks[n].parked.instance, tasks[n].content)
    /\ End(n)
    /\ UNCHANGED <<engine, disk, tree, studio, collected, toDaemon, quiet, nextTask,
                   backlog, used, budget, seen, replaced>>

-----------------------------------------------------------------------------
Users ==
    \E i \in Instance :
        \/ \E c \in Side : DiskEdit(i, c) \/ StudioEdit(i, c)
        \/ \E c \in Content : StudioCreate(i, c)

Plugin == (\E echo \in BOOLEAN : ApplyFrame(echo)) \/ DebounceEnds
          \/ \E i \in Instance : Flush(i)

Processor == (\E i \in Instance : FsEvent(i)) \/ \E ok \in BOOLEAN : ClientEvent(ok)

Resolvers ==
    \E n \in DOMAIN tasks :
        \/ \E ok \in BOOLEAN : CaptureDisk(n, ok)
        \/ KeepStudio(n) \/ TakeRecord(n) \/ RestoreRecord(n)
        \/ ReadTree(n) \/ StampLocal(n) \/ PushLocal(n)

Next ==
    \/ Users \/ Plugin \/ Processor \/ Resolvers
    \/ \E k \in DOMAIN engine.parked, keep \in {"local", "studio"} : Resolve(k, keep)
    \/ \E i \in Instance : WindowElapses(i)

Spec == Init /\ [][Next]_vars

\* The loops of the plugin, the processor thread and the spawned tasks keep
\* running; users and the window owe nothing
FairSpec == Spec /\ WF_vars(Plugin) /\ WF_vars(Processor) /\ WF_vars(Resolvers)

-----------------------------------------------------------------------------
(* Properties *)

\* The records are disciplined: an instance has at most one record, whose
\* classification says which sides exist (keep_studio and keep_local rely on
\* both); a parked instance has neither an unconfirmed edit nor a tombstone; and
\* the baseline under an unconfirmed edit is the content the edit replaced
RecordDiscipline == Disciplined(engine)

\* The step applies the plugin's push at the head of the client queue to i
AppliesPush(i) ==
    /\ toDaemon # << >> /\ toDaemon' = Tail(toDaemon)
    /\ Head(toDaemon).task = 0 /\ Head(toDaemon).inst = i
    /\ tree'[i] # tree[i]

\* A push is only applied over a file whose content Studio has held: no edit
\* made on disk is overwritten or deleted by a Studio change that was made
\* without it (conflict/mod.rs: "a push may only apply while the disk side
\* still matches the baseline")
NoBlindStep == \A i \in Instance : AppliesPush(i) => disk[i] \in seen["studio"][i]
NoBlindApply == [][NoBlindStep]_vars

\* A conflict is resolved over a copy: when the write of auto_keep_studio takes
\* the file, the content it replaces is in the backlog (auto_keep_studio: "the
\* disk side is copied into the backlog first ... and only then does Studio's
\* version take the file")
BackedUpFirst ==
    [][\A n \in DOMAIN tasks :
          LET i == tasks[n].parked.instance
          IN  /\ At(n, "applying") /\ tasks[n].kind = "auto"
              /\ n \in DOMAIN tasks' /\ tasks'[n].stage = "take"
              => disk[i] \in backlog[i] \cup {Absent, disk'[i]}]_vars

\* Where a content of i still exists
Held(i, c) ==
    \/ c \in {disk[i], tree[i], studio[i]} \cup backlog[i]
    \/ \E k \in DOMAIN toStudio : toStudio[k] = [inst |-> i, content |-> c]
    \/ \E k \in DOMAIN toDaemon : toDaemon[k].inst = i /\ toDaemon[k].content = c
    \/ i \in DOMAIN collected /\ collected[i] = c
    \/ \E k \in DOMAIN engine.parked :
          engine.parked[k].instance = i /\ c \in {engine.parked[k].fs, engine.parked[k].studio}
    \/ \E n \in DOMAIN tasks :
          tasks[n].parked.instance = i /\ c \in {tasks[n].parked.fs, tasks[n].parked.studio}

\* No edit disappears: a content one side has held still exists somewhere (on
\* a side, under way, in a conflict record, in the backlog), or the other side
\* has had it too, or a user who had it in view replaced it
Kept(side, i) ==
    \A c \in seen[side][i] \ {Absent} :
        \/ Held(i, c)
        \/ c \in seen["disk"][i] \cap seen["studio"][i]
        \/ c \in replaced[i]

\* No edit of a file is lost to Studio (Server::start: "the disk side goes to the
\* backlog so the edit that lost is recoverable for a day")
DiskEditsKept == \A i \in Instance : Kept("disk", i)

\* No edit made in Studio is lost to the disk (park: "nothing is ever silently
\* clobbered")
StudioEditsKept == \A i \in Instance : Kept("studio", i)

\* Nothing is under way for any instance
Quiescent ==
    /\ toStudio = << >> /\ toDaemon = << >>
    /\ DOMAIN collected = {} /\ DOMAIN tasks = {}
    /\ disk = tree

\* When everything has arrived, a baseline is what both sides hold
\* (conflict/mod.rs, `stamp`: "both sides now hold `hash` for `id`")
StampIsAgreement ==
    Quiescent =>
        \A i \in DOMAIN engine.baselines \ DOMAIN engine.pending :
            engine.baselines[i] = tree[i] /\ engine.baselines[i] = studio[i]

\* Every clash is resolved: the notifier's resolvers finish and leave no record
\* (Server::start: "A clash is never a question")
ClashesResolve == <>[](DOMAIN tasks = {} /\ engine.parked = << >>)
=============================================================================
