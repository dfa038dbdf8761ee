---------------------------- MODULE MCServerParts ----------------------------
(***************************************************************************)
(* Six parts of the server, on constants of their own: a behaviour is one  *)
(* of the part that `part` names.                                          *)
(***************************************************************************)
EXTENDS MessageQueue, Integers, TLC

VARIABLES
    part,
    changes, pending, frames, greeted, uploads, processor, results, pump, out, disk, tree,
    studio, unread, unsent, verify, report, quiet, live, watched, paused, op, backup, staging,
    entries, stored, index, written, today, saves, crashes, owed, paths, lastId, events, job,
    who, edits, clean, file, original, steps

-----------------------------------------------------------------------------
(* The instances *)

Ops(n) == {[i \in 1 .. n |-> [kind |-> <<"addition", "addition", "update", "update", "removal">>[i],
                              id |-> i, bytes |-> b[i]]] : b \in [1 .. n -> {1, 3}]}
ChangeSets == UNION {Ops(n) : n \in 0 .. 5}
Hellos ==
    [json : {TRUE}, type : {"hello"}, protocol : {"this one", "another"},
     role : {"plugin", "unknown"}, clientId : {"id", "missing"}]
    \cup [json : {FALSE}, type : {"push"}, protocol : {"this one"}, role : {"plugin"}, clientId : {"id"}]
GoodOps == [there |-> TRUE, object |-> TRUE, refs |-> {"hex"}, decodes |-> TRUE]
Uploads ==
    {[json |-> TRUE, type |-> t, ops |-> GoodOps] : t \in {"push", "ping", "pong"}}
    \cup {[json |-> TRUE, type |-> "push", ops |-> [GoodOps EXCEPT !.refs = {"hex", "bad"}]],
          [json |-> FALSE, type |-> "push", ops |-> GoodOps]}

Fr == INSTANCE Frames WITH
    ChangeSets <- ChangeSets, MaxOps <- 3, MaxBytes <- 4, Hellos <- Hellos, Uploads <- Uploads,
    MaxUploads <- 3, FrameRoom <- 2

Vf == INSTANCE Verify WITH
    Script <- {"a", "b", "g"}, Text <- {"t", "u"}, Generated <- {"g"}, KeptUnknown <- {"a"},
    FullScope <- TRUE, Backlogged <- {"b"}, Bytes <- [t \in {"t", "u"} |-> IF t = "t" THEN 1
    ELSE 2], ChunkEntries <- 2, ChunkBytes <- 3, PageSize <- 1, MaxChanges <- 2

\* A save is lost that falls between the comparison with a held copy and its removal ("same"); of two files
\* in a root, one of which leaves, also one that falls between the swap and the removal
BeforeSwap == {"idle", "transfer", "pull", "stage", "recheck", "prepare", "away", "in", "failed"}
SavesDuring == BeforeSwap \cup {"root", "refresh", "marker", "keep", "move", "push entry", "refresh entry", "kept"}

Fs == INSTANCE StudioFirst WITH
    Path <- {"a"}, RootOf <- [p \in {"a"} |-> 1], MaxSaves <- 1, EditWindow <- SavesDuring,
    SourceBytes <- 1, ReadChunk <- 1, KeepCount <- 1, KeepDays <- 0, EntryTtl <- 1, MaxDays <-
    1, MaxConnects <- 2, MaxEntries <- 1, MaxPending <- 1, MaxCrashes <- 1

Ft == INSTANCE StudioFirst WITH
    Path <- {"a", "b"}, RootOf <- [p \in {"a", "b"} |-> 1], MaxSaves <- 2, EditWindow <-
    BeforeSwap, SourceBytes <- 1, ReadChunk <- 1, KeepCount <- 1, KeepDays <- 0, EntryTtl <- 1,
    MaxDays <- 0, MaxConnects <- 1, MaxEntries <- 1, MaxPending <- 1, MaxCrashes <- 1

Entry(dir, stem, kind) == [dir |-> dir, stem |-> stem, kind |-> kind]
NoFields == [value |-> "-", class |-> "absent", extra |-> "-", original |-> "absent"]
Filled(E) ==
    [e \in E |-> CASE e.kind \in {"dir", "root"} -> NoFields
                         [] e.kind = "data" -> [NoFields EXCEPT !.extra = "e"]
                         [] OTHER -> [NoFields EXCEPT !.value = "v"]]
TopFolder == Entry(<<>>, "src", "root")
Disks ==
    {Filled({TopFolder}),
     Filled({TopFolder, Entry(<<>>, "x", "module"), Entry(<<>>, "x", "data")}),
     Filled({TopFolder, Entry(<<>>, "x", "dir"), Entry(<<"x">>, "init", "module"),
             Entry(<<"x">>, "init", "data"), Entry(<<"x">>, "y", "server")})}

Pj == INSTANCE Projection WITH
    Name <- {"x", "y"}, Safe <- [n \in {"x", "y"} |-> n], Class <- {"ModuleScript", "Script",
    "Folder"}, Value <- {"v", "w"}, Extra <- {"-", "e"}, FullScope <- FALSE, RenameInstances <-
    TRUE, IgnoreNames <- {}, IgnoreClasses <- {}, InitDisks <- Disks, Writers <- {{"disk"},
    {"studio"}}, RenameParents <- FALSE, MaxDepth <- 2, MaxEdits <- 2, MaxCrashes <- 1,
    MaxEvents <- 2

Types ==
    [Anchored |-> "Bool", Mass |-> "Float32", Size |-> "Vector3", Color |-> "Color3",
     Rotation |-> "CFrame", Position2 |-> "UDim2", Attributes |-> "Attributes",
     Material |-> "Enum", Physics |-> "PhysicalProperties", Tags |-> "Tags", Secret |-> "unknown"]

Sc == INSTANCE Sidecar WITH
    Prop <- DOMAIN Types, Declared <- Types, Customized <- {"Color"}, Number <- {-15, 10, 1000},
    Infinite <- 1000, One <- 10, AttrName <- {"k", "l"}, RenamesKeys <- FALSE, MaxSteps <- 3

ASSUME
    /\ Fs!StudioFirstAssumption
    /\ Ft!StudioFirstAssumption
    /\ Pj!ProjectionAssumption

-----------------------------------------------------------------------------
(* One of them runs, the variables of the others are not used *)

Unused(v) == v = "unused"

\* Nothing is broadcast
QueueIdle ==
    /\ holder = None
    /\ Unused(listeners) /\ Unused(queues) /\ Unused(task) /\ Unused(bridge) /\ Unused(broadcast) /\ Unused(panicked)

QuOthers == <<
    changes, pending, frames, greeted, uploads, processor, results, pump, out, disk, tree,
    studio, unread, unsent, verify, report, quiet, live, watched, paused, op, backup, staging,
    entries, stored, index, written, today, saves, crashes, owed, paths, lastId, events, job,
    who, edits, clean, file, original, steps>>

FrOthers == <<
    listeners, queues, holder, task, bridge, broadcast, panicked, disk, tree, studio, unread,
    unsent, verify, report, quiet, live, watched, paused, op, backup, staging, entries, stored,
    index, written, today, saves, crashes, owed, paths, lastId, events, job, who, edits, clean,
    file, original, steps>>

VfOthers == <<
    listeners, queues, holder, task, bridge, broadcast, panicked, pending, frames, greeted,
    uploads, processor, results, pump, out, live, watched, paused, op, backup, staging, entries,
    stored, index, written, today, saves, crashes, owed, paths, lastId, events, job, who, edits,
    clean, file, original, steps>>

FsOthers == <<
    listeners, queues, holder, task, bridge, broadcast, panicked, changes, pending, frames,
    greeted, uploads, processor, results, pump, out, disk, tree, studio, unread, unsent, verify,
    report, quiet, paths, lastId, events, job, who, edits, clean, file, original, steps>>

FtOthers == <<
    listeners, queues, holder, task, bridge, broadcast, panicked, changes, pending, frames,
    greeted, uploads, processor, results, pump, out, disk, tree, studio, unread, unsent, verify,
    report, quiet, paths, lastId, events, job, who, edits, clean, file, original, steps>>

PjOthers == <<
    listeners, queues, holder, task, bridge, broadcast, panicked, changes, pending, frames,
    greeted, uploads, processor, results, pump, out, studio, unread, unsent, verify, report,
    quiet, live, watched, paused, op, backup, entries, stored, index, written, today, saves,
    file, original, steps>>

ScOthers == <<
    listeners, queues, holder, task, bridge, broadcast, panicked, changes, pending, frames,
    greeted, uploads, processor, results, pump, out, disk, tree, studio, unread, unsent, verify,
    report, quiet, watched, paused, op, backup, staging, entries, stored, index, written, today,
    saves, crashes, owed, paths, lastId, events, job, who, edits, clean>>

QuInit ==
    /\ part = "queue" /\ QueueInit
    /\ Unused(changes) /\ Unused(pending) /\ Unused(frames) /\ Unused(greeted)
    /\ Unused(uploads) /\ Unused(processor) /\ Unused(results) /\ Unused(pump) /\ Unused(out)
    /\ Unused(disk) /\ Unused(tree) /\ Unused(studio) /\ Unused(unread) /\ Unused(unsent)
    /\ Unused(verify) /\ Unused(report) /\ Unused(quiet) /\ Unused(live) /\ Unused(watched)
    /\ Unused(paused) /\ Unused(op) /\ Unused(backup) /\ Unused(staging) /\ Unused(entries)
    /\ Unused(stored) /\ Unused(index) /\ Unused(written) /\ Unused(today) /\ Unused(saves)
    /\ Unused(crashes) /\ Unused(owed) /\ Unused(paths) /\ Unused(lastId) /\ Unused(events)
    /\ Unused(job) /\ Unused(who) /\ Unused(edits) /\ Unused(clean) /\ Unused(file)
    /\ Unused(original) /\ Unused(steps)

FrInit ==
    /\ part = "frames" /\ Fr!FramesInit
    /\ QueueIdle /\ Unused(disk) /\ Unused(tree) /\ Unused(studio) /\ Unused(unread)
    /\ Unused(unsent) /\ Unused(verify) /\ Unused(report) /\ Unused(quiet) /\ Unused(live)
    /\ Unused(watched) /\ Unused(paused) /\ Unused(op) /\ Unused(backup) /\ Unused(staging)
    /\ Unused(entries) /\ Unused(stored) /\ Unused(index) /\ Unused(written) /\ Unused(today)
    /\ Unused(saves) /\ Unused(crashes) /\ Unused(owed) /\ Unused(paths) /\ Unused(lastId)
    /\ Unused(events) /\ Unused(job) /\ Unused(who) /\ Unused(edits) /\ Unused(clean)
    /\ Unused(file) /\ Unused(original) /\ Unused(steps)

VfInit ==
    /\ part = "verify" /\ Vf!VerifyInit
    /\ QueueIdle /\ Unused(pending) /\ Unused(frames) /\ Unused(greeted) /\ Unused(uploads)
    /\ Unused(processor) /\ Unused(results) /\ Unused(pump) /\ Unused(out) /\ Unused(live)
    /\ Unused(watched) /\ Unused(paused) /\ Unused(op) /\ Unused(backup) /\ Unused(staging)
    /\ Unused(entries) /\ Unused(stored) /\ Unused(index) /\ Unused(written) /\ Unused(today)
    /\ Unused(saves) /\ Unused(crashes) /\ Unused(owed) /\ Unused(paths) /\ Unused(lastId)
    /\ Unused(events) /\ Unused(job) /\ Unused(who) /\ Unused(edits) /\ Unused(clean)
    /\ Unused(file) /\ Unused(original) /\ Unused(steps)

FsInit ==
    /\ part = "first sync" /\ Fs!FirstInit
    /\ QueueIdle /\ Unused(changes) /\ Unused(pending) /\ Unused(frames) /\ Unused(greeted)
    /\ Unused(uploads) /\ Unused(processor) /\ Unused(results) /\ Unused(pump) /\ Unused(out)
    /\ Unused(disk) /\ Unused(tree) /\ Unused(studio) /\ Unused(unread) /\ Unused(unsent)
    /\ Unused(verify) /\ Unused(report) /\ Unused(quiet) /\ Unused(paths) /\ Unused(lastId)
    /\ Unused(events) /\ Unused(job) /\ Unused(who) /\ Unused(edits) /\ Unused(clean)
    /\ Unused(file) /\ Unused(original) /\ Unused(steps)

FtInit ==
    /\ part = "two files" /\ Ft!FirstInit
    /\ QueueIdle /\ Unused(changes) /\ Unused(pending) /\ Unused(frames) /\ Unused(greeted)
    /\ Unused(uploads) /\ Unused(processor) /\ Unused(results) /\ Unused(pump) /\ Unused(out)
    /\ Unused(disk) /\ Unused(tree) /\ Unused(studio) /\ Unused(unread) /\ Unused(unsent)
    /\ Unused(verify) /\ Unused(report) /\ Unused(quiet) /\ Unused(paths) /\ Unused(lastId)
    /\ Unused(events) /\ Unused(job) /\ Unused(who) /\ Unused(edits) /\ Unused(clean)
    /\ Unused(file) /\ Unused(original) /\ Unused(steps)

PjInit ==
    /\ part = "projection" /\ Pj!ProjInit
    /\ QueueIdle /\ Unused(changes) /\ Unused(pending) /\ Unused(frames) /\ Unused(greeted)
    /\ Unused(uploads) /\ Unused(processor) /\ Unused(results) /\ Unused(pump) /\ Unused(out)
    /\ Unused(studio) /\ Unused(unread) /\ Unused(unsent) /\ Unused(verify) /\ Unused(report)
    /\ Unused(quiet) /\ Unused(live) /\ Unused(watched) /\ Unused(paused) /\ Unused(op)
    /\ Unused(backup) /\ Unused(entries) /\ Unused(stored) /\ Unused(index) /\ Unused(written)
    /\ Unused(today) /\ Unused(saves) /\ Unused(file) /\ Unused(original) /\ Unused(steps)

ScInit ==
    /\ part = "sidecar" /\ Sc!SidecarInit
    /\ QueueIdle /\ Unused(changes) /\ Unused(pending) /\ Unused(frames) /\ Unused(greeted)
    /\ Unused(uploads) /\ Unused(processor) /\ Unused(results) /\ Unused(pump) /\ Unused(out)
    /\ Unused(disk) /\ Unused(tree) /\ Unused(studio) /\ Unused(unread) /\ Unused(unsent)
    /\ Unused(verify) /\ Unused(report) /\ Unused(quiet) /\ Unused(watched) /\ Unused(paused)
    /\ Unused(op) /\ Unused(backup) /\ Unused(staging) /\ Unused(entries) /\ Unused(stored)
    /\ Unused(index) /\ Unused(written) /\ Unused(today) /\ Unused(saves) /\ Unused(crashes)
    /\ Unused(owed) /\ Unused(paths) /\ Unused(lastId) /\ Unused(events) /\ Unused(job)
    /\ Unused(who) /\ Unused(edits) /\ Unused(clean)

PartInit == QuInit \/ FrInit \/ VfInit \/ FsInit \/ FtInit \/ PjInit \/ ScInit

PartNext ==
    \/ part = "queue" /\ QueueNext /\ UNCHANGED <<part, QuOthers>>
    \/ part = "frames" /\ Fr!FramesNext /\ UNCHANGED <<part, FrOthers>>
    \/ part = "verify" /\ Vf!VerifyNext /\ UNCHANGED <<part, VfOthers>>
    \/ part = "first sync" /\ Fs!FirstNext /\ UNCHANGED <<part, FsOthers>>
    \/ part = "two files" /\ Ft!FirstNext /\ UNCHANGED <<part, FtOthers>>
    \/ part = "projection" /\ Pj!ProjNext /\ UNCHANGED <<part, PjOthers>>
    \/ part = "sidecar" /\ Sc!SidecarNext /\ UNCHANGED <<part, ScOthers>>

ServerPartsSpec == PartInit /\ [][PartNext]_<<part, queueVars, QuOthers>>

-----------------------------------------------------------------------------
\* The frames of a change set carry it whole and in its order and keep both limits,
\* and the results of pushes arrive in the order of the pushes, each once, although
\* three tasks hand them on (ws/frames.rs chunk, ws/mod.rs; FramesCarry and
\* AcksInOrder of Frames).
FramesInOrder == part = "frames" => Fr!FramesCarry /\ Fr!AcksInOrder

\* A verify during which nothing changed says clean exactly when the tree, the
\* files and Studio agree, however the checks fall into chunks and pages
\* (verify.rs, main).
VerdictIsRight == part = "verify" => Vf!VerdictIsRight

\* A user's version of a file is on disk somewhere until he drops it or it is
\* pruned, whatever fails or crashes, and whenever he saves it, but for the two
\* moments named above (bulk.rs apply_root, backlog.rs capture).
NothingDestroyed ==
    /\ part = "first sync" => Fs!NothingDestroyed
    /\ part = "two files" => Ft!NothingDestroyed

\* When the daemon has handled what there was, its tree is what the next start
\* would read from the files (process_changes, apply_addition, apply_update,
\* apply_removal).
TreeIsProject == part = "projection" => Pj!TreeIsProject

\* A script that was becoming a folder, or a folder a script, when the daemon was
\* killed is there again after the next start, source and properties included
\* (reshape.rs).
ReshapeKeeps == part = "projection" => Pj!ReshapeKeeps

\* Reading a sidecar gives back what Studio set, through any sequence of writes,
\* hand edits and renames (data.rs, resolution.rs).
SavedIsRead == part = "sidecar" => Sc!SavedIsRead
=============================================================================
