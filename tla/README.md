# wsync: a TLA+ verification project

wsync keeps a Roblox place open in Studio and a project directory on disk in
step, in both directions. A Rust daemon serves one project; a Studio plugin
(Luau) connects to it; a desktop program and a command line drive daemons. This
directory holds TLA+ models of the parts of that system whose correctness is a
matter of order and timing, the TLC configurations that check them on small
instances, and TLAPS proofs.

Paths below are relative to the repository (`src/core/...` is the daemon's Rust
code, `plugin/src/...` the plugin).

## 1. Inventory of the system

| Part | State it keeps | Operations | Talks to | What is hard |
|---|---|---|---|---|
| Conflict engine (`src/core/conflict`) | baseline, pending edit and tombstone per instance; parked conflicts | `on_fs_*`, `on_push_*`, `stamp`, `forget`, `take`, `restore`, `park`, `prune` | processor, resolvers, `/resolve` | decides from a window of 2 s of history what may overwrite what |
| Processor (`src/core/processor`) | one thread, a VFS receiver, a client receiver, the write fence | `on_vfs_event`, `on_client_event`, `write`, `fence` | VFS, tree, engine, message queue | two queues without a common order |
| VFS and watcher (`src/vfs`) | held events, self writes, pause flag | debouncer handler, release thread, `pause`/`resume`, `note_self_write` | processor, file system | echoes of the daemon's own writes against real edits of the same path |
| Tree, meta, snapshots (`src/core/tree.rs`, `meta.rs`, `snapshot.rs`) | the daemon's instances, the index from paths to ids, a generation | insert, update, remove | processor, server | an index kept in step with the tree |
| Message queue (`src/core/queue.rs`) | channels per listener, flow accounting | `subscribe`, `push`, `get`, `unsubscribe`, `disconnect` | processor, server | two locks taken one after the other |
| Plugin slot and bus (`src/server/ws`) | the one plugin, epochs, pending requests, watchers | `claim_ws`, `claim_longpoll`, `evict`, `release`, `register_request`, `resolve_request`, `fail_pending`, `emit` | plugin, HTTP handlers | a new plugin may claim the slot while the old one is still being cleaned up |
| Sync base (`src/server/sync_base.rs`) | the last agreed snapshot, the epoch, whether recording is on | `view`, `begin_compare`, `commit`, `on_disconnect`, `on_reconnect`, `tick`, `persist` | slot, divergence store, disk | what is recorded as agreed must have been delivered |
| Three-way merge (`src/server/three_way.rs`) | none | `classify` and its callers | divergence | a table of cases |
| Divergence store (`src/server/divergence.rs`) | uploaded compares, rows, decisions | upload in chunks, `apply`, `invalidate` | plugin, bulk apply | a compare that outlives the connection it was made on |
| Requests and operations (`request.rs`, `operation.rs`, `audit.rs`) | receipts, running operations | start, answer, time out, disconnect, retain | plugin, clients | late answers |
| Bulk apply, backlog (`bulk.rs`, `backlog.rs`) | backup directories, retention | capture, prune, restore | resolvers, divergence | a failure half way |
| Crash guard (`crash_guard.rs`), lifecycle (`lifecycle.rs`) | a marker file, phase and readiness | connect, settle, shutdown | server, plugin | a crash between two steps |
| Resolution (`src/resolution.rs`, `sessions.rs`, `workspace.rs`) | session registry, workspaces | register, resolve, prune | CLI, desktop | processes that share files |
| Plugin core (`plugin/src/Core`) | sync loop, syncback loop, aggregate of changes | apply frames, collect and flush changes | daemon | its own changes seen as the user's |
| Plugin transport, discovery (`plugin/src/Transport`, `Discovery`) | socket or long poll, session, candidates | connect, reconnect, fall back | daemon | reconnecting to what may be another daemon |
| Projection (`src/core/snapshot.rs`, `processor`, `helpers`, `src/middleware`) | which files stand for which instance; the journal of a reshape | read a folder, follow an event, write a change, reshape, recover | VFS, tree | a name, a folder or a data file that changes the meaning of its neighbours; a crash between two renames |
| Verify, wait-synced (`verify.rs`, `synced.rs`) | a report; a barrier | compare page by page; wait for everything on the way | VFS, processor, queue, plugin | looking at moving parts one after the other |
| Daemon process (`src/daemon.rs`, `src/cli/daemon.rs`, `serve.rs`, `stop.rs`) | runtime record, start lock, session registry, ports | start, stop, restart, serve | other processes | processes that share nothing but files and ports |
| Live commands (`src/cli/live`) | files they write; jobs, transfers and renders in the plugin | write, playtest, capture, transmit, copy, paste | daemon, plugin | two commands at once; lost answers; bounded stores |
| Workflows (`src/cli/workflow.rs`) | journal, lock | validate, run, replay | daemon, plugin | atomic groups over a connection that drops |
| Open Cloud commands (`src/cli/cloud.rs`, `upload.rs`, `monetization.rs`, `auth.rs`) | the stored key | upload, create, update | Roblox services | a request carried out whose answer is lost |
| Desktop daemons (`desktop/src-tauri/src/daemon.rs`) | registry, supervisors, heartbeats | start, stop, adopt, sweep | daemons | two tasks that report one death; ends of parent and child |
| Desktop broker and stores (`broker.rs`, `plugin_install.rs`, `secrets.rs`, `commands.rs`, `app.js`; `plugin/scripts/build.mjs`) | state document, projects folder, installed plugin, key | create a project, install, set, clear | webview, plugin, OS | clicks and retries; documents written whole |
| Configuration, project files, docs generator, other commands | files | parse, build, print | everything | formats, not order |

The properties that make each part correct are listed with its module below; the
hazards, each at its line, are in `PROJECT.json`.

## 2. Plan

Modelled:

1. What may overwrite what in a live session: `ConflictEngine`, `ConflictSession`.
2. What a connect decides, applies, pushes and records: `ThreeWay`, `SyncBase`,
   `ConnectPlan`, `Reconnect`; its failures and its backups file by file: `StudioFirst`.
3. Connections, cleanup, compare, writer, restarts and safe mode: `CrashGuard`,
   `SyncSession`; the slot with its two kinds of connection: `PluginSlot`.
4. The way of an edit from file to Studio and the barrier over it: `Pipeline`;
   the locks of the queue: `MessageQueue`; the wire: `Frames`.
5. Requests: `RequestRouter`, which implements the abstract `RequestContract`.
6. Files and instances: `Projection`, `Sidecar`, `Verify`.
7. Processes: `DaemonStart`, `DaemonRegistry`, `Broker`, `HostStores`.
8. Commands: `Workflow`, `Playtest`, `Transfers`, `LiveWrite`, `Cloud`.

Proved: records of clashes (`ConflictProofs`), what a connect decides and merges
(`PlanProofs`) and what that does to both sides (`ReconnectProofs`), requests
(`RequestProofs`), connects, crashes, the base's writer and that what it records was
delivered (`SessionProofs`), the compare
upload and the queue's broadcast (`SlotProofs`), wait-synced (`PipelineProofs`), one daemon
per project and one alert per incident (`DaemonProofs`).

## 3. The modules

### 3.1 ConflictEngine, ConflictSession

`ConflictEngine` is the value behind the engine's mutex (`EngineState`: baselines,
pending edits, tombstones, parked conflicts, the next id) and one operator per
method. A content is a hash; a side is a content or `Absent`. A method that may
notify returns an `Outcome`: the engine, the decision and the record it hands to the
notifier. Time is a flag: an entry is `expired` once the race window has passed.

`ConflictSession` is a connected session around it. Its state: the files (`disk`),
the daemon's tree, Studio, the frames on their way to Studio, what the plugin has
collected and what it has sent, the resolver tasks and the backlog. Its actions:

| Action | Code |
|---|---|
| `FsEvent` | `on_vfs_event`, the whole event under the tree lock |
| `ClientEvent` | `on_client_event` for a batch of one, from the plugin or from a resolver |
| `ApplyFrame`, `DebounceEnds` | the plugin's sync loop and the end of SYNCBACK_DEBOUNCE |
| `Flush` | its syncback loop |
| `CaptureDisk`, `KeepStudio`, `TakeRecord` | `auto_keep_studio`, one step per lock |
| `Resolve`, `ReadTree`, `StampLocal`, `PushLocal`, `RestoreRecord` | POST /resolve |
| `WindowElapses` | the window of an entry passes |
| `DiskEdit`, `StudioEdit`, `StudioCreate` | users (external) |

`Races` names the timings a configuration adds to plain interleaving; the module's
head lists them. What the code promises depends on them: a push that arrives after
the race window, say, is judged without the edit it races with. A configuration states
the timings under which a property holds.

### 3.2 ThreeWay, SyncBase, ConnectPlan, Reconnect

`ThreeWay` is `classify`. An input names the difference, the keys of the two sides
(each possibly unknown) and what Studio has below. `SyncBase` has the methods of the
sync base as operators on its one value; `tick`, which lets go of the lock in the
middle, is `TickHead` and `TickTail`. `ConnectPlan` turns two trees into the items a
plugin reports (`Diff`), the winners, the disk after the apply (`Merged`: the stage,
what is demoted in it, what is carried over), the copies in the backlog and the
pushes. `Reconnect` puts these together with a connect as one step: both sides are
edited apart, connect, and the pushes arrive or do not. A `setting`, chosen in the initial
state, names the paths in use and the mishaps of a behaviour.

### 3.3 CrashGuard, SyncSession

`CrashGuard` is the marker, safe mode, the settle timers, and who has decided to remove the
marker and has not done so yet: `clear_if_current` and `resume` let go of their lock before
they remove the file, so the decision (`SettleElapses`, `ResumeByHand`) and the removal
(`MarkerGoes`) are two steps. A resume may come at any time, in safe mode or not. With the
race `"late unlink"` a connect may begin between a decision and its removal, with `"early
resume"` somebody resumes while a connect runs or has not settled. `SyncSession` takes a
connect apart. A connection goes `claimed`, `open`, `closing` (loop ended), `released`
(slot free), `unsubscribed`, `gone` (sync base told): the four steps of
`cleanup_plugin`, between which anything may happen. The plugin dials, says hello,
fetches the tree, uploads its compare and waits; `connect_commit` is a task with the
stages `apply`, `push`, `snap` and `commit`, which goes on when its plugin leaves. The
writer samples, commits, takes and stores. A crash may come at any step and keeps the
disk, the base's file and the marker.

### 3.4 The way of an edit: Pipeline, MessageQueue, Frames

`Pipeline` follows a content (a number, later ones larger) from the file to Studio. The
debouncer's flush pass reads, emits and ends (`PassStart`, `PassReads`, `PassEmits`,
`PassEnds`); while the daemon writes a file of its own, events are held and
released later (`ReleaseHeld`), and the echo of a write is told from an edit by the
recorded self-write, as in `vfs/debouncer.rs`. An event is its path; those of one pass, and
those that are held, are sets and are sent on in any order. The processor thread takes events and
pushes and raises its fence; the queue counts what is pushed, taken and acknowledged; a
bridge thread moves messages to the socket; the plugin applies. `wait-synced` is a
task that looks at one of these after the other, as `run_barrier` does.

`MessageQueue` is the queue's two locks: `listeners` and `queues`. Every operation is
cut where it lets go of one lock and takes the next, and a thread that unwraps a channel
that is not there panics.

`Frames` is one connection's wire. Downwards `Chunks` of a change set are cut in halves
until they keep both limits; upwards a frame is parsed, checked, decoded and handed to the
processor, whose results return through the pump.

### 3.5 Who is connected, and requests: PluginSlot, RequestRouter, RequestContract

`PluginSlot` has the slot, the connections that want it (sockets and pollers), the eviction
of a silent poller, the four steps of a cleanup, the compare upload in
chunks that may arrive after they were given up, the watchers and what the sync base
believes. `RequestRouter` is POST /request with the pending table, the receipts, the audit log, the
deadline, and the connections whose cleanup fails what is pending, interleaved at every
lock. Receipts are dropped by age and for want of room, when an operation begins and when
one is read (`ReadReceipt`, GET /operations).

`RequestContract` is what a caller may rely on, in two variables: what Studio did of a
request, and what its caller was told. A request told "notStarted" has not run and never
will; one told "completed" has. `RequestRouter` instantiates it with a mapping from its
state and the run `requests` checks the abstract specification as a property.

### 3.6 Files and instances: StudioFirst, Projection, Sidecar, Verify

`StudioFirst` is the disk half of a connect: stage, fence, rename away, rename in,
markers, backups and their pruning, the move of what lost into the backlog, and the
backlog's own endpoints. Every call may fail, the daemon may die between two steps, and
the user may save at the moments `EditWindow` lists.

`Projection` reads a project's files as instances and writes instances as files. A path is
a folder, a stem and a kind (a script of some class, an `init`, a data file, a folder).
Its actions are file events, additions, updates of source, name and properties, and
removals from Studio, the reshape of a script with its data file into a folder and back
under a journal, and crash, recovery and start.

`Sidecar` is a pure conversion and the operations around it: a value becomes untagged JSON
and a value again, by the declared type of its property. `Verify` is the comparison of
files, tree and Studio in chunks and pages while all three change.

### 3.7 Processes: DaemonStart, DaemonRegistry, Broker, HostStores

`DaemonStart` has processes that run `daemon start`, `stop`, `restart`, `serve` and
`stop`. Each read or write of the record, the lock, the registry or a port is
a step, each may be the last one of its process, and a probe of a living server may time
out. `DaemonRegistry` is the desktop program with its children: registry, supervisor,
heartbeat, the sweep at exit, and the watchdog in the daemon. `Broker` creates or adopts
the project of a game while clicks are repeated, requests time out, users delete folders and the
webview edits and writes back the list it has (`app.js`). A record has an id of its own, so a
game may get two. `HostStores` has the projects folder, builds of the plugin (`build.mjs`, which
writes the artifact, reads it back to hash it and writes the manifest, each file in an opening and a
closing step) that run beside each other and beside an installation, and the two stores of the
key.

### 3.8 Commands: Workflow, Playtest, Transfers, LiveWrite, Cloud

Each of these has processes that run one command each, in steps of one request or one file
operation, and the plugin's or the service's side of it: change-history recordings
(`Workflow`), jobs with a bounded queue of records (`Playtest`), renders, captures and
the clipboard (`Transfers`), the DataModel (`LiveWrite`), and what Open Cloud carried out
(`Cloud`). Answers get lost, processes get killed, and connections drop. A run of a playtest
ends in steps: its end is requested, the test is torn down, and then the terminal record is
queued, while results of clients are fetched by tasks of their own. Commands that write files
share one place, so that a file may be written by two of them, and a file remembers who wrote it last. Code
that `call` and `eval` run may give an instance any name, one with a slash or none included, though
`set`, `new` and `mv` refuse those.

### 3.9 The modules of the runs

`MCSyncSession`, `MCPipeline`, `MCRequestRouter` and `MCReconnect` extend their module.
`MCProgress` extends `PluginSlot` and `DaemonRegistry`, `MCServerParts` extends `MessageQueue`
and instantiates five modules beside it, `MCToolParts` extends `DaemonStart` and instantiates
seven. The two about clashes extend `ConflictSession` and instantiate it a second time, and
`MCSyncSession` instantiates `SyncSession` once more (`Resumed`) for the initial states of
`session_crashes` in which a further crash and a resume are allowed and no edit in Studio. In those
with several parts a behaviour belongs to one of
them: `scenario` or `part` says which, is chosen in the initial state and never changes, and the
variables of the rest stay as they are. So each property is checked on the whole state
space of the part it is about.

## 4. The runs

A passing run says that TLC found no counterexample in the whole state space of its
configuration.

| Run | What it shows | Bounds | Distinct states |
|---|---|---|---|
| `conflict_records` | `RecordDiscipline`: one record per instance, classified by its sides, no unconfirmed edit or tombstone beside it. `StudioEditsKeptLate`: a content Studio had survives somewhere, although a file is read late | two instances, one created during the run, a park of one, every timing; one instance, two disk edits | 44,000 |
| `conflict_resolved` | `DiskEditsKeptAlone`; `ClashesResolveAlone` (liveness); `NoBlindApplyByHand`: no push of the plugin overwrites a content Studio never held | a link of any speed, two edits on each side; one POST /resolve with failing writes | 334,000 |
| `reconnect` | `WinnersYield`, `SoleMoverWins`, `Converged`, `AgreedWasDelivered`, `DiskKept` | two edits on each side and two connects, of a directory with two scripts or of two scripts with lost or unsettled pushes, old plugins, class changes | 432,000 |
| `session_agreed` | `AgreedWasDelivered`, `InSync`, `ConnectionHeld` | two connections, one edit on each side, blips, a slow link, an unwritable file, one crash | 2.9 million |
| `session_catches_up` | `CatchesUp` (liveness) | two connections, edits also during a connect | 587,000 |
| `session_crashes` | `MarkerCovers`, `NoCrashLoop`, `DiskKept` | two places, two connections; one crash, or two crashes and one resume without edits in Studio | 2.9 million |
| `edit_pipeline` | `QuietBarrierDelivers`; `HeldEditsArrive` (liveness) | a folder and a file in it, one edit, one push or broken link | 612,000 |
| `requests` | `KeepsContract` (refinement), `LateAnswersAudited` | two requests, two operation ids, one receipt, a queue of one, two connections | 2.6 million |
| `progress` | `CommittedWhole`, `OneAlertPerIncident`; `ComesIn`, `DaemonsDieWithApp` (liveness) | a socket and a poller, two uploads of two chunks; one spawned child and one from a terminal, two hangs | 246,000 |
| `server_parts` | `LeaversAreServed`, `FramesInOrder`, `VerdictIsRight`, `NothingDestroyed`, `TreeIsProject`, `ReshapeKeeps`, `SavedIsRead` | see below | 1.3 million |
| `tool_parts` | `OneDaemon`, `OneProjectPerGame`, `VerifiedIsWhole`, `OutcomesHold`, `NothingLostSilently`, `TransfersHold`, `ExitIsTrue`, `ReportsAreTrue` | see below | 2.7 million |

The bounds are the smallest at which the races happen. Two edits of a side give one
that crosses and one that is made on top of it; two connections are a plugin that leaves
and one that comes while the first is cleaned up; three contents are the original and
one for each side; a directory with two children tells "the subtree grew" from "the
subtree changed"; two crashes are one that leaves the marker and one that could lose
it. One receipt for two requests is a receipt that is evicted while its answer is on the
way. In `server_parts`: two connections and two broadcasts; change sets of up to five
operations, cut at three operations and four bytes; three scripts in chunks of two and
pages of one; a file that is saved once, two connects and a crash, and two files of a root, two saves, one connect and a crash; a script, a script with a child and
an empty folder, two changes and a crash; eleven kinds of values and three operations. In
`tool_parts`: three processes in two mixes of commands with one crash or timeout; two requests of two
clicks on one game, any number of deletions of folders and of edits by the webview; a build by hand and
an installation that may start one of its own, with two saves of the sources; two runs of one key, one killed
and one blip; four records in a queue of three, read in pages of two, with one answer lost;
two transfers to one place with one fault, two pictures or clips of one name, and two renders at a time; two writers and one instance that is there and one that is
not; two Open Cloud commands, any of whose answers may be lost, beside the desktop program's keys.
Contents, sources, places, requests and processes only differ from each other, so they are
symmetric where a run is about safety. The mutants in `PROJECT.json` show that each bound
is large enough for its property to be broken.

**Fairness.** All of it is weak fairness of loops and spawned tasks that always come back
to their queue or timer:

- `conflict_resolved`: the plugin's loops, the processor thread, the spawned resolvers;
- `session_catches_up`: the cleanup, the connect's task, the plugin's sync loop and the
  writer (`spawn_writer`, `Core:__startSyncLoop`, the processor's `select!`);
- `edit_pipeline`: the debouncer's flush passes, the end of its window, the release
  thread and the processor. The link and the plugin owe nothing;
- `progress`: the passing of `LONGPOLL_EVICT_AFTER`, which makes a poller silent, and the
  server's own tasks; a child that was spawned starts, and its watchdog ticks. A daemon
  that hangs owes nothing, and neither does a dialling plugin: `ComesIn` holds of
  one that goes on trying.

Users, links, the race window and the plugin's dialling owe nothing anywhere. Deadlock is
checked for `SyncSession`, whose writer always ticks; the other models may come to rest,
when the budgets of users and faults are spent.

### 4.1 Disagreements between the code and its comments

The run `find_lost_frame` (`AgreedWasDelivered`) ends in a counterexample. A frame is
queued, its link drops and the plugin redials. `on_disconnect` remembers a generation
that already counts the edit, so `on_reconnect` resumes and the writer records what was
never delivered, against `sync_base.rs:25-26`: "An edit that was queued but never
delivered therefore cannot be recorded as agreed".

Five more statements have a counterexample, the first two with the race added to `Races` in
`SessionCrashes.cfg`, the others with the constants of `ToolParts.cfg`:

- `MarkerCovers` with `"late unlink"`: the settle of a connect looks at the generation, the next
  connect begins and writes its marker, and then the settle removes it. The test at
  `crash_guard.rs:252` says "An older connect's settle must not clear a newer connect's marker".
- `MarkerCovers` with `"early resume"`: POST /safe-mode/resume removes the marker of a connect
  that runs, safe mode or not, against `crash_guard.rs:7-8`. After either of the two a crash in the
  connect goes unnoticed, and the next daemon applies again.
- `NoSibling`: a user deletes the folder of a project, the next click makes a folder
  of the same name, and the old record and the new one both name it: two projects of one game,
  against `broker.rs:45-47`. In the shortest trace the folder goes before its record is merged.
- `VerifiedIsBuilt`: a build by hand and one started by an installation
  write one artifact. The digest of what one of them read back while the other wrote is that of a
  file nobody built, and the installation finds the same bytes: they are installed as verified,
  against `plugin_install.rs:11`.
- `NeverSilentlyLost`: the result of a client is being fetched when the test ends,
  or comes in during the teardown; it is neither a record nor counted, against `RunState.luau:12`.

The properties of the passing runs say the same with these cases left out: `MarkerCovers` without
the two races, `OneProjectPerGame` but for deleted folders and for records the webview wrote over
before it had heard of them, `VerifiedIsWhole` until two builds have run at the same time,
`NothingLostSilently` but for those results.

The rest of the "findings" of `PROJECT.json` are definitions of the modules that TLC
violates with the constants a finding names; each quotes the sentence it is against:

| Property | Module | Against |
|---|---|---|
| `StampIsAgreement` | `ConflictSession` | `conflict/mod.rs:243` |
| `ConnectionHeld` with `"slow cleanup"` | `SyncSession` | `sync_base.rs:24-25` |
| `Delivered` | `Pipeline` | `synced.rs:13-14` |
| `ListenersHaveChannels` | `MessageQueue` | `queue.rs:177`, an `unwrap` |
| `SilentNotRecorded` | `PluginSlot` | `sync_base.rs:430-431` |
| `NotDuplicated`, `RegistryKeeps` | `DaemonStart` | `daemon.rs:198-199`, `stop.rs:126` |
| `DeathShows` | `DaemonRegistry` | `desktop/README.md:350-351` |
| `StoresAgree`, `ListensAuthorized` | `HostStores` | `secrets.rs:245-246`, `commands.rs:168` |
| `CopiedCanBePasted`, `OwnPicture` | `Transfers` | `clipboard.rs:289`, `capture.rs:699-700` |
| `StopsOwn`, `DropsAccurate` | `Playtest` | `workflow.rs:2117`, `RunState.luau:12` |
| `ChangesAudited` | `LiveWrite` | `Handlers/Write.luau:17` |
| `SetAlwaysWins` | `Cloud` | `auth.rs:314` |
| `NothingDestroyed` with more of `EditWindow` | `StudioFirst` | `backlog.rs:9-10` |
| `OkMeansWritten` with runs that have no key | `Workflow` | `workflow.rs:20-24` |

These others were found the same way; the column says what to change in a
configuration to see them.

| Where | What happens | Property and configuration |
|---|---|---|
| `processor/mod.rs:536` | a push is judged against the tree while the watcher still owes an edit of the file | `NoBlindApply`, with `"unread file"` |
| `resolve.rs:353` | the file is saved again between the copy to the backlog and Studio's write | `BackedUpFirst`, with `"busy resolver"` |
| `conflict/mod.rs:320` | beyond the park limit the Studio side of a clash is dropped | `StudioEditsKept`, two instances and `ParkLimit = 1` |
| `resolve.rs:356` | the copy to the backlog fails and Studio's version takes the file all the same, though :338 says "the conflict is left parked" | `BackedUpFirst`, with `"write error"` |
| `divergence.rs:736`, `:742` | of a directory that is pushed, or whose deletion is, only the root is held; when the push is lost, the base is wrong about what is below | `DiskKept`, `SoleMoverWins`, nested paths with `"lost push"` |
| `divergence.rs:726` | a replay that failed is committed all the same | `AgreedWasDelivered`, with `"overloaded"` |
| `Processor/init.luau:120` | a class change is an addition and a removal at one path, hence ambiguous: Studio wins although only disk moved | `SoleMoverWins`, with `"retyped"` |
| `divergence.rs:566` | a sidecar that only disk had leaves no copy in the backlog | `DiskKept`, two values of `Rest` |
| `bulk.rs:669` | a sidecar the stage does not have is carried over, so the sides differ after the apply | `Converged`, two values of `Rest` |
| `sync_base.rs:415` | a push that arrived but is not recorded yet when the link drops comes back after Studio deletes it | `SoleMoverWins`, with `"unsettled"` |
| `divergence.rs:748` | a connect commits after its plugin has left and opens a synced session without one | `ConnectionHeld`, with `"lost connect"`, `"lost frame"`, `"edit in connect"` |
| `sync_base.rs:406` | a plugin that reports no place inherits that of an earlier one | `AgreedWasDelivered`, two places with `"no place"` |
| `bulk.rs:840` | the fence is captured when the apply starts, not when the plugin read the tree | `DiskKept`, with `"edit in connect"` |
| `sync_base.rs:439` | a blip drops the pending snapshot and keeps `last_generation`, so it is not taken again | `CatchesUp`, with `"blip"` |
| `crash_guard.rs:178` | stopping a daemon that is in safe mode ends safe mode for the next one | `NoCrashLoop`, with `"stop"` |
| `crash_guard.rs:172` | a connect that goes on after its plugin left is overtaken by the next one, whose settle timer clears the marker while the first still applies | `MarkerCovers`, with `"lost connect"` |
| `crash_guard.rs:172` | a resume decides to remove the marker, a connect begins, and then the marker is removed | `MarkerCovers`, with `"late unlink"` and a resume |
| `storage.rs:145-175` | the webview writes the list it has before it has heard of a project that was just made; the record is lost, and the next click makes a second project | `OneProjectPerGame` without `unseen` |
| `capture.rs:327-330`, `:951-953`, `playtest.rs:1815`, `transmit.rs:138` | default output names are the same for every command, clips are written as `<name>.<ext>` and the names in use are kept per command: of two commands, or two clips of one name, the later one has the file | `ReportsHold` without its proviso on who wrote last, or of `media` |
| `transmit.rs:482` | names are told apart by letter case, which some file systems do not | not modelled: a name is its file |
| `Paths.luau:9-11` | an instance that code or Studio named with a slash cannot be addressed by its path, or another one is | `UserCode` names them so; commands find what `Paths.resolve` finds |
| `upload.rs:352` | an asset that was made is reported as failed when the answer is lost | `ReportsAreTrue` speaks of what is reported as done |
| `commands.rs:439-441` | a source saved while a build runs is older than the artifact and not in it; the artifact does not count as stale and is installed | `CheckoutInstalled` of `HostStores` |
| `verify.rs:1` | a file the daemon has not read yet is in neither list: the verdict is clean although Studio lacks it | `CleanMeansSame` of `Verify` |
| `processor/write.rs:623-640` | a renamed folder takes its own sources along and leaves those of the instances below at the old path | `TreeIsProject`, with `RenameParents` |
| `helpers/syncback.rs:195-201` | a file whose name does not begin with the instance's name loses its extension when the instance is renamed | `TreeIsProject`, names with `Safe[n] # n` |
| `processor/write.rs:817`, `:869` | a folder that became a file again is set on the meta alone; the index from paths to ids keeps the folder | `Demoted` of `Projection` does the same; no property of a run breaks by it |
| `middleware/data.rs:207-212` | a rename to a name no file may have writes a sidecar without the `attributes` and `tags` keys the user wrote, which "ride along in both directions" (`Design.md:328`) | `SavedIsRead`, with `RenamesKeys` |
| `ws/mod.rs:366-378` | a rejected push is answered past the pump, so its result may overtake those of earlier pushes, though :204 says "strictly in application order" | `AcksInOrder` of `Frames` says it of applied pushes only |

## 5. The proofs

`ConflictProofs` proves, for any instances, contents, park limit, timings and
bounds:

- `SessionTyped`: `Spec /\ [][NoRestore]_vars => []TypeOK`;
- `RecordsDisciplined`: `Spec /\ [][NoRestore]_vars => []RecordDiscipline`.

The assumption `NoRestore` says that no step puts a record back after a failed POST
/resolve. It is needed: `resolve` takes the record out, the instance may clash again
meanwhile, and `restore` appends without looking, which leaves two records. The
constants' assumptions are `EngineAssumption` and `SessionAssumption`.

`RecordDiscipline` is not inductive. `keep_studio` and `keep_local` go by the record a
task holds, so every task's record must be classified by its sides (`TasksFine`); a push
without content must be a removal (`FinePush`); and an unconfirmed edit must be of an
instance the tree has (`EditsLive`), or a file that comes back would get a new baseline
under an edit of its earlier life. The invariant is `SessionInv`: `Good(engine)` together with these and
the types. `ConflictProofs` first shows, method by method, that the engine's operators keep
`Good`, then has one lemma per action and combines them.

`PlanProofs` is about what a connect computes from two trees, of any size and depth.
`ClassifyYields`: for every base and every input, the side that
`classify` takes without a copy is the one that was agreed, whole subtrees included. Its
core is `UntouchedIsEqual`: comparing the sizes and looking up every agreed
path is the same as equality of the two maps, because a finite set has no proper
subset of its size. The lemmas after it say what the differences are and what becomes of
them: every path at which the sides differ is at or below exactly one reported difference
(`Covers`, `DiffCovers`, `UnpairedUnique`); without sidecars the merge has disk's content at
what disk won and below, and Studio's everywhere else (`MergedAt`, `MergedDomain`); it is a
tree (`MergedTree`); and Studio holds it once the pushes are applied (`AppliedIsMerged`). "The topmost
path such that" needs an induction over the length of a path. It comes from the least member
of a set of natural numbers (`Least`, from the library's `WFMin`), which needs no operator
as a parameter.

`ReconnectProofs` proves, for any paths, contents and settings and any number of edits and
connects, with `D` for "no push finds the frame queue full, and pushes are lost with the link
only where no instance is below another" (`Delivers`):

- `ConnectYields`: `Spec => []WinnersYield`;
- `ConnectConverges`: `Spec /\ ~Happens("overloaded") => []Converged`;
- `BaseWasDelivered`: `Spec /\ D => []AgreedWasDelivered`;
- `ConnectKeepsDisk`: `Spec /\ D => DiskKept`;
- `SoleMoverWon`: `Spec => SoleMoverWins`.

All but the first assume that instances have no sidecars (`Rest = {Plain}`). The exclusions are
needed; the table in 4.1 says what happens with them. The invariants: both sides and the
base are about the paths of the setting (`Placed`); pushes that are under way take Studio to
where disk is, and once there are none the sides hold the same (`Heading`); an entry
of the base was held by both sides, or is what disk has strictly below a push that is under way
(`Backed`), for of a directory that is pushed only the root is held back from the record; and
between a connect that was recorded and the next the base is the last agreement (`Steady`).
`SoleMoverWins` then follows from what `classify` does with a side that equals the base
(`DiskYields`, `StudioYields`).

`RequestProofs` proves, for any number of requests, operation ids, connections and
receipts and any capacity of the plugin's queue:

- `RequestsKeepContract`: `RouterSpec => KeepsContract`, that `RequestRouter` implements
  `RequestContract`: initial states map to initial states, and each step to a run, an answer
  or a stutter;
- `ReportedChangesAudited`: `RouterSpec => []LateAnswersAudited`.

The invariant is `RouterInv`. For the contract: a request on a link has not run and nobody
was told "notStarted" of it (`LinksFine`), it is on a link once (`NoRepeats`), and the
answer that wakes a caller is the one to its request and says what was done (`WakeFine`).
For the log: the receipt of a request whose answer is still to come is open, or the request
is in `lost` (`Unsent`, `OnTheWay`, `InHand`), and a sender is dropped only by the cleanup
of the caller's own connection (`DroppedByOwn`). `lost` is a history variable: an answer
that goes with its link, a receipt that is dropped, a request that another connection's
cleanup fails. An attempt to prove `Unsent` for an earlier version of the module failed for a good
reason: `operation.rs` also drops receipts by age and when one is read, which the module
left out. It has both now.

`SessionProofs` proves, for any trees, places and connections, any number of edits and
crashes, and any `Races` but those named in the theorem:

- `ConnectsAreMarked`: `[]MarkerCovers`, without `"lost connect"`, `"unsaved"`, `"late unlink"`
  and `"early resume"`;
- `CrashesDoNotLoop`: `NoCrashLoop`, without these and `"stop"`;
- `SnapshotsOfOneConnection`: `ConnectionHeld`, without `"lost connect"` and
  `"slow cleanup"`.

Each exclusion is needed: with `"lost connect"` a connect goes on after its plugin left, and the
settle timer of the next one clears its marker; with `"unsaved"` there may be no marker; the
others are in 4.1. What makes the properties inductive: both ends of a connection
agree how far it is, and only the plugin's own one is alive (`Links`); a connect that changes
something is the last one begun, has not settled and its plugin waits for it (`Connecting`);
while such a connect runs or has not settled, the marker is there and nobody has decided to remove it (`Covered`);
a daemon after one that died is in safe mode and keeps the marker (`Safe`); the slot has one
owner (`OneLink`); and a snapshot the writer holds or has handed over, if its epoch is still
current, was taken on the connection that has the slot (`WriterInv`).

It also proves three properties of the whole session, for scripts none of which is below another
(`Flat`), without sidecars (`Rest = {Plain}`), and for every `Races` without `"lost frame"`,
`"edit in connect"`, `"no place"`, `"lost connect"` and `"slow cleanup"` (`Orderly`); blips, slow
links, unwritable files, crashes and stops remain:

- `RecordedWasDelivered`: `Orderly /\ Spec => []AgreedWasDelivered`;
- `ConnectsEndInSync`: `Orderly /\ Spec => []InSync`;
- `AppliesKeepDisk`: `Orderly /\ Spec => DiskKept`.

`Flat` and `Rest = {Plain}` hold of the runs `session_agreed` and `session_crashes`, which check
these properties, and so does `Orderly`; nested trees are the subject of `ReconnectProofs`, where a
connect is one step. The exclusions: for `DiskKept` TLC finds a violation with each of the five
(added to `session_agreed`, `"no place"` with two places), for
`AgreedWasDelivered` with each but `"edit in connect"`, for `InSync` with each but `"no place"`;
the proof uses all five for all three because they rest on one invariant, `Flowing`. Its parts: what the base or its
file says was delivered, that is, held by Studio or on the plugin's queue (`Recorded`); while
the base records, or would when the plugin comes back, what is on disk was delivered (`DiskAgreed`)
and both sides are the same once the queue has arrived (`InStep`); a snapshot that is still
current was delivered, whether it waits in the base or with the writer (`Waits`, `WriterBooks`); a
connect under way has read the tree there is, its queue is empty until it pushes, and what it pushes is all that
Studio has not (`Calm`, `Jobs`); and the base records nothing meanwhile. A step is then judged by
whether what was delivered still is (`Flows`) and whether the base records more than before
(`Quieter`).

`SlotProofs` proves `CompareIsWhole`: `SlotSpec => []CommittedWhole`, for any number of
sockets, pollers, chunks, submissions and dials. The invariant `SlotInv` says of an upload
under way that it is the first chunks of one submission, and of every chunk on its way that its
submission was started. It also proves `BroadcastReachesLeavers`:
`QueueSpec => []LeaversAreServed`, for any number of connections and messages. A broadcast's
loop holds the list of listeners, so whoever it has yet to serve is still listed (`LoopFine`), who is
listed is subscribing, live or leaving (`ListedFine`), and the last two have a
channel (`ChannelsFine`).

`PipelineProofs` proves `WaitSyncedIsTrue`: `PipelineSpec => []QuietBarrierDelivers`, for
any set of paths, any order of folders above files and any number of edits, pushes and
lost links. The property speaks of the end of a barrier, so the invariant follows an edit
there. An edit the tree has not taken has an event at one of the watcher's stages (`EditsInv`);
from Studio over socket, bridge and queue to the tree the contents of a path only grow, and the
tree's is the last of them (`StreamInv`); the flow counters number the queue's messages; and
at each stage of the barrier what it was asked for has passed the corresponding stage of
the way (`PromiseInv`, `StageInv`). `NotYet` and `QuietInv` say that a barrier which nobody
disturbed finds no event held.

`DaemonProofs` proves `NoSecondDaemon`: `DaemonSpec => []OneDaemon`, for any number of
processes, ports and faults and any mix of commands. Its assumption is
`DaemonStartAssumption`: process ids are positive and there is a port. The property's own
proviso stays: the record of a daemon that served was written, and no other process unlinked
it unread or in a stop. A second daemon must be ruled out long before it binds, which makes
the invariant `DaemonInv`: from the lock to the registration a start holds the lock (`Locked`); a daemon at work listens on
its own port (`PortsHeld`, `Bound`) and is the one the record names (`Recorded`); what a start
has read of the record is still so when it probes (`Probing`), so that a daemon that lives is
either heard or, if it does not answer, not taken for dead; and from finding none until its
own record is written there is none (`Single`). Most actions concern a process that has no
claims any more (`CalmKeeps`); the others are judged by what the process may claim where it
goes (`PhaseKeeps`); only `WriteRecord` makes a daemon. It also proves `AlertsOnce`:
`RegistrySpec => []OneAlertPerIncident`, for any number of children, spawns, failures and hangs:
while an alert counts, the flag that the supervisor and the heartbeat both swap is up
(`RegistryInv`).

Only model-checked, and why:

- the liveness properties (`ClashesResolveAlone`, `CatchesUp`, `HeldEditsArrive`, `ComesIn`,
  `DaemonsDieWithApp`), which need fairness;
- what `Sidecar` converts, `Frames` cuts and `LiveWrite` resolves, which are recursive over data;
- `AgreedWasDelivered` of `SyncSession` with `"edit in connect"` and `InSync` with `"no place"`, which
  TLC finds to hold of the instance above (1.4 and 6.4 million states) but `Flowing` does not cover;
- `StudioEditsKeptLate`, `DiskEditsKeptAlone`, `NoBlindApplyByHand`, which hold of the bounded
  timings of their runs and not of every `Races`;
- the properties of the other processes and commands. Their modules have few components and many
  program counters: an invariant would list what each holds at each of them, and the runs cover
  all of that with two or three processes.

## 6. What is left out

Contents, sources and keys are opaque: hashing, JSON and TOML text and image
encoding are left out, property values excepted, which `Sidecar` converts. Of the file
formats `Projection` has scripts, folders, `init` files and data files; the others (JSON,
TOML, CSV, text, models) only differ in their conversion. Splicing into project files,
nested projects and ignore globs are left out.

`divergence.rs` 1047-1578, in which a user chooses a side for each row of a
review, is left out: no plugin in this repository asks for it. `SyncSession` lets Studio
be edited only while its plugin is offline, because two live sides are the subject of
`ConflictSession`; a compare is one chunk there, because chunks are the subject of
`PluginSlot`. The desktop program's windows and updater, the plugin's widgets and discovery, the
documentation generator, linting, building and the commands that print something are
functions or user interface and have no module; `PROJECT.json` lists them.

`Sidecar`'s property is about the values Roblox properties take in practice. The
conversion also has losses its instance leaves out: an optional CFrame without a value is
written as `null` and read as nothing, a binary string that is not UTF-8 becomes
empty, a shared string becomes a string, an infinity inside a nested array has no number,
and an attribute named like one of the kinds is read as that kind. The code rounds to six
decimals, where `Design.md:146` speaks of four.
