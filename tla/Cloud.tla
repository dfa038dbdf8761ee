------------------------------- MODULE Cloud -------------------------------
(***************************************************************************)
(* The commands that change something at Roblox Open Cloud: `wsync upload` *)
(* (cli/upload.rs), `wsync monetization` (cli/monetization.rs), the client *)
(* they share (cli/cloud.rs), and the store their key comes from, which    *)
(* `wsync auth` (cli/auth.rs) and the desktop program (secrets.rs) write.  *)
(*                                                                         *)
(* A command is a process: it plans, then makes one request after another. *)
(* A request may not arrive, may be refused, or may be carried out and its *)
(* answer lost; nothing is retried.  What Open Cloud carried out is `log`, *)
(* and a record's "at" is a place in it.  Printing and the table layouts   *)
(* are left out.                                                           *)
(***************************************************************************)
EXTENDS Naturals, Sequences, FiniteSets, SequencesExt

CONSTANTS
    Command,        \* processes; each runs one job
    Jobs,           \* by command: what its command line may ask for
    DirFiles,       \* the files of a directory, in the order of the walk
    Hidden,         \* the ones whose name begins with a dot
    Ext,            \* by file: its extension, in lower case
    Normal,         \* by name or file: lowercase alphanumerics only
    Keychain,       \* the desktop program's key in the OS keychain, or None
    Listings,       \* what the universes may hold to begin with
    MaxAppKeys      \* keys the desktop program puts into the file

None == "none"
Missing == "missing"

VARIABLES
    cmd,            \* by command: its job and how far it is
    log,            \* what Open Cloud carried out, in order
    passes,         \* by universe: its game passes or products, as listed
    store,          \* secrets.json: a key by tool, or not JSON at all
    cliSet,         \* the key of the last `auth set`, until `auth clear`
    appKeys

cloudVars == <<cmd, log, passes, store, cliSet, appKeys>>

Idle == [at |-> "idle", job |-> None, out |-> <<>>, exit |-> None]
EmptyStore == [cli |-> None, app |-> None, json |-> TRUE]

CloudInit ==
    /\ cmd = [c \in Command |-> Idle] /\ log = <<>>
    /\ passes \in Listings
    /\ store \in {EmptyStore, [EmptyStore EXCEPT !.app = "good"], [EmptyStore EXCEPT !.json = FALSE]}
    /\ cliSet = None /\ appKeys = 0

-----------------------------------------------------------------------------
\* Finding the credential and the universe.

FirstOf(tiers) ==
    LET set == {i \in 1..Len(tiers) : tiers[i] # None}
    IN  IF set = {} THEN None ELSE tiers[CHOOSE i \in set : \A j \in set : i <= j]

\* read_store: a missing file is an empty store, one that is not JSON an error
ReadStore == IF store.json THEN store ELSE [store EXCEPT !.cli = "error", !.app = "error"]

\* read_credential: the CLI's own key wins over the one of the desktop program
ReadCredential == FirstOf(<<ReadStore.cli, ReadStore.app>>)

\* stored_credential: the file, then the desktop program's keychain entry
StoredCredential == FirstOf(<<ReadCredential, Keychain>>)

\* env_file_value: the first file that has one of the keys
EnvFileValue(files) == FirstOf(files)

\* find_credential: the store, the keychain, the environment, the env files.  A
\* store that is not JSON is an error, not a missing tier.
FindCredential(job) == FirstOf(<<StoredCredential>> \o job.env \o <<EnvFileValue(job.envFiles)>>)

\* resolve_universe: a variable that is not a number is passed over; the first
\* value of the env files decides for all of them.
ResolveUniverse(job) ==
    LET numeric(u) == u # None /\ u # "text"
        file == EnvFileValue(job.uniFiles)
    IN  FirstOf(<<job.uni>> \o SelectSeq(job.uniEnv, numeric)
                  \o <<IF numeric(file) THEN file ELSE None>> \o <<job.gameId>>)

-----------------------------------------------------------------------------
\* Planning an upload.

\* infer, and image_content_type for what is sold
IsImage(ext) == ext \in {"png", "jpg", "jpeg", "bmp", "tga"}
Infer(ext) ==
    CASE IsImage(ext) -> "Image"
      [] ext \in {"mp3", "ogg", "wav", "flac"} -> "Audio"
      [] ext \in {"fbx", "rbxm", "rbxmx"} -> "Model"
      [] ext = "obj" -> "Mesh"
      [] ext \in {"mp4", "mov", "webm"} -> "Video"
      [] OTHER -> None

\* walk: a directory's files but the hidden ones
Walk == SelectSeq(DirFiles, LAMBDA f : f \notin Hidden)

Named(target) ==
    IF target = "dir" THEN [i \in 1..Len(Walk) |-> [file |-> Walk[i], explicit |-> FALSE]]
                      ELSE <<[file |-> target, explicit |-> TRUE]>>

\* plan_file: an override wins the type, for a walked file only where the
\* extension is known; None is an unsupported file.
PlanFile(n, override) ==
    IF override = None THEN Infer(Ext[n.file])
    ELSE IF Infer(Ext[n.file]) # None \/ n.explicit THEN override ELSE None

Everything(job) == FlattenSeq([i \in 1..Len(job.targets) |-> Named(job.targets[i])])
Plan(job) ==
    LET all == Everything(job)
        typed == [i \in 1..Len(all) |-> [file |-> all[i].file, type |-> PlanFile(all[i], job.type)]]
    IN  SelectSeq(typed, LAMBDA p : p.type # None)

\* the records of the files that are not uploaded
Unplanned(job) ==
    LET odd == SelectSeq(Everything(job), LAMBDA n : PlanFile(n, job.type) = None)
    IN  [i \in 1..Len(odd) |->
            [file |-> odd[i].file, status |-> IF odd[i].explicit THEN "failed" ELSE "skipped", at |-> 0]]

\* Creator::parse, else the project's groupId
Creator(job) == IF job.creator # None THEN job.creator ELSE job.groupId

-----------------------------------------------------------------------------
\* Planning what is sold.

\* parse_entries: a piece has a name, and a price unless it is not for sale;
\* --name and --price are taken as they are.
ParseEntries(job) ==
    IF job.byFlags THEN job.entries
    ELSE LET given == SelectSeq(job.entries, LAMBDA e : e.name # "" \/ e.price # None)
         IN  IF \E i \in 1..Len(given) : given[i].name = "" \/ (given[i].price = None /\ ~job.offSale)
             THEN <<>> ELSE given

\* Images: the files that are images, in order
ImageFiles(job) == SelectSeq(job.dir, LAMBDA f : IsImage(Ext[f]))

Todo(job) ==
    CASE job.do = "upload" -> Plan(job)
      [] job.do = "create" -> ParseEntries(job)
      [] job.do = "images" -> ImageFiles(job)
      [] OTHER -> <<job>>

\* The conditions under which a command ends before its first request.
Refused(job) ==
    \/ job.do = "upload" /\ (Creator(job) \in {None, "malformed"} \/ \E i \in 1..Len(job.targets) : job.targets[i] = Missing)
    \/ job.do = "upload" /\ Todo(job) = <<>>
         /\ \A i \in 1..Len(Unplanned(job)) : Unplanned(job)[i].status # "failed"
    \/ job.do \in {"create", "images"} /\ Todo(job) = <<>>
    \/ job.do = "edit" /\ job.changes = {}
    \/ job.do = "image" /\ ~IsImage(Ext[job.file])
    \/ job.do # "upload" /\ ResolveUniverse(job) = None
    \/ FindCredential(job) \in {None, "error"}

\* Images and a selection by name begin with the list.
Lists(job) ==
    \/ job.do \in {"images", "list"}
    \/ job.do \in {"edit", "image"} /\ job.id = 0

Local == {"auth set", "auth clear", "auth status", "discover"}

Begin(c, job) ==
    /\ cmd[c].at = "idle" /\ job.do \notin Local
    /\ cmd' = [cmd EXCEPT ![c] =
                 IF Refused(job) THEN [at |-> "end", job |-> job, out |-> <<>>, exit |-> "error"]
                 ELSE [at |-> IF Lists(job) THEN "list" ELSE "request",
                       job |-> job, key |-> FindCredential(job),
                       universe |-> IF job.do = "upload" THEN None ELSE ResolveUniverse(job),
                       todo |-> Todo(job), listed |-> <<>>, op |-> 0,
                       out |-> IF job.do = "upload" THEN Unplanned(job) ELSE <<>>, exit |-> None]]
    /\ UNCHANGED <<log, passes, store, cliSet, appKeys>>

\* discover is local: it reports what the other actions would use
Discover(c, job) ==
    /\ cmd[c].at = "idle" /\ job.do = "discover"
    /\ cmd' = [cmd EXCEPT ![c] = [at |-> "end", job |-> job,
                 exit |-> IF ~job.project \/ FindCredential(job) = "error" THEN "error" ELSE "ok",
                 out |-> <<[universe |-> ResolveUniverse(job), configured |-> FindCredential(job) # None]>>]]
    /\ UNCHANGED <<log, passes, store, cliSet, appKeys>>

AuthStatus(c, job) ==
    /\ cmd[c].at = "idle" /\ job.do = "auth status"
    /\ cmd' = [cmd EXCEPT ![c] = [at |-> "end", job |-> job,
                 exit |-> IF StoredCredential = "error" THEN "error" ELSE "ok",
                 out |-> <<[configured |-> StoredCredential # None]>>]]
    /\ UNCHANGED <<log, passes, store, cliSet, appKeys>>

-----------------------------------------------------------------------------
\* Requests.

\* What becomes of a request: it does not arrive, is refused (and so is any with
\* a wrong key), is carried out and the answer is lost, is carried out.
Outcomes(key) == {"unreached", "refused"} \cup (IF key = "good" THEN {"lost", "ok"} ELSE {})
Arrived(o) == o \in {"lost", "ok"}

Ended(k, exit) == [k EXCEPT !.at = "end", !.exit = exit]

\* one item of a batch is done with; the next one is begun whatever became of it
Recorded(k, record) == [k EXCEPT !.out = Append(@, record), !.todo = Tail(@), !.at = "request", !.op = 0]

\* fetch_items, extract_items: an answer whose items cannot be told is no items
Fetch(c) ==
    LET k == cmd[c] IN
    /\ k.at = "list"
    /\ \E o \in Outcomes(k.key) \ {"lost"}, items \in {passes[k.universe], <<>>} :
         cmd' = [cmd EXCEPT ![c] =
                   IF o # "ok" THEN Ended(k, "error")
                   ELSE IF k.job.do = "list" THEN Ended(k, "ok")
                   ELSE [k EXCEPT !.listed = items, !.at = "request"]]
    /\ UNCHANGED <<log, passes, store, cliSet, appKeys>>

\* upload_one up to the operation's handle.  The file is read now, and may be gone.
Post(c) ==
    LET k == cmd[c]
        p == Head(k.todo)
        entry == [by |-> c, do |-> "asset", file |-> p.file, type |-> p.type,
                  creator |-> Creator(k.job), state |-> "running"]
        record(status, at) == [file |-> p.file, status |-> status, at |-> at]
    IN
    /\ k.at = "request" /\ k.job.do = "upload" /\ k.todo # <<>>
    /\ \E o \in Outcomes(k.key) \cup {"unread"} :
         /\ log' = IF Arrived(o) THEN Append(log, entry) ELSE log
         /\ cmd' = [cmd EXCEPT ![c] =
                      IF o # "ok" THEN Recorded(k, record("failed", 0))
                      ELSE IF k.job.noWait THEN Recorded(k, record("pending", Len(log')))
                      ELSE [k EXCEPT !.at = "poll", !.op = Len(log')]]
    /\ UNCHANGED <<passes, store, cliSet, appKeys>>

\* Open Cloud finishes an operation, one way or the other.
Processed(n) ==
    /\ log[n].do = "asset" /\ log[n].state = "running"
    /\ \E s \in {"done", "error"} : log' = [log EXCEPT ![n].state = s]
    /\ UNCHANGED <<cmd, passes, store, cliSet, appKeys>>

PollAnyDone(entry) == IF entry.state = "running" THEN "again" ELSE "uploaded"

\* poll_operation's answer: an error in the body fails although the operation is done
PollAnswer(entry) ==
    CASE entry.state = "error" -> "failed"
      [] entry.state = "done" -> "uploaded"
      [] OTHER -> "again"

\* The poll that ends the loop: `again` is the last one, the deadline having passed;
\* the ones before it change nothing.
Poll(c) ==
    LET k == cmd[c]
        record(status) == [file |-> Head(k.todo).file, status |-> status, at |-> k.op]
    IN
    /\ k.at = "poll"
    /\ \E o \in Outcomes(k.key) \ {"lost"} :
         LET answer == IF o # "ok" THEN "failed" ELSE PollAnswer(log[k.op])
         IN  cmd' = [cmd EXCEPT ![c] =
                       Recorded(k, record(IF answer = "again" THEN "failed" ELSE answer))]
    /\ UNCHANGED <<log, passes, store, cliSet, appKeys>>

\* create_one
Create(c) ==
    LET k == cmd[c]
        e == Head(k.todo)
        entry == [by |-> c, do |-> "create", universe |-> k.universe, name |-> e.name, price |-> e.price,
                  sale |-> ~k.job.offSale]
    IN
    /\ k.at = "request" /\ k.job.do = "create" /\ k.todo # <<>>
    /\ \E o \in Outcomes(k.key) :
         /\ log' = IF Arrived(o) THEN Append(log, entry) ELSE log
         /\ passes' = IF Arrived(o) THEN [passes EXCEPT ![k.universe] = Append(@, [name |-> e.name])] ELSE passes
         /\ cmd' = [cmd EXCEPT ![c] =
                      Recorded(k, [file |-> e.name, status |-> IF o = "ok" THEN "created" ELSE "failed",
                                   at |-> IF o = "ok" THEN Len(log') ELSE 0])]
    /\ UNCHANGED <<store, cliSet, appKeys>>

WithName(listed, name) == {i \in 1..Len(listed) : listed[i].name = name}

\* resolve_id: --id verbatim, a name that exactly one listed item has, or nothing
ResolveId(k) ==
    LET same == WithName(k.listed, k.job.name)
    IN  IF k.job.id # 0 THEN k.job.id
        ELSE IF Cardinality(same) = 1 THEN CHOOSE i \in same : TRUE ELSE 0

\* Open Cloud patches an item that is there: a new name shows in the next list.
Patched(k, id, change) ==
    [passes EXCEPT ![k.universe][id].name = IF change[1] = "name" THEN change[2] ELSE @]

PatchEntry(c, k, id, change) == [by |-> c, do |-> "patch", universe |-> k.universe, id |-> id, change |-> change]

\* Edit::main and Image::main from the id on: one PATCH, one answer
Patch(c) ==
    LET k == cmd[c]
        id == ResolveId(k)
        change == IF k.job.do = "image" THEN <<"image", k.job.file>> ELSE k.job.change
    IN
    /\ k.at = "request" /\ k.job.do \in {"edit", "image"}
    /\ IF id = 0 THEN cmd' = [cmd EXCEPT ![c] = Ended(k, "error")] /\ UNCHANGED <<log, passes>>
       ELSE \E o \in Outcomes(k.key) :
              /\ Arrived(o) => id <= Len(passes[k.universe])
              /\ log' = IF Arrived(o) THEN Append(log, PatchEntry(c, k, id, change)) ELSE log
              /\ passes' = IF Arrived(o) THEN Patched(k, id, change) ELSE passes
              /\ cmd' = [cmd EXCEPT ![c] = Ended(k, IF o = "ok" THEN "ok" ELSE "error")]
    /\ UNCHANGED <<store, cliSet, appKeys>>

\* the first listed item whose name is normalized to the file's
Target(k, file) ==
    LET same == {i \in 1..Len(k.listed) : Normal[k.listed[i].name] = Normal[file]}
    IN  IF same = {} THEN 0 ELSE CHOOSE i \in same : \A j \in same : i <= j

\* one file of Images::main; reading it may fail
UploadImage(c) ==
    LET k == cmd[c]
        file == Head(k.todo)
        id == Target(k, file)
        change == <<"image", file>>
        record(status, at) == [file |-> file, status |-> status, at |-> at]
    IN
    /\ k.at = "request" /\ k.job.do = "images" /\ k.todo # <<>>
    /\ IF id = 0 THEN cmd' = [cmd EXCEPT ![c] = Recorded(k, record("unmatched", 0))] /\ UNCHANGED <<log, passes>>
       ELSE \E o \in Outcomes(k.key) \cup {"unread"} :
              /\ log' = IF Arrived(o) THEN Append(log, PatchEntry(c, k, id, change)) ELSE log
              /\ passes' = IF Arrived(o) THEN Patched(k, id, change) ELSE passes
              /\ cmd' = [cmd EXCEPT ![c] =
                           Recorded(k, IF o = "ok" THEN record("matched", Len(log')) ELSE record("failed", 0))]
    /\ UNCHANGED <<store, cliSet, appKeys>>

Has(k, status) == \E i \in 1..Len(k.out) : k.out[i].status = status

\* how a batch ends: with an error if any item failed, or no image found its item
ExitOf(k) ==
    IF Has(k, "failed") \/ (k.job.do = "images" /\ ~Has(k, "matched")) THEN "error" ELSE "ok"

\* The end of a batch; the manifest an upload asked for may not be writable.
Finish(c) ==
    LET k == cmd[c] IN
    /\ k.at = "request" /\ k.job.do \in {"upload", "create", "images"} /\ k.todo = <<>>
    /\ \E written \in BOOLEAN :
         /\ ~written => k.job.do = "upload" /\ k.job.manifest
         /\ cmd' = [cmd EXCEPT ![c] = Ended(k, IF written THEN ExitOf(k) ELSE "error")]
    /\ UNCHANGED <<log, passes, store, cliSet, appKeys>>

-----------------------------------------------------------------------------
\* The store.  A write is a whole new file put in the place of the old one.

\* AuthSet and AuthClear up to read_store; a store that is not JSON ends them.  A
\* credential that cannot be read, is empty or too long ends `set` before that.
AuthBegin(c, job) ==
    /\ cmd[c].at = "idle" /\ job.do \in {"auth set", "auth clear"}
    /\ cmd' = [cmd EXCEPT ![c] =
                 IF (job.do = "auth set" /\ job.key = None) \/ ~store.json
                 THEN [at |-> "end", job |-> job, out |-> <<>>, exit |-> "error"]
                 ELSE [at |-> "write", job |-> job, out |-> <<>>, read |-> store, exit |-> None]]
    /\ UNCHANGED <<log, passes, store, cliSet, appKeys>>

\* write_store and remove_credential: what was read, with the CLI's key changed.
\* Clearing what is not there writes nothing.
AuthWrite(c) ==
    LET k == cmd[c]
        key == IF k.job.do = "auth set" THEN k.job.key ELSE None
    IN
    /\ k.at = "write"
    /\ \/ /\ store' = IF k.job.do = "auth clear" /\ k.read.cli = None THEN store ELSE [k.read EXCEPT !.cli = key]
          /\ cliSet' = key
          /\ cmd' = [cmd EXCEPT ![c] = [k EXCEPT !.at = "end", !.exit = "ok"]]
       \/ /\ cmd' = [cmd EXCEPT ![c] = [k EXCEPT !.at = "end", !.exit = "error"]]
          /\ UNCHANGED <<store, cliSet>>
    /\ UNCHANGED <<log, passes, appKeys>>

\* file_read keeps the names it knows and file_set rebuilds the file from them
AppFileSet ==
    /\ appKeys < MaxAppKeys /\ appKeys' = appKeys + 1
    /\ store' = [EmptyStore EXCEPT !.app = "good"]
    /\ UNCHANGED <<cmd, log, passes, cliSet>>

-----------------------------------------------------------------------------
CloudNext ==
    \/ \E c \in Command :
         \/ \E job \in Jobs[c] : Begin(c, job) \/ Discover(c, job) \/ AuthStatus(c, job) \/ AuthBegin(c, job)
         \/ Fetch(c) \/ Post(c) \/ Poll(c) \/ Create(c) \/ Patch(c) \/ UploadImage(c) \/ Finish(c) \/ AuthWrite(c)
    \/ \E n \in 1..Len(log) : Processed(n)
    \/ AppFileSet

CloudSpec == CloudInit /\ [][CloudNext]_cloudVars

-----------------------------------------------------------------------------
By(c, n) == n \in 1..Len(log) /\ log[n].by = c

\* What a record says was carried out, was.
RecordTrue(c, r) ==
    CASE r.status = "uploaded" ->
           By(c, r.at) /\ log[r.at].file = r.file /\ log[r.at].state = "done"
      [] r.status = "pending" -> By(c, r.at) /\ log[r.at].file = r.file
      [] r.status = "created" -> By(c, r.at) /\ log[r.at].name = r.file
      [] r.status = "matched" ->
           /\ By(c, r.at) /\ log[r.at].change = <<"image", r.file>>
           /\ Normal[cmd[c].listed[log[r.at].id].name] = Normal[r.file]
      [] OTHER -> TRUE

\* A command that ends well did all it was asked for: every file named on the
\* command line is an asset or has an operation, every entry is an item, and an
\* item that was selected by its name was the only one listed under it.
OkTrue(c) ==
    LET k == cmd[c] IN
    CASE k.job.do = "upload" ->
           \A i \in 1..Len(k.job.targets) : k.job.targets[i] # "dir" =>
             \E n \in 1..Len(log) : log[n].by = c /\ log[n].file = k.job.targets[i]
      [] k.job.do = "create" ->
           \A i \in 1..Len(k.job.entries) : k.job.entries[i].name # "" =>
             \E n \in 1..Len(log) : log[n].by = c /\ log[n].name = k.job.entries[i].name
      [] k.job.do \in {"edit", "image"} ->
           \E n \in 1..Len(log) :
             /\ log[n].by = c
             /\ k.job.id = 0 => /\ k.listed[log[n].id].name = k.job.name
                                /\ Cardinality(WithName(k.listed, k.job.name)) = 1
      [] OTHER -> TRUE

\* A cloud command's report is true to what Open Cloud did: each record that
\* claims an asset, an item or an image has it, whatever answers were lost and
\* operations failed on the way, the exit is 0 only if all that was asked for
\* happened, and nothing is made twice for one entry.
ReportsAreTrue ==
    \A c \in Command : cmd[c].at # "idle" /\ cmd[c].job.do \notin Local =>
      /\ \A i \in 1..Len(cmd[c].out) : RecordTrue(c, cmd[c].out[i])
      /\ cmd[c].exit = "ok" => OkTrue(c)
      /\ Cardinality({n \in 1..Len(log) : log[n].by = c}) <= Len(Todo(cmd[c].job))

\* The key of `wsync auth set` is the one the cloud commands find, until it is
\* cleared (auth.rs: "an explicit `wsync auth set` always wins").
SetAlwaysWins ==
    cliSet # None => store.json /\ ReadCredential = cliSet
=============================================================================
