----------------------------- MODULE Projection -----------------------------
(***************************************************************************)
(* The files of a project and the instances they stand for: how a folder   *)
(* is read (middleware/layout.rs, middleware/mod.rs), how the tree follows *)
(* a file event (processor/read.rs, tree.rs), how a change from Studio is  *)
(* written (processor/write.rs, helpers/syncback.rs, middleware/data.rs)   *)
(* and how a file becomes a folder and back under a journal                *)
(* (helpers/reshape.rs), with what the scanner says of it (hazards.rs).    *)
(*                                                                         *)
(* One mapped folder, in rojo mode.  A path is a record: its folder, the   *)
(* part of its name that names the instance, and the rest of its name as a *)
(* kind.  A script's source is a value; what is not its source is `extra`, *)
(* kept in the data file beside it.  Project nodes without a $path, nested *)
(* projects, models and ignore globs are left out.                         *)
(***************************************************************************)
EXTENDS Naturals, Sequences, FiniteSets, SequencesExt

CONSTANTS
    Name,               \* names in Studio
    Safe,               \* verify_name: the file name of a name
    Class,              \* classes that are added
    Value, Extra,       \* sources, other properties; Plain \in Extra is none
    FullScope, RenameInstances,     \* configuration
    IgnoreNames, IgnoreClasses,     \* syncback filter
    InitDisks,          \* projects to begin with
    Writers,            \* who changes the project in one behaviour: sets of {"disk", "studio"}
    RenameParents,      \* instances with children are renamed in Studio
    MaxDepth, MaxEdits, MaxCrashes, MaxEvents

ProjectionAssumption ==
    /\ {FullScope, RenameInstances, RenameParents} \subseteq BOOLEAN
    /\ {MaxDepth, MaxEdits, MaxCrashes, MaxEvents} \subseteq Nat
    /\ Name = DOMAIN Safe

Plain == "-"            \* no source, no properties
Absent == "absent"      \* no class, no name
NoPath == [dir |-> <<>>, stem |-> "absent", kind |-> "absent"]
ScriptKinds == <<"server", "module">>       \* in the order of the rules
Stem == {Safe[n] : n \in Name}

VARIABLES
    disk,               \* the files: paths to contents
    staging,            \* .X.wsync-reshape
    tree, paths,        \* instances by id; path_to_ids, as pairs
    lastId,             \* ids that were given
    events,             \* what the watcher has to report
    job,                \* what the processor does
    owed,               \* the instance that is reshaped, as it must come out
    who, edits, crashes,
    clean               \* the scan never had anything to report

projVars == <<disk, staging, tree, paths, lastId, events, job, owed, who, edits, crashes, clean>>

-----------------------------------------------------------------------------
(* Paths and rules *)

Folder(d) == IF d = <<>> THEN [dir |-> <<>>, stem |-> "src", kind |-> "root"]
             ELSE [dir |-> Front(d), stem |-> Last(d), kind |-> "dir"]
RootPath == Folder(<<>>)
PathOf(f) == IF f.kind = "root" THEN <<>> ELSE Append(f.dir, f.stem)
IsFolder(e) == e.kind \in {"dir", "root"}
IsScript(e) == e.kind \in ToSet(ScriptKinds)
Init(d, kind) == [dir |-> d, stem |-> "init", kind |-> kind]
Flat(d, stem, kind) == [dir |-> d, stem |-> stem, kind |-> kind]
Entries(d, files) == {e \in DOMAIN files : e.dir = d /\ e.kind # "root"}
Exists(e, files) == e \in DOMAIN files
Under(f, files) == {e \in DOMAIN files : e = f \/ (IsFolder(f) /\ IsPrefix(PathOf(f), e.dir))}

RuleOf(kind) == CHOOSE i \in 1..Len(ScriptKinds) : ScriptKinds[i] = kind
ClassOf(kind) == IF kind = "server" THEN "Script" ELSE "ModuleScript"

\* Middleware::from_class; Absent is written as a folder
FromClass(class) == CASE class = "Script" -> "server" [] class = "ModuleScript" -> "module" [] OTHER -> Absent

AllowsClass(class) == FullScope \/ class \in {"Folder", "Script", "ModuleScript"}

\* The data file of a path: SyncRule::locate for InstanceData
DataPath(e) == IF IsFolder(e) THEN Init(PathOf(e), "data") ELSE Flat(e.dir, e.stem, "data")

\* What a path holds: a source, or what a data file says
NoData == [value |-> Plain, class |-> Absent, extra |-> Plain, original |-> Absent]
Source(value) == [NoData EXCEPT !.value = value]

-----------------------------------------------------------------------------
(* Reading a folder *)

InitCandidate(e) == IsScript(e) /\ e.stem = "init"
FileRule(e) == IsScript(e)

Inits(d, files) == {e \in Entries(d, files) : InitCandidate(e)}

FolderShape(d, files) ==
    IF Inits(d, files) # {} THEN "HasInit"
    ELSE IF \E e \in Entries(d, files) : IsFolder(e) \/ FileRule(e) THEN "Content" ELSE "Empty"

\* read_layout: a folder with an init file hides the file of its name, an empty one is hidden by it
ReadLayout(d, files) ==
    LET flats == {e \in Entries(d, files) : FileRule(e) /\ ~InitCandidate(e)}
        pairs == {<<e, f>> \in flats \X {f \in Entries(d, files) : IsFolder(f)} : e.stem = f.stem}
        shape(f) == FolderShape(PathOf(f), files)
        shadowed == {[hidden |-> p[1], by |-> p[2], why |-> "FolderHasInit"] : p \in {q \in pairs : shape(q[2]) = "HasInit"}}
                    \cup {[hidden |-> p[2], by |-> p[1], why |-> "EmptyFolder"] : p \in {q \in pairs : shape(q[2]) = "Empty"}}
    IN [children |-> Entries(d, files) \ (Inits(d, files) \cup {s.hidden : s \in shadowed}),
        inits |-> Inits(d, files), shadowed |-> shadowed]

\* The init file of the first rule
InitOf(d, files) ==
    LET inits == Inits(d, files) IN
    IF inits = {} THEN NoPath ELSE CHOOSE e \in inits : \A f \in inits : RuleOf(e.kind) <= RuleOf(f.kind)

\* shadowing_form: the form that stands for a path, or the path itself
ShadowingForm(e, files) ==
    IF IsFolder(e)
    THEN LET flats == {f \in Entries(e.dir, files) : FileRule(f) /\ f.stem = e.stem} IN
         IF e.kind = "dir" /\ FolderShape(PathOf(e), files) = "Empty" /\ flats # {}
         THEN CHOOSE f \in flats : \A g \in flats : RuleOf(f.kind) <= RuleOf(g.kind) ELSE e
    ELSE LET f == Folder(Append(e.dir, e.stem)) IN
         IF Exists(f, files) /\ FolderShape(PathOf(f), files) = "HasInit" THEN f ELSE e

\* get_instance_data and read_data
InstanceData(e, files) == IF Exists(DataPath(e), files) THEN files[DataPath(e)] ELSE NoData

\* new_snapshot_file, snapshot_init or new_snapshot_dir, then apply_data
Snapshot(e, files) ==
    LET init == IF IsFolder(e) THEN InitOf(PathOf(e), files) ELSE e
        data == InstanceData(e, files)
    IN [name |-> IF data.original # Absent THEN data.original ELSE e.stem,
        class |-> IF data.class # Absent THEN data.class ELSE IF init = NoPath THEN "Folder" ELSE ClassOf(init.kind),
        value |-> IF init = NoPath THEN Plain ELSE files[init].value,
        extra |-> data.extra, original |-> data.original,
        source |-> [inner |-> e, folder |-> IF IsFolder(e) THEN e ELSE NoPath, file |-> init,
                    data |-> IF Exists(DataPath(e), files) THEN DataPath(e) ELSE NoPath]]

\* The paths a walk from f reads: f, and what the folders on the way show
Walked(f, files) ==
    {f} \cup {e \in Under(f, files) \ {f} :
                /\ IsFolder(e) \/ FileRule(e)
                /\ \A k \in Len(PathOf(f))..Len(e.dir) :
                     LET d == SubSeq(e.dir, 1, k) IN
                     (IF k = Len(e.dir) THEN e ELSE Folder(SubSeq(e.dir, 1, k + 1))) \in ReadLayout(d, files).children}

ParentOf(e) == Folder(e.dir)

\* scan: what is wrong with the folders a walk reads
CheckLayout(d, files) ==
    LET layout == ReadLayout(d, files) IN
    {s.why : s \in layout.shadowed} \cup (IF Cardinality(layout.inits) > 1 THEN {"AmbiguousInit"} ELSE {})
CheckDuplicates(d, files) ==
    LET shown == {e \in ReadLayout(d, files).children : IsFolder(e) \/ FileRule(e)} IN
    IF \E e, f \in shown : e # f /\ e.stem = f.stem THEN {"DuplicateSibling"} ELSE {}
ScannedFolders(files) == {e \in Walked(RootPath, files) : IsFolder(e)}
Scan(files) == UNION {CheckLayout(PathOf(f), files) \cup CheckDuplicates(PathOf(f), files) : f \in ScannedFolders(files)}

\* new_snapshot of a path that exists: what stands for it
NewSnapshot(e, files) == Snapshot(ShadowingForm(e, files), files)

-----------------------------------------------------------------------------
(* The tree *)

SourcePaths(source) == {source.folder, source.file, source.data} \ {NoPath}
Children(t, id) == {c \in DOMAIN t : t[c].parent = id /\ c # id}
Subtree(t, id) == {c \in DOMAIN t : c = id \/ \E n \in 1..MaxDepth :
                     \E chain \in [0..n -> DOMAIN t] : chain[0] = c /\ chain[n] = id
                        /\ \A i \in 0..n - 1 : t[chain[i]].parent = chain[i + 1]}
RootId == 0

Instance(snapshot, parent) ==
    [parent |-> parent, name |-> snapshot.name, class |-> snapshot.class, value |-> snapshot.value,
     extra |-> snapshot.extra, original |-> snapshot.original, source |-> snapshot.source]

\* insert_meta, update_meta and remove_meta on path_to_ids
Mapped(map, id, source) == map \cup {<<p, id>> : p \in SourcePaths(source)}
Remapped(map, id, old, new) ==
    (map \ {<<p, id>> : p \in SourcePaths(old) \ SourcePaths(new)}) \cup {<<p, id>> : p \in SourcePaths(new) \ SourcePaths(old)}
Unmapped(map, t, ids) == {m \in map : ~(m[2] \in ids /\ m[1] \in SourcePaths(t[m[2]].source))}

RootInstance == [parent |-> RootId, name |-> "src", class |-> "Folder", value |-> Plain, extra |-> Plain, original |-> Absent,
                 source |-> [inner |-> RootPath, folder |-> RootPath, file |-> NoPath, data |-> NoPath]]

\* Core::new: recover first, then a tree of what the project holds
Ordered(places) == CHOOSE s \in [1..Cardinality(places) -> places] :
                     \A i, j \in DOMAIN s : i < j => s[i] # s[j] /\ Len(s[i].dir) <= Len(s[j].dir)
Booted(files) ==
    LET places == Ordered(Walked(RootPath, files) \ {RootPath})
        idOf(e) == IF e = RootPath THEN RootId ELSE CHOOSE i \in DOMAIN places : places[i] = e
    IN [id \in 0..Len(places) |-> IF id = RootId THEN RootInstance
                                  ELSE Instance(Snapshot(places[id], files), idOf(ParentOf(places[id])))]
BootedPaths(t) == UNION {{<<p, id>> : p \in SourcePaths(t[id].source)} : id \in DOMAIN t}

NoPlan == [old |-> <<>>, moves |-> <<>>, new |-> <<>>]
Empty == [e \in {} |-> NoData]
NoStaging == [state |-> "none", plan |-> NoPlan, old |-> Empty, new |-> Empty]
Idle == [pc |-> "idle", ids |-> {}, adds |-> <<>>, id |-> RootId, source |-> RootInstance.source]

ProjInit ==
    /\ disk \in InitDisks /\ staging = NoStaging
    /\ tree = Booted(disk) /\ paths = BootedPaths(tree) /\ lastId = Cardinality(DOMAIN tree) - 1
    /\ events = <<>> /\ job = Idle /\ owed = {}
    /\ who \in Writers /\ edits = 0 /\ crashes = 0 /\ clean = (Scan(disk) = {})

Spends == edits < MaxEdits /\ edits' = edits + 1
Restrict2(files, keep) == [e \in keep |-> files[e]]
Without(files, gone) == Restrict2(files, DOMAIN files \ gone)
With(files, e, content) == [x \in DOMAIN files \cup {e} |-> IF x = e THEN content ELSE files[x]]

-----------------------------------------------------------------------------
(* Somebody edits the project *)

Edited == "disk" \in who /\ job.pc \in {"idle", "down"} /\ Len(events) < MaxEvents /\ Spends
Noticed(e) == events' = IF job.pc = "down" THEN events ELSE Append(events, e)
Folders(files) == {e \in DOMAIN files : IsFolder(e)}

SaveScript(f, stem, kind, value) ==
    /\ Edited /\ f \in Folders(disk)
    /\ LET e == Flat(PathOf(f), stem, kind) IN disk' = With(disk, e, Source(value)) /\ disk' # disk /\ Noticed(e)
    /\ UNCHANGED <<staging, tree, paths, lastId, job, owed, who, crashes>>

SaveData(e, extra) ==
    /\ Edited /\ e \in DOMAIN disk \ {RootPath} /\ (IsFolder(e) \/ FileRule(e))
    /\ disk' = With(disk, DataPath(e), [NoData EXCEPT !.extra = extra]) /\ disk' # disk /\ Noticed(DataPath(e))
    /\ UNCHANGED <<staging, tree, paths, lastId, job, owed, who, crashes>>

MakeFolder(f, stem) ==
    /\ Edited /\ f \in Folders(disk) /\ Len(PathOf(f)) + 1 < MaxDepth
    /\ LET e == Folder(Append(PathOf(f), stem)) IN ~Exists(e, disk) /\ disk' = With(disk, e, NoData) /\ Noticed(e)
    /\ UNCHANGED <<staging, tree, paths, lastId, job, owed, who, crashes>>

\* A file, or a folder with all it holds
DeletePath(e) ==
    /\ Edited /\ e \in DOMAIN disk \ {RootPath} /\ disk' = Without(disk, Under(e, disk)) /\ Noticed(e)
    /\ UNCHANGED <<staging, tree, paths, lastId, job, owed, who, crashes>>

\* The ids of a path, or of the nearest folder above that has any
IdsFor(e) ==
    LET above == {e} \cup {Folder(SubSeq(e.dir, 1, k)) : k \in 0..Len(e.dir)}
        ids(p) == {m[2] : m \in {m \in paths : m[1] = p}}
        depth(p) == IF p = e THEN Len(e.dir) + 1 ELSE Len(PathOf(p))
    IN ids(CHOOSE p \in above : ids(p) # {} /\ \A q \in above : depth(q) > depth(p) => ids(q) = {})

\* find_class_change: another path of that folder, in no source, that reads as the same name
ClassChanges(e, name) ==
    {f \in Entries(e.dir, disk) :
        /\ f # e /\ ~\E m \in paths : m[1] = f
        /\ IsFolder(f) \/ FileRule(f)
        /\ f.stem = name /\ NewSnapshot(f, disk).name = name}

\* pair_child, level by level: by name and class, then by name
Pairings(id, top, read) ==
    LET ids == Subtree(tree, id)
        kids(m, i) == {e \in read : i \in DOMAIN m /\ m[i] # NoPath /\ e # top /\ ParentOf(e) = m[i]}
    IN {m \in [ids -> read \cup {NoPath}] :
          /\ m[id] = top
          /\ \A i \in ids \ {id} : m[i] # NoPath =>
               m[i] \in kids(m, tree[i].parent) /\ Snapshot(m[i], disk).name = tree[i].name
          /\ \A i, j \in ids : i # j /\ m[i] = m[j] => m[i] = NoPath
          /\ \A i \in ids \ {id} : \A e \in kids(m, tree[i].parent) :
               Snapshot(e, disk).name = tree[i].name =>
                 /\ m[i] = NoPath => \E j \in ids : m[j] = e
                 /\ (Snapshot(e, disk).class = tree[i].class /\ (m[i] = NoPath \/ Snapshot(m[i], disk).class # tree[i].class))
                      => \E j \in ids : m[j] = e /\ tree[j].class = tree[i].class}

\* process_child_changes: what was paired is updated, the rest inserted or removed
Followed(id, top, m, read) ==
    LET gone == {i \in DOMAIN m : m[i] = NoPath}
        new == Ordered(read \ {m[i] : i \in DOMAIN m})
        idOf(e) == IF \E i \in DOMAIN m : m[i] = e THEN CHOOSE i \in DOMAIN m : m[i] = e
                   ELSE lastId + (CHOOSE k \in DOMAIN new : new[k] = e)
        parent(e) == IF e = top THEN tree[id].parent ELSE idOf(ParentOf(e))
        read2(i, e) == IF id = RootId /\ i = RootId THEN RootInstance ELSE Instance(Snapshot(e, disk), parent(e))
        kept == DOMAIN m \ gone
        t == [i \in (DOMAIN tree \ gone) \cup (lastId + 1..lastId + Len(new)) |->
                IF i \in kept THEN read2(i, m[i]) ELSE IF i \in DOMAIN tree THEN tree[i] ELSE read2(i, new[i - lastId])]
        left == UNION {{<<p, i>> : p \in SourcePaths(tree[i].source) \ SourcePaths(t[i].source)} : i \in kept}
        reached == UNION {{<<p, i>> : p \in SourcePaths(t[i].source) \ SourcePaths(tree[i].source)} : i \in kept}
        added == UNION {{<<p, i>> : p \in SourcePaths(t[i].source)} : i \in DOMAIN t \ DOMAIN tree}
    IN /\ tree' = t /\ lastId' = lastId + Len(new)
       /\ paths' = (Unmapped(paths, tree, gone) \ left) \cup reached \cup added

\* process_changes of one id
ProcessChanges(id) ==
    LET e == tree[id].source.inner
        form == IF e = RootPath THEN {RootPath}
                ELSE IF Exists(e, disk) THEN {ShadowingForm(e, disk)}
                ELSE {ShadowingForm(f, disk) : f \in ClassChanges(e, tree[id].name)}
    IN \/ /\ form # {}
          /\ \E top \in form : LET read == Walked(top, disk) IN
                \E m \in Pairings(id, top, read) : Followed(id, top, m, read)
       \/ /\ form = {} /\ tree' = [i \in DOMAIN tree \ Subtree(tree, id) |-> tree[i]]
          /\ paths' = Unmapped(paths, tree, Subtree(tree, id)) /\ UNCHANGED lastId

\* on_vfs_event: the ids of the path, one after the other
OnVfsEvent ==
    /\ job.pc = "idle" /\ events # <<>> /\ events' = Tail(events)
    /\ job' = [Idle EXCEPT !.pc = "read", !.ids = IdsFor(Head(events))]
    /\ UNCHANGED <<disk, staging, tree, paths, lastId, owed, who, edits, crashes>>

\* The id of an instance that is gone has no meta, and nothing happens
ReadNext ==
    /\ job.pc = "read" /\ job.ids # {}
    /\ LET id == CHOOSE i \in job.ids : \A j \in job.ids : i <= j IN
         /\ IF id \in DOMAIN tree THEN ProcessChanges(id) ELSE UNCHANGED <<tree, paths, lastId>>
         /\ job' = IF job.ids = {id} THEN Idle ELSE [job EXCEPT !.ids = @ \ {id}]
    /\ UNCHANGED <<disk, staging, events, owed, who, edits, crashes>>

-----------------------------------------------------------------------------
(* A flat file becomes a folder, or a folder a flat file *)

\* Reshape::plan, from the moves whose source exists
ToFolder(flat, folder, data) ==
    LET init == Init(PathOf(folder), flat.kind) IN
    IF data # NoPath /\ Exists(data, disk)
    THEN [old |-> <<flat, data>>, moves |-> <<<<flat, init>>, <<data, DataPath(folder)>>>>, new |-> <<folder>>]
    ELSE [old |-> <<flat>>, moves |-> <<<<flat, init>>>>, new |-> <<folder>>]
ToFlat(folder, init, data) ==
    LET flat == Flat(folder.dir, folder.stem, init.kind) IN
    IF data # NoPath /\ Exists(data, disk)
    THEN [old |-> <<folder>>, moves |-> <<<<init, flat>>, <<data, DataPath(flat)>>>>, new |-> <<DataPath(flat), flat>>]
    ELSE [old |-> <<folder>>, moves |-> <<<<init, flat>>>>, new |-> <<flat>>]

\* Reshape::run: the staging folder, then the manifest
RunReshape ==
    /\ job.pc = "stage"
    /\ staging' = [staging EXCEPT !.state = "open"] /\ job' = [job EXCEPT !.pc = "log"]
    /\ UNCHANGED <<disk, tree, paths, lastId, events, owed, who, edits, crashes>>

LogManifest ==
    /\ job.pc = "log" /\ staging' = [staging EXCEPT !.state = "logged"] /\ job' = [job EXCEPT !.pc = "advance"]
    /\ UNCHANGED <<disk, tree, paths, lastId, events, owed, who, edits, crashes>>

\* A folder moves with what it holds
Taken(from, to, f) == [e \in DOMAIN to \cup Under(f, from) |-> IF e \in Under(f, from) THEN from[e] ELSE to[e]]

\* advance: the old entries into old/, their files into new/, the new entries into place, the primary last
Advanced(failed, done) ==
    LET plan == staging.plan
        out == SelectInSeq(plan.old, LAMBDA e : Exists(e, disk) /\ ~Exists(e, staging.old))
        mv == SelectInSeq(plan.moves, LAMBDA p : Exists(p[1], staging.old) /\ ~Exists(p[2], staging.new))
        in == SelectInSeq(plan.new, LAMBDA e : Exists(e, staging.new))
        target == plan.moves[mv][2]
        home == IF target.stem = "init" THEN With(staging.new, Folder(target.dir), NoData) ELSE staging.new
    IN CASE out # 0 -> /\ staging' = [staging EXCEPT !.old = Taken(disk, @, plan.old[out])]
                       /\ disk' = Without(disk, Under(plan.old[out], disk)) /\ UNCHANGED job
         [] out = 0 /\ mv # 0 ->
              /\ staging' = [staging EXCEPT !.old = Without(@, {plan.moves[mv][1]}),
                                            !.new = With(home, target, staging.old[plan.moves[mv][1]])]
              /\ UNCHANGED <<disk, job>>
         [] out = 0 /\ mv = 0 /\ in # 0 ->
              IF Exists(plan.new[in], disk) THEN job' = failed /\ UNCHANGED <<disk, staging>>
              ELSE /\ disk' = Taken(staging.new, disk, plan.new[in])
                   /\ staging' = [staging EXCEPT !.new = Without(@, Under(plan.new[in], @))] /\ UNCHANGED job
         [] OTHER -> staging' = NoStaging /\ job' = done /\ UNCHANGED disk

Advance ==
    /\ job.pc = "advance" /\ Advanced(Idle, [job EXCEPT !.pc = "reshaped"])
    /\ UNCHANGED <<tree, paths, lastId, events, owed, who, edits, crashes>>

-----------------------------------------------------------------------------
(* Changes from Studio *)

Pushed == "studio" \in who /\ job.pc = "idle" /\ events = <<>> /\ Spends
Filtered(name, class) == name \in IgnoreNames \/ class \in IgnoreClasses

\* verify_name; with rename_instances a name no file can have is written under another
VerifyName(name) == Safe[name] = name \/ RenameInstances
OriginalName(name) == IF Safe[name] # name THEN name ELSE Absent

\* The path of a class that is written as a file or as a folder
PathFor(d, stem, class, hasChildren) ==
    IF FromClass(class) = Absent \/ hasChildren THEN Folder(Append(d, stem)) ELSE Flat(d, stem, FromClass(class))

\* Mutant: the data file stays when there is nothing left to say
DataStays(files, e, class, extra, original) ==
    LET data == [NoData EXCEPT !.extra = extra, !.original = original] IN IF data = NoData THEN files ELSE With(files, DataPath(e), data)

\* write_data: no file when there is nothing to say
WriteData(files, e, class, extra, original) ==
    LET data == [value |-> Plain, class |-> IF FromClass(class) = Absent /\ class # "Folder" THEN class ELSE Absent, extra |-> extra, original |-> original]
    IN IF data = NoData THEN Without(files, {DataPath(e)}) ELSE With(files, DataPath(e), data)

\* write_instance: the folder and the file, then the data
WriteInstance(files, e, class, value, extra, original) ==
    LET dir == IF IsFolder(e) THEN With(files, e, NoData) ELSE files
        file == IF FromClass(class) = Absent THEN dir
                ELSE With(dir, IF IsFolder(e) THEN Init(PathOf(e), FromClass(class)) ELSE e, Source(value))
    IN WriteData(file, e, class, extra, original)

\* apply_addition: an instance, and perhaps one below it
ApplyAddition(parent, name, class, value, extra, kid) ==
    /\ Pushed /\ parent \in DOMAIN tree /\ (FromClass(class) = Absent <=> value = Plain)
    /\ ~Filtered(name, class) /\ AllowsClass(class) /\ VerifyName(name)
    /\ LET e == tree[parent].source.inner
           first == [parent |-> parent, id |-> lastId + 1, name |-> name, class |-> class, value |-> value, extra |-> extra, kids |-> kid]
           second == [first EXCEPT !.parent = lastId + 1, !.id = lastId + 2, !.kids = FALSE]
       IN /\ Len(PathOf(e)) + (IF kid THEN 2 ELSE 1) <= MaxDepth
          /\ lastId' = lastId + (IF kid THEN 2 ELSE 1)
          /\ job' = [Idle EXCEPT !.pc = IF IsFolder(e) THEN "write" ELSE "promote", !.id = parent, !.source = tree[parent].source,
                                 !.adds = IF kid THEN <<first, second>> ELSE <<first>>]
    /\ UNCHANGED <<disk, staging, tree, paths, events, owed, who, crashes>>

\* The parent is a flat file: an empty folder of its name goes, any other is in the way
Promote ==
    /\ job.pc = "promote"
    /\ LET e == job.source.inner
           f == Folder(Append(e.dir, e.stem))
           leftover == Exists(f, disk) /\ Entries(PathOf(f), disk) = {}
       IN IF Exists(f, disk) /\ ~leftover THEN job' = Idle /\ UNCHANGED <<disk, staging, owed>>
          ELSE /\ disk' = Without(disk, {f})
               /\ staging' = [NoStaging EXCEPT !.plan = ToFolder(e, f, job.source.data)]
               /\ owed' = {[x \in {"name", "class", "value", "extra"} |-> tree[job.id][x]]}
               /\ job' = [job EXCEPT !.pc = "stage",
                                     !.source = [inner |-> f, folder |-> f, file |-> Init(PathOf(f), e.kind),
                                                 data |-> IF @.data = NoPath THEN NoPath ELSE DataPath(f)]]
    /\ UNCHANGED <<tree, paths, lastId, events, who, edits, crashes>>

Promoted ==
    /\ job.pc = "reshaped" /\ job.adds # <<>> /\ job' = [job EXCEPT !.pc = "write"] /\ owed' = {}
    /\ UNCHANGED <<disk, staging, tree, paths, lastId, events, who, edits, crashes>>

\* The next instance is written, unless its path is taken, and inserted; at the end the parent has its new source
AddNext ==
    /\ job.pc = "write"
    /\ LET a == Head(job.adds)
           d == IF a.parent = job.id THEN PathOf(job.source.inner) ELSE PathOf(tree[a.parent].source.inner)
           e == PathFor(d, Safe[a.name], a.class, a.kids)
           written == WriteInstance(disk, e, a.class, a.value, a.extra, OriginalName(a.name))
           fresh == ~Exists(e, disk)
           t == IF fresh THEN [i \in DOMAIN tree \cup {a.id} |-> IF i = a.id THEN Instance(Snapshot(e, written), a.parent) ELSE tree[i]] ELSE tree
           rest == IF fresh THEN Tail(job.adds) ELSE <<>>
       IN /\ disk' = IF fresh THEN written ELSE disk
          /\ tree' = [t EXCEPT ![job.id].source = IF rest = <<>> THEN job.source ELSE @]
          /\ paths' = LET m == IF fresh THEN Mapped(paths, a.id, t[a.id].source) ELSE paths
                      IN IF rest = <<>> THEN Remapped(m, job.id, tree[job.id].source, job.source) ELSE m
          /\ job' = IF rest = <<>> THEN Idle ELSE [job EXCEPT !.adds = rest]
    /\ UNCHANGED <<staging, lastId, events, owed, who, edits, crashes>>

\* rename_path: the old name at the beginning of the file's name gives way to the new one
RenamePath(e, from, to) ==
    IF e.stem = from THEN [e EXCEPT !.stem = to] ELSE [e EXCEPT !.stem = to, !.kind = IF IsFolder(e) THEN "dir" ELSE "none"]

\* vfs.rename: a folder with what it holds; what was there is replaced
Renamed(files, from, to) ==
    LET moved == Under(from, files)
        place(e) == IF e = from THEN to ELSE [e EXCEPT !.dir = PathOf(to) \o SubSeq(@, Len(PathOf(from)) + 1, Len(@))]
        kept == Without(files, moved)
    IN [x \in DOMAIN kept \cup {place(e) : e \in moved} |->
          IF \E e \in moved : place(e) = x THEN files[CHOOSE e \in moved : place(e) = x] ELSE files[x]]

\* apply_update of a name: the path must be free; of a folder only this instance's sources follow
ApplyUpdateName(id, name) ==
    /\ Pushed /\ id \in DOMAIN tree \ {RootId} /\ name # tree[id].name
    /\ RenameParents \/ Children(tree, id) = {}
    /\ ~Filtered(tree[id].name, tree[id].class) /\ ~Filtered(name, tree[id].class) /\ AllowsClass(tree[id].class) /\ VerifyName(name)
    /\ LET inst == tree[id]
           e == inst.source.inner
           to == RenamePath(e, inst.name, Safe[name])
           moved(x) == IF x = NoPath THEN NoPath
                       ELSE IF IsFolder(e) THEN IF x = e THEN to ELSE [x EXCEPT !.dir = PathOf(to)]
                       ELSE RenamePath(x, inst.name, Safe[name])
           source == [inner |-> to, folder |-> moved(inst.source.folder), file |-> moved(inst.source.file), data |-> moved(inst.source.data)]
           file == Renamed(disk, e, to)
           both == IF IsFolder(e) \/ inst.source.data = NoPath THEN file ELSE Renamed(file, inst.source.data, source.data)
           data == [InstanceData(to, both) EXCEPT !.original = OriginalName(name)]
           wrote == IF OriginalName(name) = inst.original THEN both
                    ELSE IF data = NoData THEN Without(both, {DataPath(to)}) ELSE With(both, DataPath(to), data)
       IN /\ ~Exists(to, disk) /\ Exists(e, disk)
          /\ disk' = wrote
          /\ tree' = [tree EXCEPT ![id].name = name, ![id].original = OriginalName(name), ![id].source = source]
          /\ paths' = Remapped(paths, id, inst.source, source)
    /\ UNCHANGED <<staging, lastId, events, job, owed, who, crashes>>

\* apply_update of the properties; a write into a folder that is not there fails
ApplyUpdateProperties(id, value, extra) ==
    /\ Pushed /\ id \in DOMAIN tree \ {RootId} /\ (FromClass(tree[id].class) = Absent <=> value = Plain)
    /\ ~Filtered(tree[id].name, tree[id].class) /\ AllowsClass(tree[id].class)
    /\ LET inst == tree[id]
           e == inst.source.inner
           there == Exists(ParentOf(e), disk) /\ (IsFolder(e) => Exists(e, disk)) /\ (inst.original # Absent => IsFolder(e))
           wrote == WriteInstance(disk, e, inst.class, value, extra, inst.original)
           source == Snapshot(e, wrote).source
       IN IF ~there THEN UNCHANGED <<disk, tree, paths>>
          ELSE /\ disk' = wrote
               /\ tree' = [tree EXCEPT ![id].value = value, ![id].extra = extra, ![id].source = source]
               /\ paths' = Remapped(paths, id, inst.source, source)
    /\ UNCHANGED <<staging, lastId, events, job, owed, who, crashes>>

\* remove_non_project_instances: the sources that exist
Removed(id) == UNION {Under(p, disk) : p \in {q \in SourcePaths(tree[id].source) : Exists(q, disk)}}

\* The parent that loses its last child becomes a flat file, when its folder holds nothing else and the place is free
Demotes(parent, files) ==
    LET s == tree[parent].source
        flat == Flat(s.inner.dir, s.inner.stem, s.file.kind)
    IN /\ parent # RootId /\ IsFolder(s.inner) /\ s.file # NoPath
       /\ Entries(PathOf(s.inner), files) \subseteq {s.file, s.data}
       /\ ~Exists(flat, files) /\ ~(s.data # NoPath /\ Exists(DataPath(flat), files))

ApplyRemoval(id) ==
    /\ Pushed /\ id \in DOMAIN tree \ {RootId} /\ ~Filtered(tree[id].name, tree[id].class)
    /\ disk' = Without(disk, Removed(id))
    /\ LET parent == tree[id].parent
           s == tree[parent].source
           flat == Flat(s.inner.dir, s.inner.stem, s.file.kind)
       IN IF Children(tree, parent) = {id} /\ Demotes(parent, disk')
          THEN /\ job' = [Idle EXCEPT !.pc = "stage", !.id = id,
                             !.source = [inner |-> flat, folder |-> NoPath, file |-> flat, data |-> IF s.data = NoPath THEN NoPath ELSE DataPath(flat)]]
               /\ staging' = [NoStaging EXCEPT !.plan = ToFlat(s.inner, s.file, s.data)]
               /\ owed' = {[x \in {"name", "class", "value", "extra"} |-> tree[parent][x]]}
               /\ UNCHANGED <<tree, paths>>
          ELSE /\ tree' = [i \in DOMAIN tree \ Subtree(tree, id) |-> tree[i]]
               /\ paths' = Unmapped(paths, tree, Subtree(tree, id)) /\ UNCHANGED <<job, staging, owed>>
    /\ UNCHANGED <<lastId, events, who, crashes>>

\* The parent's source is set in place: path_to_ids keeps its old paths
Demoted ==
    /\ job.pc = "reshaped" /\ job.adds = <<>> /\ job' = Idle /\ owed' = {}
    /\ tree' = [i \in DOMAIN tree \ Subtree(tree, job.id) |->
                  IF i = tree[job.id].parent THEN [tree[i] EXCEPT !.source = job.source] ELSE tree[i]]
    /\ paths' = Unmapped(paths, tree, Subtree(tree, job.id))
    /\ UNCHANGED <<disk, staging, lastId, events, who, edits, crashes>>

-----------------------------------------------------------------------------
(* The daemon is killed while it writes, and started again *)

Crash ==
    /\ job.pc \in {"stage", "log", "advance", "reshaped", "write", "recover"} /\ crashes < MaxCrashes /\ crashes' = crashes + 1
    /\ job' = [Idle EXCEPT !.pc = "down"] /\ events' = <<>> /\ tree' = [i \in {RootId} |-> RootInstance] /\ paths' = {}
    /\ staging' = IF staging.state = "none" THEN NoStaging ELSE staging
    /\ UNCHANGED <<disk, lastId, owed, who, edits>>

\* Mutant: what was staged is thrown away
Discards ==
    /\ job.pc = "down" /\ job' = [Idle EXCEPT !.pc = "boot"] /\ staging' = NoStaging
    /\ UNCHANGED <<disk, tree, paths, lastId, events, owed, who, edits, crashes>>

\* recover: without a manifest, or with the old primary in place, nothing had moved
Recover ==
    /\ job.pc = "down"
    /\ IF staging.state = "logged" /\ ~Exists(staging.plan.old[1], disk)
       THEN job' = [Idle EXCEPT !.pc = "recover"] /\ UNCHANGED staging
       ELSE job' = [Idle EXCEPT !.pc = "boot"] /\ staging' = NoStaging
    /\ UNCHANGED <<disk, tree, paths, lastId, events, owed, who, edits, crashes>>

RollForward ==
    /\ job.pc = "recover" /\ Advanced([Idle EXCEPT !.pc = "boot"], [Idle EXCEPT !.pc = "boot"])
    /\ UNCHANGED <<tree, paths, lastId, events, owed, who, edits, crashes>>

\* Core::new
Boot ==
    /\ job.pc = "boot" /\ job' = [Idle EXCEPT !.pc = "booted"]
    /\ tree' = Booted(disk) /\ paths' = BootedPaths(tree') /\ lastId' = Cardinality(DOMAIN tree') - 1
    /\ UNCHANGED <<disk, staging, events, owed, who, edits, crashes>>

Serve ==
    /\ job.pc = "booted" /\ job' = Idle /\ owed' = {}
    /\ UNCHANGED <<disk, staging, tree, paths, lastId, events, who, edits, crashes>>

-----------------------------------------------------------------------------
ProjStep ==
    \/ \E f \in Folders(disk), s \in Stem \cup {"init"}, k \in ToSet(ScriptKinds), v \in Value : SaveScript(f, s, k, v)
    \/ \E e \in DOMAIN disk, x \in Extra : SaveData(e, x)
    \/ \E f \in Folders(disk), s \in Stem : MakeFolder(f, s)
    \/ \E e \in DOMAIN disk : DeletePath(e)
    \/ OnVfsEvent \/ ReadNext
    \/ \E p \in DOMAIN tree, n \in Name, c \in Class, v \in Value \cup {Plain}, x \in Extra, kid \in BOOLEAN : ApplyAddition(p, n, c, v, x, kid)
    \/ Promote \/ RunReshape \/ LogManifest \/ Advance \/ Promoted \/ AddNext
    \/ \E id \in DOMAIN tree, n \in Name : ApplyUpdateName(id, n)
    \/ \E id \in DOMAIN tree, v \in Value \cup {Plain}, x \in Extra : ApplyUpdateProperties(id, v, x)
    \/ \E id \in DOMAIN tree : ApplyRemoval(id)
    \/ Demoted \/ Crash \/ Recover \/ RollForward \/ Boot \/ Serve

ProjNext == ProjStep /\ clean' = (clean /\ Scan(disk') = {})

ProjSpec == ProjInit /\ [][ProjNext]_projVars

-----------------------------------------------------------------------------
(* Properties *)

\* What the tree holds, and what a walk of the files reads, each with where it comes from
Held == {<<tree[tree[i].parent].source.inner, tree[i].name, tree[i].class, tree[i].value, tree[i].extra, tree[i].source>> : i \in DOMAIN tree \ {RootId}}
OnDisk == {LET s == Snapshot(e, disk) IN <<ParentOf(e), s.name, s.class, s.value, s.extra, s.source>> : e \in Walked(RootPath, disk) \ {RootPath}}

\* When the daemon has handled what there was, every instance of the tree is what its files say, and every file that
\* should be an instance is one: after any edits of the files (process_changes), or any changes from Studio
\* (apply_addition, apply_update, apply_removal), as the next start of the daemon would read them, as long as the scan
\* of the project (hazards.rs) has had nothing to report.
TreeIsProject ==
    job.pc = "idle" /\ events = <<>> /\ clean => Held = OnDisk /\ Cardinality(DOMAIN tree) = Cardinality(OnDisk) + 1

\* An instance whose file became a folder, or whose folder a file, when the daemon was killed is there again after the
\* next start, with its source and its properties (reshape.rs: a crash at any point leaves one resolvable form), as long
\* as the scan has had nothing to report.
ReshapeKeeps ==
    job.pc = "booted" /\ clean => \A o \in owed : \E h \in Held : <<h[2], h[3], h[4], h[5]>> = <<o.name, o.class, o.value, o.extra>>
=============================================================================
