----------------------------- MODULE Transfers ------------------------------
(***************************************************************************)
(* Payloads between Studio and files: wsync capture, transmit, copy,       *)
(* paste, playtest capture and clip (cli/live/capture.rs, transmit.rs,     *)
(* clipboard.rs, transfer.rs), through the client every live command uses  *)
(* (cli/client.rs) and the plugin's transfer stores (Remote/Transfers.luau,*)
(* Handlers/Capture.luau, Handlers/Clipboard.luau).                        *)
(*                                                                         *)
(* Several commands run at once against one daemon and one Studio.  A      *)
(* payload is the number of the request that made it and has ChunkCount    *)
(* chunks; its size and SHA-256 are its number.  Image encoding, option    *)
(* parsing other than what decides where a file goes, and the progress     *)
(* line are left out.                                                      *)
(***************************************************************************)
EXTENDS Naturals, Sequences, FiniteSets, SequencesExt

CONSTANTS
    Proc,           \* processes that run one command each
    Command,        \* the commands they may run
    Batches,        \* what transmit is asked for: sequences of sequences of names
    SafeName,       \* sanitize_name
    Output,         \* what --output is: "fresh", "directory", "image", "file"
    Place,          \* folders and files the user may name; commands may share one
    ClipName,       \* names a playscript may give its clips
    ChunkCount, MaxSessions, MaxShots, MaxFaults, MaxKills

VARIABLES
    boot,           \* the daemon that serves the port
    sessions,       \* the plugin's renders: numbers to what is rendered
    clip,           \* the plugin's copied payload, 0 for none
    assemblies,     \* pastes the plugin puts together: process to [payload, received]
    made,           \* payloads that were made
    clipboard,      \* the payload file and its sidecar
    shots,          \* Roblox's capture folder, oldest first: [for, name]
    artifacts,      \* files that were written: path to [id, by]
    proc,           \* the commands
    pasted,         \* what Studio took: [payload, from]
    faults, kills

transferVars == <<boot, sessions, clip, assemblies, made, clipboard, shots, artifacts, proc, pasted, faults, kills>>

Nothing == 0
NoClipboard == [payload |-> Nothing, sidecar |-> Nothing]
NoFunction == [x \in {} |-> Nothing]
Fresh == [pc |-> "idle", command |-> "none", boot |-> 0, batches |-> <<>>, output |-> "none", place |-> "none", todo |-> <<>>, offset |-> 0,
          layout |-> "undecided", used |-> {}, file |-> <<"none">>, reports |-> {}, seen |-> {}, found |-> <<>>, loaded |-> NoClipboard]

\* Something may have been copied before
TransferInit ==
    /\ boot = 1 /\ sessions = NoFunction /\ clip = Nothing /\ assemblies = NoFunction /\ made \in {0, 1}
    /\ clipboard = [payload |-> made, sidecar |-> made] /\ shots = <<>> /\ artifacts = NoFunction
    /\ proc = [p \in Proc |-> Fresh] /\ pasted = {} /\ faults = 0 /\ kills = 0

Put(f, k, v) == [x \in DOMAIN f \cup {k} |-> IF x = k THEN v ELSE f[x]]
Drop(f, ks) == [x \in DOMAIN f \ ks |-> f[x]]
At(p, pc) == proc[p].pc = pc
Becomes(p, r) == proc' = [proc EXCEPT ![p] = r]
Goto(p, pc) == Becomes(p, [proc[p] EXCEPT !.pc = pc])

\* A path is where --output points and, in a folder, a name and its number.  A file is written whole under a name of its
\* process and renamed, so the last writer has it
OutputFile(p) == <<proc[p].place>>
Writes(p, file, id) == artifacts' = Put(artifacts, file, [id |-> id, by |-> p])
Reported(p, file, id) == proc[p].reports \cup {[file |-> file, id |-> id]}

-----------------------------------------------------------------------------
(* The client *)

\* Client::connect: the daemon on the port serves the project.  Where the output goes is the user's choice, and a default
\* when it is left out: two commands may write the same path
Connect(p, command, batches, output, place) ==
    /\ At(p, "idle")
    /\ Becomes(p, [Fresh EXCEPT !.command = command, !.boot = boot, !.batches = batches, !.output = output, !.place = place,
                    !.pc = CASE command \in {"capture", "transmit", "copy"} -> "prepare"
                             [] command = "paste" -> "load" [] OTHER -> "look"])
    /\ UNCHANGED <<boot, sessions, clip, assemblies, made, clipboard, shots, artifacts, pasted, faults, kills>>

\* What becomes of a request: answered, done and its answer lost, or never begun; another boot of the daemon refuses it
Fates(p) == IF proc[p].boot # boot THEN {"refused"}
            ELSE IF faults < MaxFaults THEN {"answered", "unknown", "refused"} ELSE {"answered"}
Reaches(fate) == fate # "refused"
Counted(p, fate) == faults' = IF fate # "answered" /\ proc[p].boot = boot THEN faults + 1 ELSE faults

-----------------------------------------------------------------------------
(* Preparing and pulling *)

\* Mutant: one name, one file
FileOfName(p, name) == <<proc[p].place, SafeName[name], 1>>

\* Layout::file_for: in a folder, a name this command has used gets a number
FileFor(p, name) ==
    IF proc[p].layout = "file" THEN OutputFile(p)
    ELSE LET numbered(n) == <<proc[p].place, SafeName[name], n>>
         IN numbered(CHOOSE n \in 1..Cardinality(proc[p].used) + 1 :
                        /\ numbered(n) \notin proc[p].used
                        /\ \A k \in 1..n - 1 : numbered(k) \in proc[p].used)

\* Layout::grow: one image that nothing can follow may be a file, all else needs a folder
Grown(p, items, follows) ==
    LET total == Cardinality(proc[p].reports) + Len(items) IN
    IF total = 0 \/ proc[p].layout # "undecided" THEN proc[p].layout
    ELSE IF total = 1 /\ ~follows /\ proc[p].output # "directory" THEN "file"
    ELSE IF proc[p].output \in {"file", "image"} THEN "refused" ELSE "directory"

Failed(p) == [proc[p] EXCEPT !.pc = "failed"]
Numbered(names) == [i \in DOMAIN names |-> [id |-> made + i, name |-> names[i]]]
Renders(todo) == [x \in DOMAIN sessions \cup {t.id : t \in ToSet(todo)} |-> IF x \in DOMAIN sessions THEN sessions[x] ELSE x]

\* capture_prepare, transmit_prepare: the renders are held until they are closed; too many are refused
Prepare(p) ==
    /\ At(p, "prepare") /\ proc[p].command \in {"capture", "transmit"}
    /\ LET names == IF proc[p].command = "capture" THEN <<"capture">> ELSE Head(proc[p].batches)
           todo == Numbered(names)
           layout == IF proc[p].command = "capture" THEN "file" ELSE Grown(p, todo, Len(proc[p].batches) > 1)
       IN \E fate \in Fates(p) :
            LET conflict == Cardinality(DOMAIN sessions) + Len(names) > MaxSessions IN
            /\ sessions' = IF Reaches(fate) /\ ~conflict THEN Renders(todo) ELSE sessions
            /\ made' = IF Reaches(fate) /\ ~conflict THEN made + Len(names) ELSE made
            /\ Becomes(p, IF fate # "answered" \/ conflict THEN Failed(p)
                          ELSE [proc[p] EXCEPT !.pc = IF layout = "refused" THEN "release" ELSE "item", !.layout = layout, !.todo = todo,
                                               !.batches = IF proc[p].command = "capture" THEN @ ELSE Tail(@)])
            /\ Counted(p, fate)
    /\ UNCHANGED <<boot, clip, assemblies, clipboard, shots, artifacts, pasted, kills>>

\* A layout that is refused closes what was prepared
Release(p) ==
    /\ At(p, "release")
    /\ \E fate \in Fates(p) :
         /\ sessions' = IF Reaches(fate) /\ proc[p].todo # <<>> THEN Drop(sessions, {Head(proc[p].todo).id}) ELSE sessions
         /\ Becomes(p, IF proc[p].todo = <<>> THEN Failed(p) ELSE [proc[p] EXCEPT !.todo = Tail(@)])
         /\ Counted(p, fate)
    /\ UNCHANGED <<boot, clip, assemblies, made, clipboard, shots, artifacts, pasted, kills>>

\* consume_batch: the next item, the next batch, or the end
NextItem(p) ==
    /\ At(p, "item")
    /\ LET c == proc[p] IN
       IF c.todo # <<>>
       THEN LET file == FileFor(p, Head(c.todo).name) IN
            Becomes(p, [c EXCEPT !.pc = "pull", !.offset = 0, !.file = file, !.used = @ \cup {file}])
       ELSE IF c.batches # <<>> THEN Goto(p, "prepare")
       ELSE Goto(p, IF c.reports = {} THEN "failed" ELSE "done")
    /\ UNCHANGED <<boot, sessions, clip, assemblies, made, clipboard, shots, artifacts, pasted, faults, kills>>

\* transfer::pull of a render: chunk after chunk; a session that is gone, or an answer that is lost, ends the item
ReadCapture(p) ==
    /\ At(p, "pull") /\ proc[p].command \in {"capture", "transmit"}
    /\ \E fate \in Fates(p) :
         /\ Becomes(p, [proc[p] EXCEPT !.offset = IF @ < ChunkCount THEN @ + 1 ELSE @,
                          !.pc = IF fate # "answered" \/ Head(proc[p].todo).id \notin DOMAIN sessions THEN "close"
                                 ELSE IF proc[p].offset + 1 = ChunkCount THEN "write" ELSE "pull"])
         /\ Counted(p, fate)
    /\ UNCHANGED <<boot, sessions, clip, assemblies, made, clipboard, shots, artifacts, pasted, kills>>

\* write_verified_png: a temporary file, read back, renamed; or it fails and leaves nothing
WritePng(p) ==
    /\ At(p, "write")
    /\ \/ LET id == Head(proc[p].todo).id IN
          /\ Writes(p, proc[p].file, id)
          /\ Becomes(p, [proc[p] EXCEPT !.pc = "close", !.reports = Reported(p, proc[p].file, id)])
       \/ Goto(p, "close") /\ UNCHANGED artifacts
    /\ UNCHANGED <<boot, sessions, clip, assemblies, made, clipboard, shots, pasted, faults, kills>>

\* capture_close, whatever became of the item
CloseCapture(p) ==
    /\ At(p, "close")
    /\ \E fate \in Fates(p) :
         /\ sessions' = IF Reaches(fate) THEN Drop(sessions, {Head(proc[p].todo).id}) ELSE sessions
         /\ Becomes(p, [proc[p] EXCEPT !.pc = "item", !.todo = Tail(@)])
         /\ Counted(p, fate)
    /\ UNCHANGED <<boot, clip, assemblies, made, clipboard, shots, artifacts, pasted, kills>>

-----------------------------------------------------------------------------
(* The clipboard *)

\* clipboard_copy: the new payload replaces the one that was there
CopyPrepare(p) ==
    /\ At(p, "prepare") /\ proc[p].command = "copy"
    /\ \E fate \in Fates(p) :
         /\ clip' = IF Reaches(fate) THEN made + 1 ELSE clip
         /\ made' = IF Reaches(fate) THEN made + 1 ELSE made
         /\ Becomes(p, IF fate = "answered" THEN [proc[p] EXCEPT !.pc = "pull", !.todo = <<[id |-> made + 1, name |-> "clip"]>>] ELSE Failed(p))
         /\ Counted(p, fate)
    /\ UNCHANGED <<boot, sessions, assemblies, clipboard, shots, artifacts, pasted, kills>>

\* clipboard_read: the last chunk drops the payload
ReadClip(p) ==
    /\ At(p, "pull") /\ proc[p].command = "copy"
    /\ \E fate \in Fates(p) :
         LET there == Head(proc[p].todo).id = clip
             eof == proc[p].offset + 1 = ChunkCount
         IN /\ clip' = IF Reaches(fate) /\ there /\ eof THEN Nothing ELSE clip
            /\ Becomes(p, IF fate # "answered" \/ ~there THEN Failed(p)
                          ELSE [proc[p] EXCEPT !.offset = @ + 1, !.pc = IF eof THEN "store" ELSE "pull"])
            /\ Counted(p, fate)
    /\ UNCHANGED <<boot, sessions, assemblies, made, clipboard, shots, artifacts, pasted, kills>>

\* store_clipboard: the payload, then its sidecar
StorePayload(p) ==
    /\ At(p, "store") /\ clipboard' = [clipboard EXCEPT !.payload = Head(proc[p].todo).id] /\ Goto(p, "sidecar")
    /\ UNCHANGED <<boot, sessions, clip, assemblies, made, shots, artifacts, pasted, faults, kills>>
StoreSidecar(p) ==
    /\ At(p, "sidecar") /\ clipboard' = [clipboard EXCEPT !.sidecar = Head(proc[p].todo).id]
    /\ Becomes(p, [proc[p] EXCEPT !.pc = "done", !.reports = Reported(p, <<"clipboard">>, Head(proc[p].todo).id)])
    /\ UNCHANGED <<boot, sessions, clip, assemblies, made, shots, artifacts, pasted, faults, kills>>

\* load_clipboard: the sidecar, then the payload, which must be the one it names
LoadSidecar(p) ==
    /\ At(p, "load")
    /\ Becomes(p, IF Nothing \in {clipboard.payload, clipboard.sidecar} THEN Failed(p)
                  ELSE [proc[p] EXCEPT !.pc = "verify", !.loaded.sidecar = clipboard.sidecar])
    /\ UNCHANGED <<boot, sessions, clip, assemblies, made, clipboard, shots, artifacts, pasted, faults, kills>>
LoadPayload(p) ==
    /\ At(p, "verify")
    /\ Becomes(p, IF clipboard.payload # proc[p].loaded.sidecar THEN Failed(p)
                  ELSE [proc[p] EXCEPT !.pc = "begin", !.loaded.payload = clipboard.payload])
    /\ UNCHANGED <<boot, sessions, clip, assemblies, made, clipboard, shots, artifacts, pasted, faults, kills>>

PasteBegin(p) ==
    /\ At(p, "begin")
    /\ \E fate \in Fates(p) :
         /\ assemblies' = IF Reaches(fate) THEN Put(assemblies, p, [payload |-> proc[p].loaded.payload, received |-> 0]) ELSE assemblies
         /\ Goto(p, IF fate = "answered" THEN "push" ELSE "failed") /\ Counted(p, fate)
    /\ UNCHANGED <<boot, sessions, clip, made, clipboard, shots, artifacts, pasted, kills>>

\* transfer::push: a part that is not the next one, or of no assembly, is refused
PasteChunk(p) ==
    /\ At(p, "push")
    /\ \E fate \in Fates(p) :
         LET takes == p \in DOMAIN assemblies /\ assemblies[p].received = proc[p].offset
             last == proc[p].offset + 1 = ChunkCount
         IN /\ assemblies' = IF Reaches(fate) /\ takes THEN [assemblies EXCEPT ![p].received = @ + 1] ELSE assemblies
            /\ Becomes(p, IF fate # "answered" \/ ~takes THEN Failed(p)
                          ELSE [proc[p] EXCEPT !.offset = @ + 1, !.pc = IF last THEN "commit" ELSE "push"])
            /\ Counted(p, fate)
    /\ UNCHANGED <<boot, sessions, clip, made, clipboard, shots, artifacts, pasted, kills>>

\* clipboard_paste_commit: the assembly is taken whatever comes of it
PasteCommit(p) ==
    /\ At(p, "commit")
    /\ \E fate \in Fates(p) :
         LET whole == p \in DOMAIN assemblies /\ assemblies[p].received = ChunkCount IN
         /\ assemblies' = IF Reaches(fate) THEN Drop(assemblies, {p}) ELSE assemblies
         /\ pasted' = IF Reaches(fate) /\ whole THEN pasted \cup {[payload |-> assemblies[p].payload, from |-> proc[p].loaded.sidecar]} ELSE pasted
         /\ Goto(p, IF fate = "answered" /\ whole THEN "done" ELSE "failed") /\ Counted(p, fate)
    /\ UNCHANGED <<boot, sessions, clip, made, clipboard, shots, artifacts, kills>>

-----------------------------------------------------------------------------
(* Screenshots, and the media of a playscript, through Roblox's capture folder *)

Unseen(p) == SelectSeq(shots, LAMBDA s : s.id \notin proc[p].seen)

\* What is there before
Look(p) ==
    /\ At(p, "look")
    /\ Becomes(p, [proc[p] EXCEPT !.seen = {s.id : s \in ToSet(shots)}, !.pc = CASE proc[p].command = "shot" -> "trigger" [] proc[p].command = "video" -> "film" [] OTHER -> "play"])
    /\ UNCHANGED <<boot, sessions, clip, assemblies, made, clipboard, shots, artifacts, pasted, faults, kills>>

\* The engine has written the picture when the plugin answers
Trigger(p) ==
    /\ At(p, "trigger") /\ made < MaxShots
    /\ \E fate \in Fates(p) :
         /\ shots' = IF Reaches(fate) THEN Append(shots, [id |-> made + 1, for |-> p, done |-> TRUE]) ELSE shots
         /\ made' = IF Reaches(fate) THEN made + 1 ELSE made
         /\ Goto(p, IF fate = "answered" THEN "take" ELSE "failed") /\ Counted(p, fate)
    /\ UNCHANGED <<boot, sessions, clip, assemblies, clipboard, artifacts, pasted, kills>>

\* capture_via_screenshot_file: the newest that was not there before, copied, then removed; none in time is an error
TakeShot(p) ==
    /\ At(p, "take")
    /\ IF Unseen(p) = <<>> THEN Goto(p, "failed") /\ UNCHANGED <<shots, artifacts>>
       ELSE LET s == Last(Unseen(p)) IN
            /\ Writes(p, OutputFile(p), s.id)
            /\ shots' = SelectSeq(shots, LAMBDA x : x.id # s.id)
            /\ Becomes(p, [proc[p] EXCEPT !.pc = "done", !.reports = Reported(p, OutputFile(p), s.id)])
    /\ UNCHANGED <<boot, sessions, clip, assemblies, made, clipboard, pasted, faults, kills>>

\* capture_video_file: a clip is filmed while the folder is watched
Film(p) ==
    /\ At(p, "film") /\ made < MaxShots /\ shots' = Append(shots, [id |-> made + 1, for |-> p, done |-> FALSE]) /\ made' = made + 1
    /\ Goto(p, "filming")
    /\ UNCHANGED <<boot, sessions, clip, assemblies, clipboard, artifacts, pasted, faults, kills>>

\* A file that has stopped growing is kept, unless the one that is kept is longer
KeepLonger(p) ==
    /\ At(p, "filming") /\ \E s \in ToSet(Unseen(p)) : s.done /\ proc[p].found # <<s.id>> /\ Becomes(p, [proc[p] EXCEPT !.found = <<s.id>>])
    /\ UNCHANGED <<boot, sessions, clip, assemblies, made, clipboard, shots, artifacts, pasted, faults, kills>>
EndFilm(p) ==
    /\ At(p, "filming")
    /\ \E fate \in Fates(p) :
         /\ Counted(p, fate)
         /\ IF fate # "answered" \/ proc[p].found = <<>> THEN Goto(p, "failed") /\ UNCHANGED artifacts
            ELSE /\ Writes(p, OutputFile(p), proc[p].found[1])
                 /\ Becomes(p, [proc[p] EXCEPT !.pc = "done", !.reports = Reported(p, OutputFile(p), proc[p].found[1])])
    /\ UNCHANGED <<boot, sessions, clip, assemblies, made, clipboard, shots, pasted, kills>>

\* A playscript asks for a clip; the engine writes it, and a while later removes it
Record(p) ==
    /\ At(p, "play") /\ made < MaxShots /\ shots' = Append(shots, [id |-> made + 1, for |-> p, done |-> FALSE]) /\ made' = made + 1
    /\ Goto(p, "recorded")
    /\ UNCHANGED <<boot, sessions, clip, assemblies, clipboard, artifacts, pasted, faults, kills>>
EncoderEnds ==
    /\ \E i \in DOMAIN shots : ~shots[i].done /\ shots' = [shots EXCEPT ![i].done = TRUE]
    /\ UNCHANGED <<boot, sessions, clip, assemblies, made, clipboard, artifacts, proc, pasted, faults, kills>>
EngineRemoves ==
    /\ \E i \in DOMAIN shots : shots[i].done /\ shots' = RemoveAt(shots, i)
    /\ UNCHANGED <<boot, sessions, clip, assemblies, made, clipboard, artifacts, proc, pasted, faults, kills>>

\* MediaCollector: a file that has stopped growing is copied once
Collect(p) ==
    /\ proc[p].command = "media" /\ proc[p].pc \in {"play", "recorded"}
    /\ \E s \in ToSet(Unseen(p)) :
         s.done /\ Becomes(p, [proc[p] EXCEPT !.found = Append(@, s.id), !.seen = @ \cup {s.id}])
    /\ UNCHANGED <<boot, sessions, clip, assemblies, made, clipboard, shots, artifacts, pasted, faults, kills>>

\* save_next: the first that was copied, or none in time, under the name the playscript gave; whatever was there is lost
SaveNext(p) ==
    /\ At(p, "recorded")
    /\ IF proc[p].found = <<>> THEN Goto(p, "play") /\ UNCHANGED artifacts
       ELSE \E name \in ClipName :
            LET id == Head(proc[p].found)
                file == <<proc[p].place, name, 1>>
            IN /\ Writes(p, file, id)
               /\ Becomes(p, [proc[p] EXCEPT !.pc = "play", !.found = Tail(@), !.reports = Reported(p, file, id)])
    /\ UNCHANGED <<boot, sessions, clip, assemblies, made, clipboard, shots, pasted, faults, kills>>
EndPlay(p) ==
    /\ At(p, "play") /\ Goto(p, "done")
    /\ UNCHANGED <<boot, sessions, clip, assemblies, made, clipboard, shots, artifacts, pasted, faults, kills>>

-----------------------------------------------------------------------------
(* Faults *)

Over == {"idle", "done", "failed", "killed"}
Kill(p) ==
    /\ proc[p].pc \notin Over /\ kills < MaxKills /\ kills' = kills + 1 /\ Goto(p, "killed")
    /\ UNCHANGED <<boot, sessions, clip, assemblies, made, clipboard, shots, artifacts, pasted, faults>>

\* A transfer ends with the connection; a new daemon has another boot id
Disconnect ==
    /\ faults < MaxFaults /\ faults' = faults + 1 /\ sessions' = NoFunction /\ clip' = Nothing /\ assemblies' = NoFunction
    /\ boot' \in {boot, boot + 1}
    /\ UNCHANGED <<made, clipboard, shots, artifacts, proc, pasted, kills>>

\* 120 s without an access: nobody reads it any more
Expire ==
    /\ \E id \in DOMAIN sessions :
         /\ \A p \in Proc : proc[p].pc \in Over \/ \A t \in ToSet(proc[p].todo) : t.id # id
         /\ sessions' = Drop(sessions, {id})
    /\ UNCHANGED <<boot, clip, assemblies, made, clipboard, shots, artifacts, proc, pasted, faults, kills>>

TransferNext ==
    \/ \E p \in Proc, b \in Batches, o \in Output, l \in Place : Connect(p, "transmit", b, o, l) /\ "transmit" \in Command
    \/ \E p \in Proc, c \in Command \ {"transmit"}, l \in Place : Connect(p, c, <<>>, "file", l)
    \/ \E p \in Proc : \/ Prepare(p) \/ Release(p) \/ NextItem(p) \/ ReadCapture(p) \/ WritePng(p) \/ CloseCapture(p)
                       \/ CopyPrepare(p) \/ ReadClip(p) \/ StorePayload(p) \/ StoreSidecar(p)
                       \/ LoadSidecar(p) \/ LoadPayload(p) \/ PasteBegin(p) \/ PasteChunk(p) \/ PasteCommit(p)
                       \/ Look(p) \/ Trigger(p) \/ TakeShot(p) \/ Film(p) \/ KeepLonger(p) \/ EndFilm(p)
                       \/ Record(p) \/ Collect(p) \/ SaveNext(p) \/ EndPlay(p) \/ Kill(p)
    \/ EncoderEnds \/ EngineRemoves \/ Disconnect \/ Expire

TransferSpec == TransferInit /\ [][TransferNext]_transferVars

-----------------------------------------------------------------------------
(* Properties *)

\* A file that capture, transmit, a screenshot or a video reports holds what it was reported for, whatever batches, names
\* and failed items came before: two images of one transmit never share a file, and only another command that was given
\* the same path may have replaced one (Layout::file_for, used_names, consume_batch).
ReportsHold ==
    \A p \in Proc : proc[p].command \notin {"copy", "media"} =>
        \A r \in proc[p].reports : artifacts[r.file].by = p => artifacts[r.file].id = r.id

\* The plugin holds no render that nobody will close: also an item that failed, a batch whose layout is refused and
\* the batches before it are closed.  Only a command that was killed or a request that was lost leaves one, for the
\* store to expire (consume_batch: every item with a captureId is closed, pumped or not; perform_prepared).
RendersReleased ==
    faults = 0 /\ kills = 0 =>
        \A id \in DOMAIN sessions : \E p \in Proc : proc[p].pc \notin Over /\ \E t \in ToSet(proc[p].todo) : t.id = id

\* The picture a command takes from the capture folder is its own (capture.rs: the newest is ours, we just triggered it).
OwnPicture ==
    \A p \in Proc : proc[p].command \in {"shot", "video", "media"} =>
        \A r \in proc[p].reports : \A q \in Proc \ {p} : \A t \in proc[q].reports : t.id # r.id

\* When every copy has ended well the clipboard can be pasted (store_clipboard replaces it atomically).
CopiedCanBePasted ==
    (\A p \in Proc : proc[p].command = "copy" => proc[p].pc \in {"done", "idle"}) => clipboard.payload = clipboard.sidecar
=============================================================================
