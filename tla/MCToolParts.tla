----------------------------- MODULE MCToolParts -----------------------------
(***************************************************************************)
(* Eight parts of the command line and of the desktop program, each on an  *)
(* instance of its own: a behaviour is one of the part that `part` names.  *)
(* The first is that of DaemonStart itself.                                *)
(***************************************************************************)
EXTENDS DaemonStart, Sequences, TLC

CONSTANTS
    p1, p2, c1, c2, i1, i2,
    Parts               \* the parts that may run

VARIABLES
    part,
    serving, asked, request, createLock, folders, registry, ledger, names, webview, dirty, gone,
    unseen, root, listening, setter, source, clock, builds, crossed, artifact, manifest,
    install, plugin, verified, oldPlugin, keychain, secretFile, secretOp, given, spent, plan,
    run, lockFile, runRecord, studio, kills, blips, tests, tester, stoppedBy, lost, boot, clips,
    clip, assemblies, made, clipboard, shots, artifacts, user, pasted, faults, parent, name,
    marks, turn, client, applied, audited, timeouts, cmd, log, passes, store, cliSet, appKeys

-----------------------------------------------------------------------------
(* The instances *)

\* What the processes of the first part run
TheScripts == {<<"start", "restart", "sessions">>, <<"serve", "serve", "stop">>}

Br == INSTANCE Broker WITH
    Root <- {"r"}, Game <- {"g"}, Click <- {c1, c2}, SlugOf <- [g \in {"g"} |-> "slug"],
    MaxAttempts <- 2, LedgerLimit <- 1, MaxRequests <- 2

Hs == INSTANCE HostStores WITH
    Caller <- {"c1", "c2"}, Folders <- {"f"}, Secret <- {"short", "long"}, LongSecret <-
    {"long"}, HasKeychain <- TRUE, Builder <- {1, 2}, MaxSaves <- 2, MaxBuilds <- 1, MaxInstalls
    <- 1, MaxSecrets <- 2, MaxRoots <- 3

\* Steps of workflows: an operation on the name, in an atomic group, that repeats an earlier step or
\* checks its answer
Check(op, n) == [op |-> op, expected |-> [kind |-> "number", n |-> n], yes |-> TRUE]
NoCheck == [op |-> "exists", expected |-> [kind |-> "null", n |-> 0], yes |-> TRUE]
Step(op, group, ref, verify) ==
    [op |-> op, group |-> group, ref |-> ref, property |-> [kind |-> "text", n |-> 1],
     verify |-> verify, check |-> NoCheck]
Write(group, ref, verify) == Step("set", group, ref, verify)
Plans ==
    {<<Step("get", "none", 0, FALSE), Write("g", r, FALSE), Write("g", 0, TRUE)>> : r \in {1, 3}}
    \cup {<<Write("none", 0, FALSE), Write("g", 0, FALSE),
            [Step("assert", "none", 1, FALSE) EXCEPT !.check = Check("equals", 1)]>>,
          <<Write("g", 0, FALSE), Step("capture", "none", 0, FALSE), Write("h", 0, FALSE)>>}

Wf == INSTANCE Workflow WITH
    Run <- {p1, p2}, Keyed <- {p1, p2}, Group <- {"g", "h"}, AtomicGroup <- {"g", "h"}, Plans <-
    Plans, MaxKills <- 1, MaxBlips <- 1, record <- runRecord

Uses == {"run", "keepOpen", "step", "start", "startForce", "stop", "stopForce", "status", "contexts",
         "wait", "exec", "logs", "ui", "input", "capture", "clip", "request"}

Pt == INSTANCE Playtest WITH
    Tester <- {p1}, Uses <- Uses, MaxQueue <- 3, Page <- 2, PollRetries <- 1, FailuresMax <- 1,
    MaxEmitted <- 4, MaxLost <- 1

Tf == INSTANCE Transfers WITH
    Proc <- {p1, p2}, Command <- {"capture", "transmit", "copy", "paste", "shot", "video",
    "media"}, Batches <- {<<<<"a", "b">>>>, <<<<"a">>, <<"b">>>>}, SafeName <- [n \in {"a", "b",
    "capture"} |-> IF n = "b" THEN "a" ELSE n], Output <- {"fresh", "image"}, Place <- {"here"},
    ClipName <- {"clip"}, ChunkCount <- 2, MaxSessions <- 2, MaxShots <- 2, MaxFaults <- 1,
    MaxKills <- 1, proc <- user, sessions <- clips

\* Requests about one part
Part == <<"w", "Part">>
Ask(op, writes, keepGoing, force) ==
    [op |-> op, writes |-> writes, keepGoing |-> keepGoing, force |-> force]
Entry(path, prop, value) == [path |-> path, prop |-> prop, value |-> value]
One(op, path, prop, value, force) == Ask(op, <<Entry(path, prop, value)>>, FALSE, force)
Requests ==
    {One("set", Part, "Name", v, FALSE) : v \in {"Box", "", "a/b"}}
    \cup {One("set", Part, "Parent", <<"s">>, f) : f \in BOOLEAN}
    \cup {Ask("set_batch", <<Entry(Part, "Source", "x"), Entry(Part, "Name", "Box")>>, k, FALSE) : k \in BOOLEAN}
    \cup {Ask("set_batch", <<Entry(Part, "Name", ""), Entry(Part, "Source", "y")>>, k, FALSE) : k \in BOOLEAN}
    \cup {One("set_batch", Part, "Parent", <<"s">>, TRUE)}
    \cup {One("new", p, "Name", "Part", FALSE) : p \in {<<"w">>, Part}}
    \cup {One("new", <<"w">>, "Name", "", FALSE), One("new", <<"w">>, "Source", "z", FALSE)}
    \cup {One("mv", Part, "", q, f) : f \in BOOLEAN, q \in {<<"s">>, <<"w", "Box">>}}
    \cup {One(op, Part, "", "t", FALSE) : op \in {"set_attr", "rm_attr", "add_tag", "rm_tag"}}
    \cup {One(op, Part, "", "", FALSE) : op \in {"rm", "call", "eval"}}

Lw == INSTANCE LiveWrite WITH
    Client <- {"command", "other"}, Unscreened <- {"other"}, Inst <- {i1, i2}, Service <- {"w",
    "s"}, Present <- (i1 :> "w") @@ (i2 :> "nowhere"), Requests <- Requests, MaxTimeouts <- 1

\* What Open Cloud commands are asked to do
Exts == [png |-> "png", rbxm |-> "rbxm", txt |-> "txt", missing |-> ""]
        @@ ("coins.png" :> "png") @@ (".png" :> "png")
Normals == [VIP |-> "vip", vip |-> "vip", Coins |-> "coins", png |-> "vip", rbxm |-> "rbxm"]
           @@ ("coins.png" :> "coins")
Base == [env |-> <<"bad">>, envFiles |-> <<>>, uni |-> "none", uniEnv |-> <<"text">>,
         uniFiles |-> <<"u1">>, gameId |-> "u2"]
Upload(targets, creator, group, type, wait) ==
    Base @@ [do |-> "upload", targets |-> targets, creator |-> creator, groupId |-> group,
             type |-> type, noWait |-> ~wait, manifest |-> ~wait]
Make(entries, flags, off, uni) ==
    [Base EXCEPT !.uni = uni]
    @@ [do |-> "create", entries |-> entries, byFlags |-> flags, offSale |-> off]
Select(do, id, n, change) ==
    Base @@ [do |-> do, id |-> id, name |-> n, change |-> change,
             changes |-> {change} \ {<<>>}, file |-> "png"]
Item(n, p) == [name |-> n, price |-> p]
Listed == {<<>>, <<[name |-> "VIP"], [name |-> "vip"]>>, <<[name |-> "VIP"], [name |-> "VIP"]>>}
AnyJob ==
    {Upload(<<"dir", "rbxm">>, "user", "none", t, w) : t \in {"none", "Animation"}, w \in BOOLEAN}
    \cup {Upload(<<"txt">>, "none", "group", t, TRUE) : t \in {"none", "Model"}}
    \cup {Upload(<<"rbxm", "missing">>, "user", "none", "none", TRUE)}
    \cup {Upload(<<"rbxm">>, c, "none", "none", TRUE) : c \in {"none", "malformed"}}
    \cup {Make(<<Item("VIP", "5"), Item("Coins", "none")>>, FALSE, off, u) :
              off \in BOOLEAN, u \in {"none", "u2"}}
    \cup {Make(<<Item("Coins", "none")>>, TRUE, FALSE, "u2"), Make(<<Item("", "5")>>, FALSE, FALSE, "u2")}
    \cup {Select("edit", i, "VIP", c) : i \in 0 .. 1, c \in {<<>>, <<"name", "Coins">>, <<"price", "7">>}}
    \cup {Select("image", 0, "Coins", <<"image">>)}
    \cup {[Base EXCEPT !.uniEnv = <<"text", "u2">>]
          @@ [do |-> "images", dir |-> <<"png", "rbxm", "coins.png">>]}
    \cup {Base @@ [do |-> "list"]} \cup {Base @@ [do |-> "discover", project |-> p] : p \in BOOLEAN}
    \cup {[do |-> "auth set", key |-> k] : k \in {"none", "good", "bad"}}
    \cup {[do |-> "auth clear"], [do |-> "auth status"]}
BesideIt ==
    {Make(<<Item("Coins", "5")>>, FALSE, FALSE, "u1"), Select("edit", 1, "", <<"name", "Coins">>),
     [do |-> "auth set", key |-> "bad"], [do |-> "auth clear"]}

Cl == INSTANCE Cloud WITH
    Command <- {"one", "beside"}, Jobs <- [one |-> AnyJob, beside |-> BesideIt], DirFiles <-
    <<".png", "png", "txt">>, Hidden <- {".png"}, Ext <- Exts, Normal <- Normals, Keychain <-
    "none", Listings <- {[u1 |-> l, u2 |-> <<>>] : l \in Listed}, MaxAppKeys <- 1

ASSUME
    /\ Br!BrokerAssumption
    /\ Hs!HostAssumption
    /\ Wf!WorkflowAssumption
    /\ Pt!PlaytestAssumption

-----------------------------------------------------------------------------
(* One of them runs, the variables of the others are not used *)

Unused(v) == v = "unused"

\* No daemon of the first part listens
DaemonIdle ==
    /\ ports = [q \in Port |-> NoProc] /\ unrecorded = FALSE
    /\ Unused(proc) /\ Unused(startLock) /\ Unused(record) /\ Unused(sessions) /\ Unused(daemonFaults)

DsOthers == <<
    serving, asked, request, createLock, folders, registry, ledger, names, webview, dirty, gone,
    unseen, root, listening, setter, source, clock, builds, crossed, artifact, manifest,
    install, plugin, verified, oldPlugin, keychain, secretFile, secretOp, given, spent, plan,
    run, lockFile, runRecord, studio, kills, blips, tests, tester, stoppedBy, lost, boot, clips,
    clip, assemblies, made, clipboard, shots, artifacts, user, pasted, faults, parent, name,
    marks, turn, client, applied, audited, timeouts, cmd, log, passes, store, cliSet, appKeys>>

BrOthers == <<
    proc, startLock, record, ports, sessions, unrecorded, daemonFaults, root, listening, setter,
    source, clock, builds, crossed, artifact, manifest, install, plugin, verified, oldPlugin,
    keychain, secretFile, secretOp, given, spent, plan, run, lockFile, runRecord, studio, kills,
    blips, tests, tester, stoppedBy, lost, boot, clips, clip, assemblies, made, clipboard,
    shots, artifacts, user, pasted, faults, parent, name, marks, turn, client, applied, audited,
    timeouts, cmd, log, passes, store, cliSet, appKeys>>

HsOthers == <<
    proc, startLock, record, ports, sessions, unrecorded, daemonFaults, serving, asked, request,
    createLock, folders, registry, ledger, names, webview, dirty, gone, unseen, plan, run,
    lockFile, runRecord, studio, kills, blips, tests, tester, stoppedBy, lost, boot, clips,
    clip, assemblies, made, clipboard, shots, artifacts, user, pasted, faults, parent, name,
    marks, turn, client, applied, audited, timeouts, cmd, log, passes, store, cliSet, appKeys>>

WfOthers == <<
    proc, startLock, record, ports, sessions, unrecorded, daemonFaults, serving, asked, request,
    createLock, folders, registry, ledger, names, webview, dirty, gone, unseen, root, listening,
    setter, source, clock, builds, crossed, artifact, manifest, install, plugin, verified,
    oldPlugin, keychain, secretFile, secretOp, given, spent, tests, tester, stoppedBy, lost,
    boot, clips, clip, assemblies, made, clipboard, shots, artifacts, user, pasted, faults,
    parent, name, marks, turn, client, applied, audited, timeouts, cmd, log, passes, store,
    cliSet, appKeys>>

PtOthers == <<
    proc, startLock, record, ports, sessions, unrecorded, daemonFaults, serving, asked, request,
    createLock, folders, registry, ledger, names, webview, dirty, gone, unseen, root, listening,
    setter, source, clock, builds, crossed, artifact, manifest, install, plugin, verified,
    oldPlugin, keychain, secretFile, secretOp, given, spent, plan, run, lockFile, runRecord,
    studio, kills, blips, boot, clips, clip, assemblies, made, clipboard, shots, artifacts,
    user, pasted, faults, parent, name, marks, turn, client, applied, audited, timeouts, cmd,
    log, passes, store, cliSet, appKeys>>

TfOthers == <<
    proc, startLock, record, ports, sessions, unrecorded, daemonFaults, serving, asked, request,
    createLock, folders, registry, ledger, names, webview, dirty, gone, unseen, root, listening,
    setter, source, clock, builds, crossed, artifact, manifest, install, plugin, verified,
    oldPlugin, keychain, secretFile, secretOp, given, spent, plan, run, lockFile, runRecord,
    studio, blips, tests, tester, stoppedBy, lost, parent, name, marks, turn, client, applied,
    audited, timeouts, cmd, log, passes, store, cliSet, appKeys>>

LwOthers == <<
    proc, startLock, record, ports, sessions, unrecorded, daemonFaults, serving, asked, request,
    createLock, folders, registry, ledger, names, webview, dirty, gone, unseen, root, listening,
    setter, clock, builds, crossed, artifact, manifest, install, plugin, verified, oldPlugin,
    keychain, secretFile, secretOp, given, spent, plan, run, lockFile, runRecord, studio, kills,
    blips, tests, tester, stoppedBy, lost, boot, clips, clip, assemblies, made, clipboard,
    shots, artifacts, user, pasted, faults, cmd, log, passes, store, cliSet, appKeys>>

ClOthers == <<
    proc, startLock, record, ports, sessions, unrecorded, daemonFaults, serving, asked, request,
    createLock, folders, registry, ledger, names, webview, dirty, gone, unseen, root, listening,
    setter, source, clock, builds, crossed, artifact, manifest, install, plugin, verified,
    oldPlugin, keychain, secretFile, secretOp, given, spent, plan, run, lockFile, runRecord,
    studio, kills, blips, tests, tester, stoppedBy, lost, boot, clips, clip, assemblies, made,
    clipboard, shots, artifacts, user, pasted, faults, parent, name, marks, turn, client,
    applied, audited, timeouts>>

DsInit ==
    /\ part = "starts" /\ DaemonInit
    /\ Unused(serving) /\ Unused(asked) /\ Unused(request) /\ Unused(createLock)
    /\ Unused(folders) /\ Unused(registry) /\ Unused(ledger) /\ Unused(names)
    /\ Unused(webview) /\ Unused(dirty) /\ Unused(gone) /\ Unused(unseen) /\ Unused(root)
    /\ Unused(listening) /\ Unused(setter) /\ Unused(source) /\ Unused(clock) /\ Unused(builds)
    /\ Unused(crossed) /\ Unused(artifact) /\ Unused(manifest) /\ Unused(install)
    /\ Unused(plugin) /\ Unused(verified) /\ Unused(oldPlugin) /\ Unused(keychain)
    /\ Unused(secretFile) /\ Unused(secretOp) /\ Unused(given) /\ Unused(spent) /\ Unused(plan)
    /\ Unused(run) /\ Unused(lockFile) /\ Unused(runRecord) /\ Unused(studio) /\ Unused(kills)
    /\ Unused(blips) /\ Unused(tests) /\ Unused(tester) /\ Unused(stoppedBy) /\ Unused(lost)
    /\ Unused(boot) /\ Unused(clips) /\ Unused(clip) /\ Unused(assemblies) /\ Unused(made)
    /\ Unused(clipboard) /\ Unused(shots) /\ Unused(artifacts) /\ Unused(user)
    /\ Unused(pasted) /\ Unused(faults) /\ Unused(parent) /\ Unused(name) /\ Unused(marks)
    /\ Unused(turn) /\ Unused(client) /\ Unused(applied) /\ Unused(audited) /\ Unused(timeouts)
    /\ Unused(cmd) /\ Unused(log) /\ Unused(passes) /\ Unused(store) /\ Unused(cliSet)
    /\ Unused(appKeys)

BrInit ==
    /\ part = "broker" /\ Br!BrokerInit
    /\ DaemonIdle /\ Unused(root) /\ Unused(listening) /\ Unused(setter) /\ Unused(source)
    /\ Unused(clock) /\ Unused(builds) /\ Unused(crossed) /\ Unused(artifact)
    /\ Unused(manifest) /\ Unused(install) /\ Unused(plugin) /\ Unused(verified)
    /\ Unused(oldPlugin) /\ Unused(keychain) /\ Unused(secretFile) /\ Unused(secretOp)
    /\ Unused(given) /\ Unused(spent) /\ Unused(plan) /\ Unused(run) /\ Unused(lockFile)
    /\ Unused(runRecord) /\ Unused(studio) /\ Unused(kills) /\ Unused(blips) /\ Unused(tests)
    /\ Unused(tester) /\ Unused(stoppedBy) /\ Unused(lost) /\ Unused(boot) /\ Unused(clips)
    /\ Unused(clip) /\ Unused(assemblies) /\ Unused(made) /\ Unused(clipboard) /\ Unused(shots)
    /\ Unused(artifacts) /\ Unused(user) /\ Unused(pasted) /\ Unused(faults) /\ Unused(parent)
    /\ Unused(name) /\ Unused(marks) /\ Unused(turn) /\ Unused(client) /\ Unused(applied)
    /\ Unused(audited) /\ Unused(timeouts) /\ Unused(cmd) /\ Unused(log) /\ Unused(passes)
    /\ Unused(store) /\ Unused(cliSet) /\ Unused(appKeys)

HsInit ==
    /\ part = "stores" /\ Hs!HostInit
    /\ DaemonIdle /\ Unused(serving) /\ Unused(asked) /\ Unused(request) /\ Unused(createLock)
    /\ Unused(folders) /\ Unused(registry) /\ Unused(ledger) /\ Unused(names)
    /\ Unused(webview) /\ Unused(dirty) /\ Unused(gone) /\ Unused(unseen) /\ Unused(plan)
    /\ Unused(run) /\ Unused(lockFile) /\ Unused(runRecord) /\ Unused(studio) /\ Unused(kills)
    /\ Unused(blips) /\ Unused(tests) /\ Unused(tester) /\ Unused(stoppedBy) /\ Unused(lost)
    /\ Unused(boot) /\ Unused(clips) /\ Unused(clip) /\ Unused(assemblies) /\ Unused(made)
    /\ Unused(clipboard) /\ Unused(shots) /\ Unused(artifacts) /\ Unused(user)
    /\ Unused(pasted) /\ Unused(faults) /\ Unused(parent) /\ Unused(name) /\ Unused(marks)
    /\ Unused(turn) /\ Unused(client) /\ Unused(applied) /\ Unused(audited) /\ Unused(timeouts)
    /\ Unused(cmd) /\ Unused(log) /\ Unused(passes) /\ Unused(store) /\ Unused(cliSet)
    /\ Unused(appKeys)

WfInit ==
    /\ part = "workflow" /\ Wf!WorkflowInit
    /\ DaemonIdle /\ Unused(serving) /\ Unused(asked) /\ Unused(request) /\ Unused(createLock)
    /\ Unused(folders) /\ Unused(registry) /\ Unused(ledger) /\ Unused(names)
    /\ Unused(webview) /\ Unused(dirty) /\ Unused(gone) /\ Unused(unseen) /\ Unused(root)
    /\ Unused(listening) /\ Unused(setter) /\ Unused(source) /\ Unused(clock) /\ Unused(builds)
    /\ Unused(crossed) /\ Unused(artifact) /\ Unused(manifest) /\ Unused(install)
    /\ Unused(plugin) /\ Unused(verified) /\ Unused(oldPlugin) /\ Unused(keychain)
    /\ Unused(secretFile) /\ Unused(secretOp) /\ Unused(given) /\ Unused(spent)
    /\ Unused(tests) /\ Unused(tester) /\ Unused(stoppedBy) /\ Unused(lost) /\ Unused(boot)
    /\ Unused(clips) /\ Unused(clip) /\ Unused(assemblies) /\ Unused(made) /\ Unused(clipboard)
    /\ Unused(shots) /\ Unused(artifacts) /\ Unused(user) /\ Unused(pasted) /\ Unused(faults)
    /\ Unused(parent) /\ Unused(name) /\ Unused(marks) /\ Unused(turn) /\ Unused(client)
    /\ Unused(applied) /\ Unused(audited) /\ Unused(timeouts) /\ Unused(cmd) /\ Unused(log)
    /\ Unused(passes) /\ Unused(store) /\ Unused(cliSet) /\ Unused(appKeys)

PtInit ==
    /\ part = "playtest" /\ Pt!PlaytestInit
    /\ DaemonIdle /\ Unused(serving) /\ Unused(asked) /\ Unused(request) /\ Unused(createLock)
    /\ Unused(folders) /\ Unused(registry) /\ Unused(ledger) /\ Unused(names)
    /\ Unused(webview) /\ Unused(dirty) /\ Unused(gone) /\ Unused(unseen) /\ Unused(root)
    /\ Unused(listening) /\ Unused(setter) /\ Unused(source) /\ Unused(clock) /\ Unused(builds)
    /\ Unused(crossed) /\ Unused(artifact) /\ Unused(manifest) /\ Unused(install)
    /\ Unused(plugin) /\ Unused(verified) /\ Unused(oldPlugin) /\ Unused(keychain)
    /\ Unused(secretFile) /\ Unused(secretOp) /\ Unused(given) /\ Unused(spent) /\ Unused(plan)
    /\ Unused(run) /\ Unused(lockFile) /\ Unused(runRecord) /\ Unused(studio) /\ Unused(kills)
    /\ Unused(blips) /\ Unused(boot) /\ Unused(clips) /\ Unused(clip) /\ Unused(assemblies)
    /\ Unused(made) /\ Unused(clipboard) /\ Unused(shots) /\ Unused(artifacts) /\ Unused(user)
    /\ Unused(pasted) /\ Unused(faults) /\ Unused(parent) /\ Unused(name) /\ Unused(marks)
    /\ Unused(turn) /\ Unused(client) /\ Unused(applied) /\ Unused(audited) /\ Unused(timeouts)
    /\ Unused(cmd) /\ Unused(log) /\ Unused(passes) /\ Unused(store) /\ Unused(cliSet)
    /\ Unused(appKeys)

TfInit ==
    /\ part = "transfers" /\ Tf!TransferInit
    /\ DaemonIdle /\ Unused(serving) /\ Unused(asked) /\ Unused(request) /\ Unused(createLock)
    /\ Unused(folders) /\ Unused(registry) /\ Unused(ledger) /\ Unused(names)
    /\ Unused(webview) /\ Unused(dirty) /\ Unused(gone) /\ Unused(unseen) /\ Unused(root)
    /\ Unused(listening) /\ Unused(setter) /\ Unused(source) /\ Unused(clock) /\ Unused(builds)
    /\ Unused(crossed) /\ Unused(artifact) /\ Unused(manifest) /\ Unused(install)
    /\ Unused(plugin) /\ Unused(verified) /\ Unused(oldPlugin) /\ Unused(keychain)
    /\ Unused(secretFile) /\ Unused(secretOp) /\ Unused(given) /\ Unused(spent) /\ Unused(plan)
    /\ Unused(run) /\ Unused(lockFile) /\ Unused(runRecord) /\ Unused(studio) /\ Unused(blips)
    /\ Unused(tests) /\ Unused(tester) /\ Unused(stoppedBy) /\ Unused(lost) /\ Unused(parent)
    /\ Unused(name) /\ Unused(marks) /\ Unused(turn) /\ Unused(client) /\ Unused(applied)
    /\ Unused(audited) /\ Unused(timeouts) /\ Unused(cmd) /\ Unused(log) /\ Unused(passes)
    /\ Unused(store) /\ Unused(cliSet) /\ Unused(appKeys)

LwInit ==
    /\ part = "live" /\ Lw!LiveInit
    /\ DaemonIdle /\ Unused(serving) /\ Unused(asked) /\ Unused(request) /\ Unused(createLock)
    /\ Unused(folders) /\ Unused(registry) /\ Unused(ledger) /\ Unused(names)
    /\ Unused(webview) /\ Unused(dirty) /\ Unused(gone) /\ Unused(unseen) /\ Unused(root)
    /\ Unused(listening) /\ Unused(setter) /\ Unused(clock) /\ Unused(builds)
    /\ Unused(crossed) /\ Unused(artifact) /\ Unused(manifest) /\ Unused(install)
    /\ Unused(plugin) /\ Unused(verified) /\ Unused(oldPlugin) /\ Unused(keychain)
    /\ Unused(secretFile) /\ Unused(secretOp) /\ Unused(given) /\ Unused(spent) /\ Unused(plan)
    /\ Unused(run) /\ Unused(lockFile) /\ Unused(runRecord) /\ Unused(studio) /\ Unused(kills)
    /\ Unused(blips) /\ Unused(tests) /\ Unused(tester) /\ Unused(stoppedBy) /\ Unused(lost)
    /\ Unused(boot) /\ Unused(clips) /\ Unused(clip) /\ Unused(assemblies) /\ Unused(made)
    /\ Unused(clipboard) /\ Unused(shots) /\ Unused(artifacts) /\ Unused(user)
    /\ Unused(pasted) /\ Unused(faults) /\ Unused(cmd) /\ Unused(log) /\ Unused(passes)
    /\ Unused(store) /\ Unused(cliSet) /\ Unused(appKeys)

ClInit ==
    /\ part = "cloud" /\ Cl!CloudInit
    /\ DaemonIdle /\ Unused(serving) /\ Unused(asked) /\ Unused(request) /\ Unused(createLock)
    /\ Unused(folders) /\ Unused(registry) /\ Unused(ledger) /\ Unused(names)
    /\ Unused(webview) /\ Unused(dirty) /\ Unused(gone) /\ Unused(unseen) /\ Unused(root)
    /\ Unused(listening) /\ Unused(setter) /\ Unused(source) /\ Unused(clock) /\ Unused(builds)
    /\ Unused(crossed) /\ Unused(artifact) /\ Unused(manifest) /\ Unused(install)
    /\ Unused(plugin) /\ Unused(verified) /\ Unused(oldPlugin) /\ Unused(keychain)
    /\ Unused(secretFile) /\ Unused(secretOp) /\ Unused(given) /\ Unused(spent) /\ Unused(plan)
    /\ Unused(run) /\ Unused(lockFile) /\ Unused(runRecord) /\ Unused(studio) /\ Unused(kills)
    /\ Unused(blips) /\ Unused(tests) /\ Unused(tester) /\ Unused(stoppedBy) /\ Unused(lost)
    /\ Unused(boot) /\ Unused(clips) /\ Unused(clip) /\ Unused(assemblies) /\ Unused(made)
    /\ Unused(clipboard) /\ Unused(shots) /\ Unused(artifacts) /\ Unused(user)
    /\ Unused(pasted) /\ Unused(faults) /\ Unused(parent) /\ Unused(name) /\ Unused(marks)
    /\ Unused(turn) /\ Unused(client) /\ Unused(applied) /\ Unused(audited) /\ Unused(timeouts)

PartInit == part \in Parts /\ (DsInit \/ BrInit \/ HsInit \/ WfInit \/ PtInit \/ TfInit \/ LwInit \/ ClInit)

PartNext ==
    \/ part = "starts" /\ DaemonNext /\ UNCHANGED <<part, DsOthers>>
    \/ part = "broker" /\ Br!BrokerNext /\ UNCHANGED <<part, BrOthers>>
    \/ part = "stores" /\ Hs!HostNext /\ UNCHANGED <<part, HsOthers>>
    \/ part = "workflow" /\ Wf!WorkflowNext /\ UNCHANGED <<part, WfOthers>>
    \/ part = "playtest" /\ Pt!PlaytestNext /\ UNCHANGED <<part, PtOthers>>
    \/ part = "transfers" /\ Tf!TransferNext /\ UNCHANGED <<part, TfOthers>>
    \/ part = "live" /\ Lw!LiveNext /\ UNCHANGED <<part, LwOthers>>
    \/ part = "cloud" /\ Cl!CloudNext /\ UNCHANGED <<part, ClOthers>>

ToolPartsSpec == PartInit /\ [][PartNext]_<<part, daemonVars, DsOthers>>

-----------------------------------------------------------------------------
\* Processes and clicks differ only from each other
Interchangeable == Permutations({p1, p2}) \cup Permutations({c1, c2})

\* However clicks, retries, timeouts and the writes of the webview fall together, a
\* game has two projects that are both there only where the user deleted the folder
\* of one of them, or the webview wrote its list before it heard of one (broker.rs
\* create_lock, existing_project).
OneProjectPerGame == part = "broker" => Br!OneProjectPerGame

\* As long as no two builds have run at once, a plugin reported as verified is a
\* whole build, although a build may rewrite the artifact and its manifest between
\* any two reads (plugin_install.rs install; build.mjs).
VerifiedIsWhole == part = "stores" => Hs!VerifiedIsWhole

\* A run that is reported ok has all its writes in Studio, whatever answers were
\* lost and although a dropped connection cancels a group; and once an outcome is
\* journalled, nothing of a workflow with that key runs again (workflow.rs main,
\* replay).
OutcomesHold == part = "workflow" => Wf!NothingAfterRecord /\ Wf!OkMeansWritten

\* A run that reads its job to the end has seen every record that came in, or one
\* that counts what was dropped, but for client results that fall into the teardown
\* (RunState.luau, playtest.rs).
NothingLostSilently == part = "playtest" => Pt!NothingLostSilently

\* A file that a capture or a transmit reports holds what it was reported for,
\* unless another command was given the same path; and every render that was
\* prepared is closed, also of items that failed and of a layout that is refused,
\* but for lost requests and killed commands (Layout::file_for, consume_batch,
\* perform_prepared).
TransfersHold == part = "transfers" => Tf!ReportsHold /\ Tf!RendersReleased

\* The exit status of a live write can be believed although another command, or
\* code that renames what it likes, runs between two of its entries (live/write.rs
\* apply_batch, report_batch).
ExitIsTrue == part = "live" => Lw!ExitIsTrue

\* The report and the exit of an Open Cloud command are true to what the service
\* did, whatever answers were lost (upload.rs, monetization.rs; ReportsAreTrue of
\* Cloud).
ReportsAreTrue == part = "cloud" => Cl!ReportsAreTrue
=============================================================================
