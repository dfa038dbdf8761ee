----------------------------- MODULE HostStores -----------------------------
(***************************************************************************)
(* What the desktop program keeps outside its own process, and the         *)
(* commands that change it (commands.rs): the authorized projects folder   *)
(* and the broker that listens for it, the Studio plugin it installs       *)
(* (plugin_install.rs), and the Open Cloud key (secrets.rs).               *)
(*                                                                         *)
(* The content of a whole build is the number of the sources it was made   *)
(* from; a file somebody is writing, or that two have written into, has a  *)
(* number of its own beyond those, and a digest is the number of what was  *)
(* read.  Time is counted in saves and writes, which is all that comparing *)
(* modification times tells apart.  Dialog texts and the reports' wording  *)
(* are left out.                                                           *)
(***************************************************************************)
EXTENDS Naturals, FiniteSetsExt

CONSTANTS
    Caller,             \* commands that run side by side
    Folders,            \* folders the picker may return
    Secret,             \* keys the user types
    LongSecret,         \* the ones the keychain prompt cannot carry
    HasKeychain,        \* Keychain::platform
    Builder,            \* builds that run side by side: 1 .. n
    MaxSaves,           \* saves of the plugin's sources
    MaxBuilds, MaxInstalls, MaxSecrets, MaxRoots    \* commands that are given

HostAssumption ==
    /\ \E n \in 1 .. 9 : Builder = 1 .. n
    /\ LongSecret \subseteq Secret /\ HasKeychain \in BOOLEAN
    /\ {MaxSaves, MaxBuilds, MaxInstalls, MaxSecrets, MaxRoots} \subseteq Nat

Missing == 0
Newest == MaxSaves + 2
Whole(content) == content \in 1 .. Newest
Unset == "unset"

VARIABLES
    root, listening,    \* projectsRoot in state.json, the folder the broker serves
    setter,             \* by caller: its projects_root command
    source, clock,      \* the checkout: its sources' version and when they were saved; the time
    builds,             \* by builder: what its script does next, the version and the digest it read
    crossed,            \* history: two builds have run at the same time
    artifact, manifest, \* WSync.rbxm with its time, the digest in WSync.build.json
    install,            \* the installation that runs
    plugin,             \* WSync.rbxm in Studio's folder
    verified,           \* the last report said so
    oldPlugin,          \* a single-file plugin of before
    keychain, secretFile, secretOp,
    given, spent        \* the kind of commands that are given, how many were

rootVars == <<root, listening, setter>>
buildVars == <<builds, crossed>>
pluginVars == <<source, clock, buildVars, artifact, manifest, install, plugin, verified, oldPlugin>>
secretVars == <<keychain, secretFile, secretOp>>
hostVars == <<rootVars, pluginVars, secretVars, given, spent>>

NoCommand == [pc |-> "idle", folder |-> Unset]
NoInstall == [pc |-> "idle", origin |-> "none", bytes |-> Missing, began |-> 0, builder |-> 0]
NoBuild == [pc |-> "idle", read |-> 0, alone |-> TRUE, digest |-> 0]
NoSecretOp == [pc |-> "idle", value |-> Unset]

HostInit ==
    /\ root \in Folders \cup {Unset} /\ listening = Unset /\ setter = [c \in Caller |-> NoCommand]
    /\ source = [version |-> 2, at |-> 1] /\ clock = 1 /\ builds = [b \in Builder |-> NoBuild] /\ crossed = FALSE
    /\ artifact \in {[build |-> Missing, at |-> 0], [build |-> 1, at |-> 0]}
    /\ manifest \in {Missing, 1} /\ (artifact.build = Missing => manifest = Missing)
    /\ install = NoInstall /\ plugin = Missing /\ verified = FALSE /\ oldPlugin \in BOOLEAN
    /\ keychain = Unset /\ secretFile = Unset /\ secretOp = NoSecretOp
    /\ given \in {"roots", "plugin", "secrets"}     \* their stores are disjoint
    /\ spent = [builds |-> 0, installs |-> 0, secrets |-> 0, roots |-> 0]

Spend(kind, max) == spent[kind] < max /\ spent' = [spent EXCEPT ![kind] = @ + 1]

-----------------------------------------------------------------------------
(* The projects folder *)

\* pick_folder: cancelled, no folder, or one of Folders
PickFolder == Folders \cup {Unset}

\* projects_root_set, from the picker to the state file
ProjectsRootSet(c, folder) ==
    /\ setter[c].pc = "idle" /\ Spend("roots", MaxRoots)
    /\ IF folder = Unset THEN UNCHANGED <<root, setter>>
       ELSE root' = folder /\ setter' = [setter EXCEPT ![c] = [pc |-> "start", folder |-> folder]]
    /\ UNCHANGED <<listening, pluginVars, secretVars>>

\* broker.start: the folder it was given, or no port and the folder stays authorized
BrokerStart(c) ==
    /\ setter[c].pc = "start" /\ setter' = [setter EXCEPT ![c] = NoCommand]
    /\ listening' \in {setter[c].folder, IF listening = setter[c].folder THEN listening ELSE Unset}
    /\ UNCHANGED <<root, pluginVars, secretVars, spent>>

\* projects_root_clear
ProjectsRootClear(c) ==
    /\ setter[c].pc = "idle" /\ root # Unset /\ Spend("roots", MaxRoots)
    /\ root' = Unset /\ setter' = [setter EXCEPT ![c].pc = "stop"]
    /\ UNCHANGED <<listening, pluginVars, secretVars>>

BrokerStop(c) ==
    /\ setter[c].pc = "stop" /\ listening' = Unset /\ setter' = [setter EXCEPT ![c] = NoCommand]
    /\ UNCHANGED <<root, pluginVars, secretVars, spent>>

\* restore_broker, at the start of the program: it reads the folder, then starts
RestoreBroker(c) ==
    /\ setter[c].pc = "idle" /\ listening = Unset /\ root # Unset /\ Spend("roots", MaxRoots)
    /\ setter' = [setter EXCEPT ![c] = [pc |-> "start", folder |-> root]]
    /\ UNCHANGED <<root, listening, pluginVars, secretVars>>

-----------------------------------------------------------------------------
(* The plugin *)

\* A developer saves a source of the plugin
SaveSource ==
    /\ source.version < MaxSaves + 2 /\ clock' = clock + 1
    /\ source' = [version |-> source.version + 1, at |-> clock + 1]
    /\ UNCHANGED <<buildVars, artifact, manifest, install, plugin, verified, oldPlugin, rootVars, secretVars, spent>>

\* Bytes nobody has built and nobody else has: what is on disk while a file is written
Part ==
    CHOOSE n \in Newest + 1 .. Newest + 5 + Max(Builder) :
        n \notin {artifact.build, manifest, install.bytes, plugin} \cup {builds[b].digest : b \in Builder}

\* build.mjs up to the builder: it reads the sources; nothing keeps two of them apart
Builds(b) ==
    /\ builds[b].pc = "idle" /\ \A o \in 1 .. b - 1 : builds[o].pc # "idle"
    /\ builds' = [builds EXCEPT ![b] = [NoBuild EXCEPT !.pc = "write", !.read = source.version]]
    /\ crossed' = (crossed \/ \E o \in Builder : builds[o].pc # "idle")

\* By hand
StartBuild(b) ==
    /\ Spend("builds", MaxBuilds) /\ Builds(b)
    /\ UNCHANGED <<source, clock, artifact, manifest, install, plugin, verified, oldPlugin, rootVars, secretVars>>

\* The end of a script, with the installation that waits for it
BuildEnds(b, ok) ==
    /\ builds' = [builds EXCEPT ![b] = NoBuild]
    /\ install' = IF install.pc # "wait" \/ install.builder # b THEN install
                  ELSE IF ok THEN [install EXCEPT !.pc = "read"] ELSE NoInstall

Writing == {b \in Builder : builds[b].pc = "writing"}

\* buildArtifact: the builder opens the output, ...
OpenArtifact(b) ==
    /\ builds[b].pc = "write" /\ artifact' = [build |-> Part, at |-> clock]
    /\ builds' = [o \in Builder |->
                    IF o = b THEN [builds[b] EXCEPT !.pc = "writing", !.alone = (Writing = {})]
                    ELSE IF o \in Writing THEN [builds[o] EXCEPT !.alone = FALSE] ELSE builds[o]]
    /\ UNCHANGED <<source, clock, crossed, manifest, install, plugin, verified, oldPlugin, rootVars, secretVars, spent>>

\* ... and is done with it; with two writers the file may be of neither
WriteArtifact(b) ==
    /\ builds[b].pc = "writing" /\ clock' = clock + 1 /\ builds' = [builds EXCEPT ![b].pc = "hash"]
    /\ \/ artifact' = [build |-> builds[b].read, at |-> clock + 1]
       \/ ~ builds[b].alone /\ artifact' = [build |-> Part, at |-> clock + 1]
    /\ UNCHANGED <<source, crossed, manifest, install, plugin, verified, oldPlugin, rootVars, secretVars, spent>>

\* sha256: the file is read again
HashArtifact(b) ==
    /\ builds[b].pc = "hash" /\ builds' = [builds EXCEPT ![b].pc = "manifest", ![b].digest = artifact.build]
    /\ UNCHANGED <<source, clock, crossed, artifact, manifest, install, plugin, verified, oldPlugin, rootVars, secretVars, spent>>

\* writeManifest: a manifest that is half written cannot be parsed
OpenManifest(b) ==
    /\ builds[b].pc = "manifest" /\ builds' = [builds EXCEPT ![b].pc = "manifest open"] /\ manifest' = Part
    /\ UNCHANGED <<source, clock, crossed, artifact, install, plugin, verified, oldPlugin, rootVars, secretVars, spent>>

WriteManifest(b) ==
    /\ builds[b].pc = "manifest open" /\ manifest' = builds[b].digest /\ BuildEnds(b, TRUE)
    /\ UNCHANGED <<source, clock, crossed, artifact, plugin, verified, oldPlugin, rootVars, secretVars, spent>>

\* abort: the builder fails; a developer stops the script
BuildFails(b) ==
    /\ builds[b].pc # "idle" /\ BuildEnds(b, FALSE)
    /\ UNCHANGED <<source, clock, crossed, artifact, manifest, plugin, verified, oldPlugin, rootVars, secretVars, spent>>

\* resolve: the resources or an override, else what dev_tree_artifact finds; or a picked file
Resolve(origin) == origin = "picked" \/ artifact.build # Missing

\* dev_tree_stale: a source newer than the artifact
DevTreeStale == artifact.at < source.at

\* plugin_install takes plugin_lock, resolves, and rebuilds a stale checkout first
PluginInstall(origin) ==
    /\ install.pc = "idle" /\ Spend("installs", MaxInstalls) /\ Resolve(origin)
    /\ install' = [pc |-> IF origin = "dev-tree" /\ DevTreeStale THEN "rebuild" ELSE "read", origin |-> origin,
                   bytes |-> Missing, began |-> source.version, builder |-> 0]
    /\ UNCHANGED <<source, clock, buildVars, artifact, manifest, plugin, verified, oldPlugin, rootVars, secretVars>>

\* rebuild_dev_tree: without script or node the installation ends, else it waits for the script
RebuildDevTree(b) ==
    /\ install.pc = "rebuild"
    /\ \/ Builds(b) /\ install' = [install EXCEPT !.pc = "wait", !.builder = b]
       \/ install' = NoInstall /\ UNCHANGED buildVars
    /\ UNCHANGED <<source, clock, artifact, manifest, plugin, verified, oldPlugin, rootVars, secretVars, spent>>

\* read_artifact: an empty file or one too large is refused
ReadArtifact ==
    /\ install.pc = "read"
    /\ install' \in {NoInstall, [install EXCEPT !.pc = "verify", !.bytes = artifact.build]}
    /\ UNCHANGED <<source, clock, buildVars, artifact, manifest, plugin, verified, oldPlugin, rootVars, secretVars, spent>>

\* Mutant: what cannot be verified is installed as if it were
ManifestTrusted(bytes) == "verified"

\* manifest_beside and the digest: no manifest installs unverified, a wrong one or one that
\* cannot be parsed not at all
ManifestBeside(bytes) ==
    IF manifest = Missing THEN "unverified" ELSE IF manifest = bytes THEN "verified" ELSE "refused"

VerifyArtifact ==
    /\ install.pc = "verify"
    /\ LET verdict == ManifestBeside(install.bytes) IN
         IF verdict = "refused" THEN install' = NoInstall /\ UNCHANGED verified
         ELSE install' = [install EXCEPT !.pc = "place"] /\ verified' = (verdict = "verified")
    /\ UNCHANGED <<source, clock, buildVars, artifact, manifest, plugin, oldPlugin, rootVars, secretVars, spent>>

\* atomic_place: a temporary file and a rename, or nothing
AtomicPlace ==
    /\ install.pc = "place"
    /\ \/ plugin' = install.bytes /\ install' = [install EXCEPT !.pc = "stale"] /\ UNCHANGED verified
       \/ install' = NoInstall /\ verified' = FALSE /\ UNCHANGED plugin
    /\ UNCHANGED <<source, clock, buildVars, artifact, manifest, oldPlugin, rootVars, secretVars, spent>>

\* remove_stale, best effort
RemoveStale ==
    /\ install.pc = "stale" /\ install' = NoInstall /\ oldPlugin' \in {FALSE, oldPlugin}
    /\ UNCHANGED <<source, clock, buildVars, artifact, manifest, plugin, verified, rootVars, secretVars, spent>>

\* status: what the program says of the file in Studio's folder
PluginStatus == [installed |-> plugin # Missing, verified |-> plugin # Missing /\ manifest # Missing /\ plugin = manifest,
                 stale |-> oldPlugin, rebuilds |-> artifact.build # Missing /\ DevTreeStale]

-----------------------------------------------------------------------------
(* The secret *)

\* keychain_can_carry
KeychainCanCarry(value) == value \notin LongSecret

\* set_in, with secrets_lock: into the keychain when it can carry the key
SecretSet(value) ==
    /\ secretOp.pc = "idle" /\ Spend("secrets", MaxSecrets)
    /\ secretOp' = [pc |-> IF ~HasKeychain THEN "file" ELSE IF KeychainCanCarry(value) THEN "keychain" ELSE "file first", value |-> value]
    /\ UNCHANGED <<keychain, secretFile, rootVars, pluginVars>>

\* keychain_set: security stores the key, or refuses and the file store has it
KeychainSet ==
    /\ secretOp.pc = "keychain"
    /\ \/ keychain' = secretOp.value /\ secretOp' = [secretOp EXCEPT !.pc = "clear file"]
       \/ secretOp' = [secretOp EXCEPT !.pc = "file"] /\ UNCHANGED keychain
    /\ UNCHANGED <<secretFile, rootVars, pluginVars, spent>>

\* file_set: a corrupt store is replaced; a write that fails is the command's error
FileSet ==
    /\ secretOp.pc \in {"file", "file first"}
    /\ \/ /\ secretFile' = secretOp.value
          /\ secretOp' = IF secretOp.pc = "file" THEN NoSecretOp ELSE [secretOp EXCEPT !.pc = "delete"]
       \/ secretOp' = NoSecretOp /\ UNCHANGED secretFile
    /\ UNCHANGED <<keychain, rootVars, pluginVars, spent>>

\* file_clear, best effort after the keychain took the key
FileClear ==
    /\ secretOp.pc = "clear file" /\ secretOp' = NoSecretOp /\ secretFile' \in {Unset, secretFile}
    /\ UNCHANGED <<keychain, rootVars, pluginVars, spent>>

\* keychain_delete, best effort
KeychainDelete ==
    /\ secretOp.pc = "delete" /\ secretOp' = NoSecretOp /\ keychain' \in {Unset, keychain}
    /\ UNCHANGED <<secretFile, rootVars, pluginVars, spent>>

\* clear_in: both stores
SecretClear ==
    /\ secretOp.pc = "idle" /\ Spend("secrets", MaxSecrets) /\ UNCHANGED secretOp
    /\ keychain' \in {Unset, keychain} /\ secretFile' \in {Unset, secretFile}
    /\ UNCHANGED <<rootVars, pluginVars>>

\* get_in: the keychain first, the file when it has nothing or cannot be read
SecretGet == IF keychain # Unset THEN {keychain, secretFile} ELSE {secretFile}

\* The program ends in the middle of a command
ProgramEnds ==
    /\ install' = NoInstall /\ secretOp' = NoSecretOp /\ setter' = [c \in Caller |-> NoCommand] /\ listening' = Unset
    /\ verified' = FALSE
    /\ UNCHANGED <<root, source, clock, buildVars, artifact, manifest, plugin, oldPlugin, keychain, secretFile, spent>>

RootStep ==
    \E c \in Caller : \/ BrokerStart(c) \/ ProjectsRootClear(c) \/ BrokerStop(c) \/ RestoreBroker(c)
                      \/ \E folder \in PickFolder : ProjectsRootSet(c, folder)
PluginStep ==
    \/ SaveSource
    \/ \E b \in Builder : \/ StartBuild(b) \/ OpenArtifact(b) \/ WriteArtifact(b) \/ HashArtifact(b) \/ OpenManifest(b)
                         \/ WriteManifest(b) \/ BuildFails(b) \/ RebuildDevTree(b)
    \/ ReadArtifact \/ VerifyArtifact \/ AtomicPlace \/ RemoveStale
    \/ \E origin \in {"resources", "env", "dev-tree", "picked"} : PluginInstall(origin)
SecretStep == KeychainSet \/ FileSet \/ FileClear \/ KeychainDelete \/ SecretClear \/ \E value \in Secret : SecretSet(value)

HostNext ==
    /\ UNCHANGED given
    /\ \/ given = "roots" /\ RootStep
       \/ given = "plugin" /\ PluginStep
       \/ given = "secrets" /\ SecretStep
       \/ ProgramEnds

HostSpec == HostInit /\ [][HostNext]_hostVars

-----------------------------------------------------------------------------
(* Properties *)

\* As long as no two builds have run at the same time, a plugin reported as verified is a whole
\* build, although a build may rewrite, hash or give up the artifact and its manifest between any
\* two reads of the installation (plugin_install.rs install; build.mjs reads the file again to hash it).
VerifiedIsWhole == (verified /\ install.pc \in {"idle", "stale"} /\ ~ crossed) => Whole(plugin)

\* "A mismatch is refused outright rather than installed with a caveat" (plugin_install.rs): what is
\* reported as verified is a build.  Not so when two builds wrote one artifact.
VerifiedIsBuilt == (verified /\ install.pc \in {"idle", "stale"}) => Whole(plugin)

\* "the button always installs what the checkout currently says - never a forgotten build"
\* (commands.rs plugin_install): an installation from a checkout ends with sources at least as
\* new as when it began.
CheckoutInstalled == (install.pc = "stale" /\ install.origin = "dev-tree") => (Whole(plugin) => plugin >= install.began)

\* "The two stores are kept from drifting" (secrets.rs set_in): two different keys are never held.
StoresAgree == secretOp.pc = "idle" => (keychain = Unset \/ secretFile = Unset \/ keychain = secretFile)

\* "the broker listens only while a Projects folder is authorized" (commands.rs)
ListensAuthorized == (\A c \in Caller : setter[c].pc = "idle") => listening \in {Unset, root}
=============================================================================
