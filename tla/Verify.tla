------------------------------- MODULE Verify -------------------------------
(***************************************************************************)
(* POST /verify (server/verify.rs): the daemon compares the script files   *)
(* with what Studio holds, in many steps while files, the daemon's tree    *)
(* and Studio go on changing: a barrier, the tree under its lock, the      *)
(* files one by one after it, the checks in chunks, and Studio's scripts   *)
(* page by page.                                                           *)
(*                                                                         *)
(* A script is its own path, ref and file.  Texts are normalised before    *)
(* they are compared; a text of Studio is what its editor shows.  The scan *)
(* for layout hazards is the one of module Projection; same-named          *)
(* siblings, and the cut of long lists, are left out.                      *)
(***************************************************************************)
EXTENDS Naturals, Sequences, FiniteSets, SequencesExt

CONSTANTS
    Script, Text,
    Generated,          \* scripts a middleware makes: no Luau file of their own
    KeptUnknown,        \* scripts whose parent keeps what only Studio has
    FullScope,
    Backlogged,         \* files that are in the backlog
    Bytes,              \* the length of a text
    ChunkEntries, ChunkBytes, PageSize,
    MaxChanges

VARIABLES
    disk, tree, studio,         \* the text of each script on each side, or Gone
    unread, unsent,             \* changes on their way: file to tree, tree to Studio
    verify,                     \* the check that runs
    report,                     \* what it found
    quiet,                      \* nothing changed since it collected the tree
    changes

verifyVars == <<disk, tree, studio, unread, unsent, verify, report, quiet, changes>>

Gone == "gone"
Idle == [pc |-> "idle", scripts |-> <<>>, texts |-> <<>>, files |-> <<>>, back |-> {}, chunks |-> <<>>, answers |-> <<>>,
         offset |-> 0, listed |-> {}, settled |-> FALSE]
NoReport == [state |-> "none", mismatch |-> {}, missingInStudio |-> {}, missingOnDisk |-> {}, staleDaemon |-> {}, backlogStuck |-> {}]

\* A project that is in sync
VerifyInit ==
    /\ disk \in [Script -> Text \cup {Gone}] /\ \A s \in Generated : disk[s] # Gone
    /\ tree = disk /\ studio = disk /\ unread = {} /\ unsent = {}
    /\ verify = Idle /\ report = NoReport /\ quiet = FALSE /\ changes = 0

-----------------------------------------------------------------------------
(* What changes meanwhile *)

Spends == changes < MaxChanges /\ changes' = changes + 1
Stirs == quiet' = FALSE

DiskEdit(s, t) ==
    /\ Spends /\ s \notin Generated /\ t # disk[s] /\ disk' = [disk EXCEPT ![s] = t] /\ unread' = unread \cup {s} /\ Stirs
    /\ UNCHANGED <<tree, studio, unsent, verify, report>>

\* The processor follows the file, or never hears of it
ReadChange(s) ==
    /\ s \in unread /\ unread' = unread \ {s} /\ tree' = [tree EXCEPT ![s] = disk[s]] /\ unsent' = unsent \cup {s} /\ Stirs
    /\ UNCHANGED <<disk, studio, verify, report, changes>>
MissChange(s) ==
    /\ s \in unread /\ unread' = unread \ {s} /\ Stirs
    /\ UNCHANGED <<disk, tree, studio, unsent, verify, report, changes>>

\* Studio takes the change, or never gets it
Deliver(s) ==
    /\ s \in unsent /\ unsent' = unsent \ {s} /\ studio' = [studio EXCEPT ![s] = tree[s]] /\ Stirs
    /\ UNCHANGED <<disk, tree, unread, verify, report, changes>>
LoseChange(s) ==
    /\ s \in unsent /\ unsent' = unsent \ {s} /\ Stirs
    /\ UNCHANGED <<disk, tree, studio, unread, verify, report, changes>>

\* An edit in Studio is written to the files, or kept in Studio
StudioEdit(s, t, pushed) ==
    /\ Spends /\ t # studio[s] /\ studio' = [studio EXCEPT ![s] = t] /\ Stirs
    /\ IF pushed /\ s \notin Generated THEN disk' = [disk EXCEPT ![s] = t] /\ tree' = [tree EXCEPT ![s] = t] ELSE UNCHANGED <<disk, tree>>
    /\ UNCHANGED <<unread, unsent, verify, report>>

-----------------------------------------------------------------------------
(* The check *)

Step(v) == verify' = v /\ UNCHANGED <<disk, tree, studio, unread, unsent, changes>>

\* Without noSettle the barrier runs first; when it fails the check goes on
Begin(settle) ==
    /\ verify.pc = "idle" /\ report' = NoReport /\ quiet' = FALSE
    /\ Step([Idle EXCEPT !.pc = IF settle THEN "settle" ELSE "collect"])
Settle ==
    /\ verify.pc = "settle"
    /\ \/ unread \cup unsent = {} /\ Step([verify EXCEPT !.pc = "collect", !.settled = TRUE])
       \/ Step([verify EXCEPT !.pc = "collect"])
    /\ UNCHANGED <<report, quiet>>

\* collect, under the tree's lock: the scripts of the tree with the texts it has, and the backlog files that are back
Collect ==
    /\ verify.pc = "collect" /\ quiet' = TRUE
    /\ LET scripts == SetToSeq({s \in Script : tree[s] # Gone}) IN
       Step([verify EXCEPT !.pc = "files", !.scripts = scripts, !.texts = tree, !.files = [s \in Script |-> Gone],
                           !.back = {b \in Backlogged : disk[b] # Gone}])
    /\ UNCHANGED report

\* After the lock, one file after the other; a generated script is what the tree has
ReadFile ==
    /\ verify.pc = "files" /\ verify.scripts # <<>>
    /\ LET s == Head(verify.scripts) IN
       Step([verify EXCEPT !.scripts = Tail(@), !.files[s] = IF s \in Generated THEN verify.texts[s] ELSE disk[s]])
    /\ UNCHANGED <<report, quiet>>

Projected(v) == {s \in Script : v.texts[s] # Gone}

\* Mutant: what does not fill a chunk is not sent
WholeChunks(checks, size) ==
    LET full == Len(checks) \div ChunkEntries IN [k \in 1..full |-> SubSeq(checks, (k - 1) * ChunkEntries + 1, k * ChunkEntries)]

\* chunk: a check opens a chunk when the last one has ChunkEntries, or would have more than ChunkBytes
Chunk(checks, size) ==
    LET bytes(c) == FoldLeft(LAMBDA n, s : n + size[s], 0, c)
        add(chunks, s) == IF chunks # <<>> /\ Len(Last(chunks)) < ChunkEntries /\ bytes(Last(chunks)) + size[s] <= ChunkBytes
                          THEN [chunks EXCEPT ![Len(chunks)] = Append(@, s)] ELSE Append(chunks, <<s>>)
    IN FoldLeft(add, <<>>, checks)

\* The scripts that have a text
PlanChecks ==
    /\ verify.pc = "files" /\ verify.scripts = <<>>
    /\ LET scripts == {s \in Projected(verify) : verify.files[s] # Gone}
           size == [s \in Script |-> IF verify.files[s] = Gone THEN 0 ELSE Bytes[verify.files[s]]]
       IN Step([verify EXCEPT !.pc = "check", !.answers = [s \in Script |-> "none"],
                              !.chunks = Chunk(SetToSeq(scripts), size)])
    /\ UNCHANGED <<report, quiet>>

\* verify_sources: is it there, and is it that text
AnswerOf(s) == IF studio[s] = Gone THEN "absent" ELSE IF studio[s] = verify.files[s] THEN "same" ELSE "other"
CheckSources ==
    /\ verify.pc = "check" /\ verify.chunks # <<>>
    /\ Step([verify EXCEPT !.chunks = Tail(@),
                           !.answers = [s \in Script |-> IF s \in ToSet(Head(verify.chunks)) THEN AnswerOf(s) ELSE @[s]]])
    /\ UNCHANGED <<report, quiet>>

\* A request to the plugin that fails ends the check without a verdict
PluginFails ==
    /\ verify.pc \in {"check", "walk"} /\ report' = [NoReport EXCEPT !.state = "failed"] /\ Step(Idle) /\ UNCHANGED quiet

StartWalk ==
    /\ verify.pc = "check" /\ verify.chunks = <<>> /\ Step([verify EXCEPT !.pc = "walk", !.offset = 0]) /\ UNCHANGED <<report, quiet>>

\* verify_tree: a page of the scripts Studio has now
WalkPage ==
    /\ verify.pc = "walk"
    /\ LET all == SetToSeq({s \in Script : studio[s] # Gone})
           page == SubSeq(all, verify.offset + 1, Min({verify.offset + PageSize, Len(all)}))
           offset == verify.offset + Len(page)
           last == Len(page) < PageSize \/ offset >= Len(all) \/ offset > Len(all) + PageSize
       IN Step([verify EXCEPT !.offset = offset, !.listed = @ \cup ToSet(page), !.pc = IF last THEN "classify" ELSE "walk"])
    /\ UNCHANGED <<report, quiet>>

Classify ==
    /\ verify.pc = "classify"
    /\ LET known == Projected(verify)
           readable == {s \in known : verify.files[s] # Gone}
           kept(s) == FullScope /\ s \in KeptUnknown
           found == [state |-> "done",
                     staleDaemon |-> {s \in readable \ Generated : verify.files[s] # verify.texts[s]},
                     missingOnDisk |-> (known \ readable) \cup {s \in verify.listed \ known : ~kept(s)},
                     missingInStudio |-> {s \in readable : verify.answers[s] = "absent"},
                     mismatch |-> {s \in readable : verify.answers[s] = "other"},
                     backlogStuck |-> {b \in verify.back : verify.texts[b] = Gone \/ verify.answers[b] \in {"absent", "none"}}]
       IN report' = found
    /\ Step(Idle) /\ UNCHANGED quiet

VerifyNext ==
    \/ \E s \in Script, t \in Text \cup {Gone} : DiskEdit(s, t) \/ \E pushed \in BOOLEAN : StudioEdit(s, t, pushed)
    \/ \E s \in Script : ReadChange(s) \/ MissChange(s) \/ Deliver(s) \/ LoseChange(s)
    \/ \E settle \in BOOLEAN : Begin(settle)
    \/ Settle \/ Collect \/ ReadFile \/ PlanChecks \/ CheckSources \/ PluginFails \/ StartWalk \/ WalkPage \/ Classify

VerifySpec == VerifyInit /\ [][VerifyNext]_verifyVars

-----------------------------------------------------------------------------
(* Properties *)

Clean == report.mismatch \cup report.missingInStudio \cup report.missingOnDisk \cup report.staleDaemon \cup report.backlogStuck = {}
Tracked == {s \in Script : tree[s] # Gone}

\* The drift there is between the files and Studio; a file the daemon has not read yet is none of the tree's scripts
Drift ==
    {s \in Tracked \cap Generated : studio[s] # tree[s]}
    \cup {s \in Tracked \ Generated : disk[s] # studio[s] \/ disk[s] # tree[s]}
    \cup {s \in Script \ Tracked : studio[s] # Gone /\ ~(FullScope /\ s \in KeptUnknown)}
    \cup {b \in Backlogged : disk[b] # Gone /\ b \notin Tracked}

\* A verify during which nothing changed reports clean exactly when the scripts of the daemon, their files and Studio
\* agree, however the checks fall into chunks and pages (verify.rs main).
VerdictIsRight == report.state = "done" /\ quiet => (Clean <=> Drift = {})

\* A clean verdict means that every script file is in Studio (verify.rs: compares disk against what Studio actually holds).
CleanMeansSame == report.state = "done" /\ quiet /\ Clean => \A s \in Script \ Generated : disk[s] # Gone => studio[s] = disk[s]
=============================================================================
