-------------------------- MODULE MCConflictResolved --------------------------
(***************************************************************************)
(* ConflictSession under two sets of timings, one per behaviour: the       *)
(* constants of the cfg, where the resolvers are on their own on a link of *)
(* any speed; and "by hand", where POST /resolve and failing writes join   *)
(* them, but answers come inside the race window.                          *)
(***************************************************************************)
EXTENDS ConflictSession, TLC

VARIABLE scenario

ByHand == INSTANCE ConflictSession WITH
    MaxStudioEdits <- 1, MaxResolves <- 1,
    Races <- {"busy resolver", "debounce", "unflushed", "write error"}

ResolvedInit == scenario \in {"alone", "by hand"} /\ Init

Goes(action) == scenario = "alone" /\ action /\ UNCHANGED scenario

ResolvedNext ==
    \/ Goes(Next)
    \/ scenario = "by hand" /\ ByHand!Next /\ UNCHANGED scenario

\* The fairness of FairSpec; the behaviours by hand owe nothing
ResolvedSpec ==
    /\ ResolvedInit /\ [][ResolvedNext]_<<vars, scenario>>
    /\ WF_<<vars, scenario>>(Goes(Plugin)) /\ WF_<<vars, scenario>>(Goes(Processor))
    /\ WF_<<vars, scenario>>(Goes(Resolvers))

\* No push of the plugin is applied over a file content that Studio never held,
\* although somebody resolves by hand in between (NoBlindApply of ConflictSession;
\* conflict/mod.rs: "a push may only apply while the disk side still matches the
\* baseline").
NoBlindApplyByHand == [][scenario = "by hand" => ByHand!NoBlindStep]_vars

\* Left to the resolvers, every content a file had survives somewhere
\* (DiskEditsKept of ConflictSession).
DiskEditsKeptAlone == scenario = "alone" => DiskEditsKept

\* Left to the resolvers, no conflict stays parked (ClashesResolve of
\* ConflictSession; server/mod.rs: the notifier resolves every clash).
ClashesResolveAlone == scenario = "alone" => ClashesResolve
=============================================================================
