-------------------------- MODULE MCConflictRecords --------------------------
(***************************************************************************)
(* ConflictSession under two sets of timings, one per behaviour: the       *)
(* constants of the cfg, where every race there is may happen to two       *)
(* instances and a full park; and "late", where one file is read late.     *)
(***************************************************************************)
EXTENDS ConflictSession, TLC

CONSTANT a

VARIABLE scenario

Late == INSTANCE ConflictSession WITH
    Instance <- {a}, ParkLimit <- 2, MaxDiskEdits <- 2, MaxStudioEdits <- 1, MaxResolves <- 0,
    Races <- {"unread file", "unflushed"}

RecordsInit ==
    \/ scenario = "any" /\ Init
    \/ scenario = "late" /\ Late!Init

RecordsNext ==
    \/ scenario = "any" /\ Next /\ UNCHANGED scenario
    \/ scenario = "late" /\ Late!Next /\ UNCHANGED scenario

RecordsSpec == RecordsInit /\ [][RecordsNext]_<<vars, scenario>>

\* On a link that delivers at once, every content Studio had survives somewhere
\* although the file is read late (StudioEditsKept of ConflictSession).
StudioEditsKeptLate == scenario = "late" => Late!StudioEditsKept

\* The contents users type are interchangeable
EditSymmetry == Permutations(Content \ {Original})
=============================================================================
