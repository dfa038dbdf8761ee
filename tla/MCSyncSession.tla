---------------------------- MODULE MCSyncSession ----------------------------
(* SyncSession on small instances *)
EXTENDS SyncSession

One == {<<"f">>}

\* A session that nobody edits in Studio, with a daemon that dies once more and that
\* somebody resumes
Resumed == INSTANCE SyncSession WITH
    MaxStudioEdits <- 0, MaxCrashes <- MaxCrashes + 1, MaxResumes <- 1

\* The budget of the initial state says what may happen: Next counts it down
CrashesSpec == (Init \/ Resumed!Init) /\ [][Next]_vars

\* Sources only differ from each other
SourceSymmetry == Permutations(Source)

\* So do places
PlaceSymmetry == Permutations(Source) \cup Permutations(Place)
=============================================================================
