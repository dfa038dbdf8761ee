--------------------------- MODULE RequestContract ---------------------------
(***************************************************************************)
(* What POST /request promises its caller (src/server/request.rs, meta of  *)
(* the reply): each request is answered once, Studio runs it at most once, *)
(* and "completion" is true of what Studio did: a request reported         *)
(* "notStarted" (retrySafe) has not run and never will, one reported       *)
(* "completed" or "partial" has.  "unknown" promises nothing.              *)
(***************************************************************************)
CONSTANT Request

VARIABLES
    effect,     \* by request: what Studio did of it
    verdict     \* by request: the completion its caller was told, or "open"

contractVars == <<effect, verdict>>

Effect == {"none", "refused", "some", "all"}
Verdict == {"open", "notStarted", "unknown", "partial", "completed"}

\* Effects a verdict is true of
TrueOf(v) ==
    CASE v = "notStarted" -> {"none", "refused"}
      [] v = "completed" -> {"all"}
      [] v = "partial" -> {"some", "all"}
      [] OTHER -> Effect

ContractInit == effect = [r \in Request |-> "none"] /\ verdict = [r \in Request |-> "open"]

\* Studio runs a request, or refuses to: only one it may still run
Run(r) ==
    /\ effect[r] = "none" /\ verdict[r] # "notStarted"
    /\ \E e \in Effect \ {"none"} : effect' = [effect EXCEPT ![r] = e]
    /\ UNCHANGED verdict

Reply(r) ==
    /\ verdict[r] = "open"
    /\ \E v \in Verdict \ {"open"} : effect[r] \in TrueOf(v) /\ verdict' = [verdict EXCEPT ![r] = v]
    /\ UNCHANGED effect

\* What the daemon knows itself is done and answered at once
Serve(r) ==
    /\ effect[r] = "none" /\ verdict[r] = "open"
    /\ effect' = [effect EXCEPT ![r] = "all"] /\ verdict' = [verdict EXCEPT ![r] = "completed"]

ContractNext == \E r \in Request : Run(r) \/ Reply(r) \/ Serve(r)

ContractSpec == ContractInit /\ [][ContractNext]_contractVars
=============================================================================
