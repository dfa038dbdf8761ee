------------------------------ MODULE CrashGuard ------------------------------
(***************************************************************************)
(* The crash guard of the daemon (src/server/crash_guard.rs) as one value: *)
(* the marker file a connect leaves while it applies, whether this boot is *)
(* in safe mode, the number of connects so far, the connects whose         *)
(* `settle` sleeps before it clears the marker, and who has decided to     *)
(* remove the marker and has not done so yet (`unlinking`: connects that   *)
(* settled, and 0 for a resume).                                           *)
(*                                                                         *)
(* `clear_if_current` and `resume` let go of their lock before they remove *)
(* the file, so each is two operators.  `begin` raises the generation      *)
(* under its lock and writes the file after it; between the two a settle   *)
(* sees the new generation, as it does after the write, and a removal is   *)
(* as good as one before the begin, so begin is one operator.              *)
(***************************************************************************)
EXTENDS Naturals

\* Mutant: reading the marker uses it up
GuardLoadOnce(marker) ==
    [marker |-> FALSE, safe |-> marker, generation |-> 0, settling |-> {}, unlinking |-> {}]

\* CrashGuard::load: a marker means that the last daemon died in a connect
GuardLoad(marker) ==
    [marker |-> marker, safe |-> marker, generation |-> 0, settling |-> {}, unlinking |-> {}]

\* A connect is about to write; a marker that cannot be written is warned about
Begin(g, written) ==
    [g EXCEPT !.generation = @ + 1, !.marker = @ \/ written]

Settle(g, n) == [g EXCEPT !.settling = @ \cup {n}]

\* Mutant: any connect that settles clears the marker
SettledAny(g, n) == [g EXCEPT !.settling = @ \ {n}, !.unlinking = @ \cup {n}]

\* The daemon has survived connect n by SETTLE: the marker goes if no connect
\* began since
Settled(g, n) ==
    [g EXCEPT !.settling = @ \ {n}, !.unlinking = @ \cup ({n} \cap {g.generation})]

\* POST /safe-mode/resume, whether or not safe mode is on
Resume(g) == [g EXCEPT !.safe = FALSE, !.unlinking = @ \cup {0}]

\* remove_file, by whoever decided to
Unlink(g, n) == [g EXCEPT !.unlinking = @ \ {n}, !.marker = FALSE]

\* A graceful shutdown
OnShutdown(g) == [g EXCEPT !.marker = FALSE]
=============================================================================
