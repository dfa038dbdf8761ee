--------------------------- MODULE MCRequestRouter ---------------------------
(* RequestRouter on small instances *)
EXTENDS RequestRouter, TLC

\* Requests differ only in what they ask, operation ids only from each other
RequestSymmetry == Permutations(Request) \cup Permutations(Operation)
=============================================================================
