----------------------------- MODULE MCReconnect -----------------------------
(***************************************************************************)
(* Reconnect in one of two settings per behaviour: a directory of two      *)
(* scripts and a plugin that tells everything on a link that holds; and    *)
(* two instances beside each other, with pushes that never arrive, links   *)
(* that drop before the writer settles, plugins old and new, and instances *)
(* that change class.                                                      *)
(***************************************************************************)
EXTENDS Reconnect

Directory == {<<"d">>, <<"d", "f">>, <<"d", "g">>}
Siblings == {<<"d">>, <<"e">>}
AllPaths == Directory \cup Siblings

TheSettings ==
    {[paths |-> Directory, races |-> {}],
     [paths |-> Siblings, races |-> {"lost push", "unsettled", "old plugin", "truncated", "retyped"}]}

\* Sources only differ from each other
SourceSymmetry == Permutations(Source)
=============================================================================
