------------------------------- MODULE ThreeWay -------------------------------
(***************************************************************************)
(* The classification of one difference at connect time                    *)
(* (src/server/three_way.rs) against a view of the sync base               *)
(* (src/server/sync_base.rs, `BaseView`).                                  *)
(*                                                                         *)
(* An instance path is a sequence of names.  An `Option` is a set of at    *)
(* most one element, and a map a function with a partial domain.  A view   *)
(* is a record of `entries`, a map from paths to keys, and `ambiguous`, a  *)
(* set of paths.  A key is whatever two sides can compute alike.           *)
(***************************************************************************)
EXTENDS Naturals, FiniteSets, SequencesExt

OnlyOnDisk == "only-on-disk"
Differs == "differs"
MissingOnDisk == "missing-on-disk"

\* Studio's state lands on disk; it does so and the disk side goes to the
\* backlog; disk's state is pushed to Studio
ToDisk == "Studio"
ToDiskKeepDisk == "StudioKeepDisk"
ToStudio == "Disk"
Winner == {ToDisk, ToDiskKeepDisk, ToStudio}

\* map.get(x)
Get(f, x) == {f[y] : y \in DOMAIN f \cap {x}}

\* The part of f strictly below p, keyed relative to p
Under(f, p) ==
    LET below == {q \in DOMAIN f : IsStrictPrefix(p, q)}
    IN  [r \in {SubSeq(q, Len(p) + 1, Len(q)) : q \in below} |-> f[p \o r]]

\* BaseView::descendants: None when a path below is ambiguous
Descendants(view, p) ==
    IF \E q \in view.ambiguous : IsStrictPrefix(p, q) THEN {} ELSE {Under(view.entries, p)}

\* Mutant: a subtree that only grew counts as untouched
UntouchedGrown(studio, agreed) == \A r \in DOMAIN agreed : Get(studio, r) = {{agreed[r]}}

\* Studio's subtree, whose keys may be unknown, is what was agreed
Untouched(studio, agreed) ==
    /\ Cardinality(DOMAIN studio) = Cardinality(DOMAIN agreed)
    /\ \A r \in DOMAIN agreed : Get(studio, r) = {{agreed[r]}}

\* The rule without a base
StudioFirst(state) == IF state = MissingOnDisk THEN ToDisk ELSE ToDiskKeepDisk

\* The rule with a base that has something to say of the path: the side that did
\* not move since the base yields
AgainstBase(view, input) ==
    LET agreed == Get(view.entries, input.path)
        diskMoved == input.disk # agreed
        studioMoved == input.studio # agreed
        deletable == /\ agreed # {} /\ ~studioMoved
                     /\ \E studio \in input.below, below \in Descendants(view, input.path) :
                           Untouched(studio, below)
    IN  CASE input.state = OnlyOnDisk -> IF agreed = {} THEN ToStudio ELSE ToDiskKeepDisk
          [] input.state = MissingOnDisk -> IF deletable THEN ToStudio ELSE ToDisk
          [] input.state = Differs /\ agreed # {} /\ ~diskMoved /\ studioMoved -> ToDisk
          [] input.state = Differs /\ agreed # {} /\ diskMoved /\ ~studioMoved -> ToStudio
          [] OTHER -> ToDiskKeepDisk

\* Mutant: the base is not looked at
ClassifyStudioFirst(base, input) == StudioFirst(input.state)

\* classify.  `disk` and `studio` are the keys of the sides, `below` what Studio
\* has below the path; each may be absent or unknown
Classify(base, input) ==
    IF base = {} \/ input.ambiguous \/ \E view \in base : input.path \in view.ambiguous
    THEN StudioFirst(input.state)
    ELSE AgainstBase(CHOOSE view \in base : TRUE, input)

\* The side that a difference takes without a copy did not move: Studio only
\* takes an agreed disk side, and disk only takes an agreed instance of Studio,
\* or one whose whole subtree, at every depth, is the agreed one
Yields(base, input) ==
    LET winner == Classify(base, input)
        agreed(view) == Get(view.entries, input.path)
        below(view) == Under(view.entries, input.path)
    IN  /\ winner = ToDisk /\ input.state = Differs =>
              \E view \in base : input.disk = agreed(view) /\ agreed(view) # {}
        /\ winner = ToStudio /\ input.state = OnlyOnDisk =>
              \E view \in base : agreed(view) = {}
        /\ winner = ToStudio /\ input.state # OnlyOnDisk =>
              \E view \in base : input.studio = agreed(view) /\ agreed(view) # {}
        /\ winner = ToStudio /\ input.state = MissingOnDisk =>
              \E view \in base : \E studio \in input.below :
                 /\ DOMAIN studio = DOMAIN below(view)
                 /\ \A r \in DOMAIN studio : studio[r] = {below(view)[r]}
=============================================================================
