----------------------------- MODULE PlanProofs -----------------------------
(***************************************************************************)
(* What a connect decides and does, for every two trees: the rule of       *)
(* three_way.rs takes nothing that moved; every path is paired or below    *)
(* one topmost difference; and, where there are no sidecars, the merge is  *)
(* disk's side where disk won and Studio's everywhere else, so that Studio *)
(* holds it once the pushes are applied.                                   *)
(*                                                                         *)
(* An induction over the depth of a path is made from the least member of  *)
(* a set of natural numbers (WFMin).                                       *)
(***************************************************************************)
EXTENDS ConnectPlan, FiniteSetTheorems, WellFoundedInduction, TLAPS

(* classify *)

\* `studio.len() == agreed.len() && agreed.iter().all(..)` compares whole maps
LEMMA UntouchedIsEqual ==
    ASSUME NEW studio, NEW agreed, IsFiniteSet(DOMAIN studio), IsFiniteSet(DOMAIN agreed),
           Untouched(studio, agreed)
    PROVE  /\ DOMAIN studio = DOMAIN agreed
           /\ \A r \in DOMAIN studio : studio[r] = {agreed[r]}
<1>1. \A r \in DOMAIN agreed : r \in DOMAIN studio /\ studio[r] = {agreed[r]}
  <2>1. SUFFICES ASSUME NEW r \in DOMAIN agreed
                 PROVE  r \in DOMAIN studio /\ studio[r] = {agreed[r]}
    OBVIOUS
  <2>2. Get(studio, r) = {{agreed[r]}}
    BY DEF Untouched
  <2>3. PICK y \in DOMAIN studio \cap {r} : studio[y] = {agreed[r]}
    BY <2>2 DEF Get
  <2>4. QED
    BY <2>3
<1>2. DOMAIN agreed \subseteq DOMAIN studio
  BY <1>1
<1>3. Cardinality(DOMAIN studio) = Cardinality(DOMAIN agreed)
  BY DEF Untouched
<1>4. DOMAIN agreed = DOMAIN studio
  BY <1>2, <1>3, FS_Subset, FS_CardinalityType
<1>5. QED
  BY <1>1, <1>4

\* The base a difference is judged against is the only one there is, and it knows
\* the path
LEMMA JudgedAgainstBase ==
    ASSUME NEW base, NEW input,
           Classify(base, input) # StudioFirst(input.state)
    PROVE  \E view \in base : Classify(base, input) = AgainstBase(view, input)
<1>1. base # {}
  BY DEF Classify
<1>2. Classify(base, input) = AgainstBase(CHOOSE view \in base : TRUE, input)
  BY DEF Classify
<1>3. (CHOOSE view \in base : TRUE) \in base
  BY <1>1
<1>4. QED
  BY <1>2, <1>3

\* The side that a difference takes without a copy did not move (three_way.rs,
\* Winner and classify)
THEOREM ClassifyYields ==
    ASSUME NEW base, NEW input,
           input.state \in {OnlyOnDisk, Differs, MissingOnDisk},
           \A view \in base : IsFiniteSet(DOMAIN Under(view.entries, input.path)),
           \A studio \in input.below : IsFiniteSet(DOMAIN studio)
    PROVE  Yields(base, input)
<1> DEFINE winner == Classify(base, input)
           agreed(view) == Get(view.entries, input.path)
           below(view) == Under(view.entries, input.path)
<1> USE DEF OnlyOnDisk, Differs, MissingOnDisk, ToDisk, ToDiskKeepDisk, ToStudio
<1>1. ASSUME winner = ToDisk, input.state = Differs
      PROVE  \E view \in base : input.disk = agreed(view) /\ agreed(view) # {}
  <2>1. PICK view \in base : winner = AgainstBase(view, input)
    BY <1>1, JudgedAgainstBase DEF StudioFirst
  <2>2. QED
    BY <1>1, <2>1 DEF AgainstBase
<1>2. ASSUME winner = ToStudio, input.state = OnlyOnDisk
      PROVE  \E view \in base : agreed(view) = {}
  <2>1. PICK view \in base : winner = AgainstBase(view, input)
    BY <1>2, JudgedAgainstBase DEF StudioFirst
  <2>2. QED
    BY <1>2, <2>1 DEF AgainstBase
<1>3. ASSUME winner = ToStudio, input.state # OnlyOnDisk
      PROVE  \E view \in base : input.studio = agreed(view) /\ agreed(view) # {}
  <2>1. PICK view \in base : winner = AgainstBase(view, input)
    BY <1>3, JudgedAgainstBase DEF StudioFirst
  <2>2. QED
    BY <1>3, <2>1 DEF AgainstBase
<1>4. ASSUME winner = ToStudio, input.state = MissingOnDisk
      PROVE  \E view \in base : \E studio \in input.below :
                /\ DOMAIN studio = DOMAIN below(view)
                /\ \A r \in DOMAIN studio : studio[r] = {below(view)[r]}
  <2>1. PICK view \in base : winner = AgainstBase(view, input)
    BY <1>4, JudgedAgainstBase DEF StudioFirst
  <2>2. PICK studio \in input.below, b \in Descendants(view, input.path) : Untouched(studio, b)
    BY <1>4, <2>1 DEF AgainstBase
  <2>3. b = below(view)
    BY <2>2 DEF Descendants
  <2>4. IsFiniteSet(DOMAIN studio) /\ IsFiniteSet(DOMAIN b)
    BY <2>3
  <2>5. QED
    BY <2>2, <2>3, <2>4, UntouchedIsEqual
<1>5. QED
  BY <1>1, <1>2, <1>3, <1>4 DEF Yields

-----------------------------------------------------------------------------
(* Paths *)

\* Every nonempty set of natural numbers has a least element
LEMMA Least ==
    ASSUME NEW T \in SUBSET Nat, T # {}
    PROVE  \E x \in T : \A y \in T : x <= y
<1> DEFINE R == OpToRel(<, Nat)
<1>1. IsWellFoundedOn(R, Nat)
    BY NatLessThanWellFounded
<1>2. \A x, y \in Nat : x < y => <<x, y>> \in R
    BY DEF OpToRel
<1> HIDE DEF R
<1>3. PICK x \in T : \A y \in T : ~ (<<y, x>> \in R)
    BY <1>1, WFMin
<1>4. \A y \in T : ~(y < x)
    BY <1>2, <1>3
<1> QED
    BY <1>4

\* The names that instances have
Names == UNION {Range(p) : p \in Path}

\* A path is a nonempty sequence of names
LEMMA PathIsSeq ==
    ASSUME NEW p \in Path
    PROVE  p \in Seq(Names) /\ Len(p) \in Nat /\ Len(p) >= 1
BY PlanAssumption DEF Names

\* ... and every nonempty set of paths one that is no longer than the others
LEMMA Shortest ==
    ASSUME NEW T \in SUBSET Path, T # {}
    PROVE  \E p \in T : \A q \in T : Len(p) <= Len(q)
<1> DEFINE L == {Len(p) : p \in T}
<1>1. \A p \in T : Len(p) \in Nat
    BY PathIsSeq
<1>2. L \in SUBSET Nat /\ L # {}
    BY <1>1
<1> HIDE DEF L
<1>3. PICK x \in L : \A y \in L : x <= y
    BY <1>2, Least
<1>4. PICK p \in T : Len(p) = x
    BY <1>3 DEF L
<1>5. \A q \in T : Len(q) \in L
    BY DEF L
<1> QED
    BY <1>3, <1>4, <1>5

\* Within, name by name
LEMMA WithinMeans ==
    ASSUME NEW p \in Path, NEW q \in Path
    PROVE  Within(p, q) <=> Len(p) <= Len(q) /\ \A i \in 1 .. Len(p) : p[i] = q[i]
<1>1. p \in Seq(Names) /\ q \in Seq(Names) /\ Len(p) \in Nat /\ Len(q) \in Nat
    BY PathIsSeq
<1>2. SubSeq(p, 1, Len(p)) = [i \in 1 .. Len(p) |-> p[i]]
    BY <1>1
<1>3. ASSUME Len(p) <= Len(q)
      PROVE  SubSeq(q, 1, Len(p)) = [i \in 1 .. Len(p) |-> q[i]]
    BY <1>1, <1>3
<1>4. ([i \in 1 .. Len(p) |-> p[i]] = [i \in 1 .. Len(p) |-> q[i]]) <=> \A i \in 1 .. Len(p) : p[i] = q[i]
    <2>1. ASSUME [i \in 1 .. Len(p) |-> p[i]] = [i \in 1 .. Len(p) |-> q[i]], NEW i \in 1 .. Len(p)
          PROVE  p[i] = q[i]
        <3>1. [j \in 1 .. Len(p) |-> p[j]][i] = [j \in 1 .. Len(p) |-> q[j]][i]
            BY <2>1
        <3> QED
            BY <3>1
    <2> QED
        BY <2>1
<1> QED
    BY <1>2, <1>3, <1>4 DEF Within, IsPrefix

\* Within is a partial order in which the paths above a path form a chain
LEMMA WithinSelf == ASSUME NEW p \in Path PROVE Within(p, p)
BY WithinMeans, PathIsSeq

LEMMA WithinTrans ==
    ASSUME NEW p \in Path, NEW q \in Path, NEW r \in Path, Within(p, q), Within(q, r)
    PROVE  Within(p, r)
BY WithinMeans, PathIsSeq

LEMMA WithinSame ==
    ASSUME NEW p \in Path, NEW q \in Path, Within(p, q), Len(p) >= Len(q)
    PROVE  p = q
<1>1. p \in Seq(Names) /\ q \in Seq(Names) /\ Len(p) \in Nat /\ Len(q) \in Nat
    BY PathIsSeq
<1>2. Len(p) = Len(q) /\ \A i \in 1 .. Len(p) : p[i] = q[i]
    BY <1>1, WithinMeans
<1> QED
    BY <1>1, <1>2

LEMMA WithinLinear ==
    ASSUME NEW p \in Path, NEW q \in Path, NEW r \in Path, Within(p, r), Within(q, r)
    PROVE  Within(p, q) \/ Within(q, p)
BY WithinMeans, PathIsSeq

\* The parent of a path is one shorter and above it
LEMMA FrontWithin ==
    ASSUME NEW p \in Path, Len(p) > 1
    PROVE  Front(p) \in Path /\ Within(Front(p), p) /\ Len(Front(p)) = Len(p) - 1
<1>1. Front(p) \in Path /\ p \in Seq(Names) /\ Len(p) \in Nat
    BY PlanAssumption, PathIsSeq
<1>2. Len(Front(p)) = Len(p) - 1 /\ \A i \in 1 .. Len(p) - 1 : Front(p)[i] = p[i]
    BY <1>1 DEF Front
<1> QED
    BY <1>1, <1>2, WithinMeans

\* What is properly above a path is above its parent
LEMMA WithinFront ==
    ASSUME NEW p \in Path, NEW q \in Path, Within(p, q), p # q
    PROVE  Len(q) > 1 /\ Len(p) < Len(q) /\ Within(p, Front(q))
<1>1. Len(p) \in Nat /\ Len(q) \in Nat /\ Len(p) >= 1
    BY PathIsSeq
<1>2. Len(p) < Len(q)
    BY <1>1, WithinSame
<1>3. Front(q) \in Path /\ Within(Front(q), q) /\ Len(Front(q)) = Len(q) - 1
    BY <1>1, <1>2, FrontWithin
<1>4. Within(p, Front(q)) \/ Within(Front(q), p)
    BY <1>3, WithinLinear
<1>5. ASSUME Within(Front(q), p) PROVE Within(p, Front(q))
    <2>1. Len(Front(q)) >= Len(p)
        BY <1>1, <1>2, <1>3
    <2>2. Front(q) = p
        BY <1>5, <2>1, <1>3, <1>1, WithinMeans, WithinSame
    <2> QED
        BY <2>2, WithinSelf
<1> QED
    BY <1>1, <1>2, <1>4, <1>5

\* The topmost path of a set on the way to one of its members
LEMMA Topmost ==
    ASSUME NEW T \in SUBSET Path, NEW p \in T
    PROVE  \E q \in T : Within(q, p) /\ (Len(q) > 1 => Front(q) \notin T)
<1> DEFINE U == {q \in T : Within(q, p)}
<1>1. U \in SUBSET Path /\ U # {}
    BY WithinSelf
<1>2. PICK q \in U : \A r \in U : Len(q) <= Len(r)
    BY <1>1, Shortest
<1>3. q \in Path /\ q \in T /\ Within(q, p)
    BY <1>2
<1>4. ASSUME Len(q) > 1, Front(q) \in T PROVE FALSE
    <2>1. Front(q) \in Path /\ Within(Front(q), q) /\ Len(Front(q)) = Len(q) - 1
        BY <1>3, <1>4, FrontWithin
    <2>2. Front(q) \in U
        BY <1>3, <1>4, <2>1, WithinTrans
    <2> QED
        BY <1>2, <1>3, <2>1, <2>2, PathIsSeq
<1> QED
    BY <1>3, <1>4

\* A path and the rest below it
LEMMA AppendRest ==
    ASSUME NEW p \in Path, NEW q \in Path, Within(p, q)
    PROVE  p \o SubSeq(q, Len(p) + 1, Len(q)) = q
<1>1. p \in Seq(Names) /\ q \in Seq(Names) /\ Len(p) \in Nat /\ Len(q) \in Nat
    BY PathIsSeq
<1>2. Len(p) <= Len(q) /\ \A i \in 1 .. Len(p) : p[i] = q[i]
    BY WithinMeans
<1> DEFINE r == SubSeq(q, Len(p) + 1, Len(q))
<1>3. r \in Seq(Names) /\ Len(r) = Len(q) - Len(p) /\ \A i \in 1 .. Len(r) : r[i] = q[Len(p) + i]
    BY <1>1, <1>2
<1> HIDE DEF r
<1>4. p \o r \in Seq(Names) /\ Len(p \o r) = Len(q)
    BY <1>1, <1>2, <1>3
<1>5. ASSUME NEW i \in 1 .. Len(q) PROVE (p \o r)[i] = q[i]
    <2>1. CASE i <= Len(p)
        BY <1>1, <1>2, <1>3, <2>1
    <2>2. CASE i > Len(p)
        <3>1. (p \o r)[i] = r[i - Len(p)]
            BY <1>1, <1>2, <1>3, <2>2
        <3>2. i - Len(p) \in 1 .. Len(r) /\ Len(p) + (i - Len(p)) = i
            BY <1>1, <1>3, <2>2
        <3> QED
            BY <1>3, <3>1, <3>2
    <2>3. i <= Len(p) \/ i > Len(p)
        BY <1>1
    <2> QED
        BY <2>1, <2>2, <2>3
<1> QED
    BY <1>1, <1>4, <1>5 DEF r

-----------------------------------------------------------------------------
(* Trees and contents *)

\* What a tree is ...
LEMMA TreeMeans ==
    ASSUME NEW t \in Tree
    PROVE  /\ DOMAIN t \subseteq Path /\ t = [p \in DOMAIN t |-> t[p]]
           /\ \A p \in DOMAIN t : t[p] \in Content
           /\ \A p \in DOMAIN t : Len(p) > 1 => Front(p) \in DOMAIN t /\ t[Front(p)] \in Folder
<1>1. IsTree(t) /\ \E D \in SUBSET Path : t \in [D -> Content]
    BY DEF Tree
<1> QED
    BY <1>1 DEF IsTree

\* ... and when a map is one
LEMMA TreeIs ==
    ASSUME NEW t, DOMAIN t \subseteq Path, t = [p \in DOMAIN t |-> t[p]],
           \A p \in DOMAIN t : t[p] \in Content,
           \A p \in DOMAIN t : Len(p) > 1 => Front(p) \in DOMAIN t /\ t[Front(p)] \in Folder
    PROVE  t \in Tree
<1>1. t \in [DOMAIN t -> Content] /\ DOMAIN t \in SUBSET Path
    OBVIOUS
<1>2. t \in UNION {[D -> Content] : D \in SUBSET Path}
    BY <1>1
<1> QED
    BY <1>2 DEF Tree, IsTree

\* What is above an instance is there, and a folder
LEMMA TreeClosed ==
    ASSUME NEW t \in Tree, NEW p \in DOMAIN t, NEW q \in Path, Within(q, p)
    PROVE  q \in DOMAIN t /\ (q # p => t[q] \in Folder)
<1> DEFINE U == {r \in DOMAIN t : Within(q, r) /\ Within(r, p) /\ r # q}
<1>1. CASE q = p
    BY <1>1
<1>2. CASE q # p
    <2>1. U \in SUBSET Path /\ p \in U /\ p \in Path
        BY <1>2, TreeMeans, WithinSelf
    <2>2. PICK r \in U : \A x \in U : Len(r) <= Len(x)
        BY <2>1, Shortest
    <2>3. r \in Path /\ r \in DOMAIN t /\ Within(q, r) /\ Within(r, p) /\ r # q
        BY <2>1, <2>2
    <2>4. Len(r) > 1 /\ Within(q, Front(r))
        BY <2>3, WithinFront
    <2>5. Front(r) \in DOMAIN t /\ t[Front(r)] \in Folder
        BY <2>3, <2>4, TreeMeans
    <2>6. Front(r) \in Path /\ Within(Front(r), r) /\ Len(Front(r)) = Len(r) - 1
        BY <2>3, <2>4, FrontWithin
    <2>7. Within(Front(r), p)
        BY <2>1, <2>3, <2>6, WithinTrans
    <2>8. Front(r) = q
        <3>1. ASSUME Front(r) # q PROVE FALSE
            <4>1. Front(r) \in U
                BY <2>4, <2>5, <2>7, <3>1
            <4>2. Len(r) <= Len(r) - 1
                BY <4>1, <2>2, <2>6
            <4> QED
                BY <4>2, <2>3, PathIsSeq
        <3> QED
            BY <3>1
    <2> QED
        BY <2>5, <2>8
<1> QED
    BY <1>1, <1>2

\* Get is the value, if there is one
LEMMA GetMeans ==
    ASSUME NEW f, NEW x
    PROVE  /\ x \in DOMAIN f => Get(f, x) = {f[x]}
           /\ x \notin DOMAIN f => Get(f, x) = {}
BY DEF Get

\* Two maps are the same when they hold the same at every path
LEMMA SameMap ==
    ASSUME NEW f, NEW g, f = [p \in DOMAIN f |-> f[p]], g = [p \in DOMAIN g |-> g[p]],
           DOMAIN f \subseteq Path, DOMAIN g \subseteq Path,
           \A p \in Path : Get(f, p) = Get(g, p)
    PROVE  f = g
<1>1. \A p \in Path : (p \in DOMAIN f <=> p \in DOMAIN g) /\ (p \in DOMAIN f => f[p] = g[p])
    <2>1. SUFFICES ASSUME NEW p \in Path
                   PROVE  (p \in DOMAIN f <=> p \in DOMAIN g) /\ (p \in DOMAIN f => f[p] = g[p])
        OBVIOUS
    <2>2. Get(f, p) = Get(g, p)
        OBVIOUS
    <2> QED
        BY <2>2, GetMeans
<1>2. DOMAIN f = DOMAIN g
    BY <1>1
<1> QED
    BY <1>1, <1>2

\* What is left without the paths in P and all below
LEMMA WithoutMeans ==
    ASSUME NEW t, NEW P
    PROVE  /\ DOMAIN Without(t, P) = {q \in DOMAIN t : \A p \in P : ~Within(p, q)}
           /\ \A q \in DOMAIN Without(t, P) : Without(t, P)[q] = t[q]
           /\ Without(t, P) = [q \in DOMAIN Without(t, P) |-> Without(t, P)[q]]
BY DEF Without, Restrict

\* Without only removes
LEMMA WithoutDomain ==
    ASSUME NEW t, NEW P
    PROVE  DOMAIN Without(t, P) \subseteq DOMAIN t
<1>1. DOMAIN Without(t, P) = {q \in DOMAIN t : \A p \in P : ~Within(p, q)}
    BY WithoutMeans
<1> QED
    BY <1>1

\* A tree without some subtrees is a tree
LEMMA WithoutTree ==
    ASSUME NEW t \in Tree, NEW P \in SUBSET Path
    PROVE  Without(t, P) \in Tree
<1> DEFINE u == Without(t, P)
<1>1. /\ DOMAIN t \subseteq Path /\ \A p \in DOMAIN t : t[p] \in Content
      /\ \A p \in DOMAIN t : Len(p) > 1 => Front(p) \in DOMAIN t /\ t[Front(p)] \in Folder
    BY TreeMeans
<1>2. /\ DOMAIN u = {q \in DOMAIN t : \A p \in P : ~Within(p, q)}
      /\ \A q \in DOMAIN u : u[q] = t[q]
      /\ u = [q \in DOMAIN u |-> u[q]]
    BY WithoutMeans
<1> HIDE DEF u
<1>3. ASSUME NEW q \in DOMAIN u, Len(q) > 1
      PROVE  Front(q) \in DOMAIN u /\ u[Front(q)] \in Folder
    <2>1. q \in DOMAIN t /\ q \in Path /\ Front(q) \in DOMAIN t /\ t[Front(q)] \in Folder
        BY <1>1, <1>2, <1>3
    <2>2. Front(q) \in Path /\ Within(Front(q), q)
        BY <1>3, <2>1, FrontWithin
    <2>3. \A p \in P : ~Within(p, Front(q))
        BY <1>2, <2>1, <2>2, WithinTrans
    <2> QED
        BY <1>2, <2>1, <2>3
<1>4. \A q \in DOMAIN u : u[q] \in Content
    BY <1>1, <1>2
<1>5. DOMAIN u \subseteq Path
    BY <1>1, <1>2
<1>6. u \in Tree
    BY <1>2, <1>3, <1>4, <1>5, TreeIs
<1> QED
    BY <1>6 DEF u

\* With sets one path
LEMMA WithMeans ==
    ASSUME NEW t, NEW p, NEW c
    PROVE  /\ DOMAIN With(t, p, c) = DOMAIN t \cup {p}
           /\ With(t, p, c) = [q \in DOMAIN With(t, p, c) |-> With(t, p, c)[q]]
           /\ With(t, p, c)[p] = c
           /\ \A q \in DOMAIN t : q # p => With(t, p, c)[q] = t[q]
BY DEF With

\* The keys of a map, path by path
LEMMA KeysMean ==
    ASSUME NEW t
    PROVE  DOMAIN Keys(t) = DOMAIN t /\ \A p \in DOMAIN t : Keys(t)[p] = KeyOf(t[p])
BY DEF Keys

\* Without sidecars the class and the source are all there is
LEMMA PlainContent ==
    ASSUME Rest = {Plain}, NEW c \in Content
    PROVE  c = [class |-> c.class, source |-> c.source, rest |-> Plain]
BY DEF Content, Folder, Script

\* A folder is told by its class
LEMMA FolderIs ==
    ASSUME NEW c \in Content
    PROVE  c \in Folder <=> c.class = "Folder"
BY PlanAssumption DEF Content, Folder, Script

\* Without sidecars the key tells contents apart
LEMMA KeyTells ==
    ASSUME Rest = {Plain}, NEW x \in Content, NEW y \in Content, KeyOf(x) = KeyOf(y)
    PROVE  x = y
<1>1. x.class = y.class /\ x.source = y.source
    BY DEF KeyOf
<1> QED
    BY <1>1, PlainContent

\* An update of a folder changes nothing without sidecars
LEMMA DiffersIsScript ==
    ASSUME Rest = {Plain}, NEW x \in Content, NEW y \in Content, x.class = y.class, x # y
    PROVE  x \in Script
<1>1. ASSUME x \in Folder PROVE FALSE
    <2>1. x.class = "Folder"
        BY <1>1, FolderIs
    <2>2. y \in Folder
        BY <2>1, FolderIs
    <2>3. x.source = NoSource /\ y.source = NoSource
        BY <1>1, <2>2 DEF Folder
    <2> QED
        BY <2>3, PlainContent
<1> QED
    BY <1>1 DEF Content

-----------------------------------------------------------------------------
(* The diff: every path is paired, or below one topmost unpaired path *)

\* What is above a paired path is paired
LEMMA PairedUp ==
    ASSUME NEW d, NEW s, NEW p \in Path, NEW q \in Path, Paired(d, s, p), Within(q, p)
    PROVE  Paired(d, s, q)
BY WithinTrans DEF Paired

\* Both sides have a paired path, with one class
LEMMA PairedMeans ==
    ASSUME NEW d, NEW s, NEW p \in Path, Paired(d, s, p)
    PROVE  p \in DOMAIN d /\ p \in DOMAIN s /\ d[p].class = s[p].class
BY WithinSelf DEF Paired

\* There is a topmost unpaired path above every unpaired one ...
LEMMA UnpairedTop ==
    ASSUME NEW d, NEW s, NEW p \in Path, ~Paired(d, s, p)
    PROVE  \E q \in Path : Within(q, p) /\ Unpaired(d, s, q)
<1> DEFINE T == {r \in Path : ~Paired(d, s, r)}
<1>1. T \in SUBSET Path /\ p \in T
    OBVIOUS
<1>2. PICK q \in T : Within(q, p) /\ (Len(q) > 1 => Front(q) \notin T)
    BY <1>1, Topmost
<1>3. q \in Path /\ ~Paired(d, s, q)
    BY <1>2
<1>4. Len(q) > 1 => Paired(d, s, Front(q))
    BY <1>2, <1>3, FrontWithin
<1> QED
    BY <1>2, <1>3, <1>4 DEF Unpaired

\* ... below which nothing is paired ...
LEMMA UnpairedBelow ==
    ASSUME NEW d, NEW s, NEW p \in Path, NEW q \in Path, Unpaired(d, s, q), Within(q, p)
    PROVE  ~Paired(d, s, p)
BY PairedUp DEF Unpaired

\* ... and it is the only one
LEMMA UnpairedUnique ==
    ASSUME NEW d, NEW s, NEW p \in Path, NEW q \in Path, NEW r \in Path,
           Unpaired(d, s, q), Unpaired(d, s, r), Within(q, p), Within(r, p)
    PROVE  q = r
<1>1. ASSUME NEW x \in Path, NEW y \in Path, Unpaired(d, s, x), Unpaired(d, s, y), Within(x, y)
      PROVE  x = y
    <2>1. ASSUME x # y PROVE FALSE
        <3>1. Len(y) > 1 /\ Within(x, Front(y))
            BY <1>1, <2>1, WithinFront
        <3>2. Paired(d, s, Front(y)) /\ Front(y) \in Path
            BY <1>1, <3>1, FrontWithin DEF Unpaired
        <3>3. Paired(d, s, x)
            BY <3>1, <3>2, PairedUp
        <3> QED
            BY <1>1, <3>3 DEF Unpaired
    <2> QED
        BY <2>1
<1>2. Within(q, r) \/ Within(r, q)
    BY WithinLinear
<1> QED
    BY <1>1, <1>2

\* A difference of the diff
Item(state, p) == [state |-> state, path |-> p]

\* The three states differ
LEMMA States == OnlyOnDisk # Differs /\ OnlyOnDisk # MissingOnDisk /\ Differs # MissingOnDisk
BY DEF OnlyOnDisk, Differs, MissingOnDisk

\* Which differences there are
LEMMA DiffMeans ==
    ASSUME NEW d \in Tree, NEW s \in Tree
    PROVE  /\ \A item \in Diff(d, s) : /\ item.path \in Path
                                       /\ item.state \in {OnlyOnDisk, Differs, MissingOnDisk}
                                       /\ item = Item(item.state, item.path)
           /\ \A p \in Path :
                 /\ Item(OnlyOnDisk, p) \in Diff(d, s) <=> p \in DOMAIN d /\ Unpaired(d, s, p)
                 /\ Item(MissingOnDisk, p) \in Diff(d, s) <=> p \in DOMAIN s /\ Unpaired(d, s, p)
                 /\ Item(Differs, p) \in Diff(d, s) <=>
                       p \in DOMAIN d /\ Paired(d, s, p) /\ d[p] # s[p]
<1>1. DOMAIN d \subseteq Path /\ DOMAIN s \subseteq Path
    BY TreeMeans
<1>2. /\ OnlyOnDisk # Differs /\ OnlyOnDisk # MissingOnDisk /\ Differs # MissingOnDisk
    BY DEF OnlyOnDisk, Differs, MissingOnDisk
<1>3. \A x, y, p, q : Item(x, p) = Item(y, q) <=> x = y /\ p = q
    BY DEF Item
<1>4. \A x, p : Item(x, p).state = x /\ Item(x, p).path = p
    BY DEF Item
<1>5. Diff(d, s) = {Item(OnlyOnDisk, p) : p \in {q \in DOMAIN d : Unpaired(d, s, q)}}
                   \cup {Item(Differs, p) : p \in {q \in DOMAIN d : Paired(d, s, q) /\ d[q] # s[q]}}
                   \cup {Item(MissingOnDisk, p) : p \in {q \in DOMAIN s : Unpaired(d, s, q)}}
    BY DEF Diff, Item
<1>6. ASSUME NEW item \in Diff(d, s)
      PROVE  /\ item.path \in Path /\ item.state \in {OnlyOnDisk, Differs, MissingOnDisk}
             /\ item = Item(item.state, item.path)
    <2>1. PICK x \in {OnlyOnDisk, Differs, MissingOnDisk}, p \in Path : item = Item(x, p)
        BY <1>1, <1>5
    <2> QED
        BY <1>4, <2>1
<1>7. ASSUME NEW p \in Path
      PROVE  /\ Item(OnlyOnDisk, p) \in Diff(d, s) <=> p \in DOMAIN d /\ Unpaired(d, s, p)
             /\ Item(MissingOnDisk, p) \in Diff(d, s) <=> p \in DOMAIN s /\ Unpaired(d, s, p)
             /\ Item(Differs, p) \in Diff(d, s) <=> p \in DOMAIN d /\ Paired(d, s, p) /\ d[p] # s[p]
    <2> DEFINE A == {q \in DOMAIN d : Unpaired(d, s, q)}
               B == {q \in DOMAIN d : Paired(d, s, q) /\ d[q] # s[q]}
               C == {q \in DOMAIN s : Unpaired(d, s, q)}
    <2>1. /\ p \in A <=> p \in DOMAIN d /\ Unpaired(d, s, p)
          /\ p \in B <=> p \in DOMAIN d /\ Paired(d, s, p) /\ d[p] # s[p]
          /\ p \in C <=> p \in DOMAIN s /\ Unpaired(d, s, p)
        OBVIOUS
    <2>2. Diff(d, s) = {Item(OnlyOnDisk, q) : q \in A} \cup {Item(Differs, q) : q \in B}
                       \cup {Item(MissingOnDisk, q) : q \in C}
        BY <1>5
    <2> HIDE DEF A, B, C
    <2>3. \A x : Item(x, p) \in Diff(d, s) <=>
             (x = OnlyOnDisk /\ p \in A) \/ (x = Differs /\ p \in B) \/ (x = MissingOnDisk /\ p \in C)
        BY <1>3, <2>2
    <2> QED
        BY <1>2, <2>1, <2>3
<1> QED
    BY <1>6, <1>7

\* Which differences say something of a path: an update is about one instance, an
\* addition or a removal about all that is below
Covers(item, p) == Within(item.path, p) /\ (item.state = Differs => item.path = p)

\* A difference that covers a path is an update of it, or at the topmost unpaired path
LEMMA CoversMeans ==
    ASSUME NEW d \in Tree, NEW s \in Tree, NEW item \in Diff(d, s), NEW p \in Path, Covers(item, p)
    PROVE  /\ Paired(d, s, p) => item = Item(Differs, p)
           /\ ~Paired(d, s, p) => Unpaired(d, s, item.path) /\ item.state # Differs
<1>1. /\ item.path \in Path /\ item = Item(item.state, item.path)
      /\ item.state \in {OnlyOnDisk, Differs, MissingOnDisk}
    BY DiffMeans
<1>2. CASE item.state = Differs
    <2>1. item.path = p /\ Within(p, p)
        BY <1>2 DEF Covers
    <2>2. Paired(d, s, p)
        BY <1>1, <1>2, <2>1, DiffMeans
    <2> QED
        BY <1>1, <1>2, <2>1, <2>2
<1>3. CASE item.state # Differs
    <2>1. Unpaired(d, s, item.path)
        BY <1>1, <1>3, DiffMeans
    <2>2. ~Paired(d, s, p)
        BY <1>1, <2>1, UnpairedBelow DEF Covers
    <2> QED
        BY <1>3, <2>1, <2>2
<1> QED
    BY <1>2, <1>3

\* A side that has an instance below an unpaired path has a difference there
LEMMA DiffCovers ==
    ASSUME NEW d \in Tree, NEW s \in Tree, NEW p \in Path, NEW q \in Path,
           Unpaired(d, s, q), Within(q, p)
    PROVE  /\ p \in DOMAIN d => Item(OnlyOnDisk, q) \in Diff(d, s)
           /\ p \in DOMAIN s => Item(MissingOnDisk, q) \in Diff(d, s)
<1>1. /\ p \in DOMAIN d => q \in DOMAIN d
      /\ p \in DOMAIN s => q \in DOMAIN s
    BY TreeClosed
<1> QED
    BY <1>1, DiffMeans

\* No instance has changed its class
Alike(d, s) == \A p \in DOMAIN d \cap DOMAIN s : d[p].class = s[p].class

\* No two differences are at one path unless an instance changed its class
LEMMA ItemsAlone ==
    ASSUME NEW d \in Tree, NEW s \in Tree, Alike(d, s),
           NEW item \in Diff(d, s)
    PROVE  /\ item.state # Differs => ~(item.path \in DOMAIN d /\ item.path \in DOMAIN s)
           /\ \A other \in Diff(d, s) : other.path = item.path => other = item
<1>1. ASSUME NEW p \in Path, Unpaired(d, s, p) PROVE ~(p \in DOMAIN d /\ p \in DOMAIN s)
    <2>1. SUFFICES ASSUME p \in DOMAIN d, p \in DOMAIN s, NEW q \in Path, Within(q, p)
                   PROVE  q \in DOMAIN d \cap DOMAIN s /\ d[q].class = s[q].class
        BY <1>1 DEF Unpaired, Paired
    <2>2. q \in DOMAIN d /\ q \in DOMAIN s
        BY <2>1, TreeClosed
    <2> QED
        BY <2>2 DEF Alike
<1>2. ASSUME NEW i \in Diff(d, s)
      PROVE  /\ i.path \in Path /\ i = Item(i.state, i.path)
             /\ i.state \in {OnlyOnDisk, Differs, MissingOnDisk}
             /\ i.state = Differs => Paired(d, s, i.path)
             /\ i.state # Differs => Unpaired(d, s, i.path)
             /\ i.state = OnlyOnDisk => i.path \in DOMAIN d
             /\ i.state = MissingOnDisk => i.path \in DOMAIN s
    <2>1. /\ i.path \in Path /\ i = Item(i.state, i.path)
          /\ i.state \in {OnlyOnDisk, Differs, MissingOnDisk}
        BY DiffMeans
    <2> QED
        BY <2>1, DiffMeans
<1>3. ASSUME NEW other \in Diff(d, s), other.path = item.path PROVE other = item
    <2>1. ~(Paired(d, s, item.path) /\ Unpaired(d, s, item.path))
        BY DEF Unpaired
    <2>2. other.state = item.state
        BY <1>1, <1>2, <1>3, <2>1
    <2> QED
        BY <1>2, <1>3, <2>2
<1> QED
    BY <1>1, <1>2, <1>3

-----------------------------------------------------------------------------
(* decide *)

\* A subtree is finite
LEMMA UnderFinite ==
    ASSUME NEW f, NEW p, DOMAIN f \subseteq Path
    PROVE  IsFiniteSet(DOMAIN Under(f, p))
<1> DEFINE below == {q \in DOMAIN f : IsStrictPrefix(p, q)}
           cut(q) == SubSeq(q, Len(p) + 1, Len(q))
<1>1. IsFiniteSet(below)
    BY PlanAssumption, FS_Subset
<1>2. IsFiniteSet({cut(q) : q \in below})
    <2> DEFINE T == {cut(q) : q \in below}
               g == [q \in below |-> cut(q)]
    <2> HIDE DEF cut, below
    <2>1. g \in Surjection(below, T)
        BY DEF Surjection
    <2> QED
        BY <1>1, <2>1, FS_Surjection
<1>3. DOMAIN Under(f, p) = {cut(q) : q \in below}
    BY DEF Under
<1> QED
    BY <1>2, <1>3

\* Every difference yields, whatever the plugin tells of Studio
LEMMA DiffYields ==
    ASSUME NEW b, NEW d, NEW s, NEW hashes \in BOOLEAN, NEW truncated \in BOOLEAN,
           DOMAIN d \subseteq Path, DOMAIN s \subseteq Path,
           \A view \in b : DOMAIN view.entries \subseteq Path,
           NEW item \in Diff(d, s)
    PROVE  Yields(b, InputOf(item, Diff(d, s), d, s, hashes, truncated))
<1> DEFINE input == InputOf(item, Diff(d, s), d, s, hashes, truncated)
<1>1. item.state \in {OnlyOnDisk, Differs, MissingOnDisk}
    BY DEF Diff
<1>2. input.state \in {OnlyOnDisk, Differs, MissingOnDisk}
    BY <1>1 DEF InputOf
<1>3. \A view \in b : IsFiniteSet(DOMAIN Under(view.entries, input.path))
    BY UnderFinite
<1>4. ASSUME NEW side \in input.below PROVE IsFiniteSet(DOMAIN side)
    <2>1. DOMAIN side = DOMAIN Under(s, item.path)
        BY DEF InputOf
    <2> QED
        BY <2>1, UnderFinite
<1> HIDE DEF input
<1> QED
    BY <1>2, <1>3, <1>4, ClassifyYields DEF input

\* Every difference has a winner, and disk wins none of two at one path
Decided(w, d, s) ==
    /\ DOMAIN w = Diff(d, s)
    /\ \A i, j \in Diff(d, s) : i # j /\ i.path = j.path => w[i] # ToStudio

\* decide gives disk neither of two differences at one path
LEMMA DecideDecided ==
    ASSUME NEW b, NEW d, NEW s, NEW hashes, NEW truncated
    PROVE  Decided(Decide(b, Diff(d, s), d, s, hashes, truncated), d, s)
<1> DEFINE items == Diff(d, s)
           w == Decide(b, items, d, s, hashes, truncated)
<1>1. DOMAIN w = items
    BY DEF Decide
<1>2. ASSUME NEW i \in items, NEW j \in items, i # j, i.path = j.path
      PROVE  w[i] # ToStudio
    <2>1. InputOf(i, items, d, s, hashes, truncated).ambiguous
        BY <1>2 DEF InputOf
    <2>2. w[i] = StudioFirst(InputOf(i, items, d, s, hashes, truncated).state)
        BY <2>1 DEF Decide, Classify
    <2> QED
        BY <2>2 DEF StudioFirst, ToStudio, ToDisk, ToDiskKeepDisk
<1> QED
    BY <1>1, <1>2 DEF Decided

\* The keys of a subtree are the subtree of the keys
LEMMA UnderKeys ==
    ASSUME NEW t, DOMAIN t \subseteq Path, NEW p \in Path
    PROVE  /\ DOMAIN Under(Keys(t), p) = DOMAIN Under(t, p)
           /\ \A r \in DOMAIN Under(t, p) : Under(Keys(t), p)[r] = KeyOf(Under(t, p)[r])
<1> DEFINE below == {q \in DOMAIN t : IsStrictPrefix(p, q)}
           cut(q) == SubSeq(q, Len(p) + 1, Len(q))
<1>1. /\ DOMAIN Under(t, p) = {cut(q) : q \in below}
      /\ \A r \in DOMAIN Under(t, p) : Under(t, p)[r] = t[p \o r]
    BY DEF Under
<1>2. /\ DOMAIN Under(Keys(t), p) = {cut(q) : q \in below}
      /\ \A r \in DOMAIN Under(Keys(t), p) : Under(Keys(t), p)[r] = Keys(t)[p \o r]
    BY KeysMean DEF Under
<1>3. ASSUME NEW r \in DOMAIN Under(t, p) PROVE p \o r \in DOMAIN t
    <2>1. PICK q \in below : r = cut(q)
        BY <1>1
    <2>2. q \in DOMAIN t /\ q \in Path /\ Within(p, q)
        BY <2>1 DEF IsStrictPrefix, Within
    <2> QED
        BY <2>1, <2>2, AppendRest
<1> HIDE DEF below, cut
<1> QED
    BY <1>1, <1>2, <1>3, KeysMean

\* ... so that each is judged against the base there is
LEMMA JudgedAlone ==
    ASSUME NEW d \in Tree, NEW s \in Tree, Alike(d, s),
           NEW view, view.ambiguous = {}, NEW hashes, NEW truncated, NEW item \in Diff(d, s)
    PROVE  Decide({view}, Diff(d, s), d, s, hashes, truncated)[item]
              = AgainstBase(view, InputOf(item, Diff(d, s), d, s, hashes, truncated))
<1> DEFINE input == InputOf(item, Diff(d, s), d, s, hashes, truncated)
<1>1. ~input.ambiguous
    BY ItemsAlone DEF InputOf
<1>2. Decide({view}, Diff(d, s), d, s, hashes, truncated)[item] = Classify({view}, input)
    BY DEF Decide
<1>3. (CHOOSE v \in {view} : TRUE) = view
    OBVIOUS
<1> HIDE DEF input
<1>4. Classify({view}, input) = AgainstBase(view, input)
    BY <1>1, <1>3 DEF Classify
<1> QED
    BY <1>2, <1>4 DEF input

\* A disk that did not move since the base wins nothing
LEMMA DiskYields ==
    ASSUME NEW d \in Tree, NEW s \in Tree, Alike(d, s),
           NEW view, view.ambiguous = {}, view.entries = Keys(d),
           NEW hashes, NEW truncated, NEW item \in Diff(d, s)
    PROVE  Decide({view}, Diff(d, s), d, s, hashes, truncated)[item] # ToStudio
<1> DEFINE input == InputOf(item, Diff(d, s), d, s, hashes, truncated)
<1>0. ToStudio # ToDisk /\ ToStudio # ToDiskKeepDisk
    BY DEF ToStudio, ToDisk, ToDiskKeepDisk
<1>1. /\ item.path \in Path /\ item = Item(item.state, item.path)
      /\ item.state \in {OnlyOnDisk, Differs, MissingOnDisk}
    BY DiffMeans
<1>2. input.state = item.state /\ input.path = item.path
    BY DEF InputOf
<1>3. input.state # MissingOnDisk => input.disk = Get(view.entries, input.path)
    BY DEF InputOf
<1>4. input.state = OnlyOnDisk => Get(view.entries, input.path) # {}
    <2>1. ASSUME item.state = OnlyOnDisk PROVE item.path \in DOMAIN Keys(d)
        BY <1>1, <2>1, DiffMeans, KeysMean
    <2> QED
        BY <1>2, <2>1, GetMeans
<1>5. input.state = MissingOnDisk => Get(view.entries, input.path) = {}
    <2>1. ASSUME item.state = MissingOnDisk PROVE item.path \notin DOMAIN Keys(d)
        <3>1. item.path \in DOMAIN s
            BY <1>1, <2>1, DiffMeans
        <3>2. item.path \notin DOMAIN d
            BY <2>1, <3>1, ItemsAlone, States
        <3> QED
            BY <3>2, KeysMean
    <2> QED
        BY <1>2, <2>1, GetMeans
<1>6. Decide({view}, Diff(d, s), d, s, hashes, truncated)[item] = AgainstBase(view, input)
    BY JudgedAlone
<1> HIDE DEF input
<1>7. AgainstBase(view, input) # ToStudio
    <2>1. CASE input.state = OnlyOnDisk
        BY <1>0, <1>4, <2>1, States DEF AgainstBase
    <2>2. CASE input.state = MissingOnDisk
        BY <1>0, <1>5, <2>2, States DEF AgainstBase
    <2>3. CASE input.state = Differs
        BY <1>0, <1>3, <2>3, States DEF AgainstBase
    <2> QED
        BY <1>1, <1>2, <2>1, <2>2, <2>3
<1> QED
    BY <1>6, <1>7

\* What a plugin tells of the instances below p
Told(s, p) == [r \in DOMAIN Under(s, p) |-> {KeyOf(Under(s, p)[r])}]

\* A Studio that did not move since the base wins nothing
LEMMA StudioYields ==
    ASSUME Rest = {Plain}, NEW d \in Tree, NEW s \in Tree, Alike(d, s),
           NEW view, view.ambiguous = {}, view.entries = Keys(s),
           NEW item \in Diff(d, s), NEW input,
           input.state = item.state, input.path = item.path,
           item.state = Differs => input.disk = Get(Keys(d), item.path),
           item.state # OnlyOnDisk => input.studio = {KeyOf(s[item.path])},
           item.state = MissingOnDisk => input.below = {Told(s, item.path)}
    PROVE  AgainstBase(view, input) = ToStudio
<1> DEFINE p == item.path
<1>1. /\ item.path \in Path /\ item = Item(item.state, item.path)
      /\ item.state \in {OnlyOnDisk, Differs, MissingOnDisk}
    BY DiffMeans
<1>2. DOMAIN s \subseteq Path /\ \A q \in DOMAIN s : s[q] \in Content
    BY TreeMeans
<1>4. CASE item.state = OnlyOnDisk
    <2>1. p \in DOMAIN d
        BY <1>1, <1>4, DiffMeans
    <2>2. p \notin DOMAIN Keys(s)
        BY <1>4, <2>1, ItemsAlone, KeysMean, States
    <2>3. Get(view.entries, p) = {}
        BY <2>2, GetMeans
    <2> QED
        BY <1>4, <2>3, States DEF AgainstBase
<1>5. CASE item.state # OnlyOnDisk
    <2>1. p \in DOMAIN s
        BY <1>1, <1>5, DiffMeans, PairedMeans
    <2>2. Get(view.entries, p) = {KeyOf(s[p])} /\ input.studio = {KeyOf(s[p])}
        <3>1. p \in DOMAIN Keys(s) /\ Keys(s)[p] = KeyOf(s[p])
            BY <2>1, KeysMean
        <3>2. Get(Keys(s), p) = {KeyOf(s[p])}
            BY <3>1, GetMeans
        <3> QED
            BY <1>5, <3>2
    <2>3. CASE item.state = Differs
        <3>1. p \in DOMAIN d /\ d[p] # s[p]
            BY <1>1, <2>3, DiffMeans
        <3>2. d[p] \in Content /\ s[p] \in Content
            BY <1>2, <2>1, <3>1, TreeMeans
        <3>3. KeyOf(d[p]) # KeyOf(s[p])
            BY <3>1, <3>2, KeyTells
        <3>4. input.disk = {KeyOf(d[p])}
            <4>1. Get(Keys(d), p) = {KeyOf(d[p])}
                BY <3>1, GetMeans, KeysMean
            <4> QED
                BY <2>3, <4>1
        <3> QED
            BY <2>2, <2>3, <3>3, <3>4, States DEF AgainstBase
    <2>4. CASE item.state = MissingOnDisk
        <3> DEFINE u == Under(s, p)
                   told == Told(s, p)
                   below == Under(Keys(s), p)
        <3>1. input.below = {told}
            BY <2>4
        <3>2. Descendants(view, p) = {below}
            BY DEF Descendants
        <3>3. DOMAIN below = DOMAIN u /\ \A r \in DOMAIN u : below[r] = KeyOf(u[r])
            BY <1>1, <1>2, UnderKeys
        <3>4. DOMAIN told = DOMAIN u /\ \A r \in DOMAIN u : told[r] = {KeyOf(u[r])}
            BY DEF Told
        <3> HIDE DEF told, below, u
        <3>5. ASSUME NEW r \in DOMAIN below PROVE Get(told, r) = {{below[r]}}
            <4>1. Get(told, r) = {told[r]}
                BY <3>3, <3>4, GetMeans
            <4> QED
                BY <3>3, <3>4, <4>1
        <3>6. Untouched(told, below)
            BY <3>3, <3>4, <3>5 DEF Untouched
        <3>7. \E side \in input.below, agreedSide \in Descendants(view, input.path) :
                 Untouched(side, agreedSide)
            BY <3>1, <3>2, <3>6
        <3> QED
            BY <2>2, <2>4, <3>7, States DEF AgainstBase
    <2> QED
        BY <1>1, <1>5, <2>3, <2>4
<1> QED
    BY <1>4, <1>5

-----------------------------------------------------------------------------
(* The merge *)

\* The differences that disk won
Won(w) == {item \in DOMAIN w : w[item] = ToStudio}

\* Without sidecars nothing is demoted and nothing is carried over
LEMMA NoSidecars ==
    ASSUME Rest = {Plain}, NEW d \in Tree, NEW s \in Tree, NEW w, Decided(w, d, s)
    PROVE  /\ Demoted(w, d, s) = {} /\ ToPush(w, d, s) = Won(w)
           /\ \A x \in Content, y \in Content : Overlay(x, y) = y
<1>1. ASSUME NEW item \in Demoted(w, d, s) PROVE FALSE
    <2>1. /\ item \in Diff(d, s) /\ item.state = Differs
          /\ (d[item.path].rest = Plain) # (s[item.path].rest = Plain)
        BY DEF Demoted, Decided
    <2>2. item.path \in Path /\ Paired(d, s, item.path)
        BY <2>1, DiffMeans
    <2>3. item.path \in DOMAIN d /\ item.path \in DOMAIN s
        BY <2>2, PairedMeans
    <2>4. d[item.path] \in Content /\ s[item.path] \in Content
        BY <2>3, TreeMeans
    <2>5. d[item.path].rest = Plain /\ s[item.path].rest = Plain
        BY <2>4 DEF Content, Folder, Script
    <2> QED
        BY <2>1, <2>5
<1>2. Demoted(w, d, s) = {}
    BY <1>1
<1>3. ASSUME NEW x \in Content, NEW y \in Content PROVE Overlay(x, y) = y
    <2>1. x.rest = Plain /\ y.rest = Plain
        BY DEF Content, Folder, Script
    <2>2. y = [class |-> y.class, source |-> y.source, rest |-> Plain]
        BY PlainContent
    <2>3. [y EXCEPT !.rest = x.rest] = y
        BY <2>1, <2>2
    <2> QED
        BY <2>3 DEF Overlay
<1> QED
    BY <1>2, <1>3 DEF ToPush, Won

\* The disk of a path stays; Studio's instance is staged
Stays(w, d, p) ==
    p \in DOMAIN d /\ \A item \in DOMAIN w :
        item.state = OnlyOnDisk /\ w[item] # ToStudio => ~Within(item.path, p)
Taken(w, s, p) ==
    /\ p \in DOMAIN s
    /\ \A item \in DOMAIN w : w[item] = ToStudio =>
          /\ item.state = MissingOnDisk => ~Within(item.path, p)
          /\ item.state = Differs => item.path # p

\* The merge in these terms
LEMMA MergedMeans ==
    ASSUME Rest = {Plain}, NEW d \in Tree, NEW s \in Tree, NEW w, Decided(w, d, s)
    PROVE  /\ Merged(w, d, s) = [p \in DOMAIN Merged(w, d, s) |-> Merged(w, d, s)[p]]
           /\ DOMAIN Merged(w, d, s) \subseteq DOMAIN d \cup DOMAIN s
           /\ \A p \in Path :
                 /\ p \in DOMAIN Merged(w, d, s) <=> Stays(w, d, p) \/ (Staged(w) /\ Taken(w, s, p))
                 /\ Staged(w) /\ Taken(w, s, p) => Merged(w, d, s)[p] = s[p]
                 /\ Stays(w, d, p) /\ ~(Staged(w) /\ Taken(w, s, p)) => Merged(w, d, s)[p] = d[p]
<1> DEFINE left == Without(d, Leaving(w))
           won == {item.path : item \in {i \in ToPush(w, d, s) : i.state = Differs}}
           taken == StagedPaths(w, s) \ won
           body == [p \in DOMAIN left \cup taken |->
                        CASE p \in taken \cap DOMAIN left -> Overlay(d[p], s[p])
                          [] p \in taken \ DOMAIN left -> s[p]
                          [] OTHER -> d[p]]
<1>1. Merged(w, d, s) = IF Staged(w) THEN body ELSE left
    BY DEF Merged
<1>2. /\ \A p : p \in DOMAIN left <=> Stays(w, d, p)
      /\ \A p \in DOMAIN left : left[p] = d[p]
      /\ left = [p \in DOMAIN left |-> left[p]]
    <2>1. \A p : (\A q \in Leaving(w) : ~Within(q, p)) <=>
             \A item \in DOMAIN w : item.state = OnlyOnDisk /\ w[item] # ToStudio => ~Within(item.path, p)
        BY DEF Leaving
    <2>2. /\ DOMAIN left = {q \in DOMAIN d : \A p \in Leaving(w) : ~Within(p, q)}
          /\ \A q \in DOMAIN left : left[q] = d[q]
          /\ left = [q \in DOMAIN left |-> left[q]]
        BY WithoutMeans
    <2> HIDE DEF left
    <2> QED
        BY <2>1, <2>2 DEF Stays
<1>3. \A p : p \in taken <=> Taken(w, s, p)
    <2> DEFINE gone == {item.path : item \in {i \in DOMAIN w : i.state = MissingOnDisk /\ w[i] = ToStudio}}
    <2>1. \A p : p \in StagedPaths(w, s) <=> p \in DOMAIN s /\ \A q \in gone : ~Within(q, p)
        <3>1. DOMAIN Without(s, gone) = {q \in DOMAIN s : \A p \in gone : ~Within(p, q)}
            BY WithoutMeans
        <3>2. StagedPaths(w, s) = DOMAIN Without(s, gone)
            BY DEF StagedPaths
        <3> QED
            BY <3>1, <3>2
    <2>2. \A p : (\A q \in gone : ~Within(q, p)) <=>
             \A item \in DOMAIN w : w[item] = ToStudio /\ item.state = MissingOnDisk => ~Within(item.path, p)
        OBVIOUS
    <2>3. \A p : p \in won <=>
             \E item \in DOMAIN w : w[item] = ToStudio /\ item.state = Differs /\ item.path = p
        BY NoSidecars DEF Won
    <2> HIDE DEF gone, won
    <2> QED
        BY <2>1, <2>2, <2>3 DEF Taken
<1>4. taken \subseteq DOMAIN s /\ DOMAIN left \subseteq DOMAIN d
    BY <1>2, <1>3 DEF Taken, Stays
<1>5. \A p \in taken \cap DOMAIN left : Overlay(d[p], s[p]) = s[p]
    BY <1>4, NoSidecars, TreeMeans
<1> HIDE DEF left, taken
<1>6. /\ DOMAIN body = DOMAIN left \cup taken
      /\ \A p \in taken : body[p] = s[p]
      /\ \A p \in DOMAIN left \ taken : body[p] = d[p]
      /\ body = [p \in DOMAIN body |-> body[p]]
    BY <1>5
<1> HIDE DEF body
<1>7. CASE Staged(w)
    <2>1. Merged(w, d, s) = body
        BY <1>1, <1>7
    <2> QED
        BY <1>2, <1>3, <1>4, <1>6, <1>7, <2>1
<1>8. CASE ~Staged(w)
    <2>1. Merged(w, d, s) = left
        BY <1>1, <1>8
    <2> QED
        BY <1>2, <1>4, <1>8, <2>1
<1> QED
    BY <1>7, <1>8

\* Where disk wins an addition Studio has nothing, and the other way round
LEMMA WonAlone ==
    ASSUME NEW d \in Tree, NEW s \in Tree, NEW w, Decided(w, d, s),
           NEW item \in Won(w), NEW p \in Path, Covers(item, p)
    PROVE  /\ item.state = OnlyOnDisk => p \notin DOMAIN s
           /\ item.state = MissingOnDisk => p \notin DOMAIN d
<1>1. item \in Diff(d, s) /\ w[item] = ToStudio /\ item.path \in Path
    BY DiffMeans DEF Won, Decided
<1>2. OnlyOnDisk # Differs /\ OnlyOnDisk # MissingOnDisk /\ Differs # MissingOnDisk
    BY DEF OnlyOnDisk, Differs, MissingOnDisk
<1>3. ASSUME item.state # Differs
      PROVE  Unpaired(d, s, item.path) /\ Within(item.path, p)
    <2>1. ~Paired(d, s, p)
        <3>1. item # Item(Differs, p)
            BY <1>3 DEF Item
        <3> QED
            BY <1>1, <3>1, CoversMeans
    <2> QED
        BY <1>1, <2>1, CoversMeans DEF Covers
<1>4. ASSUME NEW x, Item(x, item.path) \in Diff(d, s), x # item.state
      PROVE  FALSE
    <2>1. Item(x, item.path) # item /\ Item(x, item.path).path = item.path
        BY <1>4 DEF Item
    <2> QED
        BY <1>1, <1>4, <2>1 DEF Decided
<1> QED
    BY <1>1, <1>2, <1>3, <1>4, DiffCovers

\* Some difference among items covers the path
CoveredBy(items, p) == \E item \in items : Covers(item, p)

\* The merge at a paired path ...
LEMMA MergedPaired ==
    ASSUME Rest = {Plain}, NEW d \in Tree, NEW s \in Tree, NEW w, Decided(w, d, s),
           NEW p \in Path, Paired(d, s, p)
    PROVE  Get(Merged(w, d, s), p) = IF CoveredBy(Won(w), p) THEN Get(d, p) ELSE Get(s, p)
<1> DEFINE M == Merged(w, d, s)
<1>1. p \in DOMAIN d /\ p \in DOMAIN s
    BY PairedMeans
<1>2. ASSUME NEW item \in Diff(d, s), Within(item.path, p) PROVE item.state = Differs
    <2>1. /\ item.path \in Path /\ item = Item(item.state, item.path)
          /\ item.state \in {OnlyOnDisk, Differs, MissingOnDisk}
        BY DiffMeans
    <2>2. ASSUME item.state # Differs PROVE FALSE
        <3>1. Unpaired(d, s, item.path)
            BY <2>1, <2>2, DiffMeans
        <3> QED
            BY <1>2, <2>1, <3>1, UnpairedBelow
    <2> QED
        BY <2>2
<1>3. DOMAIN w = Diff(d, s)
    BY DEF Decided
<1>4. Stays(w, d, p)
    BY <1>1, <1>2, <1>3, States DEF Stays
<1>5. /\ p \in DOMAIN M <=> Stays(w, d, p) \/ (Staged(w) /\ Taken(w, s, p))
      /\ Staged(w) /\ Taken(w, s, p) => M[p] = s[p]
      /\ Stays(w, d, p) /\ ~(Staged(w) /\ Taken(w, s, p)) => M[p] = d[p]
    BY MergedMeans
<1>6. CASE CoveredBy(Won(w), p)
    <2>1. PICK item \in Won(w) : Covers(item, p)
        BY <1>6 DEF CoveredBy
    <2>2. item \in DOMAIN w /\ w[item] = ToStudio /\ item.state = Differs /\ item.path = p
        BY <1>2, <1>3, <2>1 DEF Won, Covers
    <2>3. ~Taken(w, s, p)
        BY <2>2 DEF Taken
    <2>4. p \in DOMAIN M /\ M[p] = d[p]
        BY <1>4, <1>5, <2>3
    <2> QED
        BY <1>1, <1>6, <2>4, GetMeans
<1>7. CASE ~CoveredBy(Won(w), p)
    <2>1. ASSUME NEW item \in DOMAIN w, w[item] = ToStudio, Within(item.path, p)
          PROVE  item.state = Differs /\ item.path # p
        <3>1. ~Covers(item, p)
            BY <1>7, <2>1 DEF CoveredBy, Won
        <3> QED
            BY <1>2, <1>3, <2>1, <3>1 DEF Covers
    <2>2. Taken(w, s, p)
        BY <1>1, <2>1, States, WithinSelf DEF Taken
    <2>3. CASE d[p] = s[p]
        BY <1>1, <1>4, <1>5, <1>7, <2>3, GetMeans
    <2>4. CASE d[p] # s[p]
        <3>1. Item(Differs, p) \in DOMAIN w
            BY <1>1, <1>3, <2>4, DiffMeans
        <3>2. Item(Differs, p).path = p /\ Item(Differs, p).state = Differs
            BY DEF Item
        <3>3. w[Item(Differs, p)] # ToStudio
            BY <2>1, <3>1, <3>2, WithinSelf
        <3>4. Staged(w)
            BY <3>1, <3>2, <3>3, States DEF Staged
        <3> QED
            BY <1>1, <1>5, <1>7, <2>2, <3>4, GetMeans
    <2> QED
        BY <2>3, <2>4
<1> QED
    BY <1>6, <1>7

\* ... and at an unpaired one
LEMMA MergedUnpaired ==
    ASSUME Rest = {Plain}, NEW d \in Tree, NEW s \in Tree, NEW w, Decided(w, d, s),
           NEW p \in Path, ~Paired(d, s, p)
    PROVE  Get(Merged(w, d, s), p) = IF CoveredBy(Won(w), p) THEN Get(d, p) ELSE Get(s, p)
<1> DEFINE M == Merged(w, d, s)
<1>1. PICK q \in Path : Within(q, p) /\ Unpaired(d, s, q)
    BY UnpairedTop
<1>2. DOMAIN w = Diff(d, s)
    BY DEF Decided
<1>3. ASSUME NEW item \in Diff(d, s), Within(item.path, p), item.state # Differs PROVE item.path = q
    <2>1. item.path \in Path /\ Unpaired(d, s, item.path)
        <3>1. Covers(item, p) /\ item.path \in Path
            BY <1>3, DiffMeans DEF Covers
        <3> QED
            BY <3>1, CoversMeans
    <2> QED
        BY <1>1, <1>3, <2>1, UnpairedUnique
<1>4. /\ p \in DOMAIN d => Item(OnlyOnDisk, q) \in DOMAIN w
      /\ p \in DOMAIN s => Item(MissingOnDisk, q) \in DOMAIN w
    BY <1>1, <1>2, DiffCovers
<1>5. \A x : Item(x, q).path = q /\ Item(x, q).state = x
    BY DEF Item
<1>6. \A item \in Diff(d, s) : item = Item(item.state, item.path) /\ item.path \in Path
    BY DiffMeans
<1>7. \A item \in Diff(d, s) : item.state = Differs => item.path # p
    BY <1>6, DiffMeans
<1>8. Stays(w, d, p) <=> p \in DOMAIN d /\ w[Item(OnlyOnDisk, q)] = ToStudio
    <2>1. ASSUME p \in DOMAIN d, w[Item(OnlyOnDisk, q)] = ToStudio,
                 NEW item \in DOMAIN w, item.state = OnlyOnDisk, w[item] # ToStudio
          PROVE  ~Within(item.path, p)
        BY <1>2, <1>3, <1>6, <2>1, States
    <2> QED
        BY <1>1, <1>4, <1>5, <2>1 DEF Stays
<1>9. Taken(w, s, p) <=> p \in DOMAIN s /\ w[Item(MissingOnDisk, q)] # ToStudio
    <2>1. ASSUME p \in DOMAIN s, w[Item(MissingOnDisk, q)] # ToStudio,
                 NEW item \in DOMAIN w, w[item] = ToStudio
          PROVE  /\ item.state = MissingOnDisk => ~Within(item.path, p)
                 /\ item.state = Differs => item.path # p
        BY <1>2, <1>3, <1>6, <1>7, <2>1, States
    <2> QED
        BY <1>1, <1>4, <1>5, <2>1 DEF Taken
<1>10. p \in DOMAIN s /\ w[Item(MissingOnDisk, q)] # ToStudio => Staged(w)
    BY <1>4, <1>5, States DEF Staged
<1>11. /\ p \in DOMAIN M <=> Stays(w, d, p) \/ (Staged(w) /\ Taken(w, s, p))
       /\ Staged(w) /\ Taken(w, s, p) => M[p] = s[p]
       /\ Stays(w, d, p) /\ ~(Staged(w) /\ Taken(w, s, p)) => M[p] = d[p]
    BY MergedMeans
<1>12. CASE CoveredBy(Won(w), p)
    <2>1. PICK item \in Won(w) : Covers(item, p)
        BY <1>12 DEF CoveredBy
    <2>2. item \in Diff(d, s) /\ w[item] = ToStudio /\ item.state # Differs /\ item.path = q
        BY <1>2, <1>3, <1>7, <2>1 DEF Won, Covers
    <2>3. item = Item(OnlyOnDisk, q) \/ item = Item(MissingOnDisk, q)
        BY <1>6, <2>2, DiffMeans
    <2>4. /\ item.state = OnlyOnDisk => p \notin DOMAIN s
          /\ item.state = MissingOnDisk => p \notin DOMAIN d
        BY <2>1, WonAlone
    <2>5. CASE item = Item(OnlyOnDisk, q)
        <3>1. p \notin DOMAIN s
            BY <1>5, <2>4, <2>5
        <3>2. (p \in DOMAIN M <=> p \in DOMAIN d) /\ (p \in DOMAIN d => M[p] = d[p])
            BY <1>8, <1>9, <1>11, <2>2, <2>5, <3>1
        <3> QED
            BY <1>12, <3>2, GetMeans
    <2>6. CASE item = Item(MissingOnDisk, q)
        <3>1. p \notin DOMAIN d
            BY <1>5, <2>4, <2>6
        <3>2. p \notin DOMAIN M
            BY <1>8, <1>9, <1>11, <2>2, <2>6, <3>1
        <3> QED
            BY <1>12, <3>1, <3>2, GetMeans
    <2> QED
        BY <2>3, <2>5, <2>6
<1>13. CASE ~CoveredBy(Won(w), p)
    <2>1. ASSUME NEW x \in {OnlyOnDisk, MissingOnDisk}, Item(x, q) \in DOMAIN w
          PROVE  w[Item(x, q)] # ToStudio
        <3>1. Covers(Item(x, q), p)
            BY <1>1, <1>5, <2>1, States DEF Covers
        <3> QED
            BY <1>13, <2>1, <3>1 DEF CoveredBy, Won
    <2>2. ~Stays(w, d, p)
        BY <1>4, <1>8, <2>1
    <2>3. Taken(w, s, p) <=> p \in DOMAIN s
        BY <1>4, <1>9, <2>1
    <2>4. p \in DOMAIN s => Staged(w)
        BY <1>4, <1>10, <2>1
    <2>5. (p \in DOMAIN M <=> p \in DOMAIN s) /\ (p \in DOMAIN s => M[p] = s[p])
        BY <1>11, <2>2, <2>3, <2>4
    <2> QED
        BY <1>13, <2>5, GetMeans
<1> QED
    BY <1>12, <1>13

\* The merge is disk's where disk won, and Studio's everywhere else
LEMMA MergedAt ==
    ASSUME Rest = {Plain}, NEW d \in Tree, NEW s \in Tree, NEW w, Decided(w, d, s), NEW p \in Path
    PROVE  Get(Merged(w, d, s), p) = IF CoveredBy(Won(w), p) THEN Get(d, p) ELSE Get(s, p)
BY MergedPaired, MergedUnpaired

\* What the merge has at a path is disk's or Studio's
LEMMA MergedFrom ==
    ASSUME Rest = {Plain}, NEW d \in Tree, NEW s \in Tree, NEW w, Decided(w, d, s), NEW p \in Path
    PROVE  /\ CoveredBy(Won(w), p) => /\ p \in DOMAIN Merged(w, d, s) <=> p \in DOMAIN d
                                      /\ p \in DOMAIN d => Merged(w, d, s)[p] = d[p]
           /\ ~CoveredBy(Won(w), p) => /\ p \in DOMAIN Merged(w, d, s) <=> p \in DOMAIN s
                                       /\ p \in DOMAIN s => Merged(w, d, s)[p] = s[p]
<1>1. CASE CoveredBy(Won(w), p)
    <2>1. Get(Merged(w, d, s), p) = Get(d, p)
        BY <1>1, MergedAt
    <2> QED
        BY <1>1, <2>1, GetMeans
<1>2. CASE ~CoveredBy(Won(w), p)
    <2>1. Get(Merged(w, d, s), p) = Get(s, p)
        BY <1>2, MergedAt
    <2> QED
        BY <1>2, <2>1, GetMeans
<1> QED
    BY <1>1, <1>2

\* The merge is a tree again
LEMMA MergedTree ==
    ASSUME Rest = {Plain}, NEW d \in Tree, NEW s \in Tree, NEW w, Decided(w, d, s)
    PROVE  Merged(w, d, s) \in Tree
<1> DEFINE M == Merged(w, d, s)
<1>1. /\ DOMAIN d \subseteq Path /\ DOMAIN s \subseteq Path
      /\ \A p \in DOMAIN d : d[p] \in Content
      /\ \A p \in DOMAIN s : s[p] \in Content
    BY TreeMeans
<1>2. /\ M = [p \in DOMAIN M |-> M[p]]
      /\ DOMAIN M \subseteq Path
    BY <1>1, MergedMeans
<1>3. ASSUME NEW p \in DOMAIN M
      PROVE  (p \in DOMAIN d /\ M[p] = d[p]) \/ (p \in DOMAIN s /\ M[p] = s[p])
    BY <1>2, MergedFrom
<1>4. \A p \in DOMAIN M : M[p] \in Content
    BY <1>1, <1>3
<1>5. ASSUME NEW p \in DOMAIN M, Len(p) > 1
      PROVE  Front(p) \in DOMAIN M /\ M[Front(p)] \in Folder
    <2> DEFINE F == Front(p)
    <2>1. p \in Path /\ F \in Path /\ Within(F, p)
        BY <1>2, <1>5, FrontWithin
    <2>2. /\ p \in DOMAIN d => F \in DOMAIN d /\ d[F] \in Folder
          /\ p \in DOMAIN s => F \in DOMAIN s /\ s[F] \in Folder
        BY <1>5, TreeMeans
    <2>3. CASE Paired(d, s, F)
        <3>1. F \in DOMAIN d /\ F \in DOMAIN s /\ d[F].class = s[F].class
            BY <2>1, <2>3, PairedMeans
        <3>2. d[F] \in Content /\ s[F] \in Content
            BY <1>1, <3>1
        <3>3. d[F] \in Folder /\ s[F] \in Folder
            BY <1>3, <1>5, <2>2, <3>1, <3>2, FolderIs
        <3>4. F \in DOMAIN M /\ (M[F] = d[F] \/ M[F] = s[F])
            BY <2>1, <3>1, MergedFrom
        <3> QED
            BY <3>3, <3>4
    <2>4. CASE ~Paired(d, s, F)
        <3>1. ~Paired(d, s, p)
            BY <2>1, <2>4, PairedUp
        <3>2. ASSUME NEW item \in Won(w) PROVE Covers(item, F) <=> Covers(item, p)
            <4>1. item \in Diff(d, s) /\ item.path \in Path
                BY DiffMeans DEF Won, Decided
            <4>2. ASSUME Covers(item, F) PROVE Covers(item, p)
                <5>1. item.state # Differs /\ Within(item.path, F)
                    BY <2>1, <2>4, <4>1, <4>2, CoversMeans DEF Covers
                <5> QED
                    BY <2>1, <4>1, <5>1, WithinTrans DEF Covers
            <4>3. ASSUME Covers(item, p) PROVE Covers(item, F)
                <5>1. item.state # Differs /\ Unpaired(d, s, item.path) /\ Within(item.path, p)
                    BY <2>1, <3>1, <4>1, <4>3, CoversMeans DEF Covers
                <5>2. item.path # p
                    BY <1>5, <2>4, <5>1 DEF Unpaired
                <5>3. Within(item.path, F)
                    BY <2>1, <4>1, <5>1, <5>2, WithinFront
                <5> QED
                    BY <5>1, <5>3 DEF Covers
            <4> QED
                BY <4>2, <4>3
        <3>3. CoveredBy(Won(w), F) <=> CoveredBy(Won(w), p)
            BY <3>2 DEF CoveredBy
        <3>4. CASE CoveredBy(Won(w), p)
            BY <2>1, <2>2, <3>3, <3>4, MergedFrom
        <3>5. CASE ~CoveredBy(Won(w), p)
            BY <2>1, <2>2, <3>3, <3>5, MergedFrom
        <3> QED
            BY <3>4, <3>5
    <2> QED
        BY <2>3, <2>4
<1> HIDE DEF M
<1>6. M \in Tree
    BY <1>2, <1>4, <1>5, TreeIs
<1> QED
    BY <1>6 DEF M

\* The merge has no path that neither side has
LEMMA MergedDomain ==
    ASSUME NEW w, NEW d, NEW s
    PROVE  DOMAIN Merged(w, d, s) \subseteq DOMAIN d \cup DOMAIN s
<1>1. StagedPaths(w, s) \subseteq DOMAIN s
    BY WithoutDomain DEF StagedPaths
<1>2. DOMAIN Without(d, Leaving(w)) \subseteq DOMAIN d
    BY WithoutDomain
<1> QED
    BY <1>1, <1>2 DEF Merged

\* Nothing won: the merge is Studio's side
LEMMA MergedIsStudio ==
    ASSUME Rest = {Plain}, NEW d \in Tree, NEW s \in Tree, NEW w, Decided(w, d, s), Won(w) = {}
    PROVE  Merged(w, d, s) = s
<1>1. \A p \in Path : Get(Merged(w, d, s), p) = Get(s, p)
    BY MergedAt DEF CoveredBy
<1>2. /\ DOMAIN d \subseteq Path /\ DOMAIN s \subseteq Path
      /\ s = [p \in DOMAIN s |-> s[p]]
    BY TreeMeans
<1>3. /\ Merged(w, d, s) = [p \in DOMAIN Merged(w, d, s) |-> Merged(w, d, s)[p]]
      /\ DOMAIN Merged(w, d, s) \subseteq DOMAIN d \cup DOMAIN s
    BY MergedMeans
<1> QED
    BY <1>1, <1>2, <1>3, SameMap

\* Disk won everything: the merge is disk's side
LEMMA MergedIsDisk ==
    ASSUME Rest = {Plain}, NEW d \in Tree, NEW s \in Tree, NEW w, Decided(w, d, s),
           Won(w) = Diff(d, s)
    PROVE  Merged(w, d, s) = d
<1>1. ASSUME NEW p \in Path, ~CoveredBy(Won(w), p) PROVE Get(s, p) = Get(d, p)
    <2>1. CASE Paired(d, s, p)
        <3>1. p \in DOMAIN d /\ p \in DOMAIN s
            BY <2>1, PairedMeans
        <3>2. ASSUME d[p] # s[p] PROVE FALSE
            <4>1. Item(Differs, p) \in Won(w)
                BY <2>1, <3>1, <3>2, DiffMeans
            <4>2. Covers(Item(Differs, p), p)
                BY WithinSelf DEF Covers, Item
            <4> QED
                BY <1>1, <4>1, <4>2 DEF CoveredBy
        <3> QED
            BY <3>1, <3>2, GetMeans
    <2>2. CASE ~Paired(d, s, p)
        <3>1. PICK q \in Path : Within(q, p) /\ Unpaired(d, s, q)
            BY <2>2, UnpairedTop
        <3>2. /\ p \in DOMAIN d => Item(OnlyOnDisk, q) \in Won(w)
              /\ p \in DOMAIN s => Item(MissingOnDisk, q) \in Won(w)
            BY <3>1, DiffCovers
        <3>3. Covers(Item(OnlyOnDisk, q), p) /\ Covers(Item(MissingOnDisk, q), p)
            BY <3>1, States DEF Covers, Item
        <3>4. p \notin DOMAIN d /\ p \notin DOMAIN s
            BY <1>1, <3>2, <3>3 DEF CoveredBy
        <3> QED
            BY <3>4, GetMeans
    <2> QED
        BY <2>1, <2>2
<1>2. \A p \in Path : Get(Merged(w, d, s), p) = Get(d, p)
    BY <1>1, MergedAt
<1>3. /\ DOMAIN d \subseteq Path /\ DOMAIN s \subseteq Path
      /\ d = [p \in DOMAIN d |-> d[p]]
    BY TreeMeans
<1>4. /\ Merged(w, d, s) = [p \in DOMAIN Merged(w, d, s) |-> Merged(w, d, s)[p]]
      /\ DOMAIN Merged(w, d, s) \subseteq DOMAIN d \cup DOMAIN s
    BY MergedMeans
<1> QED
    BY <1>2, <1>3, <1>4, SameMap

-----------------------------------------------------------------------------
(* What the plugin applies *)

\* What the plugin creates or updates, and what it removes
Comes(items, d, p) ==
    p \in DOMAIN d /\ \E item \in items : \/ item.state = Differs /\ item.path = p
                                          \/ item.state = OnlyOnDisk /\ Within(item.path, p)
Goes(items, p) == \E item \in items : item.state = MissingOnDisk /\ Within(item.path, p)

\* Studio after the plugin has applied the differences in items
LEMMA AppliedMeans ==
    ASSUME NEW items, NEW d, NEW s
    PROVE  /\ Applied(items, d, s) = [p \in DOMAIN Applied(items, d, s) |-> Applied(items, d, s)[p]]
           /\ \A p : /\ p \in DOMAIN Applied(items, d, s) <=>
                           Comes(items, d, p) \/ (p \in DOMAIN s /\ ~Goes(items, p))
                     /\ Comes(items, d, p) => Applied(items, d, s)[p] = d[p]
                     /\ p \in DOMAIN s /\ ~Goes(items, p) /\ ~Comes(items, d, p) =>
                           Applied(items, d, s)[p] = s[p]
<1> DEFINE paths(state) == {item.path : item \in {i \in items : i.state = state}}
           left == Without(s, paths(MissingOnDisk))
           from == {q \in DOMAIN d : \/ q \in paths(Differs)
                                     \/ \E p \in paths(OnlyOnDisk) : Within(p, q)}
<1>1. Applied(items, d, s) = [q \in DOMAIN left \cup from |-> IF q \in from THEN d[q] ELSE left[q]]
    BY DEF Applied
<1>2. \A p : p \in from <=> Comes(items, d, p)
    BY DEF Comes
<1>3. /\ \A p : p \in DOMAIN left <=> p \in DOMAIN s /\ ~Goes(items, p)
      /\ \A p \in DOMAIN left : left[p] = s[p]
    <2>1. /\ DOMAIN left = {q \in DOMAIN s : \A p \in paths(MissingOnDisk) : ~Within(p, q)}
          /\ \A p \in DOMAIN left : left[p] = s[p]
        BY WithoutMeans
    <2>2. \A q : (\A p \in paths(MissingOnDisk) : ~Within(p, q)) <=> ~Goes(items, q)
        BY DEF Goes
    <2> HIDE DEF left, paths
    <2> QED
        BY <2>1, <2>2
<1> HIDE DEF left, from
<1> QED
    BY <1>1, <1>2, <1>3

\* Nor has Studio after the pushes
LEMMA AppliedDomain ==
    ASSUME NEW items, NEW d, NEW s
    PROVE  DOMAIN Applied(items, d, s) \subseteq DOMAIN d \cup DOMAIN s
<1>1. \A p \in DOMAIN Applied(items, d, s) : p \in DOMAIN d \/ p \in DOMAIN s
    BY AppliedMeans DEF Comes
<1> QED
    BY <1>1

\* Once it has applied what disk won, Studio holds the merge
LEMMA AppliedIsMerged ==
    ASSUME Rest = {Plain}, NEW d \in Tree, NEW s \in Tree, NEW w, Decided(w, d, s)
    PROVE  Applied(Won(w), Merged(w, d, s), s) = Merged(w, d, s)
<1> DEFINE M == Merged(w, d, s)
           A == Applied(Won(w), M, s)
<1>1. M \in Tree /\ DOMAIN M \subseteq Path /\ DOMAIN s \subseteq Path /\ M = [p \in DOMAIN M |-> M[p]]
    BY MergedTree, TreeMeans
<1>2. ASSUME NEW p \in Path
      PROVE  (p \in DOMAIN A <=> p \in DOMAIN M) /\ (p \in DOMAIN M => A[p] = M[p])
    <2>1. /\ p \in DOMAIN A <=> Comes(Won(w), M, p) \/ (p \in DOMAIN s /\ ~Goes(Won(w), p))
          /\ Comes(Won(w), M, p) => A[p] = M[p]
          /\ p \in DOMAIN s /\ ~Goes(Won(w), p) /\ ~Comes(Won(w), M, p) => A[p] = s[p]
        BY AppliedMeans
    <2>2. \A item \in Won(w) : /\ item.path \in Path /\ item \in Diff(d, s)
                               /\ item.state \in {OnlyOnDisk, Differs, MissingOnDisk}
        BY DiffMeans DEF Won, Decided
    <2>3. CASE CoveredBy(Won(w), p)
        <3>1. PICK item \in Won(w) : Covers(item, p)
            BY <2>3 DEF CoveredBy
        <3>2. (p \in DOMAIN M <=> p \in DOMAIN d) /\ (p \in DOMAIN d => M[p] = d[p])
            BY <2>3, MergedFrom
        <3>3. CASE item.state = Differs
            <4>1. item.path = p /\ Paired(d, s, p)
                BY <2>2, <3>1, <3>3, CoversMeans DEF Covers
            <4>2. p \in DOMAIN M
                BY <3>2, <4>1, PairedMeans
            <4>3. Comes(Won(w), M, p)
                BY <3>3, <4>1, <4>2 DEF Comes
            <4> QED
                BY <2>1, <4>2, <4>3
        <3>4. CASE item.state = OnlyOnDisk
            <4>1. p \notin DOMAIN s
                BY <3>1, <3>4, WonAlone
            <4>2. Comes(Won(w), M, p) <=> p \in DOMAIN M
                BY <3>1, <3>4 DEF Comes, Covers
            <4> QED
                BY <2>1, <4>1, <4>2
        <3>5. CASE item.state = MissingOnDisk
            <4>1. p \notin DOMAIN M
                BY <3>1, <3>2, <3>5, WonAlone
            <4>2. ~Comes(Won(w), M, p) /\ Goes(Won(w), p)
                BY <3>1, <3>5, <4>1 DEF Comes, Goes, Covers
            <4> QED
                BY <2>1, <4>1, <4>2
        <3> QED
            BY <2>2, <3>3, <3>4, <3>5
    <2>4. CASE ~CoveredBy(Won(w), p)
        <3>1. ~Comes(Won(w), M, p) /\ ~Goes(Won(w), p)
            BY <2>4, States, WithinSelf DEF CoveredBy, Covers, Comes, Goes
        <3>2. (p \in DOMAIN M <=> p \in DOMAIN s) /\ (p \in DOMAIN s => M[p] = s[p])
            BY <2>4, MergedFrom
        <3> QED
            BY <2>1, <3>1, <3>2
    <2> QED
        BY <2>3, <2>4
<1>3. A = [p \in DOMAIN A |-> A[p]] /\ DOMAIN A \subseteq Path
    <2>1. \A p \in DOMAIN A : p \in DOMAIN M \/ p \in DOMAIN s
        BY AppliedMeans DEF Comes
    <2> QED
        BY <1>1, <2>1, AppliedMeans
<1> HIDE DEF A, M
<1>4. DOMAIN A = DOMAIN M
    BY <1>1, <1>2, <1>3
<1>5. A = M
    BY <1>1, <1>2, <1>3, <1>4
<1> QED
    BY <1>5 DEF A, M

-----------------------------------------------------------------------------
(* What is kept of disk *)

\* A disk instance that a connect replaces goes to the backlog, or the base has it
LEMMA MergeKeeps ==
    ASSUME Rest = {Plain}, NEW d \in Tree, NEW s \in Tree, NEW b,
           \A view \in b : DOMAIN view.entries \subseteq Path,
           NEW hashes \in BOOLEAN, NEW truncated \in BOOLEAN,
           NEW w, w = Decide(b, Diff(d, s), d, s, hashes, truncated), NEW p \in DOMAIN d
    PROVE  \/ Get(Merged(w, d, s), p) = {d[p]} \/ <<p, d[p]>> \in Backlogged(w, d, s)
           \/ \E view \in b : p \in DOMAIN view.entries /\ view.entries[p] = KeyOf(d[p])
<1>1. Decided(w, d, s)
    BY DecideDecided
<1>2. DOMAIN w = Diff(d, s)
    BY <1>1 DEF Decided
<1>3. DOMAIN d \subseteq Path /\ p \in Path /\ d[p] \in Content /\ DOMAIN s \subseteq Path
    BY TreeMeans
<1>4. \A item \in Diff(d, s) :
         /\ w[item] = Classify(b, InputOf(item, Diff(d, s), d, s, hashes, truncated))
         /\ Yields(b, InputOf(item, Diff(d, s), d, s, hashes, truncated))
    <2>1. \A item \in Diff(d, s) :
             w[item] = Classify(b, InputOf(item, Diff(d, s), d, s, hashes, truncated))
        BY DEF Decide
    <2> QED
        BY <1>3, <2>1, DiffYields
<1>5. CASE CoveredBy(Won(w), p)
    <2>1. Get(Merged(w, d, s), p) = Get(d, p)
        BY <1>1, <1>3, <1>5, MergedAt
    <2> QED
        BY <2>1, GetMeans
<1>6. ASSUME ~CoveredBy(Won(w), p), Paired(d, s, p)
      PROVE  \/ Get(Merged(w, d, s), p) = {d[p]} \/ <<p, d[p]>> \in Backlogged(w, d, s)
             \/ \E view \in b : p \in DOMAIN view.entries /\ view.entries[p] = KeyOf(d[p])
    <2>1. p \in DOMAIN s /\ d[p].class = s[p].class
        BY <1>3, <1>6, PairedMeans
    <2>2. Get(Merged(w, d, s), p) = {s[p]}
        BY <1>1, <1>3, <1>6, <2>1, MergedAt, GetMeans
    <2>3. CASE d[p] = s[p]
        BY <2>2, <2>3
    <2>4. CASE d[p] # s[p]
        <3> DEFINE item == Item(Differs, p)
                   input == InputOf(item, Diff(d, s), d, s, hashes, truncated)
        <3>1. item \in Diff(d, s)
            BY <1>3, <1>6, <2>4, DiffMeans
        <3>2. item.state = Differs /\ item.path = p
            BY DEF Item
        <3>3. input.state = Differs /\ input.path = p /\ input.disk = {KeyOf(d[p])}
            <4>1. Get(Keys(d), p) = {KeyOf(d[p])}
                BY DEF Get, Keys
            <4> QED
                BY <3>2, <4>1, States DEF InputOf
        <3>4. w[item] = Classify(b, input) /\ Yields(b, input)
            BY <1>4, <3>1
        <3>5. w[item] # ToStudio
            <4>1. Covers(item, p)
                BY <1>3, <3>2, WithinSelf DEF Covers
            <4> QED
                BY <1>2, <1>6, <3>1, <4>1 DEF CoveredBy, Won
        <3> HIDE DEF input, item
        <3>6. CASE w[item] = ToDisk
            <4>1. PICK view \in b : input.disk = Get(view.entries, p) /\ Get(view.entries, p) # {}
                BY <3>3, <3>4, <3>6 DEF Yields
            <4> QED
                BY <3>3, <4>1 DEF Get
        <3>7. CASE w[item] = ToDiskKeepDisk
            <4>1. d[p] \in Script
                BY <1>3, <2>1, <2>4, TreeMeans, DiffersIsScript
            <4>2. [d[p] EXCEPT !.rest = Plain] = d[p]
                <5>1. d[p] = [class |-> d[p].class, source |-> d[p].source, rest |-> Plain]
                    BY <1>3, PlainContent
                <5> QED
                    BY <5>1
            <4>3. <<item.path, [d[item.path] EXCEPT !.rest = Plain]>> \in Backlogged(w, d, s)
                BY <1>2, <3>1, <3>2, <3>7, <4>1 DEF Backlogged
            <4> QED
                BY <3>2, <4>2, <4>3
        <3>8. w[item] \in {ToDisk, ToDiskKeepDisk, ToStudio}
            BY <3>4 DEF Classify, AgainstBase, StudioFirst
        <3> QED
            BY <3>5, <3>6, <3>7, <3>8
    <2> QED
        BY <2>3, <2>4
<1>7. ASSUME ~CoveredBy(Won(w), p), ~Paired(d, s, p)
      PROVE  <<p, d[p]>> \in Backlogged(w, d, s)
    <2>1. PICK q \in Path : Within(q, p) /\ Unpaired(d, s, q)
        BY <1>3, <1>7, UnpairedTop
    <2> DEFINE item == Item(OnlyOnDisk, q)
    <2>2. item \in Diff(d, s) /\ item.state = OnlyOnDisk /\ item.path = q
        BY <1>3, <2>1, DiffCovers DEF Item
    <2>3. w[item] # ToStudio
        <3>1. Covers(item, p)
            BY <2>1, <2>2, States DEF Covers
        <3> QED
            BY <1>2, <1>7, <2>2, <3>1 DEF CoveredBy, Won
    <2> HIDE DEF item
    <2>4. q \in Leaving(w)
        BY <1>2, <2>2, <2>3 DEF Leaving
    <2>5. p \notin DOMAIN Without(d, Leaving(w))
        <3>1. PICK P : P = Leaving(w)
            OBVIOUS
        <3>2. DOMAIN Without(d, P) = {x \in DOMAIN d : \A y \in P : ~Within(y, x)}
            BY WithoutMeans
        <3> QED
            BY <2>1, <2>4, <3>1, <3>2
    <2> QED
        BY <2>5 DEF Backlogged
<1> QED
    BY <1>5, <1>6, <1>7
=============================================================================
