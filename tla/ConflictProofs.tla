---------------------------- MODULE ConflictProofs ----------------------------
(***************************************************************************)
(* The conflict engine keeps its records disciplined, whatever the number  *)
(* of instances and contents, the park limit and the timings: each method  *)
(* preserves Good, hence each step of a session does, as long as nobody    *)
(* puts a record back through POST /resolve.                               *)
(***************************************************************************)
EXTENDS ConflictSession, SequenceTheorems, TLAPS

Good(e) == e \in EngineState /\ Disciplined(e)

\* A record whose classification says which of its sides exist
Matches(rec) ==
    /\ (rec.fs = Absent) <=> (rec.classification = FsDeleted)
    /\ (rec.studio = Absent) <=> (rec.classification = StudioDeleted)

\* f has no unconfirmed edit that e lacks, except perhaps those in S
Within(f, e, S) == DOMAIN f.pending \subseteq DOMAIN e.pending \cup S

\* An outcome of a method called on e: a good engine, at most the edits in S are
\* new, and what goes to the notifier is a classified record
GoodOutcome(o, e, S) ==
    /\ Good(o.engine) /\ Within(o.engine, e, S)
    /\ \A rec \in o.notice : rec \in Parked /\ Matches(rec)

-----------------------------------------------------------------------------
(* Maps *)

\* What membership in MapTo says of a hash map
LEMMA MapElim ==
    ASSUME NEW V, NEW f \in MapTo(V)
    PROVE  /\ DOMAIN f \subseteq Instance
           /\ \A x \in DOMAIN f : f[x] \in V
BY DEF MapTo

\* Inserting a key (HashMap::insert)
LEMMA PutMap ==
    ASSUME NEW V, NEW f \in MapTo(V), NEW i \in Instance, NEW v \in V
    PROVE  Put(f, i, v) \in MapTo(V)
<1>1. Put(f, i, v) \in [DOMAIN f \cup {i} -> V]
    BY MapElim DEF Put
<1>2. DOMAIN f \cup {i} \in SUBSET Instance
    BY MapElim
<1> QED BY <1>1, <1>2 DEF MapTo

\* Keeping some keys (HashMap::retain)
LEMMA RestrictMap ==
    ASSUME NEW V, NEW f \in MapTo(V), NEW D \in SUBSET DOMAIN f
    PROVE  /\ Restrict(f, D) \in MapTo(V)
           /\ DOMAIN Restrict(f, D) = D
           /\ \A j \in D : Restrict(f, D)[j] = f[j]
<1>1. Restrict(f, D) \in [D -> V]
    BY MapElim DEF Restrict
<1>2. D \in SUBSET Instance
    BY MapElim
<1> QED BY <1>1, <1>2 DEF MapTo, Restrict

\* Removing a key (HashMap::remove)
LEMMA DropMap ==
    ASSUME NEW V, NEW f \in MapTo(V), NEW i
    PROVE  /\ Drop(f, i) \in MapTo(V)
           /\ DOMAIN Drop(f, i) = DOMAIN f \ {i}
           /\ \A j \in DOMAIN f \ {i} : Drop(f, i)[j] = f[j]
BY RestrictMap DEF Drop

-----------------------------------------------------------------------------
(* Engine values *)

\* An engine value with the same records is good if its maps agree with them
LEMMA GoodMaps ==
    ASSUME NEW e, Good(e), NEW f \in EngineState,
           f.parked = e.parked, f.nextId = e.nextId,
           \A j \in DOMAIN f.pending : ~IsParked(e, j),
           \A j \in DOMAIN f.tombstones : ~IsParked(e, j),
           \A j \in DOMAIN f.pending :
               j \in DOMAIN f.baselines /\ f.baselines[j] = f.pending[j].prior
    PROVE  Good(f)
<1>1. \A j : IsParked(f, j) <=> IsParked(e, j)
    BY DEF IsParked
<1>2. OneRecordEach(f) /\ FreshIds(f) /\ ClassifiedBySides(f)
    BY DEF Good, Disciplined, OneRecordEach, FreshIds, ClassifiedBySides
<1>3. ParkedIsSettled(f)
    BY <1>1 DEF ParkedIsSettled
<1>4. PendingOverBaseline(f)
    BY DEF PendingOverBaseline
<1> QED BY <1>2, <1>3, <1>4 DEF Good, Disciplined

\* Taking one element out of a sequence keeps the others, in order (Vec::remove)
LEMMA RemoveAtElements ==
    ASSUME NEW S, NEW s \in Seq(S), NEW k \in 1..Len(s)
    PROVE  /\ RemoveAt(s, k) \in Seq(S)
           /\ Len(RemoveAt(s, k)) = Len(s) - 1
           /\ \A j \in 1..(Len(s) - 1) :
                 RemoveAt(s, k)[j] = IF j < k THEN s[j] ELSE s[j + 1]
<1> DEFINE l == SubSeq(s, 1, k - 1)
           r == SubSeq(s, k + 1, Len(s))
<1>0. Len(s) \in Nat
    BY LenProperties
<1>1. /\ l \in Seq(S) /\ Len(l) = k - 1
      /\ \A j \in 1..(k - 1) : l[j] = s[j]
    <2>1. \A j \in 1..(k - 1) : s[j] \in S
        BY <1>0, ElementOfSeq
    <2> QED BY <2>1, <1>0, SubSeqProperties
<1>2. /\ r \in Seq(S) /\ Len(r) = Len(s) - k
      /\ \A j \in 1..(Len(s) - k) : r[j] = s[k + j]
    <2>1. \A j \in (k + 1)..Len(s) : s[j] \in S
        BY <1>0, ElementOfSeq
    <2> QED BY <2>1, <1>0, SubSeqProperties
<1>3. /\ l \o r \in Seq(S) /\ Len(l \o r) = Len(s) - 1
      /\ \A j \in 1..(Len(s) - 1) : (l \o r)[j] = IF j < k THEN s[j] ELSE s[j + 1]
    <2> HIDE DEF l, r
    <2>1. Len(l) + Len(r) = Len(s) - 1
        BY <1>0, <1>1, <1>2
    <2>2. /\ l \o r \in Seq(S) /\ Len(l \o r) = Len(s) - 1
          /\ \A j \in 1..(Len(s) - 1) :
                (l \o r)[j] = IF j <= k - 1 THEN l[j] ELSE r[j - (k - 1)]
        <3>1. /\ l \o r \in Seq(S) /\ Len(l \o r) = Len(l) + Len(r)
              /\ \A j \in 1..(Len(l) + Len(r)) :
                    (l \o r)[j] = IF j <= Len(l) THEN l[j] ELSE r[j - Len(l)]
            BY <1>1, <1>2, ConcatProperties
        <3> QED BY <3>1, <2>1, <1>1
    <2>3. ASSUME NEW j \in 1..(Len(s) - 1)
          PROVE  (l \o r)[j] = IF j < k THEN s[j] ELSE s[j + 1]
        <3>1. CASE j < k
            BY <3>1, <2>2, <1>0, <1>1
        <3>2. CASE ~(j < k)
            <4>1. j - (k - 1) \in 1..(Len(s) - k)
                BY <3>2, <1>0
            <4>2. (l \o r)[j] = r[j - (k - 1)]
                BY <3>2, <2>2, <1>0
            <4>3. k + (j - (k - 1)) = j + 1
                BY <1>0
            <4> QED BY <4>1, <4>2, <4>3, <3>2, <1>2
        <3> QED BY <3>1, <3>2
    <2> QED BY <2>2, <2>3
<1> QED BY <1>3 DEF RemoveAt

\* Without one of its records a good engine is good, and nothing gets parked
LEMMA GoodWithout ==
    ASSUME NEW e, Good(e), NEW k \in 1..Len(e.parked), NEW f,
           f = [e EXCEPT !.parked = RemoveAt(@, k)]
    PROVE  /\ Good(f)
           /\ f.baselines = e.baselines /\ f.pending = e.pending
           /\ f.tombstones = e.tombstones
           /\ \A j : IsParked(f, j) => IsParked(e, j)
           /\ ~IsParked(f, e.parked[k].instance)
<1> DEFINE q == RemoveAt(e.parked, k)
<1>0. e.parked \in Seq(Parked) /\ Len(e.parked) \in Nat /\ DOMAIN e.parked = 1..Len(e.parked)
    BY LenProperties DEF Good, EngineState
<1>1. /\ q \in Seq(Parked) /\ Len(q) = Len(e.parked) - 1
      /\ \A j \in 1..(Len(e.parked) - 1) :
            q[j] = e.parked[IF j < k THEN j ELSE j + 1]
    BY <1>0, RemoveAtElements
<1>2. f \in EngineState /\ f.parked = q /\ f.nextId = e.nextId
      /\ f.baselines = e.baselines /\ f.pending = e.pending
      /\ f.tombstones = e.tombstones
    BY <1>1 DEF Good, EngineState
<1>3. DOMAIN q = 1..(Len(e.parked) - 1)
    BY <1>0, <1>1, LenProperties
<1> DEFINE at(j) == IF j < k THEN j ELSE j + 1
<1>4. /\ \A j \in DOMAIN q : at(j) \in DOMAIN e.parked /\ at(j) # k /\ q[j] = e.parked[at(j)]
      /\ \A j, l \in DOMAIN q : at(j) = at(l) => j = l
    BY <1>0, <1>1, <1>3
<1> HIDE DEF q, at
<1>5. OneRecordEach(f) /\ FreshIds(f) /\ ClassifiedBySides(f)
    BY <1>2, <1>4 DEF Good, Disciplined, OneRecordEach, FreshIds, ClassifiedBySides
<1>6. \A j : IsParked(f, j) => IsParked(e, j)
    BY <1>2, <1>4 DEF IsParked
<1>7. ~IsParked(f, e.parked[k].instance)
    BY <1>0, <1>2, <1>4 DEF IsParked, Good, Disciplined, OneRecordEach
<1>8. ParkedIsSettled(f) /\ PendingOverBaseline(f)
    BY <1>2, <1>6 DEF Good, Disciplined, ParkedIsSettled, PendingOverBaseline
<1> QED BY <1>2, <1>5, <1>6, <1>7, <1>8 DEF Good, Disciplined

\* parked_index finds the record of a parked instance
LEMMA ParkedIndexFinds ==
    ASSUME NEW e, Good(e), NEW i, IsParked(e, i)
    PROVE  /\ ParkedIndex(e, i) \in 1..Len(e.parked)
           /\ e.parked[ParkedIndex(e, i)].instance = i
<1>0. e.parked \in Seq(Parked) /\ DOMAIN e.parked = 1..Len(e.parked)
    BY LenProperties DEF Good, EngineState
<1>1. PICK k \in 1..Len(e.parked) : e.parked[k].instance = i
    BY <1>0 DEF IsParked
<1>2. {j \in 1..Len(e.parked) : e.parked[j].instance = i} = {k}
    BY <1>0, <1>1 DEF Good, Disciplined, OneRecordEach
<1>3. Min({k}) = k
    BY <1>1 DEF Min
<1> QED BY <1>1, <1>2, <1>3 DEF ParkedIndex, SelectInSeq

\* Unparking an instance leaves it without a record
LEMMA GoodUnpark ==
    ASSUME NEW e, Good(e), NEW i, IsParked(e, i)
    PROVE  LET f == Unpark(e, i)
           IN  /\ Good(f)
               /\ f.baselines = e.baselines /\ f.pending = e.pending
               /\ f.tombstones = e.tombstones
               /\ \A j : IsParked(f, j) => IsParked(e, j)
               /\ ~IsParked(f, i)
BY ParkedIndexFinds, GoodWithout DEF Unpark

\* `take` removes at most one record and touches nothing else
LEMMA GoodTake ==
    ASSUME NEW e, Good(e), NEW id
    PROVE  Good(Take(e, id))
<1> DEFINE I == {j \in 1..Len(e.parked) : e.parked[j].id = id}
<1>0. e.parked \in Seq(Parked) /\ DOMAIN e.parked = 1..Len(e.parked)
    BY LenProperties DEF Good, EngineState
<1>1. CASE I = {}
    <2>1. Take(e, id) = [e EXCEPT !.parked = e.parked]
        BY <1>1 DEF Take, RemoveFirstMatch
    <2>2. [e EXCEPT !.parked = e.parked] = e
        BY DEF Good, EngineState
    <2> QED BY <2>1, <2>2
<1>2. CASE I # {}
    <2>1. PICK k \in 1..Len(e.parked) : e.parked[k].id = id
        BY <1>2
    <2>2. I = {k}
        BY <1>0, <2>1 DEF Good, Disciplined, FreshIds
    <2>3. Min({k}) = k
        BY <2>1 DEF Min
    <2>4. Take(e, id) = [e EXCEPT !.parked = RemoveAt(@, k)]
        BY <2>1, <2>2, <2>3 DEF Take, RemoveFirstMatch, SelectInSeq
    <2> QED BY <2>4, GoodWithout
<1> QED BY <1>1, <1>2

\* The record of a parked instance is typed, classified, and its own
LEMMA ParkedRecordGood ==
    ASSUME NEW e, Good(e), NEW i, IsParked(e, i)
    PROVE  /\ ParkedRecord(e, i) \in Parked
           /\ ParkedRecord(e, i).instance = i
           /\ Matches(ParkedRecord(e, i))
<1>1. e.parked \in Seq(Parked) /\ DOMAIN e.parked = 1..Len(e.parked)
    BY LenProperties DEF Good, EngineState
<1>2. ParkedRecord(e, i) \in Parked /\ ParkedRecord(e, i).instance = i
    BY <1>1, ParkedIndexFinds, ElementOfSeq DEF ParkedRecord
<1>3. Matches(ParkedRecord(e, i))
    BY <1>1, ParkedIndexFinds
       DEF ParkedRecord, Matches, Good, Disciplined, ClassifiedBySides
<1> QED BY <1>2, <1>3

\* Folding a change into a record keeps the engine good
LEMMA GoodFold ==
    ASSUME NEW e, Good(e), NEW i, IsParked(e, i), NEW quietly,
           NEW rec \in Parked, rec.instance = i, rec.id = ParkedRecord(e, i).id,
           Matches(rec)
    PROVE  GoodOutcome(Fold(e, i, rec, quietly), e, {})
<1> DEFINE k == ParkedIndex(e, i)
           q == [e.parked EXCEPT ![k] = rec]
           f == [e EXCEPT !.parked = q]
<1>0. e.parked \in Seq(Parked) /\ DOMAIN e.parked = 1..Len(e.parked)
    BY LenProperties DEF Good, EngineState
<1>1. k \in 1..Len(e.parked) /\ e.parked[k].instance = i /\ e.parked[k].id = rec.id
    BY ParkedIndexFinds DEF ParkedRecord
<1>2. /\ q \in Seq(Parked) /\ DOMAIN q = DOMAIN e.parked
      /\ \A j \in DOMAIN q : q[j] = IF j = k THEN rec ELSE e.parked[j]
    <2>1. q \in Seq(Parked) /\ Len(q) = Len(e.parked)
        BY <1>0, <1>1, ExceptSeq
    <2> QED BY <2>1, <1>0, <1>1
<1> HIDE DEF k, q
<1>3. f \in EngineState /\ f.parked = q /\ f.nextId = e.nextId
      /\ f.baselines = e.baselines /\ f.pending = e.pending
      /\ f.tombstones = e.tombstones
    BY <1>2 DEF Good, EngineState
<1>4. Fold(e, i, rec, quietly).engine = f
    BY DEF Fold, k, q
<1> HIDE DEF f
<1>5. OneRecordEach(f) /\ FreshIds(f) /\ ClassifiedBySides(f)
    BY <1>0, <1>1, <1>2, <1>3
       DEF Good, Disciplined, OneRecordEach, FreshIds, ClassifiedBySides, Matches
<1>6. \A j : IsParked(f, j) => IsParked(e, j)
    BY <1>0, <1>1, <1>2, <1>3 DEF IsParked
<1>7. ParkedIsSettled(f) /\ PendingOverBaseline(f)
    BY <1>3, <1>6 DEF Good, Disciplined, ParkedIsSettled, PendingOverBaseline
<1>8. Good(f) /\ Within(f, e, {})
    BY <1>3, <1>5, <1>7 DEF Good, Disciplined, Within
<1>9. Fold(e, i, rec, quietly).notice \subseteq {rec}
    BY DEF Fold
<1> QED BY <1>4, <1>8, <1>9 DEF GoodOutcome

\* Parking an instance that has no record keeps the engine good
LEMMA GoodPark ==
    ASSUME NEW e, Good(e), NEW i \in Instance, ~IsParked(e, i),
           NEW class \in Classification, NEW fs \in Side, NEW studioSide \in Side,
           (fs = Absent) <=> (class = FsDeleted),
           (studioSide = Absent) <=> (class = StudioDeleted)
    PROVE  GoodOutcome(Park(e, i, class, fs, studioSide), e, {})
<1> DEFINE rec == [id |-> e.nextId, instance |-> i, classification |-> class,
                   fs |-> fs, studio |-> studioSide]
           q == Append(e.parked, rec)
           p == Drop(e.pending, i)
           t == Drop(e.tombstones, i)
           n == e.nextId + 1
           f == [e EXCEPT !.parked = q, !.nextId = n,
                          !.pending = p, !.tombstones = t]
<1>0. /\ e.parked \in Seq(Parked) /\ Len(e.parked) \in Nat
      /\ DOMAIN e.parked = 1..Len(e.parked)
      /\ e.nextId \in Nat
      /\ e.pending \in MapTo(PendingEdit) /\ e.tombstones \in MapTo(Tombstone)
    BY LenProperties DEF Good, EngineState
<1>1. CASE Len(e.parked) >= ParkLimit
    <2>1. /\ Park(e, i, class, fs, studioSide).engine = e
          /\ Park(e, i, class, fs, studioSide).notice = {}
        BY <1>1 DEF Park, Outcome
    <2> QED BY <2>1 DEF GoodOutcome, Within
<1>2. CASE ~(Len(e.parked) >= ParkLimit)
    <2>1. rec \in Parked /\ rec.instance = i /\ rec.id = e.nextId /\ Matches(rec)
        BY <1>0 DEF Parked, Matches
    <2>2. /\ Park(e, i, class, fs, studioSide).engine = f
          /\ Park(e, i, class, fs, studioSide).notice = {rec}
        BY <1>2 DEF Park
    <2> HIDE DEF rec
    <2>3. /\ q \in Seq(Parked) /\ DOMAIN q = 1..(Len(e.parked) + 1)
          /\ \A j \in 1..Len(e.parked) : q[j] = e.parked[j]
          /\ q[Len(e.parked) + 1] = rec
        BY <1>0, <2>1, AppendProperties, LenProperties
    <2>4. /\ p \in MapTo(PendingEdit) /\ DOMAIN p = DOMAIN e.pending \ {i}
          /\ \A j \in DOMAIN p : p[j] = e.pending[j]
          /\ t \in MapTo(Tombstone) /\ DOMAIN t = DOMAIN e.tombstones \ {i}
        <3>1. /\ p \in MapTo(PendingEdit) /\ DOMAIN p = DOMAIN e.pending \ {i}
              /\ \A j \in DOMAIN e.pending \ {i} : p[j] = e.pending[j]
            <4>1. e.pending \in MapTo(PendingEdit)
                BY <1>0
            <4> QED BY ONLY <4>1, DropMap DEF p
        <3>2. t \in MapTo(Tombstone) /\ DOMAIN t = DOMAIN e.tombstones \ {i}
            BY <1>0, DropMap
        <3> HIDE DEF p, t
        <3> QED BY <3>1, <3>2
    <2> HIDE DEF q, p, t
    <2>5. f \in EngineState /\ f.parked = q /\ f.nextId = e.nextId + 1
          /\ f.baselines = e.baselines /\ f.pending = p /\ f.tombstones = t
        <3>1. n \in Nat /\ n = e.nextId + 1
            BY <1>0
        <3> HIDE DEF n
        <3>2. e \in EngineState
            BY DEF Good
        <3>3. f \in EngineState
            BY ONLY <3>1, <3>2, <2>3, <2>4 DEF EngineState, f
        <3>4. /\ f.parked = q /\ f.nextId = n /\ f.baselines = e.baselines
              /\ f.pending = p /\ f.tombstones = t
            BY ONLY <3>2 DEF EngineState, f
        <3> QED BY <3>1, <3>3, <3>4
    <2> HIDE DEF f
    <2>6. \A j \in 1..Len(e.parked) : e.parked[j].instance # i
        BY <1>0 DEF IsParked
    <2>7. OneRecordEach(f)
        <3>1. \A j, k \in 1..Len(e.parked) : e.parked[j].instance = e.parked[k].instance => j = k
            BY <1>0 DEF Good, Disciplined, OneRecordEach
        <3>2. DOMAIN q = 1..Len(e.parked) \cup {Len(e.parked) + 1}
            BY <1>0, <2>3
        <3>3. \A j, k \in DOMAIN q : q[j].instance = q[k].instance => j = k
            BY <3>1, <3>2, <2>1, <2>3, <2>6
        <3> QED BY <3>3, <2>5 DEF OneRecordEach
    <2>8. FreshIds(f)
        <3>1. \A j \in 1..Len(e.parked) : e.parked[j].id \in Nat /\ e.parked[j].id < e.nextId
            <4>1. \A j \in 1..Len(e.parked) : e.parked[j] \in Parked
                BY <1>0, ElementOfSeq
            <4>2. \A j \in 1..Len(e.parked) : e.parked[j].id < e.nextId
                BY <1>0 DEF Good, Disciplined, FreshIds
            <4> QED BY <4>1, <4>2 DEF Parked
        <3>2. DOMAIN q = 1..Len(e.parked) \cup {Len(e.parked) + 1}
            BY <1>0, <2>3
        <3>3. \A j \in DOMAIN q : q[j].id < e.nextId + 1
            BY <3>1, <3>2, <1>0, <2>1, <2>3
        <3>4. \A j, k \in 1..Len(e.parked) : e.parked[j].id = e.parked[k].id => j = k
            BY <1>0 DEF Good, Disciplined, FreshIds
        <3>5. \A j, k \in DOMAIN q : q[j].id = q[k].id => j = k
            BY <3>1, <3>2, <3>4, <1>0, <2>1, <2>3
        <3> QED BY <3>3, <3>5, <2>5 DEF FreshIds
    <2>9. ClassifiedBySides(f)
        BY <1>0, <2>1, <2>3, <2>5 DEF Good, Disciplined, ClassifiedBySides, Matches
    <2>10. \A j : IsParked(f, j) => j = i \/ IsParked(e, j)
        BY <1>0, <2>1, <2>3, <2>5 DEF IsParked
    <2>11. ParkedIsSettled(f) /\ PendingOverBaseline(f)
        BY <2>4, <2>5, <2>10 DEF Good, Disciplined, ParkedIsSettled, PendingOverBaseline
    <2>12. Good(f) /\ Within(f, e, {})
        BY <2>4, <2>5, <2>7, <2>8, <2>9, <2>11 DEF Good, Disciplined, Within
    <2> QED BY <2>1, <2>2, <2>12 DEF GoodOutcome
<1> QED BY <1>1, <1>2

-----------------------------------------------------------------------------
(* Bookkeeping methods *)

\* The fields of a good engine
LEMMA GoodFields ==
    ASSUME NEW e, Good(e)
    PROVE  /\ e \in EngineState
           /\ e.baselines \in MapTo(Content)
           /\ e.pending \in MapTo(PendingEdit)
           /\ e.tombstones \in MapTo(Tombstone)
           /\ \A j \in DOMAIN e.pending : ~IsParked(e, j)
           /\ \A j \in DOMAIN e.tombstones : ~IsParked(e, j)
           /\ \A j \in DOMAIN e.pending :
                 j \in DOMAIN e.baselines /\ e.baselines[j] = e.pending[j].prior
BY DEF Good, EngineState, Disciplined, ParkedIsSettled, PendingOverBaseline

\* What is left of the maps of a good engine once i is removed
LEMMA DropFields ==
    ASSUME NEW e, Good(e), NEW i
    PROVE  /\ Drop(e.baselines, i) \in MapTo(Content)
           /\ DOMAIN Drop(e.baselines, i) = DOMAIN e.baselines \ {i}
           /\ \A j \in DOMAIN e.baselines \ {i} : Drop(e.baselines, i)[j] = e.baselines[j]
           /\ Drop(e.pending, i) \in MapTo(PendingEdit)
           /\ DOMAIN Drop(e.pending, i) = DOMAIN e.pending \ {i}
           /\ \A j \in DOMAIN e.pending \ {i} : Drop(e.pending, i)[j] = e.pending[j]
           /\ Drop(e.tombstones, i) \in MapTo(Tombstone)
           /\ DOMAIN Drop(e.tombstones, i) = DOMAIN e.tombstones \ {i}
<1>a. e.baselines \in MapTo(Content)
    BY GoodFields
<1>b. e.pending \in MapTo(PendingEdit)
    BY GoodFields
<1>c. e.tombstones \in MapTo(Tombstone)
    BY GoodFields
<1>2. /\ Drop(e.baselines, i) \in MapTo(Content)
      /\ DOMAIN Drop(e.baselines, i) = DOMAIN e.baselines \ {i}
      /\ \A j \in DOMAIN e.baselines \ {i} : Drop(e.baselines, i)[j] = e.baselines[j]
    BY ONLY <1>a, DropMap
<1>3. /\ Drop(e.pending, i) \in MapTo(PendingEdit)
      /\ DOMAIN Drop(e.pending, i) = DOMAIN e.pending \ {i}
      /\ \A j \in DOMAIN e.pending \ {i} : Drop(e.pending, i)[j] = e.pending[j]
    BY ONLY <1>b, DropMap
<1>4. /\ Drop(e.tombstones, i) \in MapTo(Tombstone)
      /\ DOMAIN Drop(e.tombstones, i) = DOMAIN e.tombstones \ {i}
    BY ONLY <1>c, DropMap
<1> QED BY <1>2, <1>3, <1>4

\* `stamp` keeps the engine good
LEMMA GoodStamp ==
    ASSUME NEW e, Good(e), NEW i \in Instance, NEW h \in Content
    PROVE  Good(Stamp(e, i, h))
<1> DEFINE b == Put(e.baselines, i, h)
           p == Drop(e.pending, i)
           t == Drop(e.tombstones, i)
           f == Stamp(e, i, h)
<1>0. e \in EngineState
    BY GoodFields
<1>a. e.baselines \in MapTo(Content)
    BY GoodFields
<1>1. /\ b \in MapTo(Content) /\ DOMAIN b = DOMAIN e.baselines \cup {i}
      /\ b[i] = h /\ \A j \in DOMAIN e.baselines \ {i} : b[j] = e.baselines[j]
    <2>1. b \in MapTo(Content)
        BY <1>a, PutMap
    <2> QED BY <2>1 DEF Put
<1>2. /\ p \in MapTo(PendingEdit) /\ DOMAIN p = DOMAIN e.pending \ {i}
      /\ \A j \in DOMAIN e.pending \ {i} : p[j] = e.pending[j]
      /\ t \in MapTo(Tombstone) /\ DOMAIN t = DOMAIN e.tombstones \ {i}
    BY DropFields
<1>3. f = [e EXCEPT !.baselines = b, !.pending = p, !.tombstones = t]
    BY DEF Stamp
<1> HIDE DEF b, p, t, f
<1>4. /\ f \in EngineState /\ f.parked = e.parked /\ f.nextId = e.nextId
      /\ f.baselines = b /\ f.pending = p /\ f.tombstones = t
    BY ONLY <1>0, <1>1, <1>2, <1>3 DEF EngineState
<1>5. /\ \A j \in DOMAIN f.pending : ~IsParked(e, j)
      /\ \A j \in DOMAIN f.tombstones : ~IsParked(e, j)
      /\ \A j \in DOMAIN f.pending :
            j \in DOMAIN f.baselines /\ f.baselines[j] = f.pending[j].prior
    BY <1>1, <1>2, <1>4, GoodFields
<1>6. Good(f)
    BY <1>4, <1>5, GoodMaps
<1> QED BY <1>6 DEF f

\* `forget` keeps the engine good
LEMMA GoodForget ==
    ASSUME NEW e, Good(e), NEW i
    PROVE  Good(Forget(e, i))
<1> DEFINE b == Drop(e.baselines, i)
           p == Drop(e.pending, i)
           t == Drop(e.tombstones, i)
           f == Forget(e, i)
<1>0. e \in EngineState
    BY GoodFields
<1>1. /\ b \in MapTo(Content) /\ DOMAIN b = DOMAIN e.baselines \ {i}
      /\ \A j \in DOMAIN e.baselines \ {i} : b[j] = e.baselines[j]
      /\ p \in MapTo(PendingEdit) /\ DOMAIN p = DOMAIN e.pending \ {i}
      /\ \A j \in DOMAIN e.pending \ {i} : p[j] = e.pending[j]
      /\ t \in MapTo(Tombstone) /\ DOMAIN t = DOMAIN e.tombstones \ {i}
    BY DropFields
<1>2. f = [e EXCEPT !.baselines = b, !.pending = p, !.tombstones = t]
    BY DEF Forget
<1> HIDE DEF b, p, t, f
<1>3. /\ f \in EngineState /\ f.parked = e.parked /\ f.nextId = e.nextId
      /\ f.baselines = b /\ f.pending = p /\ f.tombstones = t
    BY ONLY <1>0, <1>1, <1>2 DEF EngineState
<1>4. /\ \A j \in DOMAIN f.pending : ~IsParked(e, j)
      /\ \A j \in DOMAIN f.tombstones : ~IsParked(e, j)
      /\ \A j \in DOMAIN f.pending :
            j \in DOMAIN f.baselines /\ f.baselines[j] = f.pending[j].prior
    BY <1>1, <1>3, GoodFields
<1>5. Good(f)
    BY <1>3, <1>4, GoodMaps
<1> QED BY <1>5 DEF f

\* prune commits what expired; no record changes
LEMMA GoodPrune ==
    ASSUME NEW e, Good(e)
    PROVE  /\ Good(Prune(e))
           /\ Prune(e).parked = e.parked
           /\ DOMAIN Prune(e).pending \subseteq DOMAIN e.pending
<1> DEFINE X == Expired(e.pending)
           D == DOMAIN e.baselines \cup X
           b == [i \in D |-> IF i \in X THEN e.pending[i].sent ELSE e.baselines[i]]
           p == Restrict(e.pending, DOMAIN e.pending \ X)
           t == Restrict(e.tombstones, DOMAIN e.tombstones \ Expired(e.tombstones))
           f == Prune(e)
<1>0. e \in EngineState
    BY GoodFields
<1>a. e.baselines \in MapTo(Content)
    BY GoodFields
<1>b. e.pending \in MapTo(PendingEdit)
    BY GoodFields
<1>c. e.tombstones \in MapTo(Tombstone)
    BY GoodFields
<1>1. b \in MapTo(Content)
    <2>1. /\ DOMAIN e.baselines \subseteq Instance
          /\ \A j \in DOMAIN e.baselines : e.baselines[j] \in Content
        BY <1>a, MapElim
    <2>2. /\ DOMAIN e.pending \subseteq Instance
          /\ \A j \in DOMAIN e.pending : e.pending[j] \in PendingEdit
        BY <1>b, MapElim
    <2>3. \A j \in DOMAIN e.pending : e.pending[j].sent \in Content
        BY <2>2 DEF PendingEdit
    <2>4. X \subseteq DOMAIN e.pending
        BY DEF Expired
    <2> HIDE DEF X
    <2>5. b \in [D -> Content]
        BY <2>1, <2>3, <2>4
    <2>6. D \in SUBSET Instance
        BY <2>1, <2>2, <2>4
    <2> QED BY <2>5, <2>6 DEF MapTo
<1>2. p \in MapTo(PendingEdit)
    BY <1>b, RestrictMap
<1>3. t \in MapTo(Tombstone)
    BY <1>c, RestrictMap
<1>4. /\ DOMAIN p = DOMAIN e.pending \ X
      /\ \A j \in DOMAIN e.pending \ X : p[j] = e.pending[j]
      /\ DOMAIN t \subseteq DOMAIN e.tombstones
    BY DEF Restrict
<1>5. f = [e EXCEPT !.baselines = b, !.pending = p, !.tombstones = t]
    BY DEF Prune
<1>6. /\ \A j \in DOMAIN e.pending \ X : j \in DOMAIN b /\ b[j] = e.pending[j].prior
    BY GoodFields
<1> HIDE DEF b, p, t, f, X
<1>7. /\ f \in EngineState /\ f.parked = e.parked /\ f.nextId = e.nextId
      /\ f.baselines = b /\ f.pending = p /\ f.tombstones = t
    BY ONLY <1>0, <1>1, <1>2, <1>3, <1>5 DEF EngineState
<1>8. /\ \A j \in DOMAIN f.pending : ~IsParked(e, j)
      /\ \A j \in DOMAIN f.tombstones : ~IsParked(e, j)
      /\ \A j \in DOMAIN f.pending :
            j \in DOMAIN f.baselines /\ f.baselines[j] = f.pending[j].prior
    BY <1>4, <1>6, <1>7, GoodFields
<1>9. Good(f)
    BY <1>7, <1>8, GoodMaps
<1> QED BY <1>4, <1>7, <1>9 DEF f

\* Seeding a baseline from the tree
LEMMA GoodSeed ==
    ASSUME NEW e, Good(e), NEW i \in Instance, NEW pre \in Content
    PROVE  /\ Good(Seed(e, i, pre))
           /\ Seed(e, i, pre).parked = e.parked
           /\ Seed(e, i, pre).pending = e.pending
           /\ Baseline(e, i, pre) \in Content
           /\ i \in DOMAIN Seed(e, i, pre).baselines
           /\ Seed(e, i, pre).baselines[i] = Baseline(e, i, pre)
<1> DEFINE b == Put(e.baselines, i, Baseline(e, i, pre))
           f == Seed(e, i, pre)
<1>0. e \in EngineState
    BY GoodFields
<1>a. e.baselines \in MapTo(Content)
    BY GoodFields
<1>b. e.pending \in MapTo(PendingEdit)
    BY GoodFields
<1>c. e.tombstones \in MapTo(Tombstone)
    BY GoodFields
<1>1. Baseline(e, i, pre) \in Content
    BY <1>a, MapElim DEF Baseline
<1>2. b \in MapTo(Content)
    BY <1>a, <1>1, PutMap
<1>3. /\ DOMAIN b = DOMAIN e.baselines \cup {i}
      /\ b[i] = Baseline(e, i, pre)
      /\ \A j \in DOMAIN e.baselines : b[j] = e.baselines[j]
    BY DEF Put, Baseline
<1>4. f = [e EXCEPT !.baselines = b]
    BY DEF Seed
<1> HIDE DEF b, f
<1>5. /\ f \in EngineState /\ f.parked = e.parked /\ f.nextId = e.nextId
      /\ f.baselines = b /\ f.pending = e.pending /\ f.tombstones = e.tombstones
    BY ONLY <1>0, <1>2, <1>4 DEF EngineState
<1>6. /\ \A j \in DOMAIN f.pending : ~IsParked(e, j)
      /\ \A j \in DOMAIN f.tombstones : ~IsParked(e, j)
      /\ \A j \in DOMAIN f.pending :
            j \in DOMAIN f.baselines /\ f.baselines[j] = f.pending[j].prior
    BY <1>3, <1>5, GoodFields
<1>7. Good(f)
    BY <1>5, <1>6, GoodMaps
<1> QED BY <1>1, <1>3, <1>5, <1>7 DEF f

\* An engine value that differs at i only is good if it is consistent at i
LEMMA GoodAt ==
    ASSUME NEW e, Good(e), NEW i, NEW f \in EngineState,
           f.parked = e.parked, f.nextId = e.nextId,
           \A j \in DOMAIN f.pending \ {i} :
               j \in DOMAIN e.pending /\ f.pending[j] = e.pending[j],
           DOMAIN f.tombstones \subseteq DOMAIN e.tombstones \cup {i},
           \A j \in DOMAIN e.baselines \ {i} :
               j \in DOMAIN f.baselines /\ f.baselines[j] = e.baselines[j],
           i \in DOMAIN f.pending \cup DOMAIN f.tombstones => ~IsParked(e, i),
           i \in DOMAIN f.pending =>
               i \in DOMAIN f.baselines /\ f.baselines[i] = f.pending[i].prior
    PROVE  Good(f)
<1>1. \A j \in DOMAIN f.pending : ~IsParked(e, j)
    BY GoodFields
<1>2. \A j \in DOMAIN f.tombstones : ~IsParked(e, j)
    BY GoodFields
<1>3. \A j \in DOMAIN f.pending :
          j \in DOMAIN f.baselines /\ f.baselines[j] = f.pending[j].prior
    BY GoodFields
<1> QED BY <1>1, <1>2, <1>3, GoodMaps

\* A new baseline for an instance without an unconfirmed edit
LEMMA GoodSetBaseline ==
    ASSUME NEW e, Good(e), NEW i \in Instance, NEW h \in Content,
           i \notin DOMAIN e.pending
    PROVE  LET f == [e EXCEPT !.baselines = Put(@, i, h)]
           IN  Good(f) /\ Within(f, e, {})
<1> DEFINE b == Put(e.baselines, i, h)
           f == [e EXCEPT !.baselines = b]
<1>0. e \in EngineState
    BY GoodFields
<1>1. b \in MapTo(Content)
    <2>1. e.baselines \in MapTo(Content)
        BY GoodFields
    <2> QED BY <2>1, PutMap
<1>2. DOMAIN b = DOMAIN e.baselines \cup {i}
      /\ \A j \in DOMAIN e.baselines \ {i} : b[j] = e.baselines[j]
    BY DEF Put
<1> HIDE DEF b
<1>3. /\ f \in EngineState /\ f.parked = e.parked /\ f.nextId = e.nextId
      /\ f.baselines = b /\ f.pending = e.pending /\ f.tombstones = e.tombstones
    BY <1>0, <1>1 DEF EngineState
<1> HIDE DEF f
<1>4. Good(f)
    BY <1>2, <1>3, GoodAt, GoodFields
<1>5. Within(f, e, {})
    BY <1>1, <1>2, <1>3 DEF Within
<1> QED BY <1>4, <1>5 DEF f, b

\* An edit of i is confirmed, or taken back: the baseline moves with it
LEMMA GoodConfirm ==
    ASSUME NEW e, Good(e), NEW i \in Instance, NEW h \in Content
    PROVE  LET f == [e EXCEPT !.pending = Drop(@, i), !.baselines = Put(@, i, h)]
           IN  Good(f) /\ Within(f, e, {})
<1> DEFINE b == Put(e.baselines, i, h)
           p == Drop(e.pending, i)
           f == [e EXCEPT !.pending = p, !.baselines = b]
<1>0. e \in EngineState
    BY GoodFields
<1>1. b \in MapTo(Content)
    <2>1. e.baselines \in MapTo(Content)
        BY GoodFields
    <2> QED BY <2>1, PutMap
<1>2. DOMAIN b = DOMAIN e.baselines \cup {i}
      /\ \A j \in DOMAIN e.baselines \ {i} : b[j] = e.baselines[j]
    BY DEF Put
<1>3. /\ p \in MapTo(PendingEdit) /\ DOMAIN p = DOMAIN e.pending \ {i}
      /\ \A j \in DOMAIN e.pending \ {i} : p[j] = e.pending[j]
    BY DropFields
<1> HIDE DEF b, p
<1>4. /\ f \in EngineState /\ f.parked = e.parked /\ f.nextId = e.nextId
      /\ f.baselines = b /\ f.pending = p /\ f.tombstones = e.tombstones
    BY <1>0, <1>1, <1>3 DEF EngineState
<1> HIDE DEF f
<1>5. i \in DOMAIN f.tombstones => ~IsParked(e, i)
    BY <1>4, GoodFields
<1>6. Good(f)
    BY <1>2, <1>3, <1>4, <1>5, GoodAt
<1>7. Within(f, e, {})
    BY <1>1, <1>2, <1>3, <1>4, <1>5 DEF Within
<1> QED BY <1>6, <1>7 DEF f, b, p

\* An unconfirmed edit of i over its baseline, for an instance that is not parked
LEMMA GoodSend ==
    ASSUME NEW e, Good(e), NEW i \in Instance, ~IsParked(e, i),
           NEW edit \in PendingEdit,
           i \in DOMAIN e.baselines, e.baselines[i] = edit.prior
    PROVE  LET f == [e EXCEPT !.pending = Put(@, i, edit)]
           IN  Good(f) /\ Within(f, e, {i})
<1> DEFINE p == Put(e.pending, i, edit)
           f == [e EXCEPT !.pending = p]
<1>0. e \in EngineState
    BY GoodFields
<1>1. p \in MapTo(PendingEdit)
    <2>1. e.pending \in MapTo(PendingEdit)
        BY GoodFields
    <2> QED BY <2>1, PutMap
<1>2. /\ DOMAIN p = DOMAIN e.pending \cup {i} /\ p[i] = edit
      /\ \A j \in DOMAIN e.pending \ {i} : p[j] = e.pending[j]
    BY DEF Put
<1> HIDE DEF p
<1>3. /\ f \in EngineState /\ f.parked = e.parked /\ f.nextId = e.nextId
      /\ f.baselines = e.baselines /\ f.pending = p /\ f.tombstones = e.tombstones
    BY <1>0, <1>1 DEF EngineState
<1> HIDE DEF f
<1>4. Good(f)
    BY <1>2, <1>3, GoodAt
<1>5. Within(f, e, {i})
    BY <1>1, <1>2, <1>3 DEF Within
<1> QED BY <1>4, <1>5 DEF f, p

\* Forgetting the tombstone of i
LEMMA GoodDropTombstone ==
    ASSUME NEW e, Good(e), NEW i
    PROVE  LET f == [e EXCEPT !.tombstones = Drop(@, i)]
           IN  Good(f) /\ f.parked = e.parked /\ Within(f, e, {})
<1> DEFINE t == Drop(e.tombstones, i)
           f == [e EXCEPT !.tombstones = t]
<1>0. e \in EngineState
    BY GoodFields
<1>1. t \in MapTo(Tombstone) /\ DOMAIN t = DOMAIN e.tombstones \ {i}
    BY DropFields
<1> HIDE DEF t
<1>2. /\ f \in EngineState /\ f.parked = e.parked /\ f.nextId = e.nextId
      /\ f.baselines = e.baselines /\ f.pending = e.pending /\ f.tombstones = t
    BY <1>0, <1>1 DEF EngineState
<1> HIDE DEF f
<1>3. /\ i \in DOMAIN f.pending \cup DOMAIN f.tombstones => ~IsParked(e, i)
      /\ i \in DOMAIN f.pending =>
            i \in DOMAIN f.baselines /\ f.baselines[i] = f.pending[i].prior
    BY <1>1, <1>2, GoodFields
<1>4. Good(f)
    BY <1>1, <1>2, <1>3, GoodAt
<1>5. Within(f, e, {})
    BY <1>2 DEF Within
<1> QED BY <1>2, <1>4, <1>5 DEF f, t

\* i is removed from the engine but for its record
LEMMA GoodDropMaps ==
    ASSUME NEW e, Good(e), NEW i
    PROVE  /\ LET f == [e EXCEPT !.baselines = Drop(@, i), !.pending = Drop(@, i)]
              IN  Good(f) /\ Within(f, e, {})
           /\ LET g == [e EXCEPT !.baselines = Drop(@, i)]
              IN  i \notin DOMAIN e.pending => Good(g) /\ Within(g, e, {})
<1> DEFINE b == Drop(e.baselines, i)
           p == Drop(e.pending, i)
           f == [e EXCEPT !.baselines = b, !.pending = p]
           g == [e EXCEPT !.baselines = b]
<1>0. e \in EngineState
    BY GoodFields
<1>1. /\ b \in MapTo(Content) /\ DOMAIN b = DOMAIN e.baselines \ {i}
      /\ \A j \in DOMAIN e.baselines \ {i} : b[j] = e.baselines[j]
      /\ p \in MapTo(PendingEdit) /\ DOMAIN p = DOMAIN e.pending \ {i}
      /\ \A j \in DOMAIN e.pending \ {i} : p[j] = e.pending[j]
    BY DropFields
<1> HIDE DEF b, p
<1>2. /\ f \in EngineState /\ f.parked = e.parked /\ f.nextId = e.nextId
      /\ f.baselines = b /\ f.pending = p /\ f.tombstones = e.tombstones
    BY <1>0, <1>1 DEF EngineState
<1>3. /\ g \in EngineState /\ g.parked = e.parked /\ g.nextId = e.nextId
      /\ g.baselines = b /\ g.pending = e.pending /\ g.tombstones = e.tombstones
    BY <1>0, <1>1 DEF EngineState
<1> HIDE DEF f, g
<1>4. i \in DOMAIN e.tombstones => ~IsParked(e, i)
    BY GoodFields
<1>5. Good(f)
    BY <1>1, <1>2, <1>4, GoodAt
<1>6. ASSUME i \notin DOMAIN e.pending PROVE Good(g)
    BY <1>1, <1>3, <1>4, <1>6, GoodAt
<1>7. Within(f, e, {}) /\ Within(g, e, {})
    BY <1>1, <1>2, <1>3 DEF Within
<1> QED BY <1>5, <1>6, <1>7 DEF f, g, b, p

\* A tombstone for an instance that is not parked
LEMMA GoodBury ==
    ASSUME NEW e, Good(e), NEW i \in Instance, ~IsParked(e, i),
           NEW tomb \in Tombstone
    PROVE  LET f == [e EXCEPT !.tombstones = Put(@, i, tomb)]
           IN  Good(f) /\ Within(f, e, {})
<1> DEFINE t == Put(e.tombstones, i, tomb)
           f == [e EXCEPT !.tombstones = t]
<1>0. e \in EngineState
    BY GoodFields
<1>1. t \in MapTo(Tombstone)
    <2>1. e.tombstones \in MapTo(Tombstone)
        BY GoodFields
    <2> QED BY <2>1, PutMap
<1>2. DOMAIN t = DOMAIN e.tombstones \cup {i}
    BY DEF Put
<1> HIDE DEF t
<1>3. /\ f \in EngineState /\ f.parked = e.parked /\ f.nextId = e.nextId
      /\ f.baselines = e.baselines /\ f.pending = e.pending /\ f.tombstones = t
    BY <1>0, <1>1 DEF EngineState
<1> HIDE DEF f
<1>4. i \in DOMAIN f.pending =>
          i \in DOMAIN f.baselines /\ f.baselines[i] = f.pending[i].prior
    BY <1>3, GoodFields
<1>5. Good(f)
    BY <1>2, <1>3, <1>4, GoodAt
<1>6. Within(f, e, {})
    BY <1>1, <1>2, <1>3, <1>4 DEF Within
<1> QED BY <1>5, <1>6 DEF f, t

\* An outcome without a notice
LEMMA PlainOutcome ==
    ASSUME NEW d, NEW f, NEW u, NEW e, NEW S,
           Good(f), Within(f, u, S), Within(u, e, {})
    PROVE  GoodOutcome(Outcome(d, f), e, S)
<1>1. Outcome(d, f).engine = f /\ Outcome(d, f).notice = {}
    BY DEF Outcome
<1> QED BY <1>1 DEF GoodOutcome, Within

\* Every decision starts with a prune
LEMMA PrunedOutcome ==
    ASSUME NEW e, Good(e), NEW o, NEW S, GoodOutcome(o, Prune(e), S)
    PROVE  GoodOutcome(o, e, S)
BY GoodPrune DEF GoodOutcome, Within

-----------------------------------------------------------------------------
(* Decisions on file changes *)

\* on_fs_addition, of an instance without an unconfirmed edit
LEMMA FsAdditionGood ==
    ASSUME NEW e0, Good(e0), NEW i \in Instance, NEW content \in Content,
           i \notin DOMAIN e0.pending
    PROVE  GoodOutcome(OnFsAddition(e0, i, content), e0, {})
<1> DEFINE e == Prune(e0)
           u == [e EXCEPT !.baselines = Put(@, i, content)]
           x == [u EXCEPT !.tombstones = Drop(@, i)]
           o == OnFsAddition(e0, i, content)
<1>1. Good(e) /\ i \notin DOMAIN e.pending
    BY GoodPrune
<1>2. o = Outcome("Propagate", [e EXCEPT !.baselines = Put(@, i, content),
                                         !.tombstones = Drop(@, i)])
    BY DEF OnFsAddition
<1> HIDE DEF e, o
<1>3. x = [e EXCEPT !.baselines = Put(@, i, content), !.tombstones = Drop(@, i)]
    BY <1>1, GoodFields DEF EngineState
<1>4. Good(u) /\ Within(u, e, {})
    BY <1>1, GoodSetBaseline
<1> HIDE DEF u
<1>5. Good(x) /\ Within(x, u, {})
    BY <1>4, GoodDropTombstone
<1> HIDE DEF x
<1>6. GoodOutcome(o, e, {})
    BY <1>2, <1>3, <1>4, <1>5, PlainOutcome
<1> QED BY <1>6, PrunedOutcome DEF e, o

\* on_fs_update
LEMMA FsUpdateGood ==
    ASSUME NEW e0, Good(e0), NEW i \in Instance,
           NEW pre \in Content, NEW post \in Content
    PROVE  GoodOutcome(OnFsUpdate(e0, i, pre, post), e0, {i})
<1> DEFINE e == Prune(e0)
           rec == ParkedRecord(e, i)
           edit == e.pending[i]
           o == OnFsUpdate(e0, i, pre, post)
<1>0. Good(e)
    BY GoodPrune
<1>s. SUFFICES GoodOutcome(o, e, {i})
    BY PrunedOutcome
<1>1. CASE IsParked(e, i) /\ rec.studio = post
    <2> DEFINE u == Unpark(e, i)
               x == [u EXCEPT !.baselines = Put(@, i, post)]
    <2>1. o = Outcome("NoChange", x)
        BY <1>1 DEF OnFsUpdate
    <2> HIDE DEF e, o
    <2>2. Good(u) /\ Within(u, e, {}) /\ u.pending = e.pending
        BY <1>0, <1>1, GoodUnpark DEF Within
    <2>3. i \notin DOMAIN e.pending
        BY <1>0, <1>1, GoodFields
    <2> HIDE DEF u
    <2>8. Good(x) /\ Within(x, u, {i})
        BY <2>2, <2>3, GoodSetBaseline DEF Within
    <2> HIDE DEF x
    <2> QED BY <2>1, <2>2, <2>8, PlainOutcome
<1>2. CASE IsParked(e, i) /\ rec.studio # post
    <2> DEFINE rec2 == [rec EXCEPT !.fs = post,
                                   !.classification = IF @ = FsDeleted
                                                      THEN BothEdited ELSE @]
    <2>1. o = Fold(e, i, rec2, TRUE)
        BY <1>2 DEF OnFsUpdate
    <2>2. rec \in Parked /\ rec.instance = i /\ Matches(rec)
        <3> HIDE DEF e
        <3> QED BY <1>0, <1>2, ParkedRecordGood
    <2> HIDE DEF rec, o, e
    <2>3. /\ rec2 \in Parked /\ rec2.instance = i /\ rec2.id = rec.id
          /\ Matches(rec2)
        BY <1>2, <2>2, EngineAssumption
           DEF Parked, Matches, Side, Classification, FsDeleted, BothEdited, StudioDeleted
    <2> HIDE DEF rec2
    <2>4. GoodOutcome(Fold(e, i, rec2, TRUE), e, {})
        BY <1>0, <1>2, <2>3, GoodFold DEF rec
    <2> QED BY <2>1, <2>4 DEF GoodOutcome, Within
<1>3. CASE ~IsParked(e, i) /\ i \in DOMAIN e.pending /\ post = edit.prior
    <2> DEFINE u == Seed(e, i, pre)
               x == [u EXCEPT !.pending = Drop(@, i), !.baselines = Put(@, i, edit.prior)]
    <2>1. o = Outcome("Propagate", x)
        BY <1>3 DEF OnFsUpdate
    <2> HIDE DEF e, o
    <2>2. Good(u) /\ Within(u, e, {}) /\ u.pending = e.pending
        BY <1>0, GoodSeed DEF Within
    <2> HIDE DEF u
    <2>8. Good(x) /\ Within(x, u, {i})
        BY <1>3, <2>2, GoodConfirm DEF Within
    <2> HIDE DEF x
    <2> QED BY <2>1, <2>2, <2>8, PlainOutcome
<1>4. CASE ~IsParked(e, i) /\ i \in DOMAIN e.pending /\ post # edit.prior
    <2> DEFINE u == Seed(e, i, pre)
               x == [u EXCEPT !.pending = Put(@, i, [edit EXCEPT !.sent = post])]
    <2>1. o = Outcome("Propagate", x)
        BY <1>4 DEF OnFsUpdate
    <2> HIDE DEF e, o
    <2>2. Good(u) /\ Within(u, e, {}) /\ u.pending = e.pending
        BY <1>0, GoodSeed DEF Within
    <2>3. ~IsParked(u, i)
        BY <1>0, <1>4, GoodSeed DEF IsParked
    <2>4. edit \in PendingEdit
        <3>1. e.pending \in MapTo(PendingEdit)
            BY <1>0, GoodFields
        <3> QED BY <1>4, <3>1, MapElim
    <2> DEFINE resent == [edit EXCEPT !.sent = post]
    <2>5. resent \in PendingEdit /\ resent.prior = edit.prior
        <3> HIDE DEF edit
        <3> QED BY <2>4 DEF PendingEdit
    <2>6. i \in DOMAIN u.baselines /\ u.baselines[i] = resent.prior
        <3> HIDE DEF u, resent
        <3> QED BY <1>4, <2>2, <2>5, GoodFields
    <2> HIDE DEF resent
    <2> HIDE DEF u
    <2>8. Good(x) /\ Within(x, u, {i})
        BY <2>2, <2>3, <2>5, <2>6, GoodSend DEF resent
    <2> HIDE DEF x
    <2> QED BY <2>1, <2>2, <2>8, PlainOutcome
<1>5. CASE /\ ~IsParked(e, i) /\ i \notin DOMAIN e.pending
           /\ post = Baseline(e, i, pre)
    <2>1. o = Outcome("NoChange", Seed(e, i, pre))
        BY <1>5 DEF OnFsUpdate
    <2> HIDE DEF e, o
    <2>2. Good(Seed(e, i, pre)) /\ Within(Seed(e, i, pre), e, {i}) /\ Within(e, e, {})
        BY <1>0, GoodSeed DEF Within
    <2> QED BY <2>1, <2>2, PlainOutcome
<1>6. CASE /\ ~IsParked(e, i) /\ i \notin DOMAIN e.pending
           /\ post # Baseline(e, i, pre)
    <2> DEFINE sent == [prior |-> Baseline(e, i, pre), sent |-> post, expired |-> FALSE]
    <2> DEFINE u == Seed(e, i, pre)
               x == [u EXCEPT !.pending = Put(@, i, sent)]
    <2>1. o = Outcome("Propagate", x)
        BY <1>6 DEF OnFsUpdate
    <2> HIDE DEF e, o
    <2>2. Good(u) /\ Within(u, e, {}) /\ u.pending = e.pending
        BY <1>0, GoodSeed DEF Within
    <2>3. /\ ~IsParked(u, i) /\ Baseline(e, i, pre) \in Content
          /\ i \in DOMAIN u.baselines /\ u.baselines[i] = Baseline(e, i, pre)
        BY <1>0, <1>6, GoodSeed DEF IsParked
    <2>4. sent \in PendingEdit /\ sent.prior = Baseline(e, i, pre)
        BY <2>3 DEF PendingEdit
    <2> HIDE DEF sent
    <2> HIDE DEF u
    <2>8. Good(x) /\ Within(x, u, {i})
        BY <2>2, <2>3, <2>4, GoodSend
    <2> HIDE DEF x
    <2> QED BY <2>1, <2>2, <2>8, PlainOutcome
<1> QED BY <1>1, <1>2, <1>3, <1>4, <1>5, <1>6

\* on_fs_removal
LEMMA FsRemovalGood ==
    ASSUME NEW e0, Good(e0), NEW i \in Instance, NEW pre \in Content
    PROVE  /\ GoodOutcome(OnFsRemoval(e0, i, pre), e0, {})
           /\ i \notin DOMAIN OnFsRemoval(e0, i, pre).engine.pending
<1> DEFINE e == Prune(e0)
           rec == ParkedRecord(e, i)
           o == OnFsRemoval(e0, i, pre)
<1>0. Good(e)
    BY GoodPrune
<1>s. SUFFICES GoodOutcome(o, e, {}) /\ i \notin DOMAIN o.engine.pending
    BY PrunedOutcome
<1>1. CASE IsParked(e, i) /\ rec.studio = Absent
    <2> DEFINE u == Unpark(e, i)
               x == [u EXCEPT !.baselines = Drop(@, i), !.pending = Drop(@, i)]
    <2>1. o = Outcome("NoChange", x)
        BY <1>1 DEF OnFsRemoval
    <2> HIDE DEF e, o
    <2>2. Good(u) /\ Within(u, e, {}) /\ u.pending = e.pending
        BY <1>0, <1>1, GoodUnpark DEF Within
    <2>3. i \notin DOMAIN e.pending
        BY <1>0, <1>1, GoodFields
    <2> HIDE DEF u
    <2>8. Good(x) /\ Within(x, u, {})
        BY <2>2, GoodDropMaps
    <2>9. x.pending = Drop(u.pending, i)
        BY <2>2, GoodFields DEF EngineState
    <2>10. i \notin DOMAIN x.pending
        BY <2>9 DEF Drop, Restrict
    <2> HIDE DEF x
    <2>11. GoodOutcome(o, e, {}) /\ o.engine = x
        BY <2>1, <2>2, <2>8, PlainOutcome DEF Outcome
    <2> QED BY <2>10, <2>11
<1>2. CASE IsParked(e, i) /\ rec.studio # Absent
    <2> DEFINE rec2 == [rec EXCEPT !.fs = Absent, !.classification = FsDeleted]
    <2>1. o = Fold(e, i, rec2, FALSE)
        BY <1>2 DEF OnFsRemoval
    <2>2. rec \in Parked /\ rec.instance = i /\ Matches(rec)
        <3> HIDE DEF e
        <3> QED BY <1>0, <1>2, ParkedRecordGood
    <2> HIDE DEF rec, o, e
    <2>3. /\ rec2 \in Parked /\ rec2.instance = i /\ rec2.id = rec.id
          /\ Matches(rec2)
        BY <1>2, <2>2, EngineAssumption
           DEF Parked, Matches, Side, Classification, FsDeleted, BothEdited, StudioDeleted
    <2> HIDE DEF rec2
    <2>4. GoodOutcome(Fold(e, i, rec2, FALSE), e, {})
        BY <1>0, <1>2, <2>3, GoodFold DEF rec
    <2>5. i \notin DOMAIN e.pending
        BY <1>0, <1>2, GoodFields
    <2> QED BY <2>1, <2>4, <2>5 DEF GoodOutcome, Within
<1>3. CASE ~IsParked(e, i)
    <2> DEFINE echoes == {pre} \cup {e.baselines[j] : j \in DOMAIN e.baselines \cap {i}}
                         \cup {e.pending[j].prior : j \in DOMAIN e.pending \cap {i}}
               tomb == [hashes |-> echoes, expired |-> FALSE]
               u == [e EXCEPT !.baselines = Drop(@, i), !.pending = Drop(@, i)]
               x == [u EXCEPT !.tombstones = Put(@, i, tomb)]
               y == [e EXCEPT !.baselines = Drop(@, i), !.pending = Drop(@, i),
                              !.tombstones = Put(@, i, tomb)]
    <2>1. o = Outcome("Propagate", y)
        BY <1>3 DEF OnFsRemoval
    <2> HIDE DEF e, o
    <2>2. tomb \in Tombstone
        <3>1. \A j \in DOMAIN e.baselines : e.baselines[j] \in Content
            <4>1. e.baselines \in MapTo(Content)
                BY <1>0, GoodFields
            <4> QED BY <4>1, MapElim
        <3>2. \A j \in DOMAIN e.pending : e.pending[j].prior \in Content
            <4>1. e.pending \in MapTo(PendingEdit)
                BY <1>0, GoodFields
            <4>2. \A j \in DOMAIN e.pending : e.pending[j] \in PendingEdit
                BY <4>1, MapElim
            <4> QED BY <4>2 DEF PendingEdit
        <3>3. echoes \in SUBSET Content
            BY <3>1, <3>2
        <3> HIDE DEF echoes
        <3> QED BY <3>3 DEF Tombstone
    <2> HIDE DEF tomb
    <2>3. x = y /\ u.parked = e.parked /\ u.pending = Drop(e.pending, i)
        BY <1>0, GoodFields DEF EngineState
    <2>4. Good(u) /\ Within(u, e, {}) /\ ~IsParked(u, i)
        <3>1. Good(u) /\ Within(u, e, {})
            BY <1>0, GoodDropMaps
        <3> QED BY <1>3, <2>3, <3>1 DEF IsParked
    <2>5. i \notin DOMAIN u.pending
        BY <2>3 DEF Drop, Restrict
    <2> HIDE DEF u
    <2>6. Good(x) /\ Within(x, u, {})
        BY <2>2, <2>4, GoodBury
    <2> HIDE DEF x, y
    <2>7. GoodOutcome(o, e, {}) /\ o.engine = x
        BY <2>1, <2>3, <2>4, <2>6, PlainOutcome DEF Outcome
    <2>8. i \notin DOMAIN x.pending
        BY <2>5, <2>6 DEF Within
    <2> QED BY <2>7, <2>8
<1> QED BY <1>1, <1>2, <1>3

-----------------------------------------------------------------------------
(* Decisions on pushes *)

\* on_push_addition
LEMMA PushAdditionGood ==
    ASSUME NEW e0, Good(e0), NEW i
    PROVE  GoodOutcome(OnPushAddition(e0, i), e0, {})
<1> DEFINE e == Prune(e0)
           x == [e EXCEPT !.tombstones = Drop(@, i)]
           o == OnPushAddition(e0, i)
<1>1. Good(e) /\ Within(e, e, {})
    BY GoodPrune DEF Within
<1>2. o = Outcome("Apply", x)
    BY DEF OnPushAddition
<1> HIDE DEF e, o
<1>3. Good(x) /\ Within(x, e, {})
    BY <1>1, GoodDropTombstone
<1> HIDE DEF x
<1>4. GoodOutcome(o, e, {})
    BY <1>1, <1>2, <1>3, PlainOutcome
<1> QED BY <1>4, PrunedOutcome DEF e, o

\* on_push_update
LEMMA PushUpdateGood ==
    ASSUME NEW e0, Good(e0), NEW i \in Instance,
           NEW pre \in Content, NEW pushed \in Content
    PROVE  GoodOutcome(OnPushUpdate(e0, i, pre, pushed), e0, {})
<1> DEFINE e == Prune(e0)
           rec == ParkedRecord(e, i)
           edit == e.pending[i]
           o == OnPushUpdate(e0, i, pre, pushed)
<1>0. Good(e)
    BY GoodPrune
<1>s. SUFFICES GoodOutcome(o, e, {})
    BY PrunedOutcome
<1>a. Good(Seed(e, i, pre)) /\ Within(Seed(e, i, pre), e, {}) /\ Within(e, e, {})
    <2> HIDE DEF e
    <2> QED BY <1>0, GoodSeed DEF Within
<1>b. ASSUME ~IsParked(e, i)
      PROVE  GoodOutcome(Park(Seed(e, i, pre), i, BothEdited, pre, pushed), e, {})
    <2> HIDE DEF e
    <2> DEFINE u == Seed(e, i, pre)
    <2>1. ~IsParked(u, i)
        BY <1>0, <1>b, GoodSeed DEF IsParked
    <2>2. pre \in Side /\ pushed \in Side /\ BothEdited \in Classification
          /\ pre # Absent /\ pushed # Absent
          /\ BothEdited # FsDeleted /\ BothEdited # StudioDeleted
        BY EngineAssumption DEF Side, Classification, BothEdited, FsDeleted, StudioDeleted
    <2>3. Good(u) /\ Within(u, e, {})
        BY <1>a
    <2> HIDE DEF u
    <2>4. GoodOutcome(Park(u, i, BothEdited, pre, pushed), u, {})
        BY <2>1, <2>2, <2>3, GoodPark
    <2>5. GoodOutcome(Park(u, i, BothEdited, pre, pushed), e, {})
        BY <2>3, <2>4 DEF GoodOutcome, Within
    <2> QED BY <2>5 DEF u
<1>1. CASE IsParked(e, i) /\ rec.fs = pushed
    <2> DEFINE u == Unpark(e, i)
               x == [u EXCEPT !.baselines = Put(@, i, pushed)]
    <2>1. o = Outcome("NoChange", x)
        BY <1>1 DEF OnPushUpdate
    <2> HIDE DEF e, o
    <2>2. Good(u) /\ Within(u, e, {}) /\ u.pending = e.pending
        BY <1>0, <1>1, GoodUnpark DEF Within
    <2>3. i \notin DOMAIN e.pending
        BY <1>0, <1>1, GoodFields
    <2> HIDE DEF u
    <2>8. Good(x) /\ Within(x, u, {})
        BY <2>2, <2>3, GoodSetBaseline
    <2> HIDE DEF x
    <2> QED BY <2>1, <2>2, <2>8, PlainOutcome
<1>2. CASE IsParked(e, i) /\ rec.fs # pushed
    <2> DEFINE rec2 == [rec EXCEPT !.studio = pushed,
                                   !.classification = IF @ = StudioDeleted
                                                      THEN BothEdited ELSE @]
    <2>1. o = Fold(e, i, rec2, FALSE)
        BY <1>2 DEF OnPushUpdate
    <2>2. rec \in Parked /\ rec.instance = i /\ Matches(rec)
        <3> HIDE DEF e
        <3> QED BY <1>0, <1>2, ParkedRecordGood
    <2> HIDE DEF rec, o, e
    <2>3. /\ rec2 \in Parked /\ rec2.instance = i /\ rec2.id = rec.id
          /\ Matches(rec2)
        BY <1>2, <2>2, EngineAssumption
           DEF Parked, Matches, Side, Classification, FsDeleted, BothEdited, StudioDeleted
    <2> HIDE DEF rec2
    <2>4. GoodOutcome(Fold(e, i, rec2, FALSE), e, {})
        BY <1>0, <1>2, <2>3, GoodFold DEF rec
    <2> QED BY <2>1, <2>4 DEF GoodOutcome, Within
<1>3. CASE ~IsParked(e, i) /\ i \in DOMAIN e.pending /\ pushed = edit.sent
    <2> DEFINE u == Seed(e, i, pre)
               x == [u EXCEPT !.pending = Drop(@, i), !.baselines = Put(@, i, edit.sent)]
    <2>1. o = Outcome("NoChange", x)
        BY <1>3 DEF OnPushUpdate
    <2> HIDE DEF e, o
    <2>2. Good(u) /\ Within(u, e, {}) /\ u.pending = e.pending
        BY <1>0, GoodSeed DEF Within
    <2> HIDE DEF u
    <2>8. Good(x) /\ Within(x, u, {})
        BY <1>3, <2>2, GoodConfirm
    <2> HIDE DEF x
    <2> QED BY <2>1, <2>2, <2>8, PlainOutcome
<1>4. CASE /\ ~IsParked(e, i) /\ i \in DOMAIN e.pending
           /\ pushed # edit.sent /\ pushed = edit.prior
    <2>1. o = Outcome("NoChange", Seed(e, i, pre))
        BY <1>4 DEF OnPushUpdate
    <2> HIDE DEF e, o
    <2> QED BY <1>a, <2>1, PlainOutcome
<1>5. CASE /\ ~IsParked(e, i) /\ i \in DOMAIN e.pending
           /\ pushed \notin {edit.sent, edit.prior}
    <2>1. o = Park(Seed(e, i, pre), i, BothEdited, pre, pushed)
        BY <1>5 DEF OnPushUpdate
    <2> QED BY <1>5, <1>b, <2>1
<1>6. CASE ~IsParked(e, i) /\ i \notin DOMAIN e.pending /\ pushed = pre
    <2> DEFINE u == Seed(e, i, pre)
               x == [u EXCEPT !.baselines = Put(@, i, pushed)]
    <2>1. o = Outcome("NoChange", x)
        BY <1>6 DEF OnPushUpdate
    <2> HIDE DEF e, o
    <2>2. Good(u) /\ Within(u, e, {}) /\ u.pending = e.pending
        BY <1>0, GoodSeed DEF Within
    <2> HIDE DEF u
    <2>8. Good(x) /\ Within(x, u, {})
        BY <1>6, <2>2, GoodSetBaseline
    <2> HIDE DEF x
    <2> QED BY <2>1, <2>2, <2>8, PlainOutcome
<1>7. CASE /\ ~IsParked(e, i) /\ i \notin DOMAIN e.pending
           /\ pushed # pre /\ Baseline(e, i, pre) = pre
    <2>1. o = Outcome("Apply", Seed(e, i, pre))
        BY <1>7 DEF OnPushUpdate
    <2> HIDE DEF e, o
    <2> QED BY <1>a, <2>1, PlainOutcome
<1>8. CASE /\ ~IsParked(e, i) /\ i \notin DOMAIN e.pending
           /\ pushed # pre /\ Baseline(e, i, pre) # pre
    <2>1. o = Park(Seed(e, i, pre), i, BothEdited, pre, pushed)
        BY <1>8 DEF OnPushUpdate
    <2> QED BY <1>8, <1>b, <2>1
<1> QED BY <1>1, <1>2, <1>3, <1>4, <1>5, <1>6, <1>7, <1>8

\* on_push_update_missing
LEMMA PushUpdateMissingGood ==
    ASSUME NEW e0, Good(e0), NEW i \in Instance, NEW pushed \in Content
    PROVE  GoodOutcome(OnPushUpdateMissing(e0, i, pushed), e0, {})
<1> DEFINE e == Prune(e0)
           rec == ParkedRecord(e, i)
           o == OnPushUpdateMissing(e0, i, pushed)
<1>0. Good(e) /\ Within(e, e, {})
    BY GoodPrune DEF Within
<1>s. SUFFICES GoodOutcome(o, e, {})
    BY PrunedOutcome
<1>1. CASE IsParked(e, i)
    <2> DEFINE rec2 == [rec EXCEPT !.studio = IF @ = Absent THEN @ ELSE pushed]
    <2>1. o = Fold(e, i, rec2, TRUE)
        BY <1>1 DEF OnPushUpdateMissing
    <2>2. rec \in Parked /\ rec.instance = i /\ Matches(rec)
        <3> HIDE DEF e
        <3> QED BY <1>0, <1>1, ParkedRecordGood
    <2> HIDE DEF rec, o, e
    <2>3. /\ rec2 \in Parked /\ rec2.instance = i /\ rec2.id = rec.id
          /\ Matches(rec2)
        BY <1>1, <2>2, EngineAssumption
           DEF Parked, Matches, Side, Classification, FsDeleted, BothEdited, StudioDeleted
    <2> HIDE DEF rec2
    <2>4. GoodOutcome(Fold(e, i, rec2, TRUE), e, {})
        BY <1>0, <1>1, <2>3, GoodFold DEF rec
    <2> QED BY <2>1, <2>4 DEF GoodOutcome, Within
<1>2. CASE /\ ~IsParked(e, i)
           /\ i \notin DOMAIN e.tombstones \/ pushed \in e.tombstones[i].hashes
    <2>1. o = Outcome("NoChange", e)
        BY <1>2 DEF OnPushUpdateMissing
    <2> HIDE DEF e, o
    <2> QED BY <1>0, <2>1, PlainOutcome
<1>3. CASE /\ ~IsParked(e, i) /\ i \in DOMAIN e.tombstones
           /\ pushed \notin e.tombstones[i].hashes
    <2> DEFINE u == [e EXCEPT !.tombstones = Drop(@, i)]
    <2>1. o = Park(u, i, FsDeleted, Absent, pushed)
        BY <1>3 DEF OnPushUpdateMissing
    <2> HIDE DEF e, o
    <2>2. Good(u) /\ Within(u, e, {}) /\ ~IsParked(u, i)
        BY <1>0, <1>3, GoodDropTombstone DEF IsParked
    <2>3. /\ Absent \in Side /\ pushed \in Side /\ pushed # Absent
          /\ FsDeleted \in Classification /\ FsDeleted # StudioDeleted
        BY EngineAssumption DEF Side, Classification, FsDeleted, StudioDeleted
    <2> HIDE DEF u
    <2>4. GoodOutcome(Park(u, i, FsDeleted, Absent, pushed), u, {})
        BY <2>2, <2>3, GoodPark
    <2> QED BY <2>1, <2>2, <2>4 DEF GoodOutcome, Within
<1> QED BY <1>1, <1>2, <1>3

\* on_push_removal
LEMMA PushRemovalGood ==
    ASSUME NEW e0, Good(e0), NEW i \in Instance, NEW pre \in Content
    PROVE  GoodOutcome(OnPushRemoval(e0, i, pre), e0, {})
<1> DEFINE e == Prune(e0)
           rec == ParkedRecord(e, i)
           o == OnPushRemoval(e0, i, pre)
<1>0. Good(e)
    BY GoodPrune
<1>s. SUFFICES GoodOutcome(o, e, {})
    BY PrunedOutcome
<1>a. Good(Seed(e, i, pre)) /\ Within(Seed(e, i, pre), e, {}) /\ Within(e, e, {})
    <2> HIDE DEF e
    <2> QED BY <1>0, GoodSeed DEF Within
<1>1. CASE IsParked(e, i) /\ rec.fs = Absent
    <2> DEFINE u == Unpark(e, i)
               x == [u EXCEPT !.baselines = Drop(@, i)]
    <2>1. o = Outcome("NoChange", x)
        BY <1>1 DEF OnPushRemoval
    <2> HIDE DEF e, o
    <2>2. Good(u) /\ Within(u, e, {}) /\ u.pending = e.pending
        BY <1>0, <1>1, GoodUnpark DEF Within
    <2>3. i \notin DOMAIN e.pending
        BY <1>0, <1>1, GoodFields
    <2> HIDE DEF u
    <2>8. Good(x) /\ Within(x, u, {})
        BY <2>2, <2>3, GoodDropMaps
    <2> HIDE DEF x
    <2> QED BY <2>1, <2>2, <2>8, PlainOutcome
<1>2. CASE IsParked(e, i) /\ rec.fs # Absent
    <2> DEFINE rec2 == [rec EXCEPT !.studio = Absent, !.classification = StudioDeleted]
    <2>1. o = Fold(e, i, rec2, FALSE)
        BY <1>2 DEF OnPushRemoval
    <2>2. rec \in Parked /\ rec.instance = i /\ Matches(rec)
        <3> HIDE DEF e
        <3> QED BY <1>0, <1>2, ParkedRecordGood
    <2> HIDE DEF rec, o, e
    <2>3. /\ rec2 \in Parked /\ rec2.instance = i /\ rec2.id = rec.id
          /\ Matches(rec2)
        BY <1>2, <2>2, EngineAssumption
           DEF Parked, Matches, Side, Classification, FsDeleted, BothEdited, StudioDeleted
    <2> HIDE DEF rec2
    <2>4. GoodOutcome(Fold(e, i, rec2, FALSE), e, {})
        BY <1>0, <1>2, <2>3, GoodFold DEF rec
    <2> QED BY <2>1, <2>4 DEF GoodOutcome, Within
<1>3. CASE /\ ~IsParked(e, i)
           /\ i \in DOMAIN e.pending \/ Baseline(e, i, pre) # pre
    <2> DEFINE u == Seed(e, i, pre)
    <2>1. o = Park(u, i, StudioDeleted, pre, Absent)
        BY <1>3 DEF OnPushRemoval
    <2> HIDE DEF e, o
    <2>2. Good(u) /\ Within(u, e, {}) /\ ~IsParked(u, i)
        BY <1>0, <1>a, <1>3, GoodSeed DEF IsParked
    <2>3. /\ Absent \in Side /\ pre \in Side /\ pre # Absent
          /\ StudioDeleted \in Classification /\ FsDeleted # StudioDeleted
        BY EngineAssumption DEF Side, Classification, FsDeleted, StudioDeleted
    <2> HIDE DEF u
    <2>4. GoodOutcome(Park(u, i, StudioDeleted, pre, Absent), u, {})
        BY <2>2, <2>3, GoodPark
    <2> QED BY <2>1, <2>2, <2>4 DEF GoodOutcome, Within
<1>4. CASE /\ ~IsParked(e, i)
           /\ i \notin DOMAIN e.pending /\ Baseline(e, i, pre) = pre
    <2>1. o = Outcome("Apply", Seed(e, i, pre))
        BY <1>4 DEF OnPushRemoval
    <2> HIDE DEF e, o
    <2> QED BY <1>a, <2>1, PlainOutcome
<1> QED BY <1>1, <1>2, <1>3, <1>4

\* on_push_removal_missing, of an instance without an unconfirmed edit
LEMMA PushRemovalMissingGood ==
    ASSUME NEW e0, Good(e0), NEW i \in Instance, i \notin DOMAIN e0.pending
    PROVE  GoodOutcome(OnPushRemovalMissing(e0, i), e0, {})
<1> DEFINE e == Prune(e0)
           u == IF IsParked(e, i) THEN Unpark(e, i) ELSE e
           v == [u EXCEPT !.tombstones = Drop(@, i)]
           x == [v EXCEPT !.baselines = Drop(@, i)]
           y == [u EXCEPT !.tombstones = Drop(@, i), !.baselines = Drop(@, i)]
           o == OnPushRemovalMissing(e0, i)
<1>0. Good(e) /\ i \notin DOMAIN e.pending
    BY GoodPrune
<1>1. o = Outcome("NoChange", y)
    BY DEF OnPushRemovalMissing
<1> HIDE DEF e, o
<1>2. Good(u) /\ u.pending = e.pending
    BY <1>0, GoodUnpark
<1> HIDE DEF u
<1>3. Good(v)
    BY <1>2, GoodDropTombstone
<1>4. v.pending = u.pending /\ x = y
    BY <1>2, GoodFields DEF EngineState
<1>5. Within(v, e, {})
    BY <1>2, <1>4 DEF Within
<1> HIDE DEF v
<1>6. Good(x) /\ Within(x, v, {})
    BY <1>0, <1>2, <1>3, <1>4, GoodDropMaps
<1> HIDE DEF x, y
<1>7. GoodOutcome(o, e, {})
    BY <1>1, <1>4, <1>5, <1>6, PlainOutcome
<1> QED BY <1>7, PrunedOutcome DEF e, o

-----------------------------------------------------------------------------
(***************************************************************************)
(* The session.  Every step keeps the records disciplined, as long as POST *)
(* /resolve puts no record back: the conflict may have been recorded anew  *)
(* meanwhile, and `restore` does not look.                                 *)
(***************************************************************************)

\* Every record a resolver works on is classified by its sides
TasksFine ==
    /\ DOMAIN tasks \subseteq Nat
    /\ \A n \in DOMAIN tasks : tasks[n] \in Task /\ Matches(tasks[n].parked)
    /\ nextTask \in Nat \ {0}

FinePush == {m \in Push : (m.kind = "remove") <=> (m.content = Absent)}

SidesFine ==
    /\ disk \in [Instance -> Side] /\ tree \in [Instance -> Side]
    /\ studio \in [Instance -> Side]
    /\ seen \in [{"disk", "studio"} -> [Instance -> SUBSET Side]]
    /\ replaced \in [Instance -> SUBSET Side]
    /\ backlog \in [Instance -> SUBSET Content]
    /\ used \subseteq Instance

LinkFine ==
    /\ toStudio \in Seq(Frame) /\ toDaemon \in Seq(FinePush)
    /\ collected \in MapTo(Side) /\ quiet \in BOOLEAN

\* An unconfirmed edit is of an instance that the tree has
EditsLive == \A i \in DOMAIN engine.pending : tree[i] # Absent

\* The inductive invariant
SessionInv == Good(engine) /\ EditsLive /\ TasksFine /\ SidesFine /\ LinkFine

\* No failed POST /resolve puts its record back
NoRestore == \A n \in DOMAIN tasks : ~RestoreRecord(n)

-----------------------------------------------------------------------------
(* Pieces *)

\* What the inductive invariant says of a step that leaves the engine alone
LEMMA EngineUnchanged ==
    ASSUME SessionInv, UNCHANGED <<engine, tree>>
    PROVE  Good(engine)' /\ EditsLive'
BY DEF SessionInv, EditsLive, Good

\* A task put into the table (a resolver is spawned)
LEMMA TaskPut ==
    ASSUME TasksFine, NEW t \in Task, Matches(t.parked),
           tasks' = Put(tasks, nextTask, t), nextTask' = nextTask + 1
    PROVE  TasksFine'
<1>1. DOMAIN tasks' = DOMAIN tasks \cup {nextTask}
    BY DEF Put
<1>2. \A n \in DOMAIN tasks' : tasks'[n] = IF n = nextTask THEN t ELSE tasks[n]
    BY DEF Put
<1> QED BY <1>1, <1>2 DEF TasksFine

\* The notifier spawns resolvers for classified records only
LEMMA SpawnFine ==
    ASSUME TasksFine, NEW notice, Spawn(notice),
           \A rec \in notice : rec \in Parked /\ Matches(rec)
    PROVE  TasksFine'
<1>1. CASE notice = {}
    BY <1>1 DEF Spawn, TasksFine
<1>2. CASE notice # {}
    <2>1. PICK rec \in notice :
              tasks' = Put(tasks, nextTask, [kind |-> "auto", parked |-> rec,
                                             stage |-> "capture", content |-> Absent])
        BY <1>2 DEF Spawn
    <2> DEFINE t == [kind |-> "auto", parked |-> rec,
                     stage |-> "capture", content |-> Absent]
    <2>2. t \in Task /\ Matches(t.parked)
        BY DEF Task, Side
    <2>3. nextTask' = nextTask + 1
        BY <1>2 DEF Spawn
    <2> HIDE DEF t
    <2> QED BY <2>1, <2>2, <2>3, TaskPut DEF t
<1> QED BY <1>1, <1>2

\* A task that ends, or moves to another stage
LEMMA TaskSteps ==
    ASSUME TasksFine, UNCHANGED nextTask, NEW n,
           \/ tasks' = Drop(tasks, n)
           \/ \E stage \in {"capture", "write", "applying", "take", "restore",
                            "read", "stamp", "push"} :
                 tasks' = [tasks EXCEPT ![n].stage = stage]
           \/ UNCHANGED tasks
    PROVE  TasksFine'
<1>1. CASE tasks' = Drop(tasks, n)
    BY <1>1 DEF TasksFine, Drop, Restrict
<1>2. ASSUME NEW stage \in {"capture", "write", "applying", "take", "restore",
                            "read", "stamp", "push"},
             tasks' = [tasks EXCEPT ![n].stage = stage]
      PROVE  TasksFine'
    <2>1. DOMAIN tasks' = DOMAIN tasks
        BY <1>2
    <2>2. \A k \in DOMAIN tasks :
              tasks'[k] = IF k = n THEN [tasks[k] EXCEPT !.stage = stage] ELSE tasks[k]
        BY <1>2
    <2>3. \A k \in DOMAIN tasks :
              tasks'[k] \in Task /\ tasks'[k].parked = tasks[k].parked
        BY <1>2, <2>2 DEF TasksFine, Task
    <2> QED BY <2>1, <2>3 DEF TasksFine
<1>3. CASE UNCHANGED tasks
    BY <1>3 DEF TasksFine
<1> QED BY <1>1, <1>2, <1>3

\* The histories keep their type when a side takes a content
LEMMA SawTyped ==
    ASSUME SidesFine, NEW s \in {"disk", "studio"}, NEW i \in Instance, NEW c \in Side,
           Saw(s, i, c)
    PROVE  seen' \in [{"disk", "studio"} -> [Instance -> SUBSET Side]]
<1>1. [seen[s] EXCEPT ![i] = @ \cup {c}] \in [Instance -> SUBSET Side]
    BY DEF SidesFine
<1>2. seen' = [seen EXCEPT ![s] = [seen[s] EXCEPT ![i] = @ \cup {c}]]
    BY DEF Saw, SidesFine
<1> QED BY <1>1, <1>2 DEF SidesFine

\* Stamp and forget settle the instance
LEMMA StampSettles ==
    ASSUME NEW e, NEW i \in Instance, Good(e)
    PROVE  /\ \A h : DOMAIN Stamp(e, i, h).pending = DOMAIN e.pending \ {i}
           /\ DOMAIN Forget(e, i).pending = DOMAIN e.pending \ {i}
BY GoodFields DEF Stamp, Forget, Drop, Restrict, EngineState

-----------------------------------------------------------------------------
(* One lemma per action *)

\* The users edit files and instances
LEMMA UsersKeep ==
    ASSUME SessionInv, Users
    PROVE  SessionInv'
<1>0. UNCHANGED <<engine, tree, tasks, nextTask>>
    BY DEF Users, DiskEdit, StudioEdit, StudioCreate
<1>1. Good(engine)' /\ EditsLive'
    BY <1>0, EngineUnchanged
<1>2. TasksFine'
    BY <1>0 DEF SessionInv, TasksFine
<1>3. ASSUME NEW i \in Instance, NEW c \in Side, DiskEdit(i, c)
      PROVE  SidesFine' /\ LinkFine'
    <2>1. Saw("disk", i, c)
        BY <1>3 DEF DiskEdit
    <2>2. seen' \in [{"disk", "studio"} -> [Instance -> SUBSET Side]]
        BY <2>1, SawTyped DEF SessionInv
    <2>3. SidesFine'
        BY <1>3, <2>2 DEF SessionInv, SidesFine, DiskEdit
    <2> QED BY <1>3, <2>3 DEF SessionInv, LinkFine, DiskEdit
<1>4. ASSUME NEW i \in Instance, NEW c \in Side, StudioEdit(i, c)
      PROVE  SidesFine' /\ LinkFine'
    <2>1. Saw("studio", i, c)
        BY <1>4 DEF StudioEdit
    <2>2. seen' \in [{"disk", "studio"} -> [Instance -> SUBSET Side]]
        BY <2>1, SawTyped DEF SessionInv
    <2>3. SidesFine'
        BY <1>4, <2>2 DEF SessionInv, SidesFine, StudioEdit
    <2>4. collected \in MapTo(Side)
        BY DEF SessionInv, LinkFine
    <2>5. Put(collected, i, c) \in MapTo(Side)
        BY <2>4, PutMap
    <2>6. collected' \in MapTo(Side)
        BY <1>4, <2>4, <2>5 DEF StudioEdit
    <2> QED BY <1>4, <2>3, <2>6 DEF SessionInv, LinkFine, StudioEdit
<1>5. ASSUME NEW i \in Instance, NEW c \in Content, StudioCreate(i, c)
      PROVE  SidesFine' /\ LinkFine'
    <2>1. Saw("studio", i, c) /\ c \in Side /\ c # Absent
        BY <1>5, EngineAssumption DEF StudioCreate, Side
    <2>2. seen' \in [{"disk", "studio"} -> [Instance -> SUBSET Side]]
        BY <2>1, SawTyped DEF SessionInv
    <2>3. SidesFine'
        BY <1>5, <2>1, <2>2 DEF SessionInv, SidesFine, StudioCreate
    <2>4. [kind |-> "add", inst |-> i, content |-> c, task |-> 0] \in FinePush
        BY <2>1 DEF FinePush, Push
    <2>5. toDaemon' \in Seq(FinePush)
        BY <1>5, <2>4, AppendProperties DEF StudioCreate, SessionInv, LinkFine
    <2> QED BY <1>5, <2>3, <2>5 DEF SessionInv, LinkFine, StudioCreate
<1>6. SidesFine' /\ LinkFine'
    BY <1>3, <1>4, <1>5 DEF Users
<1> QED BY <1>1, <1>2, <1>6 DEF SessionInv

\* The plugin applies frames and flushes what it collected
LEMMA PluginKeeps ==
    ASSUME SessionInv, Plugin
    PROVE  SessionInv'
<1>0. UNCHANGED <<engine, tree, tasks, nextTask>>
    BY DEF Plugin, ApplyFrame, DebounceEnds, Flush
<1>1. Good(engine)' /\ EditsLive'
    BY <1>0, EngineUnchanged
<1>2. TasksFine'
    BY <1>0 DEF SessionInv, TasksFine
<1>3. ASSUME NEW echo \in BOOLEAN, ApplyFrame(echo)
      PROVE  SidesFine' /\ LinkFine'
    <2> DEFINE i == Head(toStudio).inst
               c == Head(toStudio).content
    <2>1. /\ Head(toStudio) \in Frame /\ Tail(toStudio) \in Seq(Frame)
        BY <1>3, HeadTailProperties DEF ApplyFrame, SessionInv, LinkFine
    <2>2. i \in Instance /\ c \in Side
        BY <2>1 DEF Frame
    <2>3. Saw("studio", i, c)
        BY <1>3 DEF ApplyFrame
    <2>4. seen' \in [{"disk", "studio"} -> [Instance -> SUBSET Side]]
        BY <2>2, <2>3, SawTyped DEF SessionInv
    <2>5. studio' = [studio EXCEPT ![i] = c]
        BY <1>3 DEF ApplyFrame
    <2>6. SidesFine'
        BY <1>3, <2>2, <2>4, <2>5 DEF SessionInv, SidesFine, ApplyFrame
    <2>7. collected \in MapTo(Side)
        BY DEF SessionInv, LinkFine
    <2>8. Put(collected, i, c) \in MapTo(Side)
        BY <2>2, <2>7, PutMap
    <2>9. collected' \in {collected, Put(collected, i, c)}
        BY <1>3 DEF ApplyFrame
    <2>10. UNCHANGED toDaemon /\ toStudio' = Tail(toStudio) /\ quiet' = TRUE
        BY <1>3 DEF ApplyFrame
    <2> QED BY <2>1, <2>6, <2>7, <2>8, <2>9, <2>10 DEF SessionInv, LinkFine
<1>4. ASSUME DebounceEnds
      PROVE  SidesFine' /\ LinkFine'
    BY <1>4 DEF SessionInv, SidesFine, LinkFine, DebounceEnds
<1>5. ASSUME NEW i \in Instance, Flush(i)
      PROVE  SidesFine' /\ LinkFine'
    <2>1. collected \in MapTo(Side) /\ i \in DOMAIN collected
        BY <1>5 DEF SessionInv, LinkFine, Flush
    <2>2. collected[i] \in Side
        BY <2>1, MapElim
    <2>3. Drop(collected, i) \in MapTo(Side)
        BY <2>1, DropMap
    <2>4. [kind |-> IF collected[i] = Absent THEN "remove" ELSE "update",
           inst |-> i, content |-> collected[i], task |-> 0] \in FinePush
        BY <2>2 DEF FinePush, Push
    <2>5. toDaemon' \in Seq(FinePush)
        BY <1>5, <2>4, AppendProperties DEF Flush, SessionInv, LinkFine
    <2> QED BY <1>5, <2>3, <2>5 DEF SessionInv, SidesFine, LinkFine, Flush
<1>6. SidesFine' /\ LinkFine'
    BY <1>3, <1>4, <1>5 DEF Plugin
<1> QED BY <1>1, <1>2, <1>6 DEF SessionInv

\* on_vfs_event
LEMMA FsEventKeeps ==
    ASSUME SessionInv, NEW i \in Instance, FsEvent(i)
    PROVE  SessionInv'
<1> DEFINE o == CASE tree[i] = Absent -> OnFsAddition(engine, i, disk[i])
                  [] disk[i] = Absent -> OnFsRemoval(engine, i, tree[i])
                  [] OTHER -> OnFsUpdate(engine, i, tree[i], disk[i])
<1>0. /\ Adopt(o) /\ tree' = [tree EXCEPT ![i] = disk[i]]
      /\ disk[i] # tree[i]
      /\ UNCHANGED <<disk, studio, collected, toDaemon, quiet, backlog, used, seen, replaced>>
    BY DEF FsEvent
<1>1. disk \in [Instance -> Side] /\ tree \in [Instance -> Side] /\ Good(engine)
    BY DEF SessionInv, SidesFine
<1>2. /\ GoodOutcome(o, engine, {i})
      /\ i \in DOMAIN o.engine.pending => disk[i] # Absent
    <2>1. CASE tree[i] = Absent
        <3>1. disk[i] \in Content /\ i \notin DOMAIN engine.pending
            BY <1>0, <1>1, <2>1 DEF Side, SessionInv, EditsLive
        <3>2. GoodOutcome(OnFsAddition(engine, i, disk[i]), engine, {})
            BY <1>1, <3>1, FsAdditionGood
        <3>3. o = OnFsAddition(engine, i, disk[i])
            BY <1>0, <2>1
        <3> QED BY <3>1, <3>2, <3>3 DEF GoodOutcome, Within
    <2>2. CASE tree[i] # Absent /\ disk[i] = Absent
        <3>1. tree[i] \in Content
            BY <1>1, <2>2 DEF Side
        <3>2. o = OnFsRemoval(engine, i, tree[i])
            BY <2>2
        <3>3. GoodOutcome(o, engine, {}) /\ i \notin DOMAIN o.engine.pending
            BY <1>1, <3>1, <3>2, FsRemovalGood
        <3> QED BY <3>3 DEF GoodOutcome, Within
    <2>3. CASE tree[i] # Absent /\ disk[i] # Absent
        <3>1. tree[i] \in Content /\ disk[i] \in Content
            BY <1>1, <2>3 DEF Side
        <3>2. o = OnFsUpdate(engine, i, tree[i], disk[i])
            BY <2>3
        <3>3. GoodOutcome(o, engine, {i})
            BY <1>1, <3>1, <3>2, FsUpdateGood
        <3> QED BY <2>3, <3>3
    <2> QED BY <2>1, <2>2, <2>3
<1>3. IF o.decision = "Propagate" THEN Send(i, disk[i]) ELSE UNCHANGED toStudio
    BY DEF FsEvent
<1> HIDE DEF o
<1>4. Good(engine') /\ DOMAIN engine'.pending \subseteq DOMAIN engine.pending \cup {i}
    BY <1>0, <1>2 DEF Adopt, GoodOutcome, Within
<1>5. EditsLive'
    <2>1. \A j \in DOMAIN engine'.pending : j \in Instance
        BY <1>4, GoodFields, MapElim
    <2>2. ASSUME NEW j \in DOMAIN engine'.pending PROVE tree'[j] # Absent
        BY <1>0, <1>1, <1>2, <1>4, <2>1 DEF Adopt, SessionInv, EditsLive
    <2> QED BY <2>2 DEF EditsLive
<1>6. TasksFine'
    BY <1>0, <1>2, SpawnFine DEF Adopt, GoodOutcome, SessionInv
<1>7. SidesFine'
    BY <1>0 DEF SessionInv, SidesFine
<1>8. LinkFine'
    <2>1. [inst |-> i, content |-> disk[i]] \in Frame
        BY <1>1 DEF Frame
    <2>2. toStudio' \in Seq(Frame)
        BY <1>3, <2>1, AppendProperties DEF Send, SessionInv, LinkFine
    <2> QED BY <1>0, <2>2 DEF SessionInv, LinkFine
<1> QED BY <1>4, <1>5, <1>6, <1>7, <1>8 DEF SessionInv, Good

\* The decision on a push comes from a method of the engine
LEMMA DecidePushGood ==
    ASSUME SessionInv, NEW m \in FinePush
    PROVE  GoodOutcome(DecidePush(m), engine, {})
<1> DEFINE i == m.inst
<1>1. /\ i \in Instance /\ m.content \in Side /\ m.kind \in {"add", "update", "remove"}
      /\ m.kind # "remove" => m.content \in Content
    BY DEF FinePush, Push, Side
<1>2. tree \in [Instance -> Side] /\ Good(engine)
    BY DEF SessionInv, SidesFine
<1>3. tree[i] # Absent => tree[i] \in Content
    BY <1>1, <1>2 DEF Side
<1>4. CASE m.task # 0
    <2>1. DecidePush(m) = Outcome("Apply", engine)
        BY <1>4 DEF DecidePush
    <2> QED BY <1>2, <2>1, PlainOutcome DEF Within
<1>5. CASE m.task = 0 /\ m.kind = "add"
    <2>1. DecidePush(m) = OnPushAddition(engine, i)
        BY <1>5 DEF DecidePush
    <2> QED BY <1>2, <2>1, PushAdditionGood
<1>6. CASE m.task = 0 /\ m.kind = "update" /\ tree[i] # Absent
    <2>1. DecidePush(m) = OnPushUpdate(engine, i, tree[i], m.content)
        BY <1>6 DEF DecidePush
    <2> QED BY <1>1, <1>2, <1>3, <1>6, <2>1, PushUpdateGood
<1>7. CASE m.task = 0 /\ m.kind = "update" /\ tree[i] = Absent
    <2>1. DecidePush(m) = OnPushUpdateMissing(engine, i, m.content)
        BY <1>7 DEF DecidePush
    <2> QED BY <1>1, <1>2, <1>7, <2>1, PushUpdateMissingGood
<1>8. CASE m.task = 0 /\ m.kind = "remove" /\ tree[i] # Absent
    <2>1. DecidePush(m) = OnPushRemoval(engine, i, tree[i])
        BY <1>8 DEF DecidePush
    <2> QED BY <1>1, <1>2, <1>3, <1>8, <2>1, PushRemovalGood
<1>9. CASE m.task = 0 /\ m.kind = "remove" /\ tree[i] = Absent
    <2>1. DecidePush(m) = OnPushRemovalMissing(engine, i)
        BY <1>9 DEF DecidePush
    <2>2. i \notin DOMAIN engine.pending
        BY <1>9 DEF SessionInv, EditsLive
    <2> QED BY <1>1, <1>2, <2>1, <2>2, PushRemovalMissingGood
<1> QED BY <1>1, <1>4, <1>5, <1>6, <1>7, <1>8, <1>9

\* on_client_event
LEMMA ClientEventKeeps ==
    ASSUME SessionInv, NEW ok \in BOOLEAN, ClientEvent(ok)
    PROVE  SessionInv'
<1> DEFINE m == Head(toDaemon)
           i == m.inst
           r == DecidePush(m)
           writes == r.decision = "Apply" /\ ok /\ (m.kind = "update" => tree[i] # Absent)
<1>1. m \in FinePush /\ Tail(toDaemon) \in Seq(FinePush)
    BY HeadTailProperties DEF ClientEvent, SessionInv, LinkFine
<1>2. GoodOutcome(r, engine, {})
    BY <1>1, DecidePushGood
<1>3. /\ engine' = IF ~writes THEN r.engine
                   ELSE IF m.kind = "remove" THEN Forget(r.engine, i)
                   ELSE Stamp(r.engine, i, m.content)
      /\ IF writes
         THEN /\ disk' = [disk EXCEPT ![i] = m.content]
              /\ tree' = [tree EXCEPT ![i] = m.content]
              /\ Saw("disk", i, m.content)
         ELSE UNCHANGED <<disk, tree, seen>>
      /\ IF r.notice = {}
         THEN tasks' = Answered(m, tasks, ok) /\ UNCHANGED nextTask
         ELSE Spawn(r.notice)
      /\ toDaemon' = Tail(toDaemon)
      /\ UNCHANGED <<studio, toStudio, collected, quiet, backlog, used, replaced>>
    BY DEF ClientEvent
<1>4. /\ i \in Instance /\ m.content \in Side
      /\ m.kind # "remove" => m.content \in Content
    BY <1>1 DEF FinePush, Push, Side
<1>5. /\ disk \in [Instance -> Side] /\ tree \in [Instance -> Side]
      /\ Good(engine) /\ EditsLive /\ TasksFine /\ SidesFine /\ LinkFine
    BY DEF SessionInv, SidesFine
<1>6. /\ Good(r.engine) /\ DOMAIN r.engine.pending \subseteq DOMAIN engine.pending
      /\ \A rec \in r.notice : rec \in Parked /\ Matches(rec)
    BY <1>2 DEF GoodOutcome, Within
<1> HIDE DEF m, i, r, writes
<1>7. Good(engine')
    BY <1>3, <1>4, <1>6, GoodStamp, GoodForget
<1>8. EditsLive'
    <2>1. CASE ~writes
        BY <1>3, <1>5, <1>6, <2>1 DEF EditsLive
    <2>2. CASE writes
        <3>1. DOMAIN engine'.pending = DOMAIN r.engine.pending \ {i}
            BY <1>3, <1>4, <1>6, <2>2, StampSettles
        <3>2. \A j \in DOMAIN engine'.pending : j \in Instance
            BY <1>7, GoodFields, MapElim
        <3>3. ASSUME NEW j \in DOMAIN engine'.pending PROVE tree'[j] # Absent
            BY <1>3, <1>5, <1>6, <2>2, <3>1, <3>2 DEF EditsLive
        <3> QED BY <3>3 DEF EditsLive
    <2> QED BY <2>1, <2>2
<1>9. TasksFine'
    <2>1. CASE r.notice = {}
        <3>1. tasks' = Answered(m, tasks, ok) /\ UNCHANGED nextTask
            BY <1>3, <2>1
        <3>2. \/ UNCHANGED tasks
              \/ tasks' = Drop(tasks, m.task)
              \/ \E stage \in {"capture", "write", "applying", "take", "restore",
                               "read", "stamp", "push"} :
                    tasks' = [tasks EXCEPT ![m.task].stage = stage]
            BY <3>1 DEF Answered
        <3> QED BY <1>5, <3>1, <3>2, TaskSteps
    <2>2. CASE r.notice # {}
        BY <1>3, <1>5, <1>6, <2>2, SpawnFine
    <2> QED BY <2>1, <2>2
<1>10. SidesFine'
    <2>1. seen' \in [{"disk", "studio"} -> [Instance -> SUBSET Side]]
        <3>1. CASE writes
            BY <1>3, <1>4, <1>5, <3>1, SawTyped
        <3>2. CASE ~writes
            BY <1>3, <1>5, <3>2 DEF SidesFine
        <3> QED BY <3>1, <3>2
    <2>2. disk' \in [Instance -> Side] /\ tree' \in [Instance -> Side]
        BY <1>3, <1>4, <1>5
    <2> QED BY <1>3, <1>5, <2>1, <2>2 DEF SidesFine
<1>11. LinkFine'
    BY <1>1, <1>3, <1>5 DEF LinkFine, m
<1> QED BY <1>7, <1>8, <1>9, <1>10, <1>11 DEF SessionInv, Good

\* The race window of an entry elapses
LEMMA WindowKeeps ==
    ASSUME SessionInv, NEW i \in Instance, WindowElapses(i)
    PROVE  SessionInv'
<1> DEFINE edit == [engine.pending[i] EXCEPT !.expired = TRUE]
           tomb == [engine.tombstones[i] EXCEPT !.expired = TRUE]
<1>0. Good(engine)
    BY DEF SessionInv
<1>1. UNCHANGED <<disk, tree, studio, toStudio, collected, toDaemon, quiet, tasks,
                  nextTask, backlog, used, seen, replaced>>
    BY DEF WindowElapses
<1>2. ASSUME i \in DOMAIN engine.pending,
             engine' = [engine EXCEPT !.pending = Put(@, i, edit)]
      PROVE  Good(engine') /\ DOMAIN engine'.pending \subseteq DOMAIN engine.pending
    <2>1. /\ ~IsParked(engine, i) /\ i \in DOMAIN engine.baselines
          /\ engine.baselines[i] = engine.pending[i].prior
          /\ engine.pending \in MapTo(PendingEdit)
        BY <1>0, <1>2, GoodFields
    <2>2. engine.pending[i] \in PendingEdit
        BY <1>2, <2>1, MapElim
    <2>3. edit \in PendingEdit /\ edit.prior = engine.pending[i].prior
        BY <2>2 DEF PendingEdit
    <2> HIDE DEF edit
    <2>4. Good(engine') /\ Within(engine', engine, {i})
        BY <1>0, <1>2, <2>1, <2>3, GoodSend
    <2> QED BY <1>2, <2>4 DEF Within
<1>3. ASSUME i \in DOMAIN engine.tombstones,
             engine' = [engine EXCEPT !.tombstones = Put(@, i, tomb)]
      PROVE  Good(engine') /\ DOMAIN engine'.pending \subseteq DOMAIN engine.pending
    <2>1. /\ ~IsParked(engine, i) /\ engine.tombstones \in MapTo(Tombstone)
          /\ engine \in EngineState
        BY <1>0, <1>3, GoodFields
    <2>2. engine.tombstones[i] \in Tombstone
        BY <1>3, <2>1, MapElim
    <2>3. tomb \in Tombstone
        BY <2>2 DEF Tombstone
    <2> HIDE DEF tomb
    <2>4. Put(engine.tombstones, i, tomb) \in MapTo(Tombstone)
        BY <2>1, <2>3, PutMap
    <2>5. /\ engine' \in EngineState
          /\ engine'.parked = engine.parked /\ engine'.nextId = engine.nextId
          /\ engine'.pending = engine.pending /\ engine'.baselines = engine.baselines
          /\ engine'.tombstones = Put(engine.tombstones, i, tomb)
        BY <1>3, <2>1, <2>4 DEF EngineState
    <2>6. DOMAIN engine'.tombstones = DOMAIN engine.tombstones
        BY <1>3, <2>5 DEF Put
    <2>7. Good(engine')
        BY <1>0, <2>5, <2>6, GoodFields, GoodMaps
    <2> QED BY <2>5, <2>7
<1>4. Good(engine') /\ DOMAIN engine'.pending \subseteq DOMAIN engine.pending
    BY <1>2, <1>3 DEF WindowElapses
<1>5. EditsLive'
    BY <1>1, <1>4 DEF SessionInv, EditsLive
<1>6. TasksFine' /\ SidesFine' /\ LinkFine'
    BY <1>1 DEF SessionInv, TasksFine, SidesFine, LinkFine
<1> QED BY <1>4, <1>5, <1>6 DEF SessionInv, Good

\* The steps of a resolver other than putting its record back
LEMMA ResolversKeep ==
    ASSUME SessionInv, NoRestore, Resolvers
    PROVE  SessionInv'
<1>0. PICK n \in DOMAIN tasks :
          \/ \E ok \in BOOLEAN : CaptureDisk(n, ok)
          \/ KeepStudio(n) \/ TakeRecord(n)
          \/ ReadTree(n) \/ StampLocal(n) \/ PushLocal(n)
    BY DEF Resolvers, NoRestore
<1> DEFINE rec == tasks[n].parked
           i == rec.instance
<1>1. /\ n \in Nat /\ tasks[n] \in Task /\ Matches(rec) /\ TasksFine /\ Good(engine)
      /\ EditsLive /\ SidesFine /\ LinkFine
    BY DEF SessionInv, TasksFine
<1>2. /\ rec \in Parked /\ i \in Instance /\ rec.studio \in Side
      /\ rec.classification \in {BothEdited, FsDeleted, StudioDeleted}
      /\ tasks[n].content \in Side
    BY <1>1 DEF Task, Parked, Classification
<1>3. ASSUME NEW ok \in BOOLEAN, CaptureDisk(n, ok)
      PROVE  SessionInv'
    <2>1. /\ tasks' = [tasks EXCEPT ![n].stage = "write"]
          /\ UNCHANGED <<engine, tree, studio, toStudio, collected, toDaemon, quiet,
                         nextTask, used, seen, replaced>>
        BY <1>3 DEF CaptureDisk, Enter
    <2>2. \/ /\ disk[i] # Absent
             /\ backlog' = [backlog EXCEPT ![i] = @ \cup {disk[i]}]
             /\ disk' = [disk EXCEPT ![i] = Absent]
          \/ UNCHANGED <<backlog, disk>>
        BY <1>3 DEF CaptureDisk
    <2>3. SidesFine'
        BY <1>1, <1>2, <2>1, <2>2 DEF SidesFine, Side
    <2>4. TasksFine'
        BY <1>1, <2>1, TaskSteps
    <2>5. LinkFine'
        BY <1>1, <2>1 DEF LinkFine
    <2> QED BY <2>1, <2>3, <2>4, <2>5, EngineUnchanged DEF SessionInv
<1>4. ASSUME KeepStudio(n)
      PROVE  SessionInv'
    <2> DEFINE m(kind) == [kind |-> kind, inst |-> i, content |-> rec.studio, task |-> n]
    <2>1. UNCHANGED <<engine, disk, tree, studio, toStudio, collected, quiet, nextTask,
                      backlog, used, seen, replaced>>
        BY <1>4 DEF KeepStudio
    <2>2. /\ rec.classification = StudioDeleted => m("remove") \in FinePush
          /\ rec.classification = FsDeleted => m("add") \in FinePush
          /\ rec.classification = BothEdited => m("update") \in FinePush
        BY <1>1, <1>2 DEF FinePush, Push, Matches, BothEdited, FsDeleted, StudioDeleted
    <2>3. \/ rec.classification = StudioDeleted /\ toDaemon' = Append(toDaemon, m("remove"))
          \/ rec.classification = FsDeleted /\ toDaemon' = Append(toDaemon, m("add"))
          \/ rec.classification = BothEdited /\ toDaemon' = Append(toDaemon, m("update"))
          \/ UNCHANGED toDaemon
        BY <1>4 DEF KeepStudio
    <2> HIDE DEF m
    <2>4. toDaemon' \in Seq(FinePush)
        <3>1. \/ UNCHANGED toDaemon
              \/ \E kind : m(kind) \in FinePush /\ toDaemon' = Append(toDaemon, m(kind))
            BY <2>2, <2>3
        <3> QED BY <1>1, <3>1, AppendProperties DEF LinkFine
    <2>5. \/ tasks' = Drop(tasks, n)
          \/ tasks' = [tasks EXCEPT ![n].stage = "applying"]
          \/ tasks' = [tasks EXCEPT ![n].stage = "restore"]
        BY <1>4 DEF KeepStudio, Enter, End
    <2>6. TasksFine'
        BY <1>1, <2>1, <2>5, TaskSteps
    <2>7. SidesFine' /\ LinkFine'
        BY <1>1, <2>1, <2>4 DEF SidesFine, LinkFine
    <2> QED BY <2>1, <2>6, <2>7, EngineUnchanged DEF SessionInv
<1>5. ASSUME TakeRecord(n)
      PROVE  SessionInv'
    <2>1. /\ engine' = Take(engine, rec.id) /\ tasks' = Drop(tasks, n)
          /\ UNCHANGED <<disk, tree, studio, toStudio, collected, toDaemon, quiet,
                         nextTask, backlog, used, seen, replaced>>
        BY <1>5 DEF TakeRecord, End
    <2>2. Good(engine')
        BY <1>1, <2>1, GoodTake
    <2>3. engine'.pending = engine.pending
        BY <1>1, <2>1 DEF Take, Good, EngineState
    <2>4. EditsLive'
        BY <1>1, <2>1, <2>3 DEF EditsLive
    <2>5. TasksFine'
        BY <1>1, <2>1, TaskSteps
    <2>6. SidesFine' /\ LinkFine'
        BY <1>1, <2>1 DEF SidesFine, LinkFine
    <2> QED BY <2>2, <2>4, <2>5, <2>6 DEF SessionInv, Good
<1>6. ASSUME ReadTree(n)
      PROVE  SessionInv'
    <2>1. /\ \E stage \in {"restore", "stamp"}, c \in Side :
                tasks' = [tasks EXCEPT ![n].stage = stage, ![n].content = c]
          /\ UNCHANGED <<engine, disk, tree, studio, toStudio, collected, toDaemon,
                         quiet, nextTask, backlog, used, seen, replaced>>
        BY <1>1, <1>2, <1>6 DEF ReadTree, SidesFine, Side
    <2>2. PICK stage \in {"restore", "stamp"}, c \in Side :
              tasks' = [tasks EXCEPT ![n].stage = stage, ![n].content = c]
        BY <2>1
    <2>3. /\ DOMAIN tasks' = DOMAIN tasks
          /\ \A k \in DOMAIN tasks :
                tasks'[k] = IF k = n
                            THEN [tasks[k] EXCEPT !.stage = stage, !.content = c]
                            ELSE tasks[k]
        BY <2>2
    <2>4. ASSUME NEW k \in DOMAIN tasks
          PROVE  tasks'[k] \in Task /\ tasks'[k].parked = tasks[k].parked
        <3>1. tasks[k] \in Task
            BY <1>1 DEF TasksFine
        <3>2. stage \in {"capture", "write", "applying", "take", "restore",
                         "read", "stamp", "push"}
            OBVIOUS
        <3>3. /\ [tasks[k] EXCEPT !.stage = stage, !.content = c] \in Task
              /\ [tasks[k] EXCEPT !.stage = stage, !.content = c].parked = tasks[k].parked
            BY <2>2, <3>1, <3>2 DEF Task
        <3> QED BY <2>3, <3>1, <3>3
    <2>5. TasksFine'
        BY <1>1, <2>1, <2>3, <2>4 DEF TasksFine
    <2>6. SidesFine' /\ LinkFine'
        BY <1>1, <2>1 DEF SidesFine, LinkFine
    <2> QED BY <2>1, <2>5, <2>6, EngineUnchanged DEF SessionInv
<1>7. ASSUME StampLocal(n)
      PROVE  SessionInv'
    <2> DEFINE content == IF rec.classification = StudioDeleted THEN tree[i]
                                                               ELSE tasks[n].content
    <2>1. /\ \/ engine' = Forget(engine, i)
             \/ content # Absent /\ engine' = Stamp(engine, i, content)
             \/ engine' = engine
          /\ tasks' = [tasks EXCEPT ![n].stage = "push"]
          /\ UNCHANGED <<disk, tree, studio, toStudio, collected, toDaemon, quiet,
                         nextTask, backlog, used, seen, replaced>>
        BY <1>7 DEF StampLocal, Enter
    <2>2. content # Absent => content \in Content
        BY <1>1, <1>2 DEF SidesFine, Side
    <2> HIDE DEF content
    <2>3. Good(engine')
        BY <1>1, <1>2, <2>1, <2>2, GoodStamp, GoodForget
    <2>4. DOMAIN engine'.pending \subseteq DOMAIN engine.pending
        BY <1>1, <1>2, <2>1, StampSettles
    <2>5. EditsLive'
        BY <1>1, <2>1, <2>4 DEF EditsLive
    <2>6. TasksFine'
        BY <1>1, <2>1, TaskSteps
    <2>7. SidesFine' /\ LinkFine'
        BY <1>1, <2>1 DEF SidesFine, LinkFine
    <2> QED BY <2>3, <2>5, <2>6, <2>7 DEF SessionInv, Good
<1>8. ASSUME PushLocal(n)
      PROVE  SessionInv'
    <2>1. /\ toStudio' = Append(toStudio, [inst |-> i, content |-> tasks[n].content])
          /\ tasks' = Drop(tasks, n)
          /\ UNCHANGED <<engine, disk, tree, studio, collected, toDaemon, quiet,
                         nextTask, backlog, used, seen, replaced>>
        BY <1>8 DEF PushLocal, Send, End
    <2>2. [inst |-> i, content |-> tasks[n].content] \in Frame
        BY <1>2 DEF Frame
    <2>3. toStudio' \in Seq(Frame)
        BY <1>1, <2>1, <2>2, AppendProperties DEF LinkFine
    <2>4. TasksFine'
        BY <1>1, <2>1, TaskSteps
    <2>5. SidesFine' /\ LinkFine'
        BY <1>1, <2>1, <2>3 DEF SidesFine, LinkFine
    <2> QED BY <2>1, <2>4, <2>5, EngineUnchanged DEF SessionInv
<1> QED BY <1>0, <1>3, <1>4, <1>5, <1>6, <1>7, <1>8

\* POST /resolve takes a record and works on a copy of it
LEMMA ResolveKeeps ==
    ASSUME SessionInv, NEW k \in DOMAIN engine.parked, NEW keep \in {"local", "studio"},
           Resolve(k, keep)
    PROVE  SessionInv'
<1> DEFINE rec == engine.parked[k]
           t == [kind |-> keep, parked |-> rec, content |-> Absent,
                 stage |-> IF keep = "local" THEN "read" ELSE "write"]
<1>1. /\ engine' = Take(engine, rec.id) /\ tasks' = Put(tasks, nextTask, t)
      /\ nextTask' = nextTask + 1
      /\ UNCHANGED <<disk, tree, studio, toStudio, collected, toDaemon, quiet, backlog,
                     used, seen, replaced>>
    BY DEF Resolve
<1>2. /\ Good(engine) /\ EditsLive /\ TasksFine /\ SidesFine /\ LinkFine
    BY DEF SessionInv
<1>3. engine.parked \in Seq(Parked) /\ DOMAIN engine.parked = 1..Len(engine.parked)
    BY <1>2, LenProperties DEF Good, EngineState
<1>4. rec \in Parked
    BY <1>3, ElementOfSeq
<1>5. Matches(rec)
    BY <1>2 DEF Good, Disciplined, ClassifiedBySides, Matches
<1>6. t \in Task /\ Matches(t.parked)
    BY <1>4, <1>5 DEF Task, Side
<1> HIDE DEF rec, t
<1>7. TasksFine'
    BY <1>1, <1>2, <1>6, TaskPut
<1>8. Good(engine')
    BY <1>1, <1>2, GoodTake
<1>9. engine'.pending = engine.pending
    BY <1>1, <1>2 DEF Take, Good, EngineState
<1>10. EditsLive'
    BY <1>1, <1>2, <1>9 DEF EditsLive
<1>11. SidesFine' /\ LinkFine'
    BY <1>1, <1>2 DEF SidesFine, LinkFine
<1> QED BY <1>7, <1>8, <1>10, <1>11 DEF SessionInv, Good

-----------------------------------------------------------------------------
(* The theorems *)

\* A session starts with an engine that knows nothing and two equal sides
LEMMA InitFine ==
    ASSUME Init
    PROVE  SessionInv
<1>1. << >> \in MapTo(Content) /\ << >> \in MapTo(PendingEdit)
      /\ << >> \in MapTo(Tombstone) /\ << >> \in MapTo(Side)
    <2>1. ASSUME NEW V PROVE << >> \in MapTo(V)
        <3>1. << >> \in [{} -> V]
            BY EmptySeq
        <3> QED BY <3>1 DEF MapTo
    <2> QED BY <2>1
<1>2. NewEngine \in EngineState
    BY <1>1, EmptySeq DEF NewEngine, EngineState
<1>3. /\ NewEngine.parked = << >> /\ DOMAIN NewEngine.pending = {}
      /\ DOMAIN NewEngine.tombstones = {} /\ DOMAIN NewEngine.parked = {}
    BY DEF NewEngine
<1>4. Disciplined(NewEngine)
    BY <1>3 DEF Disciplined, OneRecordEach, FreshIds, ClassifiedBySides,
                ParkedIsSettled, PendingOverBaseline
<1>5. Good(engine) /\ EditsLive
    BY <1>2, <1>3, <1>4 DEF Init, Good, EditsLive
<1>6. TasksFine
    BY DEF Init, TasksFine
<1>7. SidesFine
    BY SessionAssumption DEF Init, SidesFine, Side
<1>8. LinkFine
    BY <1>1, EmptySeq DEF Init, LinkFine
<1> QED BY <1>5, <1>6, <1>7, <1>8 DEF SessionInv

\* The invariant gives the type invariant and the discipline of the records
LEMMA InvSuffices ==
    ASSUME SessionInv
    PROVE  TypeOK /\ RecordDiscipline
<1>1. FinePush \subseteq Push
    BY DEF FinePush
<1>2. toDaemon \in Seq(Push)
    BY <1>1 DEF SessionInv, LinkFine
<1> QED BY <1>2 DEF SessionInv, Good, TasksFine, SidesFine, LinkFine, TypeOK,
                    RecordDiscipline

\* Every step but the return of a record keeps the invariant
LEMMA StepKeeps ==
    ASSUME SessionInv, [Next /\ NoRestore]_vars
    PROVE  SessionInv'
<1>1. CASE UNCHANGED vars
    BY <1>1 DEF vars, SessionInv, Good, EditsLive, TasksFine, SidesFine, LinkFine
<1>2. CASE Users
    BY <1>2, UsersKeep
<1>3. CASE Plugin
    BY <1>3, PluginKeeps
<1>4. CASE Processor
    BY <1>4, FsEventKeeps, ClientEventKeeps DEF Processor
<1>5. CASE Resolvers /\ NoRestore
    BY <1>5, ResolversKeep
<1>6. ASSUME NEW k \in DOMAIN engine.parked, NEW keep \in {"local", "studio"},
             Resolve(k, keep)
      PROVE  SessionInv'
    BY <1>6, ResolveKeeps
<1>7. ASSUME NEW i \in Instance, WindowElapses(i)
      PROVE  SessionInv'
    BY <1>7, WindowKeeps
<1> QED BY <1>1, <1>2, <1>3, <1>4, <1>5, <1>6, <1>7 DEF Next

\* A session in which no failed POST /resolve puts its record back stays well typed
THEOREM SessionTyped == Spec /\ [][NoRestore]_vars => []TypeOK
<1>1. Spec /\ [][NoRestore]_vars => Init /\ [][Next /\ NoRestore]_vars
    BY PTL DEF Spec
<1> QED BY <1>1, InitFine, StepKeeps, InvSuffices, PTL

\* ... and its records stay disciplined: one record an instance, classified by its
\* sides; no parked instance with an unconfirmed edit or a tombstone; and an
\* unconfirmed edit over the baseline it replaces (conflict/mod.rs)
THEOREM RecordsDisciplined == Spec /\ [][NoRestore]_vars => []RecordDiscipline
<1>1. Spec /\ [][NoRestore]_vars => Init /\ [][Next /\ NoRestore]_vars
    BY PTL DEF Spec
<1> QED BY <1>1, InitFine, StepKeeps, InvSuffices, PTL
=============================================================================
