--------------------------- MODULE ReconnectProofs ---------------------------
(***************************************************************************)
(* The properties of Reconnect, for every set of paths, every setting and  *)
(* any number of edits and connects.  All but the first are about          *)
(* instances without sidecars (Rest = {Plain}): a sidecar that only one    *)
(* side has is carried over by the merge, and the two sides then differ.   *)
(***************************************************************************)
EXTENDS Reconnect, PlanProofs

-----------------------------------------------------------------------------
(* The base *)

\* view is t, with what b had at the paths in held
IsRecord(view, b, t, held) ==
    /\ view.ambiguous = {}
    /\ view.entries = [p \in DOMAIN view.entries |-> view.entries[p]]
    /\ \A p : p \in DOMAIN view.entries <=>
                \/ p \in DOMAIN t /\ p \notin held
                \/ p \in held /\ \E old \in b : p \in DOMAIN old.entries
    /\ \A p \in DOMAIN t \ held : view.entries[p] = KeyOf(t[p])
    /\ \A p \in held : \A old : b = {old} /\ p \in DOMAIN old.entries =>
          view.entries[p] = old.entries[p]

\* commit_sync_base records such a view
LEMMA RecordMeans ==
    ASSUME NEW b, NEW t, NEW held
    PROVE  \E view : Record(b, t, held) = {view} /\ IsRecord(view, b, t, held)
<1> DEFINE snapshot == [SnapshotTree(Keys(t), held) EXCEPT !.held = held]
           kept == {p \in held : \E old \in b : p \in DOMAIN old.entries}
           entries == [p \in (DOMAIN t \ held) \cup kept |->
                          IF p \in kept THEN Unwrap(b).entries[p] ELSE KeyOf(t[p])]
           view == Merge(b, snapshot, None)
<1>1. /\ snapshot.held = held /\ snapshot.ambiguous = {}
      /\ DOMAIN snapshot.entries = DOMAIN t \ held
      /\ \A p \in DOMAIN t \ held : snapshot.entries[p] = KeyOf(t[p])
    BY DEF SnapshotTree, Keys
<1>2. Record(b, t, held) = {view}
    BY DEF Record, Some
<1> HIDE DEF snapshot
<1>3. view.ambiguous = {} /\ view.entries = entries
    BY <1>1 DEF Merge
<1>4. ASSUME NEW old, b = {old} PROVE Unwrap(b) = old
    BY <1>4 DEF Unwrap
<1> HIDE DEF view
<1>5. /\ \A p : p \in DOMAIN entries <=>
                   \/ p \in DOMAIN t /\ p \notin held
                   \/ p \in held /\ \E old \in b : p \in DOMAIN old.entries
      /\ \A p \in DOMAIN t \ held : entries[p] = KeyOf(t[p])
      /\ entries = [p \in DOMAIN entries |-> entries[p]]
    OBVIOUS
<1>6. \A p \in held : \A old : b = {old} /\ p \in DOMAIN old.entries => entries[p] = old.entries[p]
    BY <1>4
<1> HIDE DEF entries
<1> WITNESS view
<1> QED
    BY <1>2, <1>3, <1>5, <1>6 DEF IsRecord

\* What is recorded is of the tree or was recorded before
LEMMA RecordDomain ==
    ASSUME NEW P, NEW b, NEW t, NEW held, DOMAIN t \subseteq P,
           \A view \in b : DOMAIN view.entries \subseteq P
    PROVE  \A view \in Record(b, t, held) : DOMAIN view.entries \subseteq P
<1>1. PICK view : Record(b, t, held) = {view} /\ IsRecord(view, b, t, held)
    BY RecordMeans
<1>2. DOMAIN view.entries \subseteq P
    BY <1>1 DEF IsRecord
<1> QED
    BY <1>1, <1>2

\* What is recorded is such a view
LEMMA RecordOneView ==
    ASSUME NEW b, NEW t, NEW held
    PROVE  \E view : Record(b, t, held) = {view} /\ view.ambiguous = {}
<1>1. PICK view : Record(b, t, held) = {view} /\ IsRecord(view, b, t, held)
    BY RecordMeans
<1> QED
    BY <1>1 DEF IsRecord

\* With nothing held the whole tree is recorded
LEMMA RecordWhole ==
    ASSUME NEW b, NEW t
    PROVE  \A view \in Record(b, t, {}) : view.entries = Keys(t)
<1>1. PICK view : Record(b, t, {}) = {view} /\ IsRecord(view, b, t, {})
    BY RecordMeans
<1>2. /\ view.entries = [p \in DOMAIN view.entries |-> view.entries[p]]
      /\ DOMAIN view.entries = DOMAIN t
      /\ \A p \in DOMAIN t : view.entries[p] = KeyOf(t[p])
    BY <1>1 DEF IsRecord
<1>3. view.entries = Keys(t)
    BY <1>2 DEF Keys
<1> QED
    BY <1>1, <1>3

-----------------------------------------------------------------------------
(* WinnersYield *)

\* An edit removes an instance, or puts one somewhere
LEMMA EditsMean ==
    ASSUME NEW t, NEW u \in Edits(t)
    PROVE  \/ \E p \in DOMAIN t : u = Without(t, {p})
           \/ \E p \in setting.paths : \E c \in Allowed(p), P \in {{}, {p}} :
                 u = With(Without(t, P), p, c) /\ IsTree(u)
BY DEF Edits

\* An edit stays within the paths of the setting
LEMMA EditsDomain ==
    ASSUME NEW t, NEW u \in Edits(t)
    PROVE  DOMAIN u \subseteq DOMAIN t \cup setting.paths
<1>1. CASE \E p \in DOMAIN t : u = Without(t, {p})
    BY <1>1, WithoutDomain
<1>2. CASE \E p \in setting.paths : \E c \in Allowed(p), P \in {{}, {p}} :
              u = With(Without(t, P), p, c) /\ IsTree(u)
    <2>1. PICK p \in setting.paths : \E c \in Allowed(p), P \in {{}, {p}} : u = With(Without(t, P), p, c)
        BY <1>2
    <2>2. PICK c \in Allowed(p), P \in {{}, {p}} : u = With(Without(t, P), p, c)
        BY <2>1
    <2>3. DOMAIN u = DOMAIN Without(t, P) \cup {p}
        BY <2>2, WithMeans
    <2> QED
        BY <2>3, WithoutDomain
<1> QED
    BY <1>1, <1>2, EditsMean

\* An edited tree is a tree
LEMMA EditsTree ==
    ASSUME setting \in Settings, NEW t \in Tree, NEW u \in Edits(t)
    PROVE  u \in Tree
<1>0. setting.paths \subseteq Path /\ DOMAIN t \subseteq Path
    BY ReconnectAssumption, TreeMeans
<1>1. CASE \E p \in DOMAIN t : u = Without(t, {p})
    BY <1>0, <1>1, WithoutTree
<1>2. CASE \E p \in setting.paths : \E c \in Allowed(p), P \in {{}, {p}} :
              u = With(Without(t, P), p, c) /\ IsTree(u)
    <2>1. PICK p \in setting.paths : \E c \in Allowed(p), P \in {{}, {p}} :
              u = With(Without(t, P), p, c) /\ IsTree(u)
        BY <1>2
    <2>2. PICK c \in Allowed(p), P \in {{}, {p}} : u = With(Without(t, P), p, c) /\ IsTree(u)
        BY <2>1
    <2> DEFINE v == Without(t, P)
    <2>3. v \in Tree
        BY <1>0, WithoutTree
    <2>4. DOMAIN v \subseteq Path /\ \A q \in DOMAIN v : v[q] \in Content
        BY <2>3, TreeMeans
    <2>5. c \in Content
        BY DEF Allowed, Content
    <2> HIDE DEF v
    <2>6. u = With(v, p, c)
        BY <2>2 DEF v
    <2>7. /\ DOMAIN u \subseteq Path /\ u = [q \in DOMAIN u |-> u[q]]
          /\ \A q \in DOMAIN u : u[q] \in Content
        <3>1. /\ DOMAIN u = DOMAIN v \cup {p}
              /\ u = [q \in DOMAIN u |-> u[q]] /\ u[p] = c
              /\ \A q \in DOMAIN v : q # p => u[q] = v[q]
            <4> DEFINE x == With(v, p, c)
            <4>1. /\ DOMAIN x = DOMAIN v \cup {p}
                  /\ x = [q \in DOMAIN x |-> x[q]] /\ x[p] = c
                  /\ \A q \in DOMAIN v : q # p => x[q] = v[q]
                BY DEF With
            <4> HIDE DEF x
            <4>2. u = x
                BY <2>6 DEF x
            <4> QED
                BY <4>1, <4>2
        <3> QED
            BY <1>0, <2>4, <2>5, <3>1
    <2> QED
        BY <2>2, <2>7, TreeIs DEF IsTree
<1> QED
    BY <1>1, <1>2, EditsMean

\* Both sides and the base are about the paths of the setting
Placed ==
    /\ setting \in Settings
    /\ DOMAIN disk \subseteq setting.paths /\ DOMAIN studio \subseteq setting.paths
    /\ \A view \in base : DOMAIN view.entries \subseteq setting.paths

LEMMA PlacedInit == Init => Placed
<1> SUFFICES ASSUME Init PROVE Placed
    OBVIOUS
<1>1. setting \in Settings /\ DOMAIN disk \subseteq setting.paths /\ studio = disk
    BY DEF Init
<1>2. base = {} \/ base = Record({}, disk, {})
    BY DEF Init
<1>3. \A view \in Record({}, disk, {}) : DOMAIN view.entries \subseteq setting.paths
    BY <1>1, RecordDomain
<1> QED
    BY <1>1, <1>2, <1>3 DEF Placed

\* Every step keeps that
LEMMA PlacedStep == Placed /\ [Next]_vars => Placed'
<1> SUFFICES ASSUME Placed, [Next]_vars
             PROVE  Placed'
    OBVIOUS
<1> DEFINE P == setting.paths
<1>0. /\ setting \in Settings /\ DOMAIN disk \subseteq P /\ DOMAIN studio \subseteq P
      /\ \A view \in base : DOMAIN view.entries \subseteq P
    BY DEF Placed
<1>7. setting' = setting
    BY DEF Next, vars, DiskEdit, StudioEdit, Connect, Deliver, Settle, Disconnect
<1>1. ASSUME NEW t \in Edits(disk), DiskEdit(t) PROVE Placed'
    BY <1>0, <1>1, <1>7, EditsDomain DEF DiskEdit, Placed
<1>2. ASSUME NEW t \in Edits(studio), StudioEdit(t) PROVE Placed'
    BY <1>0, <1>2, <1>7, EditsDomain DEF StudioEdit, Placed
<1>3. ASSUME NEW hashes \in BOOLEAN, NEW truncated \in BOOLEAN, NEW queued \in BOOLEAN,
             Connect(hashes, truncated, queued)
      PROVE  Placed'
    <2> DEFINE w == Decide(base, Diff(disk, studio), disk, studio, hashes, truncated)
               held == {item.path : item \in ToPush(w, disk, studio)}
    <2>1. disk' = Merged(w, disk, studio) /\ base' = Record(base, disk', held) /\ studio' = studio
        BY <1>3 DEF Connect
    <2> HIDE DEF w, held
    <2>2. DOMAIN disk' \subseteq P
        BY <1>0, <2>1, MergedDomain
    <2>3. \A view \in Record(base, disk', held) : DOMAIN view.entries \subseteq P
        BY <1>0, <2>2, RecordDomain
    <2> QED
        BY <1>0, <1>7, <2>1, <2>2, <2>3 DEF Placed
<1>4. ASSUME Deliver PROVE Placed'
    <2>1. studio' = Applied(pushes, disk, studio) /\ disk' = disk /\ base' = base
        BY <1>4 DEF Deliver
    <2>2. DOMAIN studio' \subseteq P
        BY <1>0, <2>1, AppliedDomain
    <2> QED
        BY <1>0, <1>7, <2>1, <2>2 DEF Placed
<1>5. ASSUME Settle PROVE Placed'
    <2>1. base' = Record(base, disk, {}) /\ disk' = disk /\ studio' = studio
        BY <1>5 DEF Settle
    <2>2. \A view \in Record(base, disk, {}) : DOMAIN view.entries \subseteq P
        BY <1>0, RecordDomain
    <2> QED
        BY <1>0, <1>7, <2>1, <2>2 DEF Placed
<1>6. ASSUME Disconnect \/ UNCHANGED vars PROVE Placed'
    BY <1>0, <1>6, <1>7 DEF Disconnect, vars, Placed
<1> QED
    BY <1>7, <1>1, <1>2, <1>3, <1>4, <1>5, <1>6 DEF Next

\* Whatever a plugin reports, the side that a connect takes without a copy has not moved
\* since the base (three_way.rs, classify), for every tree, base and series of edits
THEOREM ConnectYields == Spec => []WinnersYield
<1>1. Placed => WinnersYield
    <2> SUFFICES ASSUME Placed,
                        NEW hashes \in BOOLEAN, NEW truncated \in BOOLEAN,
                        NEW item \in Diff(disk, studio)
                 PROVE  Yields(base, InputOf(item, Diff(disk, studio), disk, studio, hashes, truncated))
        BY DEF WinnersYield
    <2>1. /\ DOMAIN disk \subseteq Path /\ DOMAIN studio \subseteq Path
          /\ \A view \in base : DOMAIN view.entries \subseteq Path
        BY ReconnectAssumption DEF Placed
    <2> QED
        BY <2>1, DiffYields
<1> QED
    BY <1>1, PlacedInit, PlacedStep, PTL DEF Spec

-----------------------------------------------------------------------------
(* Converged *)

\* The base is one view, without ambiguous paths, or none
OneView == base = {} \/ \E view : base = {view} /\ view.ambiguous = {}

\* Both sides are trees; what disk won is on its way, and takes Studio to where disk is;
\* once nothing is, both sides hold the same, and have held it at a time
Heading ==
    /\ disk \in Tree /\ studio \in Tree /\ OneView
    /\ linked \in BOOLEAN /\ (~linked => pushes = {})
    /\ shared \in [Path -> SUBSET Content]
    /\ linked /\ pushes # {} => Applied(pushes, disk, studio) = disk
    /\ linked /\ pushes = {} /\ ~Happens("overloaded") =>
          disk = studio /\ \A p \in DOMAIN disk : disk[p] \in shared[p]

\* What a connect decides
Winners(hashes, truncated) == Decide(base, Diff(disk, studio), disk, studio, hashes, truncated)

\* A connect, without sidecars
LEMMA ConnectIs ==
    ASSUME Rest = {Plain}, disk \in Tree, studio \in Tree,
           NEW hashes \in BOOLEAN, NEW truncated \in BOOLEAN, NEW queued \in BOOLEAN,
           Connect(hashes, truncated, queued)
    PROVE  LET w == Winners(hashes, truncated)
           IN  /\ Decided(w, disk, studio)
               /\ disk' = Merged(w, disk, studio) /\ disk' \in Tree
               /\ pushes' = IF queued THEN Won(w) ELSE {}
               /\ base' = Record(base, disk', {item.path : item \in Won(w)})
               /\ settled' = (Won(w) = {})
               /\ backlog' = backlog \cup Backlogged(w, disk, studio)
<1> DEFINE w == Winners(hashes, truncated)
<1>1. Decided(w, disk, studio)
    BY DecideDecided DEF Winners
<1>2. /\ disk' = Merged(w, disk, studio)
      /\ pushes' = IF queued THEN ToPush(w, disk, studio) ELSE {}
      /\ base' = Record(base, disk', {item.path : item \in ToPush(w, disk, studio)})
      /\ settled' = (ToPush(w, disk, studio) = {})
      /\ backlog' = backlog \cup Backlogged(w, disk, studio)
    BY DEF Connect, Winners
<1> HIDE DEF w
<1>3. ToPush(w, disk, studio) = Won(w) /\ Merged(w, disk, studio) \in Tree
    BY <1>1, NoSidecars, MergedTree
<1>4. /\ Decided(w, disk, studio)
      /\ disk' = Merged(w, disk, studio) /\ disk' \in Tree
      /\ pushes' = IF queued THEN Won(w) ELSE {}
      /\ base' = Record(base, disk', {item.path : item \in Won(w)})
      /\ settled' = (Won(w) = {})
      /\ backlog' = backlog \cup Backlogged(w, disk, studio)
    BY <1>1, <1>2, <1>3
<1> QED
    BY <1>4 DEF w

\* What both sides hold joins what both have held
LEMMA MeetShares ==
    ASSUME NEW d \in Tree, NEW s, shared \in [Path -> SUBSET Content],
           shared' = [p \in Path |-> shared[p] \cup (Get(d, p) \cap Get(s, p))]
    PROVE  /\ shared' \in [Path -> SUBSET Content]
           /\ \A p \in Path : shared[p] \subseteq shared'[p]
           /\ \A p \in DOMAIN d : Get(d, p) = Get(s, p) => d[p] \in shared'[p]
<1>1. DOMAIN d \subseteq Path /\ \A p \in DOMAIN d : d[p] \in Content
    BY TreeMeans
<1>2. \A p \in Path : Get(d, p) \subseteq Content
    BY <1>1 DEF Get
<1>3. \A p \in DOMAIN d : d[p] \in Get(d, p)
    BY DEF Get
<1> QED
    BY <1>1, <1>2, <1>3

\* Nothing is on its way in the beginning
LEMMA HeadingInit == Init => Heading
<1> SUFFICES ASSUME Init PROVE Heading
    OBVIOUS
<1>1. /\ disk \in Tree /\ studio = disk /\ linked = FALSE /\ pushes = {}
      /\ base = {} \/ base = Record({}, disk, {})
      /\ shared = [p \in Path |-> Get(disk, p)]
    BY DEF Init
<1>2. OneView
    BY <1>1, RecordOneView DEF OneView
<1>3. \A p \in DOMAIN disk : disk[p] \in Content
    BY <1>1, TreeMeans
<1>4. \A p \in Path : Get(disk, p) \subseteq Content
    BY <1>3 DEF Get
<1> QED
    BY <1>1, <1>2, <1>4 DEF Heading

\* Every step keeps the heading
LEMMA HeadingStep ==
    ASSUME Rest = {Plain}
    PROVE  Placed /\ Heading /\ [Next]_vars => Heading'
<1> SUFFICES ASSUME Placed, Heading, [Next]_vars
             PROVE  Heading'
    OBVIOUS
<1>0. setting \in Settings
    BY DEF Placed
<1>1. ASSUME NEW t \in Edits(disk), DiskEdit(t) PROVE Heading'
    <2>1. t \in Tree
        BY <1>0, EditsTree DEF Heading
    <2> QED
        BY <1>1, <2>1 DEF DiskEdit, Heading, OneView, Happens
<1>2. ASSUME NEW t \in Edits(studio), StudioEdit(t) PROVE Heading'
    <2>1. t \in Tree
        BY <1>0, EditsTree DEF Heading
    <2> QED
        BY <1>2, <2>1 DEF StudioEdit, Heading, OneView, Happens
<1>3. ASSUME NEW hashes \in BOOLEAN, NEW truncated \in BOOLEAN, NEW queued \in BOOLEAN,
             Connect(hashes, truncated, queued)
      PROVE  Heading'
    <2> DEFINE w == Winners(hashes, truncated)
    <2>1. disk \in Tree /\ studio \in Tree /\ shared \in [Path -> SUBSET Content]
        BY DEF Heading
    <2>2. /\ Decided(w, disk, studio)
          /\ disk' = Merged(w, disk, studio) /\ disk' \in Tree
          /\ pushes' = IF queued THEN Won(w) ELSE {}
          /\ base' = Record(base, disk', {item.path : item \in Won(w)})
        BY <1>3, <2>1, ConnectIs
    <2>3. /\ shared' = [p \in Path |-> shared[p] \cup (Get(disk', p) \cap Get(studio, p))]
          /\ studio' = studio /\ linked' = TRUE /\ setting' = setting
          /\ queued \/ Happens("overloaded")
        BY <1>3 DEF Connect, Meet
    <2> HIDE DEF w
    <2>4. OneView'
        BY <2>2, RecordOneView DEF OneView
    <2>5. /\ shared' \in [Path -> SUBSET Content]
          /\ \A p \in DOMAIN disk' : Get(disk', p) = Get(studio, p) => disk'[p] \in shared'[p]
        BY <2>1, <2>2, <2>3, MeetShares
    <2>6. Applied(Won(w), disk', studio) = disk'
        BY <2>1, <2>2, AppliedIsMerged
    <2>7. Won(w) = {} => disk' = studio
        BY <2>1, <2>2, MergedIsStudio
    <2>8. Happens("overloaded")' <=> Happens("overloaded")
        BY <2>3 DEF Happens
    <2> QED
        BY <2>1, <2>2, <2>3, <2>4, <2>5, <2>6, <2>7, <2>8 DEF Heading
<1>4. ASSUME Deliver PROVE Heading'
    <2>1. /\ linked /\ pushes # {} /\ disk \in Tree /\ OneView
          /\ shared \in [Path -> SUBSET Content] /\ linked \in BOOLEAN
          /\ Applied(pushes, disk, studio) = disk
        BY <1>4 DEF Heading, Deliver
    <2>2. /\ studio' = disk /\ disk' = disk /\ pushes' = {} /\ linked' = linked /\ base' = base
          /\ shared' = [p \in Path |-> shared[p] \cup (Get(disk, p) \cap Get(studio', p))]
        BY <1>4, <2>1 DEF Deliver, Meet
    <2>3. /\ shared' \in [Path -> SUBSET Content]
          /\ \A p \in DOMAIN disk : disk[p] \in shared'[p]
        BY <2>1, <2>2, MeetShares
    <2> QED
        BY <2>1, <2>2, <2>3 DEF Heading, OneView
<1>5. ASSUME Settle PROVE Heading'
    <2>1. OneView'
        BY <1>5, RecordOneView DEF Settle, OneView
    <2> QED
        BY <1>5, <2>1 DEF Settle, Heading, Happens
<1>6. ASSUME Disconnect PROVE Heading'
    BY <1>6 DEF Disconnect, Heading, OneView, Happens
<1>7. CASE UNCHANGED vars
    BY <1>7 DEF vars, Heading, OneView, Happens
<1> QED
    BY <1>1, <1>2, <1>3, <1>4, <1>5, <1>6, <1>7 DEF Next

\* After a connect and the arrival of its pushes both sides hold the same (divergence.rs,
\* connect_commit), as long as no push finds the frame queue full
THEOREM ConnectConverges ==
    ASSUME Rest = {Plain}
    PROVE  Spec /\ ~Happens("overloaded") => []Converged
<1>1. Heading /\ ~Happens("overloaded") => Converged
    BY DEF Heading, Converged
<1>2. Placed /\ Heading /\ [Next]_vars => Heading'
    BY HeadingStep
<1>3. [Next]_vars => (Happens("overloaded")' <=> Happens("overloaded"))
    BY DEF Next, vars, DiskEdit, StudioEdit, Connect, Deliver, Settle, Disconnect, Happens
<1> QED
    BY <1>1, <1>2, <1>3, PlacedInit, PlacedStep, HeadingInit, PTL DEF Spec

-----------------------------------------------------------------------------
(* AgreedWasDelivered *)

\* Pushes are never dropped for a full queue, and are lost with the link only where no
\* instance is below another
Delivers ==
    /\ ~Happens("overloaded")
    /\ Happens("lost push") => \A p \in setting.paths : Len(p) = 1

\* Both sides have held such a content; a push above p carries it
Backs(p, key) == \E c \in shared[p] : KeyOf(c) = key
Rides(p, key) ==
    /\ \E item \in pushes : Within(item.path, p) /\ item.path # p
    /\ p \in DOMAIN disk /\ KeyOf(disk[p]) = key

\* The base holds nothing at the path of a push, and below it only what the push carries
Backed ==
    /\ \A item \in pushes : item.path \in Path
    /\ Delivers => \A view \in base : \A p \in DOMAIN view.entries :
                      Backs(p, view.entries[p]) \/ Rides(p, view.entries[p])

\* The setting does not change
LEMMA DeliversStep == [Next]_vars => (Delivers' <=> Delivers)
<1> SUFFICES ASSUME [Next]_vars PROVE Delivers' <=> Delivers
    OBVIOUS
<1>1. setting' = setting
    BY DEF Next, vars, DiskEdit, StudioEdit, Connect, Deliver, Settle, Disconnect
<1> QED
    BY <1>1 DEF Delivers, Happens

\* A step that leaves the base and forgets nothing of the past keeps it so
LEMMA BackedKept ==
    ASSUME Placed, Backed, pushes = {}, pushes' = {}, base' = base, Delivers' <=> Delivers,
           \A p \in Path : shared[p] \subseteq shared'[p]
    PROVE  Backed'
<1>1. \A view \in base : DOMAIN view.entries \subseteq Path
    BY ReconnectAssumption DEF Placed
<1>2. ASSUME Delivers', NEW view \in base, NEW p \in DOMAIN view.entries
      PROVE  Backs(p, view.entries[p])'
    <2>1. Backs(p, view.entries[p])
        BY <1>2 DEF Backed, Rides
    <2>2. shared[p] \subseteq shared'[p]
        BY <1>1
    <2> QED
        BY <2>1, <2>2 DEF Backs
<1> QED
    BY <1>2 DEF Backed

\* The first base is what both sides hold
LEMMA BackedInit == Init => Backed
<1> SUFFICES ASSUME Init PROVE Backed
    OBVIOUS
<1>1. /\ disk \in Tree /\ pushes = {} /\ shared = [p \in Path |-> Get(disk, p)]
      /\ base = {} \/ base = Record({}, disk, {})
    BY DEF Init
<1>2. PICK view : Record({}, disk, {}) = {view} /\ IsRecord(view, {}, disk, {})
    BY RecordMeans
<1>3. ASSUME NEW p \in DOMAIN view.entries PROVE Backs(p, view.entries[p])
    <2>1. p \in DOMAIN disk /\ view.entries[p] = KeyOf(disk[p])
        BY <1>2, <1>3 DEF IsRecord
    <2>2. p \in Path /\ disk[p] \in shared[p]
        BY <1>1, <2>1, TreeMeans DEF Get
    <2> QED
        BY <2>1, <2>2 DEF Backs
<1> QED
    BY <1>1, <1>2, <1>3 DEF Backed

\* A connect holds back the paths of its pushes
LEMMA BackedConnect ==
    ASSUME Rest = {Plain}, Placed, Heading, Backed,
           NEW hashes \in BOOLEAN, NEW truncated \in BOOLEAN, NEW queued \in BOOLEAN,
           Connect(hashes, truncated, queued)
    PROVE  Backed'
<1> DEFINE w == Winners(hashes, truncated)
           held == {item.path : item \in Won(w)}
<1>1. /\ disk \in Tree /\ studio \in Tree /\ shared \in [Path -> SUBSET Content]
      /\ ~linked /\ pushes = {} /\ OneView
    BY DEF Heading, Connect
<1>2. /\ Decided(w, disk, studio)
      /\ disk' = Merged(w, disk, studio) /\ disk' \in Tree
      /\ pushes' = IF queued THEN Won(w) ELSE {}
      /\ base' = Record(base, disk', held)
    BY <1>1, ConnectIs
<1>3. /\ shared' = [p \in Path |-> shared[p] \cup (Get(disk', p) \cap Get(studio, p))]
      /\ setting' = setting
      /\ queued \/ Happens("overloaded")
    BY DEF Connect, Meet
<1>4. \A item \in Won(w) : item.path \in Path
    BY <1>1, <1>2, DiffMeans DEF Won, Decided
<1> HIDE DEF w
<1>5. /\ \A p \in Path : shared[p] \subseteq shared'[p]
      /\ \A p \in DOMAIN disk' : Get(disk', p) = Get(studio, p) => disk'[p] \in shared'[p]
    BY <1>1, <1>2, <1>3, MeetShares
<1>6. PICK view : base' = {view} /\ IsRecord(view, base, disk', held)
    BY <1>2, RecordMeans
<1>7. ASSUME Delivers', NEW p \in DOMAIN view.entries
      PROVE  Backs(p, view.entries[p])' \/ Rides(p, view.entries[p])'
    <2>1. Delivers /\ queued
        BY <1>3, <1>7 DEF Delivers, Happens
    <2>2. CASE p \in held
        <3>1. \E old \in base : p \in DOMAIN old.entries
            BY <1>6, <1>7, <2>2 DEF IsRecord
        <3>2. PICK old : base = {old}
            BY <1>1, <3>1 DEF OneView
        <3>3. p \in DOMAIN old.entries /\ view.entries[p] = old.entries[p]
            BY <1>6, <2>2, <3>1, <3>2 DEF IsRecord
        <3>4. Backs(p, old.entries[p])
            BY <1>1, <2>1, <3>2, <3>3 DEF Backed, Rides
        <3>5. shared[p] \subseteq shared'[p]
            BY <1>4, <1>5, <2>2
        <3> QED
            BY <3>3, <3>4, <3>5 DEF Backs
    <2>3. CASE p \notin held
        <3>1. p \in DOMAIN disk' /\ view.entries[p] = KeyOf(disk'[p])
            BY <1>6, <1>7, <2>3 DEF IsRecord
        <3>2. p \in Path
            BY <1>2, <3>1, TreeMeans
        <3>3. CASE CoveredBy(Won(w), p)
            <4>1. PICK item \in Won(w) : Within(item.path, p)
                BY <3>3 DEF CoveredBy, Covers
            <4>2. item \in pushes' /\ item.path # p
                BY <1>2, <2>1, <2>3, <4>1
            <4> QED
                BY <3>1, <4>1, <4>2 DEF Rides
        <3>4. CASE ~CoveredBy(Won(w), p)
            <4>1. Get(disk', p) = Get(studio, p)
                BY <1>1, <1>2, <3>2, <3>4, MergedAt
            <4> QED
                BY <1>5, <3>1, <4>1 DEF Backs
        <3> QED
            BY <3>3, <3>4
    <2> QED
        BY <2>2, <2>3
<1>8. \A item \in pushes' : item.path \in Path
    BY <1>2, <1>4
<1> QED
    BY <1>6, <1>7, <1>8 DEF Backed

\* Every step keeps the base backed
LEMMA BackedStep ==
    ASSUME Rest = {Plain}
    PROVE  Placed /\ Heading /\ Backed /\ [Next]_vars => Backed'
<1> SUFFICES ASSUME Placed, Heading, Backed, [Next]_vars
             PROVE  Backed'
    OBVIOUS
<1>0. /\ Delivers' <=> Delivers
      /\ \A view \in base : DOMAIN view.entries \subseteq Path
      /\ DOMAIN disk \subseteq setting.paths /\ DOMAIN disk \subseteq Path
    BY DeliversStep, ReconnectAssumption DEF Placed
<1>1. ASSUME NEW t \in Edits(disk), DiskEdit(t) PROVE Backed'
    BY <1>0, <1>1, BackedKept DEF DiskEdit, Heading
<1>2. ASSUME NEW t \in Edits(studio), StudioEdit(t) PROVE Backed'
    BY <1>0, <1>2, BackedKept DEF StudioEdit, Heading
<1>3. ASSUME NEW hashes \in BOOLEAN, NEW truncated \in BOOLEAN, NEW queued \in BOOLEAN,
             Connect(hashes, truncated, queued)
      PROVE  Backed'
    BY <1>3, BackedConnect
<1>4. ASSUME Deliver PROVE Backed'
    <2>1. /\ disk \in Tree /\ shared \in [Path -> SUBSET Content]
          /\ Applied(pushes, disk, studio) = disk
        BY <1>4 DEF Heading, Deliver
    <2>2. /\ disk' = disk /\ pushes' = {} /\ base' = base
          /\ shared' = [p \in Path |-> shared[p] \cup (Get(disk, p) \cap Get(disk, p))]
        BY <1>4, <2>1 DEF Deliver, Meet
    <2>3. /\ \A p \in Path : shared[p] \subseteq shared'[p]
          /\ \A p \in DOMAIN disk : disk[p] \in shared'[p]
        BY <2>1, <2>2, MeetShares
    <2>4. ASSUME Delivers', NEW view \in base', NEW p \in DOMAIN view.entries
          PROVE  Backs(p, view.entries[p])'
        <3>1. Backs(p, view.entries[p]) \/ Rides(p, view.entries[p])
            BY <1>0, <2>2, <2>4 DEF Backed
        <3>2. shared[p] \subseteq shared'[p]
            BY <1>0, <2>2, <2>3
        <3> QED
            BY <2>3, <3>1, <3>2 DEF Backs, Rides
    <2> QED
        BY <2>2, <2>4 DEF Backed
<1>5. ASSUME Settle PROVE Backed'
    <2>1. /\ base' = Record(base, disk, {}) /\ pushes = {} /\ linked
          /\ disk' = disk /\ pushes' = pushes /\ shared' = shared
        BY <1>5 DEF Settle
    <2>2. PICK view : base' = {view} /\ IsRecord(view, base, disk, {})
        BY <2>1, RecordMeans
    <2>3. ASSUME Delivers', NEW p \in DOMAIN view.entries
          PROVE  Backs(p, view.entries[p])'
        <3>1. p \in DOMAIN disk /\ view.entries[p] = KeyOf(disk[p])
            BY <2>2, <2>3 DEF IsRecord
        <3>2. disk[p] \in shared[p]
            BY <1>0, <2>1, <2>3, <3>1 DEF Heading, Delivers
        <3> QED
            BY <2>1, <3>1, <3>2 DEF Backs
    <2> QED
        BY <2>1, <2>2, <2>3 DEF Backed
<1>6. ASSUME Disconnect PROVE Backed'
    <2>1. /\ pushes' = {} /\ base' = base /\ shared' = shared /\ disk' = disk
          /\ pushes = {} \/ Happens("lost push")
        BY <1>6 DEF Disconnect
    <2>2. ASSUME Delivers', NEW view \in base, NEW p \in DOMAIN view.entries
          PROVE  Backs(p, view.entries[p])'
        <3>1. Backs(p, view.entries[p]) \/ Rides(p, view.entries[p])
            BY <1>0, <2>2 DEF Backed
        <3>2. ASSUME Rides(p, view.entries[p]) PROVE FALSE
            <4>1. PICK item \in pushes : Within(item.path, p) /\ item.path # p
                BY <3>2 DEF Rides
            <4>2. p \in setting.paths /\ p \in Path /\ item.path \in Path
                BY <1>0, <3>2, <4>1 DEF Rides, Backed
            <4>3. Len(p) = 1
                BY <1>0, <2>1, <2>2, <4>1, <4>2 DEF Delivers
            <4>4. Len(p) > 1
                BY <4>1, <4>2, WithinFront
            <4> QED
                BY <4>3, <4>4
        <3> QED
            BY <2>1, <3>1, <3>2 DEF Backs
    <2> QED
        BY <2>1, <2>2 DEF Backed
<1>7. CASE UNCHANGED vars
    BY <1>0, <1>7 DEF vars, Backed, Backs, Rides
<1> QED
    BY <1>1, <1>2, <1>3, <1>4, <1>5, <1>6, <1>7 DEF Next

\* Only what both sides have held is recorded as agreed, or what is on its way to Studio
\* (sync_base.rs), through edits, connects, late deliveries and lost links
THEOREM BaseWasDelivered ==
    ASSUME Rest = {Plain}
    PROVE  Spec /\ Delivers => []AgreedWasDelivered
<1>1. Backed /\ Delivers => AgreedWasDelivered
    BY DEF Backed, AgreedWasDelivered, Backs, Rides, OnItsWay
<1>2. Placed /\ Heading /\ [Next]_vars => Heading'
    BY HeadingStep
<1>3. Placed /\ Heading /\ Backed /\ [Next]_vars => Backed'
    BY BackedStep
<1> QED
    BY <1>1, <1>2, <1>3, PlacedInit, PlacedStep, HeadingInit, BackedInit, DeliversStep, PTL DEF Spec

-----------------------------------------------------------------------------
(* DiskKept *)

\* What a connect does with the disk instance at p
LEMMA KeptAtConnect ==
    ASSUME Rest = {Plain}, Placed, Heading, Backed, Delivers,
           NEW hashes \in BOOLEAN, NEW truncated \in BOOLEAN, NEW queued \in BOOLEAN,
           Connect(hashes, truncated, queued), NEW p \in DOMAIN disk
    PROVE  \/ Get(disk', p) = {disk[p]} \/ disk[p] \in shared[p]
           \/ <<p, disk[p]>> \in backlog'
<1> DEFINE w == Winners(hashes, truncated)
<1>1. /\ disk \in Tree /\ studio \in Tree /\ shared \in [Path -> SUBSET Content]
      /\ ~linked /\ pushes = {} /\ OneView
    BY DEF Heading, Connect
<1>2. /\ disk' = Merged(w, disk, studio)
      /\ backlog' = backlog \cup Backlogged(w, disk, studio)
    BY <1>1, ConnectIs
<1>3. /\ p \in Path /\ disk[p] \in Content
      /\ \A view \in base : DOMAIN view.entries \subseteq Path
    BY <1>1, ReconnectAssumption, TreeMeans DEF Placed
<1>4. \/ Get(Merged(w, disk, studio), p) = {disk[p]} \/ <<p, disk[p]>> \in Backlogged(w, disk, studio)
      \/ \E view \in base : p \in DOMAIN view.entries /\ view.entries[p] = KeyOf(disk[p])
    BY <1>1, <1>3, MergeKeeps DEF Winners
<1>5. ASSUME NEW view \in base, p \in DOMAIN view.entries, view.entries[p] = KeyOf(disk[p])
      PROVE  disk[p] \in shared[p]
    <2>1. Backs(p, view.entries[p])
        BY <1>1, <1>5 DEF Backed, Rides
    <2>2. PICK c \in shared[p] : KeyOf(c) = KeyOf(disk[p])
        BY <1>5, <2>1 DEF Backs
    <2> QED
        BY <1>1, <1>3, <2>2, KeyTells
<1> HIDE DEF w
<1> QED
    BY <1>2, <1>4, <1>5

\* A connect takes no disk file that Studio has not held without leaving a copy in the
\* backlog (three_way.rs, Winner::Studio; divergence.rs, connect_commit)
THEOREM ConnectKeepsDisk ==
    ASSUME Rest = {Plain}
    PROVE  Spec /\ Delivers => DiskKept
<1>1. Placed /\ Heading /\ Backed /\ Delivers /\ [Next]_vars => [DiskKeptStep]_vars
    <2> SUFFICES ASSUME Placed, Heading, Backed, Delivers, Next, ~linked, linked',
                        NEW p \in DOMAIN disk
                 PROVE  \/ Get(disk', p) = {disk[p]} \/ disk[p] \in shared[p]
                        \/ <<p, disk[p]>> \in backlog'
        BY DEF DiskKeptStep
    <2>1. PICK hashes \in BOOLEAN, truncated \in BOOLEAN, queued \in BOOLEAN :
             Connect(hashes, truncated, queued)
        BY DEF Next, DiskEdit, StudioEdit, Deliver, Settle, Disconnect
    <2> QED
        BY <2>1, KeptAtConnect
<1>2. Placed /\ Heading /\ [Next]_vars => Heading'
    BY HeadingStep
<1>3. Placed /\ Heading /\ Backed /\ [Next]_vars => Backed'
    BY BackedStep
<1> QED
    BY <1>1, <1>2, <1>3, PlacedInit, PlacedStep, HeadingInit, BackedInit, DeliversStep, PTL
    DEF Spec, DiskKept

-----------------------------------------------------------------------------
(* SoleMoverWins *)

\* Between a connect that was recorded and the next, the base holds the last agreement
Steady ==
    /\ agreed = [p \in DOMAIN agreed |-> agreed[p]] /\ DOMAIN agreed \subseteq Path
    /\ Reliable => /\ linked /\ settled => pushes = {}
                   /\ linked /\ pushes = {} => disk = agreed
                   /\ ~linked \/ settled => \A view \in base : view.entries = Keys(agreed)

\* The last agreement when the sides come to hold d and s
Agreement(a, d, s) ==
    LET met == {p \in Path : Get(d, p) = Get(s, p)}
    IN  [p \in (DOMAIN a \ met) \cup (met \cap DOMAIN d) |-> IF p \in met THEN d[p] ELSE a[p]]

\* It is a map of paths, and all of d when the sides hold the same
LEMMA AgreementMeans ==
    ASSUME NEW a, NEW d \in Tree, NEW s, DOMAIN a \subseteq Path
    PROVE  LET n == Agreement(a, d, s)
           IN  /\ n = [p \in DOMAIN n |-> n[p]] /\ DOMAIN n \subseteq Path
               /\ s = d => n = d
<1> DEFINE met == {p \in Path : Get(d, p) = Get(s, p)}
           n == Agreement(a, d, s)
<1>1. DOMAIN d \subseteq Path /\ d = [p \in DOMAIN d |-> d[p]]
    BY TreeMeans
<1>2. n = [p \in (DOMAIN a \ met) \cup (met \cap DOMAIN d) |->
                            IF p \in met THEN d[p] ELSE a[p]]
    BY DEF Agreement
<1>3. s = d => met = Path
    OBVIOUS
<1> HIDE DEF met, n
<1>4. DOMAIN n = (DOMAIN a \ met) \cup (met \cap DOMAIN d)
    BY <1>2
<1>5. \A p \in DOMAIN n : n[p] = IF p \in met THEN d[p] ELSE a[p]
    BY <1>2
<1>6. n = [p \in DOMAIN n |-> n[p]]
    BY <1>2
<1>7. ASSUME s = d PROVE n = d
    <2>1. DOMAIN n = DOMAIN d
        BY <1>1, <1>3, <1>4, <1>7
    <2>2. \A p \in DOMAIN d : n[p] = d[p]
        BY <1>1, <1>3, <1>5, <1>7, <2>1
    <2> QED
        BY <1>1, <1>6, <2>1, <2>2
<1> QED
    BY <1>1, <1>4, <1>6, <1>7 DEF n

\* The first base, if any, holds what both sides hold
LEMMA SteadyInit == Init => Steady
<1> SUFFICES ASSUME Init PROVE Steady
    OBVIOUS
<1>1. /\ disk \in Tree /\ agreed = disk /\ linked = FALSE
      /\ base = {} \/ base = Record({}, disk, {})
    BY DEF Init
<1>2. DOMAIN disk \subseteq Path /\ disk = [p \in DOMAIN disk |-> disk[p]]
    BY <1>1, TreeMeans
<1>3. \A view \in base : view.entries = Keys(disk)
    BY <1>1, RecordWhole
<1> QED
    BY <1>1, <1>2, <1>3 DEF Steady

\* Every step keeps it steady
LEMMA SteadyStep ==
    ASSUME Rest = {Plain}
    PROVE  Placed /\ Heading /\ Steady /\ [Next]_vars => Steady'
<1> SUFFICES ASSUME Placed, Heading, Steady, [Next]_vars
             PROVE  Steady'
    OBVIOUS
<1>0. /\ agreed = [p \in DOMAIN agreed |-> agreed[p]] /\ DOMAIN agreed \subseteq Path
      /\ disk \in Tree /\ studio \in Tree
    BY DEF Steady, Heading
<1>8. Reliable' <=> Reliable
    <2>1. setting' = setting
        BY DEF Next, vars, DiskEdit, StudioEdit, Connect, Deliver, Settle, Disconnect
    <2> QED
        BY <2>1 DEF Reliable, Happens
<1>9. Reliable => ~Happens("overloaded") /\ ~Happens("lost push") /\ ~Happens("unsettled")
    BY DEF Reliable
<1>1. ASSUME NEW t \in Edits(disk), DiskEdit(t) PROVE Steady'
    BY <1>1, <1>8 DEF DiskEdit, Steady
<1>2. ASSUME NEW t \in Edits(studio), StudioEdit(t) PROVE Steady'
    BY <1>2, <1>8 DEF StudioEdit, Steady
<1>3. ASSUME NEW hashes \in BOOLEAN, NEW truncated \in BOOLEAN, NEW queued \in BOOLEAN,
             Connect(hashes, truncated, queued)
      PROVE  Steady'
    <2> DEFINE w == Winners(hashes, truncated)
    <2>1. /\ Decided(w, disk, studio)
          /\ disk' = Merged(w, disk, studio) /\ disk' \in Tree
          /\ pushes' = IF queued THEN Won(w) ELSE {}
          /\ base' = Record(base, disk', {item.path : item \in Won(w)})
          /\ settled' = (Won(w) = {})
        BY <1>0, <1>3, ConnectIs
    <2>2. /\ linked' = TRUE /\ (queued \/ Happens("overloaded"))
          /\ agreed' = Agreement(agreed, disk', studio)
        BY <1>3 DEF Connect, Meet, Agreement
    <2> HIDE DEF w
    <2>3. /\ agreed' = [p \in DOMAIN agreed' |-> agreed'[p]] /\ DOMAIN agreed' \subseteq Path
          /\ studio = disk' => agreed' = disk'
        BY <1>0, <2>1, <2>2, AgreementMeans
    <2>4. ASSUME Won(w) = {} PROVE disk' = agreed' /\ \A view \in base' : view.entries = Keys(agreed')
        <3>1. disk' = studio
            BY <1>0, <2>1, <2>4, MergedIsStudio
        <3>2. {item.path : item \in Won(w)} = {}
            BY <2>4
        <3>3. \A view \in Record(base, disk', {}) : view.entries = Keys(disk')
            BY RecordWhole
        <3> QED
            BY <2>1, <2>3, <3>1, <3>2, <3>3
    <2> QED
        BY <1>8, <1>9, <2>1, <2>2, <2>3, <2>4 DEF Steady
<1>4. ASSUME Deliver PROVE Steady'
    <2>1. linked /\ pushes # {} /\ Applied(pushes, disk, studio) = disk
        BY <1>4 DEF Deliver, Heading
    <2>2. /\ studio' = disk /\ disk' = disk /\ pushes' = {}
          /\ linked' = linked /\ settled' = settled /\ base' = base
          /\ agreed' = Agreement(agreed, disk, studio')
        BY <1>4, <2>1 DEF Deliver, Meet, Agreement
    <2>3. /\ agreed' = [p \in DOMAIN agreed' |-> agreed'[p]] /\ DOMAIN agreed' \subseteq Path
          /\ agreed' = disk
        BY <1>0, <2>2, AgreementMeans
    <2>4. Reliable => ~settled
        BY <2>1 DEF Steady
    <2> QED
        BY <1>8, <2>1, <2>2, <2>3, <2>4 DEF Steady
<1>5. ASSUME Settle PROVE Steady'
    <2>1. \A view \in Record(base, disk, {}) : view.entries = Keys(disk)
        BY RecordWhole
    <2> QED
        BY <1>5, <1>8, <2>1 DEF Settle, Steady
<1>6. ASSUME Disconnect PROVE Steady'
    BY <1>6, <1>8, <1>9 DEF Disconnect, Steady
<1>7. CASE UNCHANGED vars
    BY <1>7, <1>8 DEF vars, Steady
<1> QED
    BY <1>1, <1>2, <1>3, <1>4, <1>5, <1>6, <1>7 DEF Next

\* A connect over a reliable link after which one side only has moved
LEMMA SoleMoverAtConnect ==
    ASSUME Rest = {Plain}, Heading, Steady, Reliable, Comparable, base # {},
           NEW hashes \in BOOLEAN, NEW truncated \in BOOLEAN, NEW queued \in BOOLEAN,
           Connect(hashes, truncated, queued)
    PROVE  /\ studio = agreed => disk' = disk
           /\ disk = agreed => pushes' = {}
<1> DEFINE w == Winners(hashes, truncated)
<1>1. /\ disk \in Tree /\ studio \in Tree /\ ~linked
      /\ Alike(disk, studio)
    BY DEF Heading, Comparable, Alike, Connect
<1>2. hashes /\ ~truncated
    BY DEF Connect, Reliable
<1>3. PICK view : base = {view} /\ view.ambiguous = {}
    BY DEF Heading, OneView
<1>4. view.entries = Keys(agreed)
    BY <1>1, <1>3 DEF Steady
<1>5. /\ Decided(w, disk, studio)
      /\ disk' = Merged(w, disk, studio)
      /\ pushes' = IF queued THEN Won(w) ELSE {}
    BY <1>1, ConnectIs
<1>6. w = Decide({view}, Diff(disk, studio), disk, studio, hashes, truncated)
    BY <1>3 DEF Winners
<1> HIDE DEF w
<1>7. DOMAIN w = Diff(disk, studio)
    BY <1>5 DEF Decided
<1>8. ASSUME studio = agreed PROVE disk' = disk
    <2>1. ASSUME NEW item \in Diff(disk, studio) PROVE w[item] = ToStudio
        <3> DEFINE input == InputOf(item, Diff(disk, studio), disk, studio, hashes, truncated)
                   u == Under(studio, item.path)
        <3>1. w[item] = AgainstBase(view, input)
            BY <1>1, <1>3, <1>6, JudgedAlone
        <3>2. \A c : FromStudio(c, hashes) = {KeyOf(c)}
            BY <1>2 DEF FromStudio
        <3>3. /\ input.state = item.state /\ input.path = item.path
              /\ item.state = Differs => input.disk = Get(Keys(disk), item.path)
              /\ item.state # OnlyOnDisk => input.studio = {KeyOf(studio[item.path])}
            BY <3>2, States DEF InputOf
        <3>4. item.state = MissingOnDisk => input.below = {[r \in DOMAIN u |-> FromStudio(u[r], hashes)]}
            BY <1>2 DEF InputOf
        <3>5. [r \in DOMAIN u |-> FromStudio(u[r], hashes)] = Told(studio, item.path)
            BY <3>2 DEF Told
        <3> HIDE DEF input, u
        <3>6. AgainstBase(view, input) = ToStudio
            BY <1>1, <1>3, <1>4, <1>8, <3>3, <3>4, <3>5, StudioYields
        <3> QED
            BY <3>1, <3>6
    <2>2. Won(w) = Diff(disk, studio)
        BY <1>7, <2>1 DEF Won
    <2> QED
        BY <1>1, <1>5, <2>2, MergedIsDisk
<1>9. ASSUME disk = agreed PROVE pushes' = {}
    <2>1. ASSUME NEW item \in Diff(disk, studio) PROVE w[item] # ToStudio
        <3>1. Decide({view}, Diff(disk, studio), disk, studio, hashes, truncated)[item] # ToStudio
            BY <1>1, <1>3, <1>4, <1>9, DiskYields
        <3> QED
            BY <1>6, <3>1
    <2> QED
        BY <1>5, <1>7, <2>1 DEF Won
<1> QED
    BY <1>8, <1>9

\* When one side only has moved since the base, that side wins everywhere (sync_base.rs)
THEOREM SoleMoverWon ==
    ASSUME Rest = {Plain}
    PROVE  Spec => SoleMoverWins
<1>1. Heading /\ Steady /\ [Next]_vars => [SoleMoverStep]_vars
    <2> SUFFICES ASSUME Heading, Steady, Next, ~linked, linked', base # {}, Reliable, Comparable
                 PROVE  /\ studio = agreed => disk' = disk
                        /\ disk = agreed => pushes' = {}
        BY DEF SoleMoverStep
    <2>1. PICK hashes \in BOOLEAN, truncated \in BOOLEAN, queued \in BOOLEAN :
             Connect(hashes, truncated, queued)
        BY DEF Next, DiskEdit, StudioEdit, Deliver, Settle, Disconnect
    <2> QED
        BY <2>1, SoleMoverAtConnect
<1>2. Placed /\ Heading /\ [Next]_vars => Heading'
    BY HeadingStep
<1>3. Placed /\ Heading /\ Steady /\ [Next]_vars => Steady'
    BY SteadyStep
<1> QED
    BY <1>1, <1>2, <1>3, PlacedInit, PlacedStep, HeadingInit, SteadyInit, PTL
    DEF Spec, SoleMoverWins
==============================================================================
