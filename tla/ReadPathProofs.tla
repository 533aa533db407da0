--------------------------- MODULE ReadPathProofs ---------------------------
(***************************************************************************)
(* Proofs about what LSMEngine::get finds: the first hit on the way from   *)
(* the current table to the deepest level is the newest visible version of *)
(* the whole store, and a reader with an id in the past always finds the   *)
(* same.  Three arguments meet: the bisection of a level finds the SST     *)
(* that has the key, a first hit is the newest one because the places are  *)
(* searched from new to old (RecencyOrder), and no place is left out.      *)
(***************************************************************************)
EXTENDS LsmTreeProofs

-----------------------------------------------------------------------------
(* The first hit.                                                          *)

\* The first place with a result, and {} if there is none.
LEMMA FirstHitIs ==
  ASSUME NEW r, NEW i \in DOMAIN r, DOMAIN r \subseteq Int, r[i] # {},
         \A j \in DOMAIN r : j < i => r[j] = {}
  PROVE  FirstHit(r) = r[i]
<1> DEFINE first == CHOOSE n \in DOMAIN r : r[n] # {} /\ \A j \in DOMAIN r : j < n => r[j] = {}
<1>1. first \in DOMAIN r /\ r[first] # {} /\ \A j \in DOMAIN r : j < first => r[j] = {}
  OBVIOUS
<1> HIDE DEF first
<1>2. ~ (first < i) /\ ~ (i < first)
  BY <1>1
<1>3. first = i
  BY <1>1, <1>2
<1>4. QED
  BY <1>3 DEF FirstHit, first

LEMMA NoHit ==
  ASSUME NEW r, \A i \in DOMAIN r : r[i] = {}
  PROVE  FirstHit(r) = {}
BY DEF FirstHit

\* A hit exists if there is something to find among places numbered from a.
LEMMA SomeFirst ==
  ASSUME NEW r, NEW a \in Int, DOMAIN r \subseteq Int, \A i \in DOMAIN r : a <= i,
         NEW j \in DOMAIN r, r[j] # {}
  PROVE  \E i \in DOMAIN r : r[i] # {} /\ \A m \in DOMAIN r : m < i => r[m] = {}
<1> DEFINE S == {i - a : i \in {m \in DOMAIN r : r[m] # {}}}
<1>1. S \in SUBSET Nat /\ j - a \in S
  OBVIOUS
<1>2. PICK x \in S : \A y \in S : x <= y
  BY <1>1, LeastElement
<1>3. PICK i \in DOMAIN r : r[i] # {} /\ x = i - a
  BY <1>2
<1>4. ASSUME NEW m \in DOMAIN r, m < i, r[m] # {}  PROVE FALSE
  <2>1. m - a \in S
    BY <1>4
  <2>2. i - a <= m - a /\ m \in Int /\ i \in Int
    BY <1>2, <1>3, <2>1
  <2>3. QED
    BY <1>4, <2>2
<1>5. QED
  BY <1>3, <1>4

-----------------------------------------------------------------------------
(* Searching tables from new to old.                                       *)

\* In a set of versions whose ids have a bound, a reader finds something if there is
\* something to see.
LEMMA FindsVisible ==
  ASSUME NEW T \in SUBSET Version, NEW b \in Nat, \A v \in T : v.id <= b,
         NEW k, NEW q, VisibleTo(T, k, q) # {}
  PROVE  TableGet(T, k, q) # {}
<1> DEFINE V == VisibleTo(T, k, q)
           S == {v.id : v \in V}
<1>1. V \subseteq T /\ \A v \in V : v.id \in Nat /\ v.id <= b
  BY DEF VisibleTo, Version
<1>2. S \in SUBSET Nat /\ S # {} /\ \A x \in S : x <= b
  BY <1>1
<1>3. Max(S) \in S /\ \A x \in S : x <= Max(S)
  BY <1>2, MaxElement
<1>4. PICK v \in V : v.id = Max(S)
  BY <1>3
<1>5. \A w \in V : w.id <= v.id
  BY <1>3, <1>4
<1>6. v \in TableGet(T, k, q)
  BY <1>4, <1>5 DEF TableGet
<1>7. QED
  BY <1>6

\* The places T, numbered by D from a on, hold versions with ids up to b, the newer
\* ones in front.
NewToOld(D, a, T, b) ==
  /\ D \subseteq Int /\ a \in Int /\ b \in Nat /\ \A i \in D : a <= i
  /\ T \in [D -> SUBSET Version]
  /\ \A i \in D : \A v \in T[i] : v.id <= b
  /\ \A i, j \in D : i < j => Newer(T[i], T[j])

\* r is what a search of each of them gives.
Searched(r, D, T, k, q) == DOMAIN r = D /\ \A i \in D : r[i] = TableGet(T[i], k, q)

\* U is what they hold together.
Together(U, D, T) == \A v : v \in U <=> \E i \in D : v \in T[i]

\* The first hit is the newest version of all places.
LEMMA SearchInOrder ==
  ASSUME NEW D, NEW a, NEW T, NEW b, NewToOld(D, a, T, b),
         NEW k, NEW q, NEW r, Searched(r, D, T, k, q), NEW U, Together(U, D, T)
  PROVE  FirstHit(r) = TableGet(U, k, q)
<1> DEFINE V(i) == VisibleTo(T[i], k, q)
<1> USE DEF NewToOld, Searched, Together
<1>1. \A i \in D : r[i] = {} <=> V(i) = {}
  <2>1. \A i \in D : V(i) # {} => r[i] # {}
    BY FindsVisible
  <2>2. \A i \in D : V(i) = {} => r[i] = {}
    BY DEF TableGet
  <2>3. QED
    BY <2>1, <2>2
<1>2. \A v : v \in VisibleTo(U, k, q) <=> \E i \in D : v \in V(i)
  BY DEF VisibleTo
<1>3. CASE \A i \in D : r[i] = {}
  <2>1. FirstHit(r) = {}
    BY <1>3, NoHit
  <2>2. VisibleTo(U, k, q) = {}
    BY <1>1, <1>2, <1>3
  <2>3. QED
    BY <2>1, <2>2 DEF TableGet
<1>4. CASE \E i \in D : r[i] # {}
  <2>1. PICK i \in D : r[i] # {} /\ \A m \in D : m < i => r[m] = {}
    <3>1. PICK j \in DOMAIN r : r[j] # {}
      BY <1>4
    <3>2. QED
      BY <3>1, SomeFirst
  <2>2. FirstHit(r) = r[i]
    BY <2>1, FirstHitIs
  <2>3. \A j \in D : \A w \in V(j) : j = i \/ (i < j /\ \A v \in V(i) : v.id > w.id)
    <3>1. ASSUME NEW j \in D, NEW w \in V(j)
          PROVE  j = i \/ (i < j /\ \A v \in V(i) : v.id > w.id)
      <4>1. ~ (j < i)
        BY <1>1, <2>1
      <4>2. CASE i < j
        <5>1. V(i) \subseteq T[i] /\ w \in T[j] /\ Newer(T[i], T[j])
          BY <4>2 DEF VisibleTo
        <5>2. QED
          BY <4>2, <5>1 DEF Newer
      <4>3. QED
        BY <4>1, <4>2
    <3>2. QED
      BY <3>1
  <2>4. \A j \in D : \A v \in V(j) : v.id \in Nat
    BY DEF VisibleTo, Version
  <2> HIDE DEF V
  <2>5. PICK x : x \in V(i)
    BY <1>1, <2>1
  <2>6. ASSUME NEW v  PROVE v \in TableGet(U, k, q) <=> v \in r[i]
    <3>1. v \in TableGet(U, k, q)
            <=> (v \in VisibleTo(U, k, q) /\ \A w \in VisibleTo(U, k, q) : w.id <= v.id)
      BY DEF TableGet
    <3>2. v \in r[i] <=> (v \in V(i) /\ \A w \in V(i) : w.id <= v.id)
      BY DEF TableGet, V
    <3>3. ASSUME v \in V(i), \A w \in V(i) : w.id <= v.id
          PROVE  \A w \in VisibleTo(U, k, q) : w.id <= v.id
      BY <1>2, <2>3, <2>4, <3>3
    <3>4. ASSUME v \in VisibleTo(U, k, q), \A w \in VisibleTo(U, k, q) : w.id <= v.id
          PROVE  v \in V(i)
      BY <1>2, <2>3, <2>4, <2>5, <3>4
    <3>5. QED
      BY <1>2, <3>1, <3>2, <3>3, <3>4
  <2>7. QED
    BY <2>2, <2>6 DEF TableGet
<1>5. QED
  BY <1>3, <1>4

-----------------------------------------------------------------------------
(* One SST.                                                                *)

\* The first and the last key of a table with entries.
LEMMA KeyRange ==
  ASSUME NEW t \in Tables, t # {}
  PROVE  /\ LastKey(t) \in KeysOf(t) /\ \A x \in KeysOf(t) : x <= LastKey(t)
         /\ FirstKey(t) \in KeysOf(t) /\ \A x \in KeysOf(t) : x = Marker \/ FirstKey(t) <= x
         /\ KeysOf(t) \subseteq Nat
<1>1. t \subseteq Version /\ IsFiniteSet(t)
  BY DEF Tables
<1>2. KeysOf(t) \in SUBSET Nat /\ KeysOf(t) # {}
  BY <1>1, KeyIsNat DEF KeysOf
<1>3. IsFiniteSet(KeysOf(t))
  <2>1. KeysOf(t) \subseteq AllKeys /\ IsFiniteSet(AllKeys)
    <3>1. IsFiniteSet(Keys \cup {Marker})
      BY KeysAssumption, FS_AddElement
    <3>2. QED
      BY <1>1, <3>1 DEF KeysOf, AllKeys, Version
  <2>2. QED
    BY <2>1, FS_Subset
<1>4. LastKey(t) \in KeysOf(t) /\ \A x \in KeysOf(t) : x <= LastKey(t)
  BY <1>2, <1>3, FiniteMax DEF LastKey
<1>5. CASE KeysOf(t) \subseteq {Marker}
  BY <1>2, <1>4, <1>5 DEF FirstKey
<1>6. CASE ~ (KeysOf(t) \subseteq {Marker})
  <2> DEFINE S == KeysOf(t) \ {Marker}
  <2>1. S \in SUBSET Nat /\ S # {}
    BY <1>2, <1>6
  <2>2. PICK m \in S : \A y \in S : m <= y
    BY <2>1, LeastElement
  <2>3. Min(S) \in S /\ \A y \in S : Min(S) <= y
    BY <2>2 DEF Min
  <2>4. FirstKey(t) = Min(S)
    BY <1>6 DEF FirstKey
  <2>5. QED
    BY <1>2, <1>4, <2>3, <2>4
<1>7. QED
  BY <1>5, <1>6

\* A key outside the key range of an SST is not in it, so that the range check of
\* SST::get loses nothing.
LEMMA SstGetIs ==
  ASSUME NEW t \in Tables, NEW k \in Keys, NEW q
  PROVE  SstGet(t, k, q) = TableGet(t, k, q)
<1>1. k \in Nat /\ k # Marker
  BY KeysAssumption DEF Marker
<1>2. CASE k \in KeysOf(t)
  <2>1. t # {}
    BY <1>2 DEF KeysOf
  <2>2. InRange(t, k)
    BY <1>1, <1>2, <2>1, KeyRange DEF InRange
  <2>3. QED
    BY <2>2 DEF SstGet
<1>3. CASE k \notin KeysOf(t)
  <2>1. TableGet(t, k, q) = {}
    BY <1>3 DEF TableGet, VisibleTo, KeysOf
  <2>2. QED
    BY <2>1 DEF SstGet
<1>4. QED
  BY <1>2, <1>3

-----------------------------------------------------------------------------
(* The bisection of a level.                                               *)

\* The body of the recursion in BinarySearch, with f for the recursive call.
Bisect(ssts, k, f, w) ==
  LET mid == w[1] + (w[2] - w[1]) \div 2
      t   == ssts[mid + 1].table
  IN  IF w[1] >= w[2]       THEN 0
      ELSE IF InRange(t, k)  THEN mid + 1
      ELSE IF LastKey(t) < k THEN f[<<mid + 1, w[2]>>]
      ELSE f[<<w[1], mid>>]

Windows(n) == (0 .. n) \X (0 .. n)

\* The windows of at most m SSTs, in a level of n.
Small(n, m) == {w \in Windows(n) : w[2] - w[1] <= m}

\* The middle of a window, and the windows on either side of it.
LEMMA Halves ==
  ASSUME NEW n \in Nat, NEW m \in Nat, NEW w \in Small(n, m + 1), w[1] < w[2]
  PROVE  LET mid == w[1] + (w[2] - w[1]) \div 2
         IN  /\ mid \in w[1] .. w[2] - 1 /\ mid + 1 \in 1 .. n
             /\ <<mid + 1, w[2]>> \in Small(n, m) /\ <<w[1], mid>> \in Small(n, m)
<1> DEFINE mid == w[1] + (w[2] - w[1]) \div 2
<1>1. w[1] \in 0 .. n /\ w[2] \in 0 .. n /\ w[2] - w[1] <= m + 1
  BY DEF Small, Windows
<1>2. mid \in w[1] .. w[2] - 1
  BY <1>1
<1> HIDE DEF mid
<1>3. mid \in 0 .. n /\ mid + 1 \in 0 .. n /\ mid + 1 \in 1 .. n
  BY <1>1, <1>2
<1>4. w[2] - (mid + 1) <= m /\ mid - w[1] <= m
  BY <1>1, <1>2
<1>5. <<mid + 1, w[2]>> \in Small(n, m) /\ <<w[1], mid>> \in Small(n, m)
  BY <1>1, <1>3, <1>4 DEF Small, Windows
<1>6. QED
  BY <1>2, <1>3, <1>5 DEF mid

\* The recursion is well-founded: there is a function that solves its equation.
LEMMA BisectionExists ==
  ASSUME NEW ssts \in Seq(Sst), NEW k
  PROVE  \E f : f = [w \in Windows(Len(ssts)) |-> Bisect(ssts, k, f, w)]
<1> DEFINE n == Len(ssts)
           Solves(f, m) == f = [w \in Small(n, m) |-> Bisect(ssts, k, f, w)]
           S == {m \in Nat : \E f : Solves(f, m)}
<1>1. n \in Nat
  OBVIOUS
<1> HIDE DEF n
<1>2. 0 \in S
  <2> DEFINE f == [w \in Small(n, 0) |-> 0]
  <2>1. \A w \in Small(n, 0) : w[1] >= w[2]
    BY <1>1 DEF Small, Windows
  <2>2. Solves(f, 0)
    BY <2>1 DEF Bisect
  <2>3. QED
    BY <2>2
<1>3. ASSUME NEW m \in S  PROVE m + 1 \in S
  <2>1. PICK g : Solves(g, m)
    BY <1>3
  <2> DEFINE f == [w \in Small(n, m + 1) |-> Bisect(ssts, k, g, w)]
  <2>2. m \in Nat /\ Small(n, m) \subseteq Small(n, m + 1)
    BY <1>1 DEF Small, Windows
  <2>3. \A w \in Small(n, m) : f[w] = g[w]
    BY <2>1, <2>2
  <2>4. ASSUME NEW w \in Small(n, m + 1)
        PROVE  Bisect(ssts, k, f, w) = Bisect(ssts, k, g, w)
    <3> HIDE DEF f
    <3>1. w[1] \in Int /\ w[2] \in Int
      BY <1>1 DEF Small, Windows
    <3>2. CASE w[1] < w[2]
      <4> DEFINE mid == w[1] + (w[2] - w[1]) \div 2
      <4>1. <<mid + 1, w[2]>> \in Small(n, m) /\ <<w[1], mid>> \in Small(n, m)
        BY <1>1, <2>2, <3>2, Halves
      <4>2. f[<<mid + 1, w[2]>>] = g[<<mid + 1, w[2]>>] /\ f[<<w[1], mid>>] = g[<<w[1], mid>>]
        BY <2>3, <4>1
      <4>3. QED
        BY <4>2 DEF Bisect
    <3>3. CASE w[1] >= w[2]
      BY <3>3 DEF Bisect
    <3>4. QED
      BY <3>1, <3>2, <3>3
  <2>5. Solves(f, m + 1)
    BY <2>4
  <2> HIDE DEF f, Solves
  <2>6. m + 1 \in Nat /\ \E h : Solves(h, m + 1)
    BY <2>2, <2>5
  <2>7. QED
    BY <2>6
<1>4. S = Nat
  BY <1>2, <1>3, NatInductionSet
<1>5. PICK f : Solves(f, n)
  BY <1>1, <1>4
<1>6. Small(n, n) = Windows(n)
  BY <1>1 DEF Small, Windows
<1>7. f = [w \in Windows(n) |-> Bisect(ssts, k, f, w)]
  BY <1>5, <1>6
<1>8. QED
  BY <1>7 DEF n

\* An SST before the one with the key ends below the key, one after it begins above it.
LEMMA KeyAtOne ==
  ASSUME NEW ssts \in Seq(Sst), SortedSsts(ssts), \A i \in DOMAIN ssts : ssts[i].table # {},
         NEW k \in Keys, NEW j \in DOMAIN ssts, k \in KeysOf(ssts[j].table), NEW i \in DOMAIN ssts
  PROVE  /\ i = j => InRange(ssts[i].table, k)
         /\ i < j => ~ InRange(ssts[i].table, k) /\ LastKey(ssts[i].table) < k
         /\ i > j => ~ InRange(ssts[i].table, k) /\ ~ (LastKey(ssts[i].table) < k)
<1> DEFINE t == ssts[i].table
<1>1. k \in Nat /\ k # Marker /\ k > 0 /\ Marker = 0
  BY KeysAssumption DEF Marker
<1>2. t \in Tables /\ t # {} /\ i \in Nat /\ j \in Nat
  <2>1. i \in Nat /\ j \in Nat /\ ssts[i] \in Sst
    OBVIOUS
  <2>2. QED
    BY <2>1 DEF Sst
<1>3. /\ LastKey(t) \in KeysOf(t) /\ \A x \in KeysOf(t) : x <= LastKey(t)
      /\ FirstKey(t) \in KeysOf(t) /\ \A x \in KeysOf(t) : x = Marker \/ FirstKey(t) <= x
      /\ KeysOf(t) \subseteq Nat
  BY <1>2, KeyRange
<1>4. PICK v \in ssts[j].table : v.key = k
  BY DEF KeysOf
<1> HIDE DEF t
<1>5. CASE i = j
  <2>1. k \in KeysOf(t)
    BY <1>5 DEF t
  <2>2. InRange(t, k)
    BY <1>1, <1>3, <2>1 DEF InRange
  <2>3. QED
    BY <1>2, <1>5, <2>2 DEF t
<1>6. CASE i < j
  <2>1. \A x \in KeysOf(t) : x < k
    BY <1>4, <1>6 DEF SortedSsts, KeysOf, t
  <2>2. LastKey(t) < k /\ LastKey(t) \in Nat
    BY <1>3, <2>1
  <2>3. ~ InRange(t, k)
    BY <1>1, <2>2 DEF InRange
  <2>4. QED
    BY <1>2, <1>6, <2>2, <2>3 DEF t
<1>7. CASE i > j
  <2>1. \A x \in KeysOf(t) : k < x
    BY <1>2, <1>4, <1>7 DEF SortedSsts, KeysOf, t
  <2>2. k < FirstKey(t) /\ k < LastKey(t) /\ FirstKey(t) \in Nat /\ LastKey(t) \in Nat
    BY <1>3, <2>1
  <2>3. ~ InRange(t, k) /\ ~ (LastKey(t) < k)
    BY <1>1, <2>2 DEF InRange
  <2>4. QED
    BY <1>2, <1>7, <2>3 DEF t
<1>8. QED
  BY <1>2, <1>5, <1>6, <1>7

\* SSTs in order and none of them empty.
Ordered(ssts) == SortedSsts(ssts) /\ \A i \in DOMAIN ssts : ssts[i].table # {}

\* The bisection ends at an SST or at none, and if the SSTs are in order at the one
\* that has the key, if there is one.
LEMMA BisectionFinds ==
  ASSUME NEW ssts \in Seq(Sst), NEW k \in Keys
  PROVE  /\ BinarySearch(ssts, k) \in 0 .. Len(ssts)
         /\ Ordered(ssts) => \A j \in DOMAIN ssts :
              k \in KeysOf(ssts[j].table) => BinarySearch(ssts, k) = j
<1> DEFINE n == Len(ssts)
           f == CHOOSE f : f = [w \in Windows(n) |-> Bisect(ssts, k, f, w)]
           Good(w, j) == Ordered(ssts) /\ w[1] < j /\ j <= w[2] => f[w] = j
           S == {m \in Nat : \A w \in Small(n, m) :
                   /\ f[w] \in 0 .. n
                   /\ \A j \in DOMAIN ssts : k \in KeysOf(ssts[j].table) => Good(w, j)}
<1>1. n \in Nat /\ DOMAIN ssts = 1 .. n
  OBVIOUS
<1>2. BinarySearch(ssts, k) = f[<<0, n>>]
  BY DEF BinarySearch, Windows, Bisect
<1>3. f = [w \in Windows(n) |-> Bisect(ssts, k, f, w)]
  BY BisectionExists
<1> HIDE DEF n, f
<1>4. \A w \in Windows(n) : f[w] = Bisect(ssts, k, f, w) /\ w[1] \in 0 .. n /\ w[2] \in 0 .. n
  BY <1>3 DEF Windows
<1>5. 0 \in S
  <2>1. ASSUME NEW w \in Small(n, 0)
        PROVE  /\ f[w] \in 0 .. n
               /\ \A j \in DOMAIN ssts : k \in KeysOf(ssts[j].table) => Good(w, j)
    <3>1. w \in Windows(n) /\ w[1] >= w[2]
      BY <1>1 DEF Small, Windows
    <3>2. f[w] = 0
      BY <1>4, <3>1 DEF Bisect
    <3>3. \A j \in DOMAIN ssts : ~ (w[1] < j /\ j <= w[2])
      BY <1>1, <1>4, <3>1
    <3>4. QED
      BY <1>1, <3>2, <3>3
  <2>2. QED
    BY <2>1
<1>6. ASSUME NEW m \in S  PROVE m + 1 \in S
  <2>1. m \in Nat /\ m + 1 \in Nat
    OBVIOUS
  <2>2. ASSUME NEW w \in Small(n, m + 1)
        PROVE  /\ f[w] \in 0 .. n
               /\ \A j \in DOMAIN ssts : k \in KeysOf(ssts[j].table) => Good(w, j)
    <3>1. /\ w \in Windows(n) /\ w[1] \in 0 .. n /\ w[2] \in 0 .. n
          /\ f[w] = Bisect(ssts, k, f, w)
      BY <1>4 DEF Small
    <3>2. CASE w[1] >= w[2]
      <4>1. f[w] = 0
        BY <3>1, <3>2 DEF Bisect
      <4>2. \A j \in DOMAIN ssts : ~ (w[1] < j /\ j <= w[2])
        BY <1>1, <3>1, <3>2
      <4>3. QED
        BY <1>1, <4>1, <4>2
    <3>3. CASE w[1] < w[2]
      <4> DEFINE mid == w[1] + (w[2] - w[1]) \div 2
                 t == ssts[mid + 1].table
                 r == <<mid + 1, w[2]>>
                 l == <<w[1], mid>>
      <4>1. /\ mid \in w[1] .. w[2] - 1 /\ mid + 1 \in 1 .. n
            /\ r \in Small(n, m) /\ l \in Small(n, m)
        BY <1>1, <2>1, <3>3, Halves
      <4>2. f[w] = IF InRange(t, k) THEN mid + 1 ELSE IF LastKey(t) < k THEN f[r] ELSE f[l]
        BY <3>1, <3>3 DEF Bisect
      <4>3. /\ f[l] \in 0 .. n /\ f[r] \in 0 .. n
            /\ \A j \in DOMAIN ssts : k \in KeysOf(ssts[j].table) => Good(l, j) /\ Good(r, j)
        BY <4>1
      <4>4. l[1] = w[1] /\ l[2] = mid /\ r[1] = mid + 1 /\ r[2] = w[2]
        OBVIOUS
      <4> HIDE DEF mid, l, r
      <4>5. f[w] \in 0 .. n
        BY <1>1, <4>1, <4>2, <4>3
      <4>6. ASSUME NEW j \in DOMAIN ssts, k \in KeysOf(ssts[j].table), Ordered(ssts),
                   w[1] < j, j <= w[2]
            PROVE  f[w] = j
        <5>1. /\ mid + 1 = j => InRange(t, k)
              /\ mid + 1 < j => ~ InRange(t, k) /\ LastKey(t) < k
              /\ mid + 1 > j => ~ InRange(t, k) /\ ~ (LastKey(t) < k)
          <6> DEFINE i == mid + 1
          <6>1. i \in DOMAIN ssts
            BY <1>1, <4>1
          <6>2. SortedSsts(ssts) /\ \A x \in DOMAIN ssts : ssts[x].table # {}
            BY <4>6 DEF Ordered
          <6> HIDE DEF i
          <6>3. /\ i = j => InRange(ssts[i].table, k)
                /\ i < j => ~ InRange(ssts[i].table, k) /\ LastKey(ssts[i].table) < k
                /\ i > j => ~ InRange(ssts[i].table, k) /\ ~ (LastKey(ssts[i].table) < k)
            BY <4>6, <6>1, <6>2, KeyAtOne
          <6>4. QED
            BY <6>3 DEF i
        <5>2. Good(l, j) /\ Good(r, j)
          BY <4>3, <4>6
        <5> HIDE DEF t
        <5>3. CASE mid + 1 = j
          BY <4>2, <5>1, <5>3
        <5>4. CASE mid + 1 < j
          BY <4>2, <4>4, <4>6, <5>1, <5>2, <5>4
        <5>5. CASE mid + 1 > j
          <6>1. j <= mid
            BY <1>1, <4>1, <5>5
          <6>2. QED
            BY <4>2, <4>4, <4>6, <5>1, <5>2, <5>5, <6>1
        <5>6. QED
          BY <1>1, <4>1, <5>3, <5>4, <5>5
      <4>7. QED
        BY <4>5, <4>6
    <3>4. QED
      BY <3>1, <3>2, <3>3
  <2>3. QED
    BY <2>1, <2>2
<1>7. S = Nat
  BY <1>5, <1>6, NatInductionSet
<1>8. <<0, n>> \in Small(n, n)
  BY <1>1 DEF Small, Windows
<1>9. n \in S
  BY <1>1, <1>7
<1>10. /\ f[<<0, n>>] \in 0 .. n
       /\ \A j \in DOMAIN ssts : k \in KeysOf(ssts[j].table) => Good(<<0, n>>, j)
  BY <1>8, <1>9
<1>11. Ordered(ssts) => \A j \in DOMAIN ssts : k \in KeysOf(ssts[j].table) => f[<<0, n>>] = j
  <2>1. \A j \in DOMAIN ssts : <<0, n>>[1] < j /\ j <= <<0, n>>[2]
    BY <1>1
  <2>2. QED
    BY <1>10, <2>1
<1>12. QED
  BY <1>2, <1>10, <1>11 DEF n

\* LSMEngine::get on one level below L0 finds the newest visible version of the level.
LEMMA LevelGetIs ==
  ASSUME NEW l \in Level, l # 0, levels \in [Level -> Seq(Sst)], SortedSsts(levels[l]),
         \A i \in DOMAIN levels[l] : levels[l][i].table # {}, NEW k \in Keys, NEW q
  PROVE  LevelGet(l, k, q) = TableGet(LevelVersions(levels, l), k, q)
<1> DEFINE ssts == levels[l]
           i == BinarySearch(ssts, k)
<1>1. ssts \in Seq(Sst) /\ DOMAIN ssts = 1 .. Len(ssts) /\ Len(ssts) \in Nat
  OBVIOUS
<1>2. /\ i \in 0 .. Len(ssts)
      /\ \A j \in DOMAIN ssts : k \in KeysOf(ssts[j].table) => i = j
  <2>1. Ordered(ssts)
    BY DEF Ordered
  <2>2. QED
    BY <1>1, <2>1, BisectionFinds
<1> HIDE DEF i
<1>3. LevelGet(l, k, q) = IF i = 0 THEN {} ELSE TableGet(ssts[i].table, k, q)
  <2>1. LevelGet(l, k, q) = IF i = 0 THEN {} ELSE SstGet(ssts[i].table, k, q)
    BY DEF LevelGet, i
  <2>2. i # 0 => ssts[i] \in Sst
    BY <1>1, <1>2
  <2>3. i # 0 => SstGet(ssts[i].table, k, q) = TableGet(ssts[i].table, k, q)
    BY <2>2, SstGetIs DEF Sst
  <2>4. QED
    BY <2>1, <2>3
<1>4. \A v \in LevelVersions(levels, l) : v.key = k => i # 0 /\ v \in ssts[i].table
  <2>1. ASSUME NEW j \in DOMAIN ssts, NEW v \in ssts[j].table, v.key = k
        PROVE  i # 0 /\ v \in ssts[i].table
    <3>1. i = j
      BY <1>2, <2>1 DEF KeysOf
    <3>2. QED
      BY <1>1, <3>1
  <2>2. QED
    BY <2>1 DEF LevelVersions
<1>5. i # 0 => \A v \in ssts[i].table : v \in LevelVersions(levels, l)
  BY <1>1, <1>2 DEF LevelVersions
<1>6. CASE i = 0
  BY <1>3, <1>4, <1>6 DEF TableGet, VisibleTo
<1>7. CASE i # 0
  <2>1. VisibleTo(ssts[i].table, k, q) = VisibleTo(LevelVersions(levels, l), k, q)
    BY <1>4, <1>5, <1>7 DEF VisibleTo
  <2>2. QED
    BY <1>3, <1>7, <2>1 DEF TableGet
<1>8. QED
  BY <1>6, <1>7

-----------------------------------------------------------------------------
(* The invariant of the read path: no SST is empty, also none of those a   *)
(* compaction has written, and no level below cur_max_level has any.       *)

ReadInv ==
  /\ \A l \in Level : \A i \in DOMAIN levels[l] : levels[l][i].table # {}
  /\ \A i \in DOMAIN job.built : job.built[i].table # {}
  /\ \A l \in Level : l > cur_max_level => levels[l] = <<>>

\* A job that has written nothing.
LEMMA NothingBuilt ==
  ASSUME NEW lv, NEW l, NEW p
  PROVE  StartCompact(lv, l).built = <<>> /\ AtPhase(p).built = <<>> /\ Idle.built = <<>>
         /\ FlushEntry.built = <<>>
BY DEF StartCompact, AtPhase, Idle, FlushEntry

\* Every step keeps it.
LEMMA ReadStep ==
  ASSUME IInv, ReadInv, [Next]_lsmVars
  PROVE  ReadInv'
<1>1. /\ levels \in [Level -> Seq(Sst)] /\ job \in Job /\ job.built \in Seq(Sst)
      /\ cur_max_level \in Level /\ Level = 0 .. MaxLevel /\ MaxLevel \in Nat /\ 0 \in Level
  BY BoundsAssumption DEF IInv, TypeOK, Level, Job
<1>2. ASSUME UNCHANGED <<levels, cur_max_level>>, job'.built = job.built \/ job'.built = <<>>
      PROVE  ReadInv'
  BY <1>2 DEF ReadInv
<1>3. CASE UNCHANGED lsmVars
  BY <1>2, <1>3 DEF lsmVars, sstVars
<1>4. CASE Request \/ Drain \/ Drained
  <2>1. UNCHANGED <<levels, cur_max_level>>
    BY <1>4 DEF Request, Put, RemoveKeys, Read, Flush, FlushAll, Drain, Drained, EngineWrite, sstVars
  <2>2. job' = job \/ job' = Idle \/ job' = FlushEntry
    BY <1>4 DEF Request, Put, RemoveKeys, Read, Flush, FlushAll, Drain, Drained, EngineWrite
  <2>3. QED
    BY <1>2, <2>1, <2>2, NothingBuilt
<1>5. CASE CompactBuild
  <2>1. PICK cut \in KeysOf(job.rest) :
          job' = [job EXCEPT
             !.phase = IF {v \in job.rest : v.key <= cut} = job.rest THEN "delete" ELSE "build",
             !.rest  = job.rest \ {v \in job.rest : v.key <= cut},
             !.built = Append(job.built, [id |-> next_sst_id, table |-> {v \in job.rest : v.key <= cut}])]
    BY <1>5 DEF CompactBuild
  <2> DEFINE t == {v \in job.rest : v.key <= cut}
             s == [id |-> next_sst_id, table |-> t]
  <2>2. t # {}
    <3>1. PICK v \in job.rest : v.key = cut
      BY DEF KeysOf
    <3>2. v \in Version
      BY <1>1 DEF Job, Tables
    <3>3. v.key <= cut
      BY <3>1, <3>2, KeyIsNat
    <3>4. QED
      BY <3>3
  <2> HIDE DEF t
  <2>3. job'.built = Append(job.built, s)
    BY <1>1, <2>1 DEF Job, t
  <2>4. \A i \in DOMAIN job'.built : job'.built[i] = s \/ (i \in DOMAIN job.built /\ job'.built[i] = job.built[i])
    BY <1>1, <2>3
  <2>5. UNCHANGED <<levels, cur_max_level>>
    BY <1>5 DEF CompactBuild
  <2>6. s.table # {}
    BY <2>2
  <2> HIDE DEF s
  <2>7. QED
    BY <2>4, <2>5, <2>6 DEF ReadInv
<1>6. CASE CompactDelete
  <2>1. job'.built = job.built /\ UNCHANGED <<levels, cur_max_level>>
    BY <1>1, <1>6 DEF CompactDelete, sstVars, Job
  <2>2. QED
    BY <1>2, <2>1
<1>7. CASE CompactInstall
  <2>1. job.level \in Level /\ job.level + 1 \in Level /\ job.phase = "delete"
    BY <1>1, <1>7 DEF CompactInstall, IInv, MergeOK, Job
  <2>2. \A l \in Level : levels'[l] = IF l = job.level + 1 THEN job.built
                                      ELSE IF l = job.level THEN <<>> ELSE levels[l]
    BY <1>1, <1>7, <2>1 DEF CompactInstall
  <2>3. cur_max_level' = Max({cur_max_level, job.level + 1})
    BY <1>7 DEF CompactInstall
  <2>4. cur_max_level' >= cur_max_level /\ cur_max_level' >= job.level + 1 /\ cur_max_level' \in Nat
    <3>1. {cur_max_level, job.level + 1} \in SUBSET Nat /\ MaxLevel \in Nat
          /\ \A x \in {cur_max_level, job.level + 1} : x <= MaxLevel
      BY <1>1, <2>1
    <3>2. /\ Max({cur_max_level, job.level + 1}) \in {cur_max_level, job.level + 1}
          /\ \A x \in {cur_max_level, job.level + 1} : x <= Max({cur_max_level, job.level + 1})
      BY <3>1, MaxElement
    <3>3. QED
      BY <1>1, <2>1, <2>3, <3>2
  <2>5. job'.built = <<>>
    BY <1>7, NothingBuilt DEF CompactInstall
  <2>6. \A l \in Level : \A i \in DOMAIN levels'[l] : levels'[l][i].table # {}
    BY <2>2 DEF ReadInv
  <2>7. \A l \in Level : l > cur_max_level' => levels'[l] = <<>>
    <3>1. ASSUME NEW l \in Level, l > cur_max_level'  PROVE levels'[l] = <<>>
      <4>1. l > cur_max_level /\ l # job.level + 1
        BY <1>1, <2>1, <2>4, <3>1
      <4>2. QED
        BY <2>2, <4>1 DEF ReadInv
    <3>2. QED
      BY <3>1
  <2>8. QED
    BY <2>5, <2>6, <2>7 DEF ReadInv
<1>8. CASE FlushLast
  <2> DEFINE s == [id |-> next_sst_id, table |-> FlushSource]
  <2>1. s.table # {} /\ job' = Idle /\ cur_max_level' = cur_max_level
    BY <1>8 DEF FlushLast
  <2>2. levels' = [levels EXCEPT ![0] = <<s>> \o @]
    BY <1>8 DEF FlushLast
  <2> HIDE DEF s
  <2>3. \A l \in Level : l # 0 => levels'[l] = levels[l]
    BY <1>1, <2>2
  <2>4. levels'[0] = <<s>> \o levels[0] /\ levels[0] \in Seq(Sst)
    BY <1>1, <2>2
  <2>5. \A i \in DOMAIN levels'[0] : levels'[0][i] = s \/ \E j \in DOMAIN levels[0] : levels'[0][i] = levels[0][j]
    <3> DEFINE q == levels[0]
               u == <<s>> \o q
    <3>1. /\ q \in Seq(Sst) /\ Len(u) = 1 + Len(q) /\ DOMAIN u = 1 .. Len(u)
          /\ u[1] = s /\ \A i \in 2 .. Len(u) : u[i] = q[i - 1]
      BY <2>4
    <3>2. DOMAIN q = 1 .. Len(q) /\ Len(q) \in Nat
      BY <3>1
    <3> HIDE DEF u, q
    <3>3. \A i \in DOMAIN u : i = 1 \/ (i \in 2 .. Len(u) /\ i - 1 \in DOMAIN q)
      BY <3>1, <3>2
    <3>4. \A i \in DOMAIN u : u[i] = s \/ \E j \in DOMAIN q : u[i] = q[j]
      BY <3>1, <3>3
    <3>5. QED
      BY <2>4, <3>4 DEF u, q
  <2>6. \A l \in Level : \A i \in DOMAIN levels'[l] : levels'[l][i].table # {}
    <3>1. \A i \in DOMAIN levels'[0] : levels'[0][i].table # {}
      BY <1>1, <2>1, <2>5 DEF ReadInv
    <3>2. QED
      BY <2>3, <3>1 DEF ReadInv
  <2>7. \A l \in Level : l > cur_max_level' => levels'[l] = <<>>
    <3>1. \A l \in Level : l > cur_max_level => l # 0
      BY <1>1
    <3>2. QED
      BY <2>1, <2>3, <3>1 DEF ReadInv
  <2>8. job'.built = <<>>
    BY <2>1, NothingBuilt
  <2>9. QED
    BY <2>6, <2>7, <2>8 DEF ReadInv
<1>9. CASE Reopen
  <2> DEFINE files == [l \in Level |-> FilesAt(l)]
  <2>1. \A l \in Level : files[l] = ToSet(levels[l])
    BY <1>9 DEF Reopen, FilesAt, Idle, AtPhase
  <2>2. /\ levels' = [l \in Level |-> IF l = 0 THEN Reverse(SortedById(files[0])) ELSE SortedById(files[l])]
        /\ cur_max_level' = Max({0} \cup {l \in Level : files[l] # {}}) /\ job' = Idle
    BY <1>9 DEF Reopen, Load
  <2> HIDE DEF files
  <2>3. ASSUME NEW l \in Level
        PROVE  levels'[l] \in Seq(Sst) /\ ToSet(levels'[l]) = ToSet(levels[l])
    <3>1. CASE l = 0
      <4>1. PICK q \in Seq(Sst) : IdsAscend(q) /\ ToSet(q) = ToSet(levels[0])
        <5>1. levels[0] \in Seq(Sst) /\ \A i, j \in DOMAIN levels[0] : i < j => levels[0][i].id > levels[0][j].id
          BY <1>1 DEF IInv, LevelsSorted
        <5>2. IdsAscend(Reverse(levels[0]))
          <6> DEFINE q == levels[0]
          <6>1. DOMAIN Reverse(q) = 1 .. Len(q) /\ Len(q) \in Nat /\ DOMAIN q = 1 .. Len(q)
                /\ \A i \in 1 .. Len(q) : Len(q) - i + 1 \in 1 .. Len(q) /\ Reverse(q)[i] = q[Len(q) - i + 1]
            BY <5>1, ReverseOK
          <6>2. \A i \in 1 .. Len(q) : q[i].id \in Nat
            <7>1. \A i \in 1 .. Len(q) : q[i] \in Sst
              BY <5>1, <6>1
            <7>2. QED
              BY <7>1 DEF Sst
          <6> HIDE DEF q
          <6>3. ASSUME NEW i \in 1 .. Len(q), NEW j \in 1 .. Len(q), i < j
                PROVE  Reverse(q)[i].id < Reverse(q)[j].id
            <7>1. Len(q) - j + 1 < Len(q) - i + 1
              BY <6>1, <6>3
            <7>2. q[Len(q) - j + 1].id > q[Len(q) - i + 1].id
              BY <5>1, <6>1, <7>1 DEF q
            <7>3. QED
              BY <6>1, <6>2, <7>2
          <6>4. QED
            BY <6>1, <6>3 DEF IdsAscend, q
        <5>3. Reverse(levels[0]) \in Seq(Sst) /\ ToSet(Reverse(levels[0])) = ToSet(levels[0])
          BY <5>1, ReverseOK
        <5>4. QED
          BY <5>2, <5>3
      <4>2. /\ SortedById(ToSet(q)) \in Seq(Sst) /\ ToSet(SortedById(ToSet(q))) = ToSet(q)
        BY <4>1, SortedByIdOK
      <4>3. levels'[0] = Reverse(SortedById(ToSet(q)))
        BY <1>1, <2>1, <2>2, <4>1
      <4>4. QED
        BY <3>1, <4>1, <4>2, <4>3, ReverseOK
    <3>2. CASE l # 0
      <4>1. levels[l] \in Seq(Sst) /\ IdsAscend(levels[l])
        <5>1. l \in 1 .. MaxLevel /\ levels[l] \in Seq(Sst)
          BY <1>1, <3>2
        <5>2. SortedSsts(levels[l])
          BY <5>1 DEF IInv, LevelsSorted
        <5>3. QED
          BY <5>1, <5>2 DEF SortedSsts, IdsAscend
      <4>2. levels'[l] = SortedById(ToSet(levels[l]))
        BY <2>1, <2>2, <3>2
      <4>3. QED
        BY <4>1, <4>2, SortedByIdOK
    <3>3. QED
      BY <3>1, <3>2
  <2>4. \A l \in Level : \A i \in DOMAIN levels'[l] : levels'[l][i].table # {}
    <3>1. ASSUME NEW l \in Level, NEW i \in DOMAIN levels'[l]  PROVE levels'[l][i].table # {}
      <4>1. levels'[l][i] \in ToSet(levels'[l])
        BY DEF ToSet
      <4>2. PICK j \in DOMAIN levels[l] : levels'[l][i] = levels[l][j]
        BY <2>3, <4>1 DEF ToSet
      <4>3. QED
        BY <4>2 DEF ReadInv
    <3>2. QED
      BY <3>1
  <2>5. \A l \in Level : l > cur_max_level' => levels'[l] = <<>>
    <3> DEFINE S == {0} \cup {l \in Level : files[l] # {}}
    <3>1. S \in SUBSET Nat /\ S # {} /\ \A x \in S : x <= MaxLevel
      BY <1>1
    <3>2. Max(S) \in S /\ \A x \in S : x <= Max(S)
      BY <1>1, <3>1, MaxElement
    <3>3. ASSUME NEW l \in Level, l > cur_max_level'  PROVE levels'[l] = <<>>
      <4>1. l \notin S
        <5>1. Max(S) \in Nat /\ l \in Nat /\ l > Max(S)
          BY <1>1, <2>2, <3>1, <3>2, <3>3
        <5> HIDE DEF S
        <5>2. QED
          BY <3>2, <5>1
      <4>2. files[l] = {}
        BY <4>1
      <4>3. ToSet(levels'[l]) = {} /\ levels'[l] \in Seq(Sst)
        BY <2>1, <2>3, <4>2
      <4>4. DOMAIN levels'[l] = {}
        BY <4>3 DEF ToSet
      <4>5. QED
        <5> DEFINE q == levels'[l]
        <5>1. q \in Seq(Sst) /\ DOMAIN q = {}
          BY <4>3, <4>4
        <5> HIDE DEF q
        <5>2. DOMAIN q = 1 .. Len(q) /\ Len(q) \in Nat
          BY <5>1
        <5>3. Len(q) = 0
          BY <5>1, <5>2
        <5>4. q = <<>>
          BY <5>1, <5>3
        <5>5. QED
          BY <5>4 DEF q
    <3>4. QED
      BY <3>3
  <2>6. job'.built = <<>>
    BY <2>2, NothingBuilt
  <2>7. QED
    BY <2>4, <2>5, <2>6 DEF ReadInv
<1>10. QED
  BY <1>3, <1>4, <1>5, <1>6, <1>7, <1>8, <1>9 DEF Next, Operate

\* A new store satisfies it.
LEMMA ReadInit == Init => ReadInv
<1> SUFFICES ASSUME Init  PROVE ReadInv
  OBVIOUS
<1>1. \A l \in Level : levels[l] = <<>>
  BY DEF Init
<1>2. job.built = <<>>
  BY NothingBuilt DEF Init
<1>3. QED
  BY <1>1, <1>2 DEF ReadInv

-----------------------------------------------------------------------------
(* The read path as a whole.                                               *)

\* MemTable::get finds the newest visible version of the memtable.
LEMMA MemGetIs ==
  ASSUME IInv, NEW k \in Keys, NEW q
  PROVE  MemGet(k, q) = TableGet(MemVersions, k, q)
<1> DEFINE n == Len(frozen_tables)
           D == 1 .. n + 1
           c == <<current_table>> \o frozen_tables
           T == [i \in D |-> c[i]]
           r == [i \in D |-> TableGet(c[i], k, q)]
<1>1. /\ current_table \in Tables /\ frozen_tables \in Seq(Tables) /\ next_tranc_id \in Nat
      /\ n \in Nat /\ DOMAIN frozen_tables = 1 .. n
  BY DEF IInv, TypeOK
<1>2. c[1] = current_table /\ \A i \in 2 .. n + 1 : c[i] = frozen_tables[i - 1] /\ i - 1 \in 1 .. n
  BY <1>1
<1>3. /\ \A i \in 1 .. n : Newer(current_table, frozen_tables[i])
      /\ \A i, j \in 1 .. n : i < j => Newer(frozen_tables[i], frozen_tables[j])
  BY <1>1 DEF IInv, RecencyOrder
<1>4. \A i \in 1 .. n : frozen_tables[i] \in Tables
  BY <1>1
<1> HIDE DEF c, n
<1>5. \A i \in D : i = 1 \/ i \in 2 .. n + 1
  BY <1>1
<1>6. T \in [D -> SUBSET Version]
  BY <1>1, <1>2, <1>4, <1>5 DEF Tables
<1>7. \A v : v \in MemVersions <=> \E i \in D : v \in T[i]
  <2>1. 1 \in D /\ \A i \in 1 .. n : i + 1 \in D /\ i + 1 \in 2 .. n + 1 /\ c[i + 1] = frozen_tables[i]
    <3>1. 1 \in D /\ \A i \in 1 .. n : i + 1 \in D /\ i + 1 \in 2 .. n + 1 /\ i + 1 - 1 = i
      BY <1>1
    <3>2. QED
      BY <1>2, <3>1
  <2>2. \A v : v \in MemVersions <=> v \in current_table \/ \E i \in 1 .. n : v \in frozen_tables[i]
    BY <1>1 DEF MemVersions
  <2>3. QED
    BY <1>2, <1>5, <2>1, <2>2
<1>8. \A i \in D : \A v \in T[i] : v.id <= next_tranc_id
  <2>1. ASSUME NEW i \in D, NEW v \in T[i]  PROVE v.id <= next_tranc_id
    <3>1. v \in AllVersions /\ v.id \in Nat
      BY <1>6, <1>7 DEF AllVersions, Version
    <3>2. v.id < next_tranc_id
      BY <3>1 DEF IInv, VersionIdsBounded
    <3>3. QED
      BY <1>1, <3>1, <3>2
  <2>2. QED
    BY <2>1
<1>9. \A i, j \in D : i < j => Newer(T[i], T[j])
  <2>1. ASSUME NEW i \in D, NEW j \in D, i < j  PROVE Newer(c[i], c[j])
    <3>1. j \in 2 .. n + 1 /\ c[j] = frozen_tables[j - 1] /\ j - 1 \in 1 .. n
      BY <1>1, <1>2, <2>1
    <3>2. CASE i = 1
      BY <1>2, <1>3, <3>1, <3>2
    <3>3. CASE i \in 2 .. n + 1
      <4>1. c[i] = frozen_tables[i - 1] /\ i - 1 \in 1 .. n /\ i - 1 < j - 1
        BY <1>2, <2>1, <3>1, <3>3
      <4>2. QED
        BY <1>3, <3>1, <4>1
    <3>4. QED
      BY <1>5, <3>2, <3>3
  <2>2. QED
    BY <2>1
<1>10. D \subseteq Int /\ 1 \in Int /\ \A i \in D : 1 <= i
  OBVIOUS
<1>11. DOMAIN r = D /\ \A i \in D : r[i] = TableGet(T[i], k, q)
  OBVIOUS
<1> HIDE DEF D, T, r
<1>12. NewToOld(D, 1, T, next_tranc_id)
  BY <1>1, <1>6, <1>8, <1>9, <1>10 DEF NewToOld
<1>13. Searched(r, D, T, k, q) /\ Together(MemVersions, D, T)
  BY <1>7, <1>11 DEF Searched, Together
<1>14. MemGet(k, q) = FirstHit(r)
  BY DEF MemGet, r, D, c, n
<1>15. QED
  BY <1>12, <1>13, <1>14, SearchInOrder

\* LSMEngine::get on L0 finds the newest visible version of L0.
LEMMA L0GetIs ==
  ASSUME IInv, NEW k \in Keys, NEW q
  PROVE  L0Get(k, q) = TableGet(LevelVersions(levels, 0), k, q)
<1> DEFINE D == DOMAIN levels[0]
           T == [i \in D |-> levels[0][i].table]
           r == [i \in D |-> SstGet(levels[0][i].table, k, q)]
<1>1. 0 \in Level /\ levels[0] \in Seq(Sst) /\ next_tranc_id \in Nat
  BY BoundsAssumption DEF IInv, TypeOK, Level
<1>2. D \subseteq Int /\ 1 \in Int /\ \A i \in D : 1 <= i /\ levels[0][i] \in Sst
  BY <1>1
<1>3. \A i \in D : levels[0][i].table \in Tables
  BY <1>2 DEF Sst
<1>4. T \in [D -> SUBSET Version]
  BY <1>3 DEF Tables
<1>5. \A v : v \in LevelVersions(levels, 0) <=> \E i \in D : v \in T[i]
  BY DEF LevelVersions
<1>6. \A i \in D : \A v \in T[i] : v.id <= next_tranc_id
  <2>1. ASSUME NEW i \in D, NEW v \in T[i]  PROVE v.id <= next_tranc_id
    <3>1. v \in AllVersions /\ v.id \in Nat
      BY <1>1, <1>4, <1>5 DEF AllVersions, DiskVersions, Version
    <3>2. v.id < next_tranc_id
      BY <3>1 DEF IInv, VersionIdsBounded
    <3>3. QED
      BY <1>1, <3>1, <3>2
  <2>2. QED
    BY <2>1
<1>7. \A i, j \in D : i < j => Newer(T[i], T[j])
  BY DEF IInv, RecencyOrder
<1>8. DOMAIN r = D /\ \A i \in D : r[i] = TableGet(T[i], k, q)
  BY <1>3, SstGetIs
<1> HIDE DEF D, T, r
<1>9. NewToOld(D, 1, T, next_tranc_id) /\ Searched(r, D, T, k, q) /\ Together(LevelVersions(levels, 0), D, T)
  BY <1>1, <1>2, <1>4, <1>5, <1>6, <1>7, <1>8 DEF NewToOld, Searched, Together
<1>10. L0Get(k, q) = FirstHit(r)
  BY DEF L0Get, r, D
<1>11. QED
  BY <1>9, <1>10, SearchInOrder

\* LSMEngine::get finds the newest visible version of the store.
LEMMA FindIs ==
  ASSUME IInv, ReadInv, NEW k \in Keys, NEW q
  PROVE  Find(k, q) = TableGet(AllVersions, k, q)
<1> DEFINE D == -1 .. cur_max_level
           T == [l \in D |-> IF l = -1 THEN MemVersions ELSE LevelVersions(levels, l)]
           r == [l \in D |-> IF l = -1 THEN MemGet(k, q) ELSE SstsGet(l, k, q)]
<1>1. /\ levels \in [Level -> Seq(Sst)] /\ cur_max_level \in Level /\ next_tranc_id \in Nat
      /\ Level = 0 .. MaxLevel /\ MaxLevel \in Nat
  BY BoundsAssumption DEF IInv, TypeOK, Level
<1>2. D \subseteq Int /\ -1 \in D /\ -1 \in Int /\ \A l \in D : -1 <= l /\ (l = -1 \/ l \in Level)
  BY <1>1
<1>3. \A l \in Level : l \in D \/ levels[l] = <<>>
  BY <1>1 DEF ReadInv
<1>4. MemVersions \in SUBSET Version
  BY DEF IInv, TypeOK, MemVersions, Tables
<1>5. T \in [D -> SUBSET Version]
  BY <1>1, <1>2, <1>4, LevelIsTable DEF Tables
<1>6. \A v : v \in AllVersions <=> \E l \in D : v \in T[l]
  <2>1. \A l \in Level : levels[l] = <<>> => LevelVersions(levels, l) = {}
    BY DEF LevelVersions
  <2>2. \A v : v \in AllVersions <=> v \in MemVersions \/ \E l \in Level : v \in LevelVersions(levels, l)
    BY DEF AllVersions, DiskVersions
  <2>3. \A l \in Level : l # -1
    BY <1>1
  <2>4. QED
    BY <1>2, <1>3, <2>1, <2>2, <2>3
<1>7. \A l \in D : \A v \in T[l] : v.id <= next_tranc_id
  <2>1. ASSUME NEW l \in D, NEW v \in T[l]  PROVE v.id <= next_tranc_id
    <3>1. v \in AllVersions /\ v.id \in Nat
      BY <1>5, <1>6 DEF Version
    <3>2. v.id < next_tranc_id
      BY <3>1 DEF IInv, VersionIdsBounded
    <3>3. QED
      BY <1>1, <3>1, <3>2
  <2>2. QED
    BY <2>1
<1>8. \A i, j \in D : i < j => Newer(T[i], T[j])
  <2>1. ASSUME NEW i \in D, NEW j \in D, i < j  PROVE Newer(T[i], T[j])
    <3>1. j \in Level /\ j # -1
      BY <1>1, <1>2, <2>1
    <3>2. CASE i = -1
      <4>1. Newer(MemVersions, DiskVersions) /\ LevelVersions(levels, j) \subseteq DiskVersions
        BY <3>1 DEF IInv, RecencyOrder, DiskVersions
      <4>2. QED
        BY <3>1, <3>2, <4>1 DEF Newer
    <3>3. CASE i # -1
      BY <1>2, <2>1, <3>1, <3>3 DEF IInv, RecencyOrder
    <3>4. QED
      BY <3>2, <3>3
  <2>2. QED
    BY <2>1
<1>9. DOMAIN r = D /\ \A l \in D : r[l] = TableGet(T[l], k, q)
  <2>1. MemGet(k, q) = TableGet(MemVersions, k, q)
    BY MemGetIs
  <2>2. ASSUME NEW l \in Level  PROVE SstsGet(l, k, q) = TableGet(LevelVersions(levels, l), k, q)
    <3>1. CASE l = 0
      BY <3>1, L0GetIs DEF SstsGet
    <3>2. CASE l # 0
      <4>1. l \in 1 .. MaxLevel
        BY <1>1, <3>2
      <4>2. SortedSsts(levels[l]) /\ \A i \in DOMAIN levels[l] : levels[l][i].table # {}
        BY <4>1 DEF IInv, LevelsSorted, ReadInv
      <4>3. QED
        BY <1>1, <3>2, <4>2, LevelGetIs DEF SstsGet
    <3>3. QED
      BY <3>1, <3>2
  <2>3. QED
    BY <1>2, <2>1, <2>2
<1> HIDE DEF D, T, r
<1>10. NewToOld(D, -1, T, next_tranc_id)
  BY <1>1, <1>2, <1>5, <1>7, <1>8 DEF NewToOld
<1>11. Searched(r, D, T, k, q) /\ Together(AllVersions, D, T)
  BY <1>6, <1>9 DEF Searched, Together
<1>12. Find(k, q) = FirstHit(r)
  BY DEF Find, r, D
<1>13. QED
  BY <1>10, <1>11, <1>12, SearchInOrder

-----------------------------------------------------------------------------
(* The theorems.                                                           *)

\* No SST is empty and no SST is below cur_max_level, where get would not look.
THEOREM ReadPathInvariant == Spec => [](IInv /\ ReadInv)
<1>1. Init => IInv /\ ReadInv
  BY InitOK, ReadInit
<1>2. IInv /\ ReadInv /\ [Next]_lsmVars => (IInv /\ ReadInv)'
  BY NextOK, ReadStep
<1>3. QED
  BY <1>1, <1>2, PTL DEF Spec

\* LSMEngine::get returns the newest version a reader may see, in stores of any size
\* and whatever was frozen, flushed, compacted and reopened.
THEOREM ReadsNewest == Spec => []ReadsLatest
<1>1. IInv /\ ReadInv => ReadsLatest
  BY FindIs DEF ReadsLatest
<1>2. QED
  BY <1>1, ReadPathInvariant, PTL

\* LSMEngine::get with an id that has been handed out gives the same result for ever.
THEOREM SnapshotsStable == Spec => SnapshotReadsStable
<1>1. /\ IInv /\ ReadInv /\ (IInv /\ ReadInv)' /\ [Next]_lsmVars
      => [\A k \in Keys, q \in 1 .. next_tranc_id - 1 : Find(k, q)' = Find(k, q)]_lsmVars
  <2> SUFFICES ASSUME IInv, ReadInv, IInv', ReadInv', [Next]_lsmVars,
                      NEW k \in Keys, NEW q \in 1 .. next_tranc_id - 1
               PROVE  Find(k, q)' = Find(k, q)
    OBVIOUS
  <2>1. Find(k, q) = TableGet(AllVersions, k, q)
    BY FindIs
  <2>2. Find(k, q)' = TableGet(AllVersions', k, q)
    <3>1. (Find(k, q) = TableGet(AllVersions, k, q))'
      BY FindIs, PTL
    <3>2. QED
      BY <3>1
  <2>3. next_tranc_id \in Nat /\ q \in Nat /\ q # 0 /\ q < next_tranc_id
    BY DEF IInv, TypeOK
  <2>4. StoreStep
    BY NextOK
  <2>5. VisibleTo(AllVersions', k, q) = VisibleTo(AllVersions, k, q)
    <3>1. CASE AllVersions' = AllVersions
      BY <3>1
    <3>2. CASE \E B \in Tables : AllVersions' = AllVersions \cup B /\ \A v \in B : v.id = next_tranc_id
      <4>1. PICK B \in Tables : AllVersions' = AllVersions \cup B /\ \A v \in B : v.id = next_tranc_id
        BY <3>2
      <4>2. \A v \in B : ~ (q = 0 \/ v.id <= q)
        BY <2>3, <4>1
      <4>3. QED
        BY <4>1, <4>2 DEF VisibleTo
    <3>3. QED
      BY <2>4, <3>1, <3>2 DEF StoreStep
  <2>6. QED
    BY <2>1, <2>2, <2>5 DEF TableGet
<1>2. QED
  BY <1>1, ReadPathInvariant, PTL DEF Spec, SnapshotReadsStable

\* LSMEngine::get_batch agrees with get on every key that is only in SSTs.
THEOREM BatchesFindStored == Spec => []BatchFindsStored
<1>1. IInv => BatchFindsStored
  <2> SUFFICES ASSUME IInv, NEW ks \in SUBSET Keys, NEW q \in 1 .. next_tranc_id, NEW k \in ks,
                      MemGet(k, q) = {}, Get(k, q) # {}
               PROVE  GetBatch(ks, q)[k] = Get(k, q)
    BY DEF BatchFindsStored
  <2> DEFINE D == -1 .. cur_max_level
             r == [l \in D |-> IF l = -1 THEN MemGet(k, q) ELSE SstsGet(l, k, q)]
             C == 1 .. cur_max_level
             s == [l \in C |-> {v \in LevelGet(l, k, q) : v.val # Tombstone}]
             inL0 == IF L0Get(k, q) = {} THEN MemGet(k, q)
                     ELSE {v \in L0Get(k, q) : v.val # Tombstone}
  <2>1. cur_max_level \in Nat
    BY BoundsAssumption DEF IInv, TypeOK, Level
  <2>2. Find(k, q) = FirstHit(r)
    BY DEF Find
  <2>3. GetBatch(ks, q)[k] = IF inL0 # {} THEN inL0 ELSE FirstHit(s)
    BY DEF GetBatch
  <2>4. DOMAIN r = D /\ DOMAIN s = C /\ C \subseteq D /\ D \subseteq Int /\ C \subseteq Int
        /\ 0 \in D /\ -1 \in D /\ \A l \in D : -1 <= l /\ (l = -1 \/ l = 0 \/ l \in C)
    BY <2>1
  <2>5. r[-1] = {} /\ r[0] = L0Get(k, q) /\ \A l \in C : r[l] = LevelGet(l, k, q)
    BY <2>4 DEF SstsGet
  <2>6. \A l \in C : s[l] = {v \in r[l] : v.val # Tombstone}
    BY <2>5
  <2> HIDE DEF r, s, C, D
  <2>7. PICK i \in D : r[i] # {} /\ \A m \in D : m < i => r[m] = {}
    <3>1. PICK j \in DOMAIN r : r[j] # {}
      BY <2>2, NoHit DEF Get
    <3>2. -1 \in Int
      OBVIOUS
    <3>3. QED
      BY <2>4, <3>1, <3>2, SomeFirst
  <2>8. Find(k, q) = r[i]
    BY <2>2, <2>4, <2>7, FirstHitIs
  <2>9. CASE i = 0
    BY <2>3, <2>5, <2>7, <2>8, <2>9 DEF Get
  <2>10. CASE i \in C
    <3>1. 0 < i
      BY <2>10 DEF C
    <3>2. L0Get(k, q) = {}
      BY <2>4, <2>5, <2>7, <3>1
    <3>3. s[i] = Get(k, q) /\ s[i] # {}
      BY <2>6, <2>8, <2>10 DEF Get
    <3>4. \A j \in C : j < i => s[j] = {}
      BY <2>4, <2>6, <2>7
    <3>5. FirstHit(s) = s[i]
      BY <2>4, <2>10, <3>3, <3>4, FirstHitIs
    <3>6. QED
      BY <2>3, <3>2, <3>3, <3>5
  <2>11. QED
    BY <2>4, <2>5, <2>7, <2>9, <2>10
<1>2. QED
  BY <1>1, Invariance, PTL

\* MemTable::frozen_bytes is the size of the frozen tables.
THEOREM FrozenBytesStayExact == Spec => []FrozenBytesExact
<1>1. IInv => FrozenBytesExact
  <2> SUFFICES ASSUME IInv  PROVE FrozenBytesExact
    OBVIOUS
  <2> DEFINE n == Len(frozen_tables)
             add(f) == [i \in 0 .. n |-> IF i = 0 THEN 0 ELSE f[i - 1] + Cardinality(frozen_tables[i])]
             sum == CHOOSE f : f = add(f)
  <2>1. n \in Nat
    BY DEF IInv, TypeOK
  <2>2. PICK sums \in [0 .. n -> 0 .. frozen_bytes] :
          /\ sums[0] = 0 /\ sums[n] = frozen_bytes
          /\ \A i \in 1 .. n : sums[i] = sums[i - 1] + Cardinality(frozen_tables[i])
    BY DEF IInv, SizesAddUp
  <2>3. FrozenBytesExact <=> frozen_bytes = sum[n]
    BY DEF FrozenBytesExact
  <2> HIDE DEF n
  <2>4. sums = add(sums)
    <3>1. \A i \in 0 .. n : i = 0 \/ i \in 1 .. n
      BY <2>1
    <3>2. QED
      BY <2>2, <3>1
  <2>5. sum = add(sum)
    BY <2>4
  <2> HIDE DEF sum
  <2> DEFINE S == {m \in Nat : m <= n => sum[m] = sums[m]}
  <2>6. 0 \in S
    BY <2>1, <2>2, <2>5
  <2>7. ASSUME NEW m \in S  PROVE m + 1 \in S
    <3>1. CASE m + 1 <= n
      <4>1. m \in Nat /\ m + 1 \in 0 .. n /\ m + 1 \in 1 .. n /\ m + 1 # 0 /\ m + 1 - 1 = m /\ m <= n
        BY <2>1, <3>1
      <4>2. sum[m + 1] = sum[m] + Cardinality(frozen_tables[m + 1])
        BY <2>5, <4>1
      <4>3. sums[m + 1] = sums[m] + Cardinality(frozen_tables[m + 1])
        BY <2>2, <4>1
      <4>4. QED
        BY <4>1, <4>2, <4>3
    <3>2. CASE ~ (m + 1 <= n)
      BY <3>2
    <3>3. QED
      BY <3>1, <3>2
  <2>8. S = Nat
    BY <2>6, <2>7, NatInductionSet
  <2>9. sum[n] = sums[n]
    BY <2>1, <2>8
  <2>10. QED
    BY <2>2, <2>3, <2>9
<1>2. QED
  BY <1>1, Invariance, PTL
=============================================================================
