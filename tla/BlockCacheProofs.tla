-------------------------- MODULE BlockCacheProofs --------------------------
(***************************************************************************)
(* Proofs about the block cache, for any number of threads, any capacity   *)
(* of at least one block, any K of at least two, and any number of SSTs.   *)
(***************************************************************************)
EXTENDS BlockCache, NumberFacts

-----------------------------------------------------------------------------
(* The inductive invariant.                                                *)

Item == [sst : Nat, block : BlockIds, data : Nat, count : Nat]

\* A cached block is one of a file that was written under its id; as long as the
\* id has one open it is a block of that file.
Genuine(id, data) == id < next_sst_id /\ (id \in DOMAIN files => data = files[id])

\* The items whose access count is between lo and hi.
Items(lo, hi) == {x \in Item : x.count \in lo .. hi /\ Genuine(x.sst, x.data)}

\* A list holds a block once, and is ordered by last use.
Once(list) == \A i, j \in DOMAIN list : Key(list[i]) = Key(list[j]) => i = j
Ordered(list, R) ==
  \A i, j \in DOMAIN list : i < j => <<Key(list[i]), Key(list[j])>> \in R
\* The order Q says of the blocks in S other than the key what R said.
Keeps(Q, R, S, key) ==
  \A x, y \in S : x # key /\ y # key /\ <<x, y>> \in R => <<x, y>> \in Q
ListOK(list, R, G) == list \in Seq(G) /\ Once(list) /\ Ordered(list, R)

CacheOK ==
  /\ ListOK(less_k, used_after, Items(1, K - 1))
  /\ ListOK(greater_k, used_after, Items(K, K + 1))
  /\ KeysOf(less_k) \cap KeysOf(greater_k) = {}
  /\ DOMAIN cache_map = KeysOf(less_k) \cup KeysOf(greater_k)
  /\ \A key \in KeysOf(less_k) : cache_map[key] = "less"
  /\ \A key \in KeysOf(greater_k) : cache_map[key] = "greater"
  /\ Len(less_k) + Len(greater_k) <= Capacity

EngineOK ==
  /\ next_sst_id \in Nat /\ builds \in Nat
  /\ \A id \in DOMAIN files : id \in Nat /\ id < next_sst_id /\ files[id] \in Nat
  /\ ssts \subseteq DOMAIN files

\* A thread between its get and its put holds a genuine block.
Loading ==
  {o \in [step : {"load"}, key : Nat \X BlockIds, file : Nat] : Genuine(o.key[1], o.file)}

ThreadsOK ==
  /\ op \in [Readers -> {Idle} \cup Loading]
  /\ returned \in [Readers -> [asked : Nat, got : Nat]]
  /\ ReadsOwnFile

CInv == EngineOK /\ CacheOK /\ ThreadsOK

-----------------------------------------------------------------------------
(* The lists.                                                              *)

\* A sequence without the element at p, as list::erase leaves it: the rest in order.
LEMMA RemovedAt ==
  ASSUME NEW S, NEW s \in Seq(S), NEW p \in DOMAIN s
  PROVE  /\ RemoveAt(s, p) \in Seq(S)
         /\ Len(RemoveAt(s, p)) = Len(s) - 1
         /\ \A i \in DOMAIN RemoveAt(s, p) :
              /\ i < p  => i \in DOMAIN s /\ RemoveAt(s, p)[i] = s[i]
              /\ i >= p => i + 1 \in DOMAIN s /\ RemoveAt(s, p)[i] = s[i + 1]
         /\ \A i \in DOMAIN s :
              /\ i < p => i \in DOMAIN RemoveAt(s, p)
              /\ i > p => i - 1 \in DOMAIN RemoveAt(s, p)
<1> DEFINE l == SubSeq(s, 1, p - 1)
           r == SubSeq(s, p + 1, Len(s))
           u == l \o r
<1>1. RemoveAt(s, p) = u
  BY DEF RemoveAt
<1>2. /\ l \in Seq(S) /\ Len(l) = p - 1
      /\ \A i \in 1 .. p - 1 : l[i] = s[i]
      /\ r \in Seq(S) /\ Len(r) = Len(s) - p
      /\ \A i \in 1 .. Len(s) - p : r[i] = s[p + i]
      /\ DOMAIN s = 1 .. Len(s) /\ Len(s) \in Nat /\ p \in 1 .. Len(s)
  OBVIOUS
<1> HIDE DEF l, r
<1>3. /\ u \in Seq(S) /\ Len(u) = Len(l) + Len(r) /\ DOMAIN u = 1 .. Len(u)
      /\ \A i \in 1 .. Len(l) : u[i] = l[i]
      /\ \A i \in Len(l) + 1 .. Len(u) : u[i] = r[i - Len(l)]
  <2>1. l \in Seq(S) /\ r \in Seq(S)
    BY <1>2
  <2>2. QED
    BY ONLY <2>1
<1> HIDE DEF u
<1>4. Len(u) = Len(s) - 1 /\ DOMAIN u = 1 .. Len(s) - 1
  BY <1>2, <1>3
<1>5. ASSUME NEW i \in DOMAIN u, i < p  PROVE i \in DOMAIN s /\ u[i] = s[i]
  <2>1. i \in 1 .. p - 1 /\ i \in 1 .. Len(l) /\ i \in DOMAIN s
    BY <1>2, <1>4, <1>5
  <2>2. u[i] = l[i] /\ l[i] = s[i]
    BY <1>2, <1>3, <2>1
  <2>3. QED
    BY <2>1, <2>2
<1>6. ASSUME NEW i \in DOMAIN u, i >= p  PROVE i + 1 \in DOMAIN s /\ u[i] = s[i + 1]
  <2>1. i - Len(l) \in 1 .. Len(s) - p /\ i \in Len(l) + 1 .. Len(u)
    BY <1>2, <1>4, <1>6
  <2>2. p + (i - Len(l)) = i + 1
    BY <1>2, <1>4, <1>6
  <2>3. u[i] = r[i - Len(l)] /\ r[i - Len(l)] = s[p + (i - Len(l))]
    BY <1>2, <1>3, <2>1
  <2>4. i + 1 \in DOMAIN s
    BY <1>2, <1>4, <1>6
  <2>5. QED
    BY <2>2, <2>3, <2>4
<1>7. QED
  BY <1>1, <1>2, <1>3, <1>4, <1>5, <1>6

\* So a list that loses an element stays in order and holds the other blocks, each
\* once.  The order of last use may change as long as it keeps what it says of them.
LEMMA ListRemoved ==
  ASSUME NEW G, NEW R, NEW Q, NEW list, ListOK(list, R, G), NEW p \in DOMAIN list,
         NEW key, Key(list[p]) = key, Keeps(Q, R, KeysOf(list), key)
  PROVE  /\ ListOK(RemoveAt(list, p), Q, G)
         /\ KeysOf(RemoveAt(list, p)) = KeysOf(list) \ {key}
         /\ Len(RemoveAt(list, p)) = Len(list) - 1
<1> DEFINE r == RemoveAt(list, p)
           from(i) == IF i < p THEN i ELSE i + 1
<1>1. list \in Seq(G) /\ Once(list) /\ Ordered(list, R)
  BY DEF ListOK
<1>2. r \in Seq(G) /\ Len(r) = Len(list) - 1
  BY <1>1, RemovedAt
<1>3. \A i \in DOMAIN r : from(i) \in DOMAIN list /\ from(i) # p /\ r[i] = list[from(i)]
  <2>1. DOMAIN r \subseteq Nat /\ p \in Nat
    BY <1>1, <1>2
  <2>2. ASSUME NEW i \in DOMAIN r
        PROVE  from(i) \in DOMAIN list /\ from(i) # p /\ r[i] = list[from(i)]
    <3>1. CASE i < p
      BY <1>1, <2>1, <3>1, RemovedAt
    <3>2. CASE i >= p
      BY <1>1, <2>1, <3>2, RemovedAt
    <3>3. QED
      BY <2>1, <3>1, <3>2
  <2>3. QED
    BY <2>2
<1>4. \A i \in DOMAIN list : i # p => \E j \in DOMAIN r : from(j) = i
  <2>1. ASSUME NEW i \in DOMAIN list, i < p  PROVE \E j \in DOMAIN r : from(j) = i
    BY <1>1, <2>1, RemovedAt
  <2>2. ASSUME NEW i \in DOMAIN list, i > p  PROVE \E j \in DOMAIN r : from(j) = i
    <3>1. i - 1 \in DOMAIN r /\ i \in Nat /\ p \in Nat
      <4>1. i - 1 \in DOMAIN r
        BY <1>1, <2>2, RemovedAt
      <4>2. QED
        BY <1>1, <4>1
    <3>2. from(i - 1) = i
      BY <2>2, <3>1
    <3>3. QED
      BY <3>1, <3>2
  <2>3. \A i \in DOMAIN list : i \in Nat
    BY <1>1
  <2>4. QED
    BY <2>1, <2>2, <2>3
<1>5. \A i, j \in DOMAIN r : (from(i) = from(j) => i = j) /\ (i < j => from(i) < from(j))
  <2>1. DOMAIN r \subseteq Nat /\ p \in Nat
    BY <1>1, <1>2
  <2> HIDE DEF r
  <2>2. QED
    BY <2>1
<1> HIDE DEF r, from
<1>6. KeysOf(r) = KeysOf(list) \ {Key(list[p])}
  <2>1. ASSUME NEW i \in DOMAIN r  PROVE Key(r[i]) \in KeysOf(list) \ {Key(list[p])}
    BY <1>1, <1>3 DEF KeysOf, Once
  <2>2. ASSUME NEW i \in DOMAIN list, Key(list[i]) # Key(list[p])
        PROVE  Key(list[i]) \in KeysOf(r)
    <3>1. PICK j \in DOMAIN r : from(j) = i
      BY <1>4, <2>2
    <3>2. r[j] = list[i]
      BY <1>3, <3>1
    <3>3. QED
      BY <3>2 DEF KeysOf
  <2>3. QED
    BY <2>1, <2>2 DEF KeysOf
<1>7. Once(r)
  BY <1>1, <1>3, <1>5 DEF Once
<1>8. Ordered(r, Q)
  <2>1. SUFFICES ASSUME NEW i \in DOMAIN r, NEW j \in DOMAIN r, i < j
                 PROVE  <<Key(r[i]), Key(r[j])>> \in Q
    BY DEF Ordered
  <2>2. <<Key(list[from(i)]), Key(list[from(j)])>> \in R
    BY <1>1, <1>3, <1>5, <2>1 DEF Ordered
  <2>3. Key(r[i]) \in KeysOf(r) /\ Key(r[j]) \in KeysOf(r)
    BY DEF KeysOf
  <2>4. QED
    BY <1>3, <1>6, <2>2, <2>3 DEF Keeps
<1>9. QED
  BY <1>2, <1>6, <1>7, <1>8 DEF ListOK, r

\* list::pop_back removes the element at the last place.
LEMMA FrontRemoves ==
  ASSUME NEW S, NEW s \in Seq(S), s # <<>>
  PROVE  Front(s) = RemoveAt(s, Len(s)) /\ Len(s) \in DOMAIN s /\ Last(s) = s[Len(s)]
<1>1. Len(s) \in DOMAIN s /\ Len(s) \in Nat /\ Len(s) >= 1
  OBVIOUS
<1>2. SubSeq(s, Len(s) + 1, Len(s)) = <<>>
  BY <1>1
<1>3. SubSeq(s, 1, Len(s) - 1) \in Seq(S)
  BY <1>1
<1>4. SubSeq(s, 1, Len(s) - 1) \o <<>> = SubSeq(s, 1, Len(s) - 1)
  BY <1>3
<1>5. QED
  BY <1>1, <1>2, <1>4 DEF Front, RemoveAt, Last

\* A list that changes in nothing stays in order.
LEMMA ListSame ==
  ASSUME NEW G, NEW R, NEW Q, NEW list, ListOK(list, R, G),
         \A x, y \in KeysOf(list) : <<x, y>> \in R => <<x, y>> \in Q
  PROVE  ListOK(list, Q, G)
<1>1. ASSUME NEW i \in DOMAIN list, NEW j \in DOMAIN list, i < j
      PROVE  <<Key(list[i]), Key(list[j])>> \in Q
  <2>1. <<Key(list[i]), Key(list[j])>> \in R
    BY <1>1 DEF ListOK, Ordered
  <2>2. Key(list[i]) \in KeysOf(list) /\ Key(list[j]) \in KeysOf(list)
    BY DEF KeysOf
  <2>3. QED
    BY <2>1, <2>2
<1>2. QED
  BY <1>1 DEF ListOK, Ordered

\* list::push_front, of a block that is used later than all of the list.
LEMMA ListPushed ==
  ASSUME NEW G, NEW R, NEW list, ListOK(list, R, G), NEW item \in G,
         Key(item) \notin KeysOf(list),
         \A x \in KeysOf(list) : <<Key(item), x>> \in R
  PROVE  /\ ListOK(<<item>> \o list, R, G)
         /\ KeysOf(<<item>> \o list) = KeysOf(list) \cup {Key(item)}
         /\ Len(<<item>> \o list) = Len(list) + 1
<1> DEFINE u == <<item>> \o list
<1>1. list \in Seq(G) /\ Once(list) /\ Ordered(list, R)
  BY DEF ListOK
<1>2. <<item>> \in Seq(G) /\ Len(<<item>>) = 1 /\ <<item>>[1] = item
  OBVIOUS
<1>3. /\ u \in Seq(G) /\ Len(u) = 1 + Len(list) /\ DOMAIN u = 1 .. Len(u)
      /\ u[1] = item /\ \A i \in 2 .. Len(u) : u[i] = list[i - 1]
  BY <1>1, <1>2
<1> HIDE DEF u
<1>4. DOMAIN list = 1 .. Len(list) /\ Len(list) \in Nat
  BY <1>1
<1>5. \A i \in DOMAIN u : i = 1 \/ (i - 1 \in DOMAIN list /\ u[i] = list[i - 1])
  BY <1>3, <1>4
<1>6. \A i \in DOMAIN list : i + 1 \in DOMAIN u /\ u[i + 1] = list[i]
  <2>1. \A i \in DOMAIN list : i + 1 \in 2 .. Len(u) /\ i + 1 - 1 = i
    BY <1>3, <1>4
  <2>2. QED
    BY <1>3, <2>1
<1>7. KeysOf(u) = KeysOf(list) \cup {Key(item)}
  <2>1. 1 \in DOMAIN u
    BY <1>3, <1>4
  <2>2. \A i \in DOMAIN u : Key(u[i]) \in KeysOf(list) \cup {Key(item)}
    BY <1>3, <1>5 DEF KeysOf
  <2>3. \A i \in DOMAIN list : Key(list[i]) \in KeysOf(u)
    BY <1>6 DEF KeysOf
  <2>4. Key(item) \in KeysOf(u)
    BY <1>3, <2>1 DEF KeysOf
  <2>5. QED
    BY <2>2, <2>3, <2>4 DEF KeysOf
<1>8. \A i \in DOMAIN list : Key(list[i]) \in KeysOf(list)
  BY DEF KeysOf
<1>9. Once(u)
  <2>1. SUFFICES ASSUME NEW i \in DOMAIN u, NEW j \in DOMAIN u, Key(u[i]) = Key(u[j])
                 PROVE  i = j
    BY DEF Once
  <2>2. CASE i = 1 \/ j = 1
    BY <1>3, <1>5, <1>8, <2>1, <2>2
  <2>3. CASE i # 1 /\ j # 1
    <3>1. i - 1 = j - 1
      BY <1>1, <1>5, <2>1, <2>3 DEF Once
    <3>2. i \in Nat /\ j \in Nat
      BY <1>3
    <3>3. QED
      BY <3>1, <3>2
  <2>4. QED
    BY <2>2, <2>3
<1>10. Ordered(u, R)
  <2>1. SUFFICES ASSUME NEW i \in DOMAIN u, NEW j \in DOMAIN u, i < j
                 PROVE  <<Key(u[i]), Key(u[j])>> \in R
    BY DEF Ordered
  <2>2. i \in Nat /\ j \in Nat /\ i >= 1 /\ j # 1
    BY <1>3, <2>1
  <2>3. j - 1 \in DOMAIN list /\ u[j] = list[j - 1]
    BY <1>5, <2>2
  <2>4. CASE i = 1
    BY <1>3, <1>8, <2>3, <2>4
  <2>5. CASE i # 1
    <3>1. i - 1 \in DOMAIN list /\ u[i] = list[i - 1] /\ i - 1 < j - 1
      BY <1>5, <2>1, <2>2, <2>5
    <3>2. QED
      BY <1>1, <2>3, <3>1 DEF Ordered
  <2>6. QED
    BY <2>4, <2>5
<1>11. QED
  BY <1>3, <1>4, <1>7, <1>9, <1>10 DEF ListOK, u

-----------------------------------------------------------------------------
(* The cache.                                                              *)

\* A use puts the block before all others and leaves their order.
LEMMA UsedOrder ==
  ASSUME NEW key, NEW cached
  PROVE  /\ \A x, y \in cached \ {key} : <<x, y>> \in used_after => <<x, y>> \in Used(key, cached)
         /\ \A x \in cached \ {key} : <<key, x>> \in Used(key, cached)
BY DEF Used

\* The item of a cached block.
LEMMA ItemOfKey ==
  ASSUME NEW list, NEW key \in KeysOf(list)
  PROVE  Position(list, key) \in DOMAIN list /\ Key(list[Position(list, key)]) = key
<1>1. \E i \in DOMAIN list : Key(list[i]) = key
  BY DEF KeysOf
<1>2. QED
  BY <1>1 DEF Position

\* One more access, counted up to K + 1.
LEMMA ItemCounted ==
  ASSUME NEW x \in Item, NEW data \in Nat
  PROVE  /\ [Counted(x) EXCEPT !.data = data] \in Item
         /\ [Counted(x) EXCEPT !.data = data].data = data
         /\ [Counted(x) EXCEPT !.data = data].sst = x.sst
         /\ Key([Counted(x) EXCEPT !.data = data]) = Key(x)
         /\ [Counted(x) EXCEPT !.data = data].count = (IF x.count > K THEN x.count ELSE x.count + 1)
<1> DEFINE y == Counted(x)
<1>1. K \in Nat
  BY CacheAssumption
<1>2. /\ y \in Item /\ y.sst = x.sst /\ y.block = x.block
      /\ y.count = (IF x.count > K THEN x.count ELSE x.count + 1)
  BY <1>1 DEF Counted, Item
<1> HIDE DEF y
<1>3. /\ [y EXCEPT !.data = data] \in Item
      /\ [y EXCEPT !.data = data].data = data
      /\ [y EXCEPT !.data = data].sst = y.sst
      /\ [y EXCEPT !.data = data].block = y.block
      /\ [y EXCEPT !.data = data].count = y.count
  BY <1>2 DEF Item
<1>4. QED
  BY <1>2, <1>3 DEF y, Key

\* BlockCache::get on a hit and the update branch of put keep the cache in order.
LEMMA UpdateOK ==
  ASSUME EngineOK, CacheOK, UNCHANGED engine, NEW key \in DOMAIN cache_map,
         NEW data \in Nat, Genuine(key[1], data), update_access_count(key, data)
  PROVE  CacheOK'
<1> DEFINE list == IF cache_map[key] = "less" THEN less_k ELSE greater_k
           p    == Position(list, key)
           item == [Counted(list[p]) EXCEPT !.data = data]
           rest == RemoveAt(list, p)
           R    == Used(key, DOMAIN cache_map)
           L    == Items(1, K - 1)
           G    == Items(K, K + 1)
<1>1. K \in Nat /\ K >= 2
  BY CacheAssumption
<1>2. L' = L /\ G' = G /\ used_after' = R
  BY DEF engine, Items, Genuine, update_access_count
<1>3. /\ ListOK(less_k, used_after, L) /\ ListOK(greater_k, used_after, G)
      /\ KeysOf(less_k) \cap KeysOf(greater_k) = {}
      /\ DOMAIN cache_map = KeysOf(less_k) \cup KeysOf(greater_k)
      /\ \A k \in KeysOf(less_k) : cache_map[k] = "less"
      /\ \A k \in KeysOf(greater_k) : cache_map[k] = "greater"
      /\ Len(less_k) + Len(greater_k) <= Capacity
  BY DEF CacheOK
<1>4. /\ \A x, y \in DOMAIN cache_map \ {key} : <<x, y>> \in used_after => <<x, y>> \in R
      /\ \A x \in DOMAIN cache_map \ {key} : <<key, x>> \in R
  BY UsedOrder
<1>5. /\ key \in KeysOf(list) /\ KeysOf(list) \subseteq DOMAIN cache_map
      /\ p \in DOMAIN list /\ Key(list[p]) = key
  <2>1. key \in KeysOf(list) /\ KeysOf(list) \subseteq DOMAIN cache_map
    BY <1>3
  <2>2. QED
    BY <2>1, ItemOfKey
<1>6. /\ less_k \in Seq(L) /\ greater_k \in Seq(G) /\ list \in Seq(L \cup G)
      /\ Len(less_k) \in Nat /\ Len(greater_k) \in Nat
  BY <1>3 DEF ListOK
<1>7. list[p] \in L \cup G
  BY <1>5, <1>6
<1>8. /\ item.count = (IF list[p].count > K THEN list[p].count ELSE list[p].count + 1)
      /\ item \in Item /\ Key(item) = key /\ Genuine(item.sst, item.data)
  <2>1. list[p] \in Item
    BY <1>7 DEF Items
  <2>2. /\ item.count = (IF list[p].count > K THEN list[p].count ELSE list[p].count + 1)
        /\ item \in Item /\ Key(item) = Key(list[p]) /\ item.data = data
    BY <2>1, ItemCounted
  <2>3. key[1] = item.sst
    BY <1>5, <2>2 DEF Key
  <2>4. QED
    BY <1>5, <2>2, <2>3
<1> HIDE DEF L, G, R, item, rest, p
<1>9. /\ IF item.count < K
         THEN less_k' = <<item>> \o rest /\ greater_k' = greater_k /\ cache_map' = cache_map
         ELSE IF item.count = K
         THEN /\ less_k' = rest /\ greater_k' = <<item>> \o greater_k
              /\ cache_map' = [cache_map EXCEPT ![key] = "greater"]
         ELSE greater_k' = <<item>> \o rest /\ less_k' = less_k /\ cache_map' = cache_map
  BY DEF update_access_count, item, rest, p
<1>10. /\ \A x, y \in KeysOf(list) \ {Key(list[p])} : <<x, y>> \in used_after => <<x, y>> \in R
       /\ \A x \in KeysOf(list) \ {key} : <<key, x>> \in R
  BY <1>4, <1>5
<1>11. CASE cache_map[key] = "less"
  <2>1. list = less_k /\ key \in KeysOf(less_k) /\ key \notin KeysOf(greater_k)
    BY <1>3, <1>5, <1>11
  <2>2. item.count \in 2 .. K
    <3>1. list[p] \in L
      BY <1>5, <1>6, <2>1
    <3>2. list[p].count \in 1 .. K - 1
      BY <3>1 DEF L, Items
    <3>3. QED
      BY <1>1, <1>8, <3>2
  <2>3. /\ ListOK(rest, R, L)
        /\ KeysOf(rest) = KeysOf(less_k) \ {key} /\ Len(rest) = Len(less_k) - 1
    <3>1. ListOK(list, used_after, L)
      BY <1>3, <2>1
    <3> HIDE DEF list
    <3>2. /\ p \in DOMAIN list
          /\ Key(list[p]) = key /\ Keeps(R, used_after, KeysOf(list), key)
      BY <1>5, <1>10 DEF Keeps
    <3>3. /\ ListOK(RemoveAt(list, p), R, L)
          /\ KeysOf(RemoveAt(list, p)) = KeysOf(list) \ {key}
          /\ Len(RemoveAt(list, p)) = Len(list) - 1
      BY ONLY <3>1, <3>2, ListRemoved
    <3>4. QED
      BY <1>5, <2>1, <3>3 DEF rest
  <2>4. ListOK(greater_k, R, G)
    <3>1. \A x, y \in KeysOf(greater_k) : <<x, y>> \in used_after => <<x, y>> \in R
      BY <1>3, <1>4, <2>1
    <3>2. QED
      BY <1>3, <3>1, ListSame
  <2>5. CASE item.count < K
    <3>1. item \in L
      BY <1>1, <1>8, <2>2, <2>5 DEF L, Items
    <3>2. key \notin KeysOf(rest) /\ \A x \in KeysOf(rest) : <<key, x>> \in R
      BY <1>10, <2>1, <2>3
    <3>3. less_k' = <<item>> \o rest /\ greater_k' = greater_k /\ cache_map' = cache_map
      BY <1>9, <2>5
    <3>4. /\ ListOK(less_k', R, L)
          /\ KeysOf(less_k') = KeysOf(less_k) /\ Len(less_k') = Len(less_k)
      <4>1. /\ ListOK(<<item>> \o rest, R, L)
            /\ KeysOf(<<item>> \o rest) = KeysOf(rest) \cup {key}
            /\ Len(<<item>> \o rest) = Len(rest) + 1
        BY <1>8, <2>3, <3>1, <3>2, ListPushed
      <4>2. KeysOf(rest) \cup {key} = KeysOf(less_k) /\ Len(rest) + 1 = Len(less_k)
        BY <1>6, <2>1, <2>3
      <4>3. QED
        BY ONLY <3>3, <4>1, <4>2
    <3>5. QED
      BY <1>2, <1>3, <2>4, <3>3, <3>4 DEF CacheOK, L, G
  <2>6. CASE item.count = K
    <3>1. item \in G
      BY <1>1, <1>8, <2>6 DEF G, Items
    <3>2. \A x \in KeysOf(greater_k) : <<key, x>> \in R
      BY <1>3, <1>4, <2>1
    <3>3. /\ less_k' = rest /\ greater_k' = <<item>> \o greater_k
          /\ cache_map' = [cache_map EXCEPT ![key] = "greater"]
      BY <1>1, <1>9, <2>6
    <3>4. /\ ListOK(<<item>> \o greater_k, R, G)
          /\ KeysOf(<<item>> \o greater_k) = KeysOf(greater_k) \cup {key}
          /\ Len(<<item>> \o greater_k) = Len(greater_k) + 1
      BY <1>8, <2>1, <2>4, <3>1, <3>2, ListPushed
    <3>5. /\ ListOK(less_k', used_after', L') /\ ListOK(greater_k', used_after', G')
          /\ KeysOf(less_k') = KeysOf(less_k) \ {key}
          /\ KeysOf(greater_k') = KeysOf(greater_k) \cup {key}
      BY <1>2, <2>3, <3>3, <3>4
    <3>6. Len(less_k') + Len(greater_k') <= Capacity
      BY <1>3, <1>6, <2>3, <3>3, <3>4, CacheAssumption
    <3>7. /\ KeysOf(less_k') \cap KeysOf(greater_k') = {}
          /\ DOMAIN cache_map' = KeysOf(less_k') \cup KeysOf(greater_k')
          /\ \A k \in KeysOf(less_k') : cache_map'[k] = "less"
          /\ \A k \in KeysOf(greater_k') : cache_map'[k] = "greater"
      BY <1>3, <2>1, <3>3, <3>5
    <3>8. QED
      BY <3>5, <3>6, <3>7 DEF CacheOK, L, G
  <2>7. QED
    BY <1>1, <2>2, <2>5, <2>6
<1>12. CASE cache_map[key] # "less"
  <2>1. list = greater_k /\ key \in KeysOf(greater_k) /\ key \notin KeysOf(less_k)
    BY <1>3, <1>5, <1>12
  <2>2. item.count = K + 1
    <3>1. list[p] \in G
      BY <1>5, <1>6, <2>1
    <3>2. list[p].count \in K .. K + 1
      BY <3>1 DEF G, Items
    <3>3. QED
      BY <1>1, <1>8, <3>2
  <2>3. /\ ListOK(rest, R, G)
        /\ KeysOf(rest) = KeysOf(greater_k) \ {key} /\ Len(rest) = Len(greater_k) - 1
    <3>1. ListOK(list, used_after, G)
      BY <1>3, <2>1
    <3> HIDE DEF list
    <3>2. /\ p \in DOMAIN list
          /\ Key(list[p]) = key /\ Keeps(R, used_after, KeysOf(list), key)
      BY <1>5, <1>10 DEF Keeps
    <3>3. /\ ListOK(RemoveAt(list, p), R, G)
          /\ KeysOf(RemoveAt(list, p)) = KeysOf(list) \ {key}
          /\ Len(RemoveAt(list, p)) = Len(list) - 1
      BY ONLY <3>1, <3>2, ListRemoved
    <3>4. QED
      BY <1>5, <2>1, <3>3 DEF rest
  <2>4. ListOK(less_k, R, L)
    <3>1. \A x, y \in KeysOf(less_k) : <<x, y>> \in used_after => <<x, y>> \in R
      BY <1>3, <1>4, <2>1
    <3>2. QED
      BY <1>3, <3>1, ListSame
  <2>5. item \in G
    BY <1>1, <1>8, <2>2 DEF G, Items
  <2>6. key \notin KeysOf(rest) /\ \A x \in KeysOf(rest) : <<key, x>> \in R
    BY <1>10, <2>1, <2>3
  <2>7. greater_k' = <<item>> \o rest /\ less_k' = less_k /\ cache_map' = cache_map
    BY <1>1, <1>9, <2>2
  <2>8. /\ ListOK(greater_k', R, G)
        /\ KeysOf(greater_k') = KeysOf(greater_k) /\ Len(greater_k') = Len(greater_k)
    <3>1. /\ ListOK(<<item>> \o rest, R, G)
          /\ KeysOf(<<item>> \o rest) = KeysOf(rest) \cup {key}
          /\ Len(<<item>> \o rest) = Len(rest) + 1
      BY <1>8, <2>3, <2>5, <2>6, ListPushed
    <3>2. KeysOf(rest) \cup {key} = KeysOf(greater_k) /\ Len(rest) + 1 = Len(greater_k)
      BY <1>6, <2>1, <2>3
    <3>3. QED
      BY ONLY <2>7, <3>1, <3>2
  <2>9. QED
    BY <1>2, <1>3, <2>4, <2>7, <2>8 DEF CacheOK, L, G
<1>13. QED
  BY <1>11, <1>12

\* A list holds as many blocks as it has items.
LEMMA KeyCount ==
  ASSUME NEW G, NEW R, NEW list, ListOK(list, R, G)
  PROVE  IsFiniteSet(KeysOf(list)) /\ Cardinality(KeysOf(list)) = Len(list)
<1>1. list \in Seq(G) /\ Once(list)
  BY DEF ListOK
<1>2. Len(list) \in Nat /\ DOMAIN list = 1 .. Len(list)
  BY <1>1
<1> DEFINE f == [i \in 1 .. Len(list) |-> Key(list[i])]
<1>3. f \in Bijection(1 .. Len(list), KeysOf(list))
  BY <1>1, <1>2 DEF Once, KeysOf, Bijection, Injection, Surjection, IsInjective
<1>4. ExistsBijection(1 .. Len(list), KeysOf(list))
  BY <1>3 DEF ExistsBijection
<1>5. IsFiniteSet(1 .. Len(list)) /\ Cardinality(1 .. Len(list)) = Len(list)
  <2> DEFINE n == Len(list)
  <2>1. n \in Int /\ 1 \in Int /\ n \in Nat
    BY <1>2
  <2> HIDE DEF n
  <2>2. IsFiniteSet(1 .. n) /\ Cardinality(1 .. n) = IF 1 > n THEN 0 ELSE n - 1 + 1
    BY <2>1, FS_Interval
  <2>3. QED
    BY <2>1, <2>2 DEF n
<1>6. QED
  BY <1>4, <1>5, FS_Bijection

\* The map has as many entries as the lists have items.
LEMMA MapCount ==
  ASSUME CacheOK
  PROVE  Cardinality(DOMAIN cache_map) = Len(less_k) + Len(greater_k)
<1>1. /\ IsFiniteSet(KeysOf(less_k)) /\ Cardinality(KeysOf(less_k)) = Len(less_k)
      /\ IsFiniteSet(KeysOf(greater_k)) /\ Cardinality(KeysOf(greater_k)) = Len(greater_k)
  BY KeyCount DEF CacheOK
<1>2. Cardinality(KeysOf(less_k) \cup KeysOf(greater_k))
        = Cardinality(KeysOf(less_k)) + Cardinality(KeysOf(greater_k))
            - Cardinality(KeysOf(less_k) \cap KeysOf(greater_k))
  BY <1>1, FS_Union
<1>3. KeysOf(less_k) \cap KeysOf(greater_k) = {} /\ DOMAIN cache_map = KeysOf(less_k) \cup KeysOf(greater_k)
  BY DEF CacheOK
<1>4. Cardinality({}) = 0
  BY FS_EmptySet
<1>5. Len(less_k) \in Nat /\ Len(greater_k) \in Nat
  BY DEF CacheOK, ListOK
<1>6. Cardinality(DOMAIN cache_map) = Len(less_k) + Len(greater_k) - Cardinality({})
  BY ONLY <1>1, <1>2, <1>3
<1>7. QED
  BY <1>4, <1>5, <1>6

\* What list::pop_back leaves of a list that is not empty.
LEMMA ListPopped ==
  ASSUME NEW G, NEW R, NEW Q, NEW list, ListOK(list, R, G), list # <<>>,
         NEW key, Key(Last(list)) = key, Keeps(Q, R, KeysOf(list), key)
  PROVE  /\ ListOK(Front(list), Q, G) /\ key \in KeysOf(list)
         /\ KeysOf(Front(list)) = KeysOf(list) \ {key}
         /\ Len(Front(list)) = Len(list) - 1
<1>1. list \in Seq(G)
  BY DEF ListOK
<1>2. Front(list) = RemoveAt(list, Len(list)) /\ Len(list) \in DOMAIN list /\ Last(list) = list[Len(list)]
  BY <1>1, FrontRemoves
<1> DEFINE p == Len(list)
<1>3. p \in DOMAIN list /\ Key(list[p]) = key
  BY <1>2
<1> HIDE DEF p
<1>4. /\ ListOK(RemoveAt(list, p), Q, G)
      /\ KeysOf(RemoveAt(list, p)) = KeysOf(list) \ {key}
      /\ Len(RemoveAt(list, p)) = Len(list) - 1
  <2>1. /\ ListOK(list, R, G) /\ p \in DOMAIN list
        /\ Key(list[p]) = key /\ Keeps(Q, R, KeysOf(list), key)
    BY <1>3
  <2>2. ListOK(RemoveAt(list, p), Q, G)
    BY ONLY <2>1, ListRemoved
  <2>3. KeysOf(RemoveAt(list, p)) = KeysOf(list) \ {key}
    BY ONLY <2>1, ListRemoved
  <2>4. Len(RemoveAt(list, p)) = Len(list) - 1
    BY <1>1, <1>3, RemovedAt
  <2>5. QED
    BY <2>2, <2>3, <2>4
<1>5. key \in KeysOf(list)
  BY <1>3 DEF KeysOf
<1>6. QED
  BY <1>2, <1>4, <1>5 DEF p

\* The insert branch of BlockCache::put keeps the cache in order and within its
\* capacity.
LEMMA InsertOK ==
  ASSUME EngineOK, CacheOK, UNCHANGED engine, NEW key \in Nat \X BlockIds,
         key \notin DOMAIN cache_map, NEW data \in Nat, Genuine(key[1], data),
         Insert(key, data)
  PROVE  CacheOK'
<1> DEFINE item == [sst |-> key[1], block |-> key[2], data |-> data, count |-> 1]
           cached == (DOMAIN cache_map \ Evicted) \cup {key}
           R  == Used(key, cached)
           L  == Items(1, K - 1)
           G  == Items(K, K + 1)
           l2 == IF Full /\ less_k # <<>> THEN Front(less_k) ELSE less_k
           g2 == IF Full /\ less_k = <<>> THEN Front(greater_k) ELSE greater_k
<1>1. K \in Nat /\ K >= 2 /\ Capacity \in Nat /\ Capacity >= 1
  BY CacheAssumption
<1>2. L' = L /\ G' = G /\ used_after' = R
  BY DEF engine, Items, Genuine, Insert
<1>3. /\ ListOK(less_k, used_after, L) /\ ListOK(greater_k, used_after, G)
      /\ KeysOf(less_k) \cap KeysOf(greater_k) = {}
      /\ DOMAIN cache_map = KeysOf(less_k) \cup KeysOf(greater_k)
      /\ \A k \in KeysOf(less_k) : cache_map[k] = "less"
      /\ \A k \in KeysOf(greater_k) : cache_map[k] = "greater"
      /\ Len(less_k) + Len(greater_k) <= Capacity
  BY DEF CacheOK
<1>4. /\ \A x, y \in cached \ {key} : <<x, y>> \in used_after => <<x, y>> \in R
      /\ \A x \in cached \ {key} : <<key, x>> \in R
  BY UsedOrder
<1>5. Len(less_k) \in Nat /\ Len(greater_k) \in Nat
  BY <1>3 DEF ListOK
<1>6. item \in L /\ Key(item) = key
  <2>1. item \in Item /\ 1 \in 1 .. K - 1
    BY <1>1 DEF Item
  <2>2. QED
    BY <2>1 DEF Items, Key
<1>7. /\ less_k' = <<item>> \o l2 /\ greater_k' = g2
      /\ cache_map' = [x \in cached |-> IF x = key THEN "less" ELSE cache_map[x]]
  BY DEF Insert
<1>8. Full <=> Len(less_k) + Len(greater_k) >= Capacity
  BY MapCount DEF Full
<1>9. ASSUME NEW S \in SUBSET DOMAIN cache_map, NEW k, Full => Victim = k
      PROVE  Keeps(R, used_after, S, k)
  BY <1>4, <1>9 DEF Keeps, Evicted
<1> HIDE DEF R, L, G, item
<1>10. /\ ListOK(l2, R, L) /\ ListOK(g2, R, G)
       /\ KeysOf(l2) \subseteq KeysOf(less_k) /\ KeysOf(g2) \subseteq KeysOf(greater_k)
       /\ KeysOf(l2) \cup KeysOf(g2) = DOMAIN cache_map \ Evicted
       /\ Len(l2) + Len(g2) + 1 <= Capacity
  <2>1. CASE ~ Full
    <3>1. Keeps(R, used_after, DOMAIN cache_map, key) /\ Evicted = {}
      BY <1>9, <2>1 DEF Evicted
    <3>2. /\ \A x, y \in KeysOf(less_k) : <<x, y>> \in used_after => <<x, y>> \in R
          /\ \A x, y \in KeysOf(greater_k) : <<x, y>> \in used_after => <<x, y>> \in R
      BY <1>3, <3>1 DEF Keeps
    <3>3. ListOK(less_k, R, L) /\ ListOK(greater_k, R, G)
      BY <1>3, <3>2, ListSame
    <3>4. QED
      BY <1>1, <1>3, <1>5, <1>8, <2>1, <3>1, <3>3
  <2>2. CASE Full /\ less_k # <<>>
    <3>1. Victim = Key(Last(less_k)) /\ Evicted = {Victim}
      BY <2>2 DEF Victim, Evicted
    <3>2. Keeps(R, used_after, KeysOf(less_k), Victim) /\ Keeps(R, used_after, KeysOf(greater_k), Victim)
      BY <1>3, <1>9
    <3>3. /\ ListOK(Front(less_k), R, L) /\ Victim \in KeysOf(less_k)
          /\ KeysOf(Front(less_k)) = KeysOf(less_k) \ {Victim}
          /\ Len(Front(less_k)) = Len(less_k) - 1
      BY <1>3, <2>2, <3>1, <3>2, ListPopped
    <3>4. \A x, y \in KeysOf(greater_k) : <<x, y>> \in used_after => <<x, y>> \in R
      BY <1>3, <3>2, <3>3 DEF Keeps
    <3>5. ListOK(greater_k, R, G)
      BY <1>3, <3>4, ListSame
    <3>6. QED
      BY <1>1, <1>3, <1>5, <2>2, <3>1, <3>3, <3>5
  <2>3. CASE Full /\ less_k = <<>>
    <3>1. Victim = Key(Last(greater_k)) /\ Evicted = {Victim}
      BY <2>3 DEF Victim, Evicted
    <3>2. Keeps(R, used_after, KeysOf(less_k), Victim) /\ Keeps(R, used_after, KeysOf(greater_k), Victim)
      BY <1>3, <1>9
    <3>3. greater_k # <<>>
      BY <1>1, <1>8, <2>3
    <3>4. /\ ListOK(Front(greater_k), R, G) /\ Victim \in KeysOf(greater_k)
          /\ KeysOf(Front(greater_k)) = KeysOf(greater_k) \ {Victim}
          /\ Len(Front(greater_k)) = Len(greater_k) - 1
      BY <1>3, <3>1, <3>2, <3>3, ListPopped
    <3>5. \A x, y \in KeysOf(less_k) : <<x, y>> \in used_after => <<x, y>> \in R
      BY <1>3, <3>2, <3>4 DEF Keeps
    <3>6. ListOK(less_k, R, L)
      BY <1>3, <3>5, ListSame
    <3>7. QED
      BY <1>1, <1>3, <1>5, <2>3, <3>1, <3>4, <3>6
  <2>4. QED
    BY <2>1, <2>2, <2>3
<1> HIDE DEF l2, g2
<1>11. /\ ListOK(<<item>> \o l2, R, L)
       /\ KeysOf(<<item>> \o l2) = KeysOf(l2) \cup {key}
       /\ Len(<<item>> \o l2) = Len(l2) + 1
  <2>1. key \notin KeysOf(l2) /\ \A x \in KeysOf(l2) : <<key, x>> \in R
    BY <1>4, <1>10
  <2>2. QED
    BY <1>6, <1>10, <2>1, ListPushed
<1>12. /\ ListOK(less_k', used_after', L') /\ ListOK(greater_k', used_after', G')
       /\ KeysOf(less_k') = KeysOf(l2) \cup {key} /\ KeysOf(greater_k') = KeysOf(g2)
  BY <1>2, <1>7, <1>10, <1>11
<1>13. Len(less_k') + Len(greater_k') <= Capacity
  <2>1. Len(l2) \in Nat /\ Len(g2) \in Nat
    BY <1>10 DEF ListOK
  <2>2. Len(less_k') = Len(l2) + 1 /\ greater_k' = g2
    BY <1>7, <1>11
  <2>3. QED
    BY <1>1, <1>10, <2>1, <2>2
<1>14. /\ KeysOf(less_k') \cap KeysOf(greater_k') = {}
       /\ DOMAIN cache_map' = KeysOf(less_k') \cup KeysOf(greater_k')
       /\ \A k \in KeysOf(less_k') : cache_map'[k] = "less"
       /\ \A k \in KeysOf(greater_k') : cache_map'[k] = "greater"
  BY <1>3, <1>7, <1>10, <1>12
<1>15. QED
  BY <1>12, <1>13, <1>14 DEF CacheOK, L, G

-----------------------------------------------------------------------------
(* The steps.                                                              *)

\* The end of read_block.
LEMMA DeliverOK ==
  ASSUME CInv, UNCHANGED engine, NEW t \in Readers, NEW data \in Nat, Deliver(t, data, data)
  PROVE  ThreadsOK'
<1>1. Loading' = Loading
  BY DEF engine, Loading, Genuine
<1>2. op \in [Readers -> {Idle} \cup Loading] /\ op' = [op EXCEPT ![t] = Idle]
  BY DEF CInv, ThreadsOK, Deliver
<1>3. op' \in [Readers -> {Idle} \cup Loading']
  BY <1>1, <1>2
<1>4. /\ returned \in [Readers -> [asked : Nat, got : Nat]]
      /\ returned' = [returned EXCEPT ![t] = [asked |-> data, got |-> data]]
      /\ \A u \in Readers : returned[u].got = returned[u].asked
  BY DEF CInv, ThreadsOK, Deliver, ReadsOwnFile
<1>5. returned' \in [Readers -> [asked : Nat, got : Nat]] /\ ReadsOwnFile'
  BY <1>4 DEF ReadsOwnFile
<1>6. QED
  BY <1>3, <1>5 DEF ThreadsOK

\* A hit: what the cache has under the id of a file in use comes from that file.
LEMMA ReadHitOK ==
  ASSUME CInv, NEW t \in Readers, NEW id \in DOMAIN files, NEW b \in BlockIds, ReadHit(t, id, b)
  PROVE  CInv'
<1> DEFINE key  == <<id, b>>
           list == IF cache_map[key] = "less" THEN less_k ELSE greater_k
           p    == Position(list, key)
           data == list[p].data
<1>1. /\ UNCHANGED engine /\ key \in DOMAIN cache_map
      /\ update_access_count(key, data) /\ Deliver(t, files[id], data)
  BY DEF ReadHit
<1>2. EngineOK /\ CacheOK
  BY DEF CInv
<1>3. p \in DOMAIN list /\ Key(list[p]) = key
  <2>1. key \in KeysOf(list)
    BY <1>1, <1>2 DEF CacheOK
  <2>2. QED
    BY <2>1, ItemOfKey
<1>4. list[p] \in Item /\ Genuine(list[p].sst, data)
  <2>1. list \in Seq(Items(1, K - 1) \cup Items(K, K + 1))
    BY <1>2 DEF CacheOK, ListOK
  <2>2. list[p] \in Items(1, K - 1) \cup Items(K, K + 1)
    BY <1>3, <2>1
  <2>3. QED
    BY <2>2 DEF Items
<1> HIDE DEF p, list
<1>5. list[p].sst = id /\ data \in Nat
  BY <1>3, <1>4 DEF Key, Item
<1>6. data = files[id]
  BY <1>4, <1>5 DEF Genuine
<1>7. key[1] = id /\ Genuine(key[1], data)
  BY <1>4, <1>5
<1> HIDE DEF key, data
<1>8. CacheOK'
  BY <1>1, <1>2, <1>5, <1>7, UpdateOK
<1>9. ThreadsOK'
  BY <1>1, <1>5, <1>6, DeliverOK
<1>10. EngineOK'
  BY <1>1, <1>2 DEF EngineOK, engine
<1>11. QED
  BY <1>8, <1>9, <1>10 DEF CInv

\* The put after a miss, whether or not another thread was faster.
LEMMA ReadPutOK ==
  ASSUME CInv, NEW t \in Readers, ReadPut(t)
  PROVE  CInv'
<1> DEFINE key  == op[t].key
           data == op[t].file
<1>1. /\ UNCHANGED engine /\ Deliver(t, data, data) /\ op[t] # Idle
      /\ \/ key \in DOMAIN cache_map /\ update_access_count(key, data)
         \/ key \notin DOMAIN cache_map /\ Insert(key, data)
  BY DEF ReadPut
<1>2. EngineOK /\ CacheOK /\ op[t] \in Loading
  BY <1>1 DEF CInv, ThreadsOK
<1>3. key \in Nat \X BlockIds /\ data \in Nat /\ Genuine(key[1], data)
  BY <1>2 DEF Loading
<1> HIDE DEF key, data
<1>4. CacheOK'
  <2>1. CASE key \in DOMAIN cache_map /\ update_access_count(key, data)
    BY <1>1, <1>2, <1>3, <2>1, UpdateOK
  <2>2. CASE key \notin DOMAIN cache_map /\ Insert(key, data)
    BY <1>1, <1>2, <1>3, <2>2, InsertOK
  <2>3. QED
    BY <1>1, <2>1, <2>2
<1>5. ThreadsOK'
  BY <1>1, <1>3, DeliverOK
<1>6. EngineOK'
  BY <1>1, <1>2 DEF EngineOK, engine
<1>7. QED
  BY <1>4, <1>5, <1>6 DEF CInv

\* A miss.
LEMMA ReadMissOK ==
  ASSUME CInv, NEW t \in Readers, NEW id \in DOMAIN files, NEW b \in BlockIds, ReadMiss(t, id, b)
  PROVE  CInv'
<1> DEFINE o == [step |-> "load", key |-> <<id, b>>, file |-> files[id]]
<1>1. UNCHANGED <<engine, cache, returned>> /\ op' = [op EXCEPT ![t] = o]
  BY DEF ReadMiss
<1>2. EngineOK'
  BY <1>1 DEF CInv, EngineOK, engine
<1>3. CacheOK'
  BY <1>1 DEF CInv, CacheOK, engine, cache, Items, Genuine
<1>4. Loading' = Loading
  BY <1>1 DEF engine, Loading, Genuine
<1>5. o \in Loading
  <2>1. id \in Nat /\ id < next_sst_id /\ files[id] \in Nat
    BY DEF CInv, EngineOK
  <2>2. o \in [step : {"load"}, key : Nat \X BlockIds, file : Nat] /\ o.key[1] = id /\ o.file = files[id]
    BY <2>1
  <2> HIDE DEF o
  <2>3. Genuine(o.key[1], o.file)
    BY <2>1, <2>2 DEF Genuine
  <2>4. QED
    BY <2>2, <2>3 DEF Loading
<1> HIDE DEF o
<1>6. op' \in [Readers -> {Idle} \cup Loading']
  BY <1>1, <1>4, <1>5 DEF CInv, ThreadsOK
<1>7. returned' \in [Readers -> [asked : Nat, got : Nat]] /\ ReadsOwnFile'
  BY <1>1 DEF CInv, ThreadsOK, ReadsOwnFile
<1>8. QED
  BY <1>2, <1>3, <1>6, <1>7 DEF CInv, ThreadsOK

\* Files that come under a fresh id, or go, leave every cached block genuine.
LEMMA FilesOK ==
  ASSUME CInv, UNCHANGED <<cache, op, returned>>, EngineOK',
         \A id \in Nat, data \in Nat : Genuine(id, data) => Genuine(id, data)'
  PROVE  CInv'
<1>1. \A lo, hi \in Nat : Items(lo, hi) \subseteq Items(lo, hi)'
  BY DEF Items, Item
<1>2. 1 \in Nat /\ K - 1 \in Nat /\ K \in Nat /\ K + 1 \in Nat
  BY CacheAssumption
<1>3. Items(1, K - 1) \subseteq Items(1, K - 1)' /\ Items(K, K + 1) \subseteq Items(K, K + 1)'
  BY <1>1, <1>2
<1>4. less_k \in Seq(Items(1, K - 1)) /\ greater_k \in Seq(Items(K, K + 1))
  BY DEF CInv, CacheOK, ListOK
<1>5. less_k \in Seq(Items(1, K - 1)') /\ greater_k \in Seq(Items(K, K + 1)')
  BY <1>3, <1>4
<1>6. CacheOK'
  BY <1>5 DEF CInv, CacheOK, ListOK, cache
<1>7. Loading \subseteq Loading'
  BY DEF Loading
<1>8. op' \in [Readers -> {Idle} \cup Loading']
  BY <1>7 DEF CInv, ThreadsOK
<1>9. QED
  BY <1>6, <1>8 DEF CInv, ThreadsOK, ReadsOwnFile

\* Every step keeps the invariant.
LEMMA StepOK == CInv /\ [Next]_vars => CInv'
<1> SUFFICES ASSUME CInv, [Next]_vars  PROVE CInv'
  OBVIOUS
<1>1. EngineOK /\ CacheOK /\ ThreadsOK
  BY DEF CInv
<1>2. ASSUME NEW t \in Readers, NEW id \in DOMAIN files, NEW b \in BlockIds,
             ReadHit(t, id, b) \/ ReadMiss(t, id, b)
      PROVE  CInv'
  BY <1>2, ReadHitOK, ReadMissOK
<1>3. ASSUME NEW t \in Readers, ReadPut(t)  PROVE CInv'
  BY <1>3, ReadPutOK
<1>4. CASE Build
  <2>1. EngineOK'
    BY <1>1, <1>4 DEF Build, EngineOK
  <2>2. \A id \in Nat, data \in Nat : Genuine(id, data) => Genuine(id, data)'
    BY <1>1, <1>4 DEF Build, EngineOK, Genuine
  <2>3. QED
    BY <1>4, <2>1, <2>2, FilesOK DEF Build
<1>5. ASSUME NEW id \in ssts, Drop(id)  PROVE CInv'
  <2>1. EngineOK'
    BY <1>1, <1>5 DEF Drop, EngineOK
  <2>2. \A i \in Nat, data \in Nat : Genuine(i, data) => Genuine(i, data)'
    BY <1>5 DEF Drop, Genuine
  <2>3. QED
    BY <1>5, <2>1, <2>2, FilesOK DEF Drop
<1>6. CASE Clear
  <2>1. EngineOK'
    BY <1>1, <1>6 DEF Clear, EngineOK
  <2>2. \A i \in Nat, data \in Nat : Genuine(i, data) => Genuine(i, data)'
    BY <1>6 DEF Clear, Genuine
  <2>3. QED
    BY <1>6, <2>1, <2>2, FilesOK DEF Clear
<1>7. CASE Reopen
  <2>1. EngineOK'
    <3>1. ssts \in SUBSET Nat /\ next_sst_id \in Nat /\ \A id \in ssts : id <= next_sst_id
      BY <1>1 DEF EngineOK
    <3>2. /\ Max(ssts \cup {-1}) + 1 \in Nat
          /\ \A id \in ssts : id < Max(ssts \cup {-1}) + 1
      BY <3>1, MaxWithMinusOne
    <3>3. DOMAIN files' = ssts /\ \A id \in ssts : files'[id] = files[id]
      BY <1>7 DEF Reopen
    <3>4. QED
      BY <1>1, <1>7, <3>2, <3>3 DEF Reopen, EngineOK
  <2>2. CacheOK'
    <3>1. less_k' = <<>> /\ greater_k' = <<>> /\ DOMAIN cache_map' = {}
      BY <1>7 DEF Reopen
    <3>2. KeysOf(less_k') = {} /\ KeysOf(greater_k') = {} /\ Len(less_k') + Len(greater_k') <= Capacity
      BY <3>1, CacheAssumption DEF KeysOf
    <3>3. QED
      BY <3>1, <3>2 DEF CacheOK, ListOK, Once, Ordered
  <2>3. ThreadsOK'
    BY <1>1, <1>7 DEF Reopen, ThreadsOK, ReadsOwnFile, NoRead
  <2>4. QED
    BY <2>1, <2>2, <2>3 DEF CInv
<1>8. CASE UNCHANGED vars
  <2>1. EngineOK' /\ UNCHANGED <<cache, op, returned>>
    BY <1>1, <1>8 DEF vars, engine, EngineOK
  <2>2. \A i \in Nat, data \in Nat : Genuine(i, data) => Genuine(i, data)'
    BY <1>8 DEF vars, engine, Genuine
  <2>3. QED
    BY <2>1, <2>2, FilesOK
<1>9. QED
  BY <1>2, <1>3, <1>4, <1>5, <1>6, <1>7, <1>8 DEF Next

\* An empty cache satisfies it.
LEMMA InitOK == Init => CInv
<1> SUFFICES ASSUME Init  PROVE CInv
  OBVIOUS
<1>1. DOMAIN files = {} /\ DOMAIN cache_map = {}
  BY DEF Init
<1>2. KeysOf(less_k) = {} /\ KeysOf(greater_k) = {}
  BY DEF Init, KeysOf
<1>3. EngineOK
  BY <1>1 DEF Init, EngineOK
<1>4. CacheOK
  BY <1>1, <1>2, CacheAssumption DEF Init, CacheOK, ListOK, Once, Ordered
<1>5. ThreadsOK
  BY DEF Init, ThreadsOK, ReadsOwnFile, NoRead
<1>6. QED
  BY <1>3, <1>4, <1>5 DEF CInv

-----------------------------------------------------------------------------
(* The theorems.                                                           *)

\* Blocks in the cache and in the hands of the threads belong to the file that has
\* their id now, or to none; the lists and the map are one LRU-K cache.
THEOREM CacheInvariant == Spec => []CInv
<1>1. Init => CInv
  BY InitOK
<1>2. CInv /\ [Next]_vars => CInv'
  BY StepOK
<1>3. QED
  BY <1>1, <1>2, PTL DEF Spec

\* SST::read_block returns a block of the file it was asked for, whatever blocks of
\* deleted files are in the cache and whichever ids are used again.
THEOREM ReadersGetOwnFile == Spec => []ReadsOwnFile
<1>1. CInv => ReadsOwnFile
  BY DEF CInv, ThreadsOK
<1>2. QED
  BY <1>1, CacheInvariant, PTL

\* BlockCache::cache_map_ leads to every item of the two lists and to nothing else.
THEOREM MapMatchesLists == Spec => []MapAgrees
<1>1. CInv => MapAgrees
  <2>1. SUFFICES ASSUME CacheOK  PROVE MapAgrees
    BY DEF CInv
  <2>2. Cardinality(DOMAIN cache_map) = Len(less_k) + Len(greater_k)
    BY <2>1, MapCount
  <2>3. DOMAIN cache_map = KeysOf(less_k) \cup KeysOf(greater_k)
    BY <2>1 DEF CacheOK
  <2>4. ASSUME NEW key \in DOMAIN cache_map
        PROVE  key \in KeysOf(IF cache_map[key] = "less" THEN less_k ELSE greater_k)
    BY <2>1 DEF CacheOK
  <2>5. QED
    BY <2>2, <2>3, <2>4 DEF MapAgrees
<1>2. QED
  BY <1>1, CacheInvariant, PTL

\* BlockCache::put keeps the cache within its capacity and evicts the least recently
\* used block of its list.
THEOREM EvictionsOldest == Spec => []EvictsOldest
<1>1. CInv => EvictsOldest
  BY DEF CInv, CacheOK, ListOK, Ordered, EvictsOldest
<1>2. QED
  BY <1>1, CacheInvariant, PTL
=============================================================================
