---------------------------- MODULE RedisProofs ----------------------------
(***************************************************************************)
(* Proofs about the Redis layer, for every number of threads, every set of *)
(* keys, items and scores and every clock.                                 *)
(*                                                                         *)
(* A command writes the entries of one key (DEL: of some), so what holds   *)
(* of the entries of a key is stated of a store and a key: the section of  *)
(* a command changes the store in a way that keeps the invariant of its    *)
(* key, and leaves the entries of the other keys alone.                    *)
(***************************************************************************)
EXTENDS Redis, FiniteSetTheorems, TLAPS

-----------------------------------------------------------------------------
(* Sequences and finite sets.                                              *)

\* SetToSeq lists every element of a finite set, each once.
LEMMA SetToSeqLists ==
  ASSUME NEW S, IsFiniteSet(S)
  PROVE  /\ SetToSeq(S) \in Seq(S)
         /\ IsInjective(SetToSeq(S))
         /\ ToSet(SetToSeq(S)) = S
<1> DEFINE n == Cardinality(S)
           s == SetToSeq(S)
<1>1. n \in Nat /\ ExistsBijection(1 .. n, S)
  BY FS_CardinalityType
<1>2. PICK b : b \in Bijection(1 .. n, S)
  BY <1>1 DEF ExistsBijection
<1>3. b \in [1 .. n -> S] /\ IsInjective(b)
  BY <1>2 DEF Bijection, Injection
<1>4. s \in [1 .. n -> S] /\ IsInjective(s)
  BY <1>3 DEF SetToSeq
<1>5. s \in Injection(1 .. n, S)
  BY <1>4 DEF Injection
<1>6. Cardinality(1 .. n) = n
  BY <1>1, FS_Interval
<1>7. s \in Surjection(1 .. n, S)
  BY <1>5, <1>6, FS_Injection
<1>8. ToSet(s) = S
  BY <1>4, <1>7 DEF ToSet, Surjection
<1>9. s \in Seq(S)
  BY <1>1, <1>4
<1>10. QED
  BY <1>4, <1>8, <1>9

\* The join of two lists without repetitions and without a common element.
LEMMA JoinLists ==
  ASSUME NEW S, NEW s \in Seq(S), NEW t \in Seq(S),
         IsInjective(s), IsInjective(t), ToSet(s) \cap ToSet(t) = {}
  PROVE  /\ s \o t \in Seq(S)
         /\ IsInjective(s \o t)
         /\ ToSet(s \o t) = ToSet(s) \cup ToSet(t)
<1> DEFINE u == s \o t
<1>1. /\ u \in Seq(S) /\ Len(u) = Len(s) + Len(t) /\ DOMAIN u = 1 .. Len(u)
      /\ DOMAIN s = 1 .. Len(s) /\ DOMAIN t = 1 .. Len(t)
      /\ \A i \in 1 .. Len(s) : u[i] = s[i]
      /\ \A i \in Len(s) + 1 .. Len(u) : i - Len(s) \in DOMAIN t /\ u[i] = t[i - Len(s)]
      /\ Len(s) \in Nat /\ Len(t) \in Nat
  OBVIOUS
<1>2. ASSUME NEW a \in DOMAIN u, NEW b \in DOMAIN u, u[a] = u[b]  PROVE a = b
  <2>1. \A i \in DOMAIN s, j \in DOMAIN t : s[i] # t[j]
    BY DEF ToSet
  <2>2. CASE a \in 1 .. Len(s) /\ b \in 1 .. Len(s)
    BY <1>1, <1>2, <2>2 DEF IsInjective
  <2>3. CASE a \in Len(s) + 1 .. Len(u) /\ b \in Len(s) + 1 .. Len(u)
    <3>1. a - Len(s) = b - Len(s)
      BY <1>1, <1>2, <2>3 DEF IsInjective
    <3>2. QED
      BY <1>1, <3>1
  <2>4. CASE ~ (a \in 1 .. Len(s) <=> b \in 1 .. Len(s))
    BY <1>1, <1>2, <2>1, <2>4
  <2>5. QED
    BY <1>1, <2>2, <2>3, <2>4
<1>3. ToSet(u) = ToSet(s) \cup ToSet(t)
  <2>1. ASSUME NEW i \in DOMAIN u  PROVE u[i] \in ToSet(s) \cup ToSet(t)
    <3>1. i \in 1 .. Len(s) \/ i \in Len(s) + 1 .. Len(u)
      BY <1>1
    <3>2. QED
      BY <1>1, <3>1 DEF ToSet
  <2>2. ASSUME NEW i \in DOMAIN s  PROVE s[i] \in ToSet(u)
    BY <1>1 DEF ToSet
  <2>3. ASSUME NEW i \in DOMAIN t  PROVE t[i] \in ToSet(u)
    <3>1. i + Len(s) \in DOMAIN u /\ u[i + Len(s)] = t[i]
      BY <1>1
    <3>2. QED
      BY <3>1 DEF ToSet
  <2>4. QED
    BY <2>1, <2>2, <2>3 DEF ToSet
<1>4. QED
  BY <1>1, <1>2, <1>3 DEF IsInjective

\* What erasing a name leaves of a list without repetitions.
LEMMA RemoveFromList ==
  ASSUME NEW S, NEW s \in Seq(S), IsInjective(s), NEW e \in ToSet(s)
  PROVE  /\ RemoveFirst(s, e) \in Seq(S)
         /\ IsInjective(RemoveFirst(s, e))
         /\ ToSet(RemoveFirst(s, e)) = ToSet(s) \ {e}
<1>1. PICK p \in 1 .. Len(s) : s[p] = e
  BY DEF ToSet
<1>2. {i \in 1 .. Len(s) : s[i] = e} = {p}
  BY <1>1 DEF IsInjective
<1>3. Min({p}) = p
  BY <1>1 DEF Min
<1>4. SelectInSeq(s, LAMBDA v : v = e) = p
  BY <1>2, <1>3 DEF SelectInSeq
<1> DEFINE l == SubSeq(s, 1, p - 1)
           r == SubSeq(s, p + 1, Len(s))
           u == l \o r
           from(i) == IF i < p THEN i ELSE i + 1
<1>5. RemoveFirst(s, e) = u
  BY <1>1, <1>4 DEF RemoveFirst, RemoveAt
<1>6. /\ u \in Seq(S) /\ Len(u) = Len(s) - 1 /\ DOMAIN u = 1 .. Len(u)
      /\ DOMAIN s = 1 .. Len(s) /\ Len(s) \in Nat
      /\ \A i \in DOMAIN u : from(i) \in DOMAIN s \ {p} /\ u[i] = s[from(i)]
  <2>1. /\ l \in Seq(S) /\ Len(l) = p - 1
        /\ \A i \in 1 .. p - 1 : l[i] = s[i]
        /\ r \in Seq(S) /\ Len(r) = Len(s) - p
        /\ \A i \in 1 .. Len(s) - p : r[i] = s[p + i]
    OBVIOUS
  <2> HIDE DEF l, r
  <2>2. /\ u \in Seq(S) /\ Len(u) = Len(l) + Len(r) /\ DOMAIN u = 1 .. Len(u)
        /\ \A i \in 1 .. Len(l) : u[i] = l[i]
        /\ \A i \in Len(l) + 1 .. Len(u) : u[i] = r[i - Len(l)]
    <3>1. l \in Seq(S) /\ r \in Seq(S)
      BY <2>1
    <3>2. QED
      BY ONLY <3>1
  <2>3. DOMAIN s = 1 .. Len(s) /\ Len(s) \in Nat /\ Len(u) = Len(s) - 1
    BY <2>1, <2>2
  <2>4. ASSUME NEW i \in DOMAIN u  PROVE from(i) \in DOMAIN s \ {p} /\ u[i] = s[from(i)]
    <3>1. CASE i \in 1 .. p - 1
      BY <2>1, <2>2, <2>3, <3>1
    <3>2. CASE i \in p .. Len(u)
      <4>1. i - Len(l) \in 1 .. Len(s) - p /\ u[i] = r[i - Len(l)]
        BY <2>1, <2>2, <2>3, <3>2
      <4>2. p + (i - Len(l)) = i + 1
        BY <2>1, <3>2
      <4>3. r[i - Len(l)] = s[i + 1]
        BY <2>1, <4>1, <4>2
      <4>4. QED
        BY <2>3, <3>2, <4>1, <4>3
    <3>3. QED
      BY <2>2, <3>1, <3>2
  <2>5. QED
    BY <2>2, <2>3, <2>4
<1> HIDE DEF u
<1>7. ASSUME NEW a \in DOMAIN u, NEW b \in DOMAIN u, u[a] = u[b]  PROVE a = b
  <2>1. from(a) = from(b)
    BY <1>6, <1>7 DEF IsInjective
  <2>2. QED
    BY <1>6, <2>1
<1>8. ToSet(u) = ToSet(s) \ {e}
  <2>1. ASSUME NEW i \in DOMAIN u  PROVE u[i] \in ToSet(s) \ {e}
    BY <1>1, <1>6 DEF ToSet, IsInjective
  <2>2. ASSUME NEW j \in DOMAIN s, s[j] # e  PROVE s[j] \in ToSet(u)
    <3>1. j \in 1 .. p - 1 \/ j \in p + 1 .. Len(s)
      BY <1>1, <1>6, <2>2
    <3>2. CASE j \in 1 .. p - 1
      BY <1>6, <3>2 DEF ToSet
    <3>3. CASE j \in p + 1 .. Len(s)
      <4>1. j - 1 \in DOMAIN u /\ from(j - 1) = j
        BY <1>6, <3>3
      <4>2. QED
        BY <1>6, <4>1 DEF ToSet
    <3>4. QED
      BY <3>1, <3>2, <3>3
  <2>3. QED
    BY <2>1, <2>2 DEF ToSet
<1>9. QED
  BY <1>5, <1>6, <1>7, <1>8 DEF IsInjective

-----------------------------------------------------------------------------
(* The inductive invariant.                                                *)

\* No score is given to two elements.
DistinctScores == \A d, e \in Items : d # e => Scores[d] \cap Scores[e] = {}

\* The entries that a key of type t may have.
Entries(k, t) ==
  {Main(k), Expire(k)}
    \cup (IF t = "hash" THEN {Field(k, f) : f \in Items} ELSE {})
    \cup (IF t = "zset" THEN {Elem(k, e) : e \in Items} \cup {Score(k, s) : s \in Nat} ELSE {})
    \cup (IF t = "set" THEN {Member(k, m) : m \in Items} ELSE {})

\* The field list has no repetitions and lists the fields with an entry.
HashOK(st, k) ==
  /\ Fields(st, k) \in Seq(Items)
  /\ IsInjective(Fields(st, k))
  /\ \A f \in Items : Field(k, f) \in DOMAIN st <=> f \in ToSet(Fields(st, k))

ListOK(st, k) == Main(k) \in DOMAIN st => st[Main(k)] \in Seq(Items)

\* An element with a score is under that score.
ScoresOK(st, k) ==
  \A e \in Items : Elem(k, e) \in DOMAIN st =>
    /\ st[Elem(k, e)] \in Scores[e]
    /\ Score(k, st[Elem(k, e)]) \in DOMAIN st
    /\ st[Score(k, st[Elem(k, e)])] = e

MembersOf(st, k) == {m \in Items : Member(k, m) \in DOMAIN st}

CountOf(st, k) == IF Main(k) \in DOMAIN st THEN st[Main(k)] ELSE 0

\* What holds of the entries of a key of type t: for a set if no set is ever
\* deleted, for a sorted set if no two elements are given the same score.
KeyOK(st, k, t) ==
  /\ t = "hash" => HashOK(st, k)
  /\ t = "list" => ListOK(st, k)
  /\ t = "zset" /\ DistinctScores => ScoresOK(st, k)
  /\ t = "set" /\ "set" \notin Deletable => CountOf(st, k) = Cardinality(MembersOf(st, k))

StoreOK(st, ty) ==
  /\ IsFiniteSet(DOMAIN st)
  /\ \A x \in DOMAIN st : \E k \in Keys : x \in Entries(k, ty[k])
  /\ \A k \in Keys : KeyOK(st, k, ty[k])

Roles == {"reader", "update", "upsert"}

Ops == {Idle} \cup [step : {"clean", "write"}, key : Keys, role : Roles]
              \cup [step : {"get_clean", "orphan"}, key : Keys]

\* What a thread goes on to do is a command on strings iff its key is a string.
OpsOK(o, ty) ==
  /\ o \in [Clients -> Ops]
  /\ \A c \in Clients :
       /\ o[c].step \in {"clean", "write"} => ty[o[c].key] # "string"
       /\ o[c].step \in {"get_clean", "orphan"} => ty[o[c].key] = "string"

\* The inductive invariant.
RInv ==
  /\ type \in [Keys -> Types]
  /\ OpsOK(op, type)
  /\ StoreOK(store, type)

-----------------------------------------------------------------------------
(* Entries and the store.                                                  *)

\* The parts of an entry.
LEMMA EntryParts ==
  /\ \A k : Main(k)[1] = "main" /\ Main(k)[2] = k
  /\ \A k : Expire(k)[1] = "expire" /\ Expire(k)[2] = k
  /\ \A k, f : Field(k, f)[1] = "field" /\ Field(k, f)[2] = k /\ Field(k, f)[3] = f
  /\ \A k, e : Elem(k, e)[1] = "elem" /\ Elem(k, e)[2] = k /\ Elem(k, e)[3] = e
  /\ \A k, s : Score(k, s)[1] = "score" /\ Score(k, s)[2] = k /\ Score(k, s)[3] = s
  /\ \A k, m : Member(k, m)[1] = "member" /\ Member(k, m)[2] = k /\ Member(k, m)[3] = m
BY DEF Main, Expire, Field, Elem, Score, Member

\* An entry in Entries(k, t) is one of the key k.
LEMMA EntriesOfKey ==
  ASSUME NEW k, NEW t, NEW x \in Entries(k, t)
  PROVE  x[2] = k
BY EntryParts DEF Entries

\* The stores st and st2 have the same value for the key l, but for its deadline.
SameValue(st, st2, l) ==
  \A x : x[2] = l /\ x[1] # "expire" =>
    /\ x \in DOMAIN st2 <=> x \in DOMAIN st
    /\ x \in DOMAIN st => st2[x] = st[x]

\* KeyOK looks at nothing else.
LEMMA SameValueOK ==
  ASSUME NEW st, NEW st2, NEW l, NEW t, SameValue(st, st2, l), KeyOK(st, l, t)
  PROVE  KeyOK(st2, l, t)
<1>1. /\ Main(l) \in DOMAIN st2 <=> Main(l) \in DOMAIN st
      /\ Main(l) \in DOMAIN st => st2[Main(l)] = st[Main(l)]
  BY EntryParts DEF SameValue
<1>2. \A f : Field(l, f) \in DOMAIN st2 <=> Field(l, f) \in DOMAIN st
  BY EntryParts DEF SameValue
<1>3. \A e : /\ Elem(l, e) \in DOMAIN st2 <=> Elem(l, e) \in DOMAIN st
             /\ Elem(l, e) \in DOMAIN st => st2[Elem(l, e)] = st[Elem(l, e)]
  BY EntryParts DEF SameValue
<1>4. \A s : /\ Score(l, s) \in DOMAIN st2 <=> Score(l, s) \in DOMAIN st
             /\ Score(l, s) \in DOMAIN st => st2[Score(l, s)] = st[Score(l, s)]
  BY EntryParts DEF SameValue
<1>5. \A m : Member(l, m) \in DOMAIN st2 <=> Member(l, m) \in DOMAIN st
  BY EntryParts DEF SameValue
<1>6. Fields(st2, l) = Fields(st, l)
  BY <1>1 DEF Fields
<1>7. HashOK(st, l) => HashOK(st2, l)
  BY <1>2, <1>6 DEF HashOK
<1>8. ListOK(st, l) => ListOK(st2, l)
  BY <1>1 DEF ListOK
<1>9. ScoresOK(st, l) => ScoresOK(st2, l)
  BY <1>3, <1>4 DEF ScoresOK
<1>10. MembersOf(st2, l) = MembersOf(st, l) /\ CountOf(st2, l) = CountOf(st, l)
  BY <1>1, <1>5 DEF MembersOf, CountOf
<1>11. QED
  BY <1>7, <1>8, <1>9, <1>10 DEF KeyOK

\* A command on the key k keeps the invariant of the store if it keeps that of
\* its key and leaves the values of the other keys alone.
LEMMA CommandOK ==
  ASSUME NEW ty \in [Keys -> Types], NEW st, StoreOK(st, ty), NEW st2, NEW k \in Keys,
         NEW new \in SUBSET Entries(k, ty[k]), IsFiniteSet(new),
         DOMAIN st2 \subseteq DOMAIN st \cup new,
         \A l \in Keys \ {k} : SameValue(st, st2, l),
         KeyOK(st2, k, ty[k])
  PROVE  StoreOK(st2, ty)
<1>1. IsFiniteSet(DOMAIN st2)
  <2>1. IsFiniteSet(DOMAIN st \cup new)
    BY FS_Union DEF StoreOK
  <2>2. QED
    BY <2>1, FS_Subset
<1>2. \A x \in DOMAIN st2 : \E l \in Keys : x \in Entries(l, ty[l])
  BY DEF StoreOK
<1>3. \A l \in Keys : KeyOK(st2, l, ty[l])
  BY SameValueOK DEF StoreOK
<1>4. QED
  BY <1>1, <1>2, <1>3 DEF StoreOK

\* Puts and removes of entries of other keys, or of a deadline, leave the value of
\* the key l alone.
LEMMA WithOther ==
  ASSUME NEW st, NEW S, NEW v, NEW l, \A x \in S : x[2] # l \/ x[1] = "expire"
  PROVE  SameValue(st, With(st, S, v), l)
<1> SUFFICES ASSUME NEW x, x[2] = l, x[1] # "expire"
             PROVE  /\ x \in DOMAIN With(st, S, v) <=> x \in DOMAIN st
                    /\ x \in DOMAIN st => With(st, S, v)[x] = st[x]
  BY DEF SameValue
<1>1. x \notin S
  OBVIOUS
<1>2. QED
  BY <1>1 DEF With

LEMMA WithoutOther ==
  ASSUME NEW st, NEW S, NEW l, \A x \in S : x[2] # l \/ x[1] = "expire"
  PROVE  SameValue(st, Without(st, S), l)
<1> SUFFICES ASSUME NEW x, x[2] = l, x[1] # "expire"
             PROVE  /\ x \in DOMAIN Without(st, S) <=> x \in DOMAIN st
                    /\ x \in DOMAIN st => Without(st, S)[x] = st[x]
  BY DEF SameValue
<1>1. x \notin S
  OBVIOUS
<1>2. QED
  BY <1>1 DEF Without

LEMMA SameTransitive ==
  ASSUME NEW st, NEW st2, NEW st3, NEW l, SameValue(st, st2, l), SameValue(st2, st3, l)
  PROVE  SameValue(st, st3, l)
BY DEF SameValue

\* The entries of finitely many items are finitely many.
LEMMA FiniteEntries ==
  ASSUME NEW k, NEW S, IsFiniteSet(S)
  PROVE  /\ IsFiniteSet({Field(k, f) : f \in S})
         /\ IsFiniteSet({Member(k, m) : m \in S})
<1>1. [f \in S |-> Field(k, f)] \in Surjection(S, {Field(k, f) : f \in S})
  BY DEF Surjection
<1>2. [m \in S |-> Member(k, m)] \in Surjection(S, {Member(k, m) : m \in S})
  BY DEF Surjection
<1>3. QED
  BY <1>1, <1>2, FS_Surjection

-----------------------------------------------------------------------------
(* One lemma per group of commands: the store stays well formed.           *)

\* SET, INCR, DECR and the exclusive section of GET: a string has no other entries.
LEMMA StringOK ==
  ASSUME RInv, NEW c \in Clients, NEW k \in Keys,
         \/ \E n \in Int : Set(c, k, n)
         \/ \E by \in Int : IncrBy(c, k, by)
         \/ GetClean(c, k)
  PROVE  StoreOK(store', type)
<1>1. type[k] = "string"
  BY DEF RInv, OpsOK, Set, IncrBy, GetClean
<1>2. KeyOK(store', k, type[k])
  BY <1>1 DEF KeyOK
<1>3. DOMAIN store' \subseteq DOMAIN store \cup {Main(k)}
  BY DEF Set, IncrBy, GetClean, Exclusive, With, Without
<1>4. ASSUME NEW l \in Keys \ {k}  PROVE SameValue(store, store', l)
  <2>1. \A S : S \subseteq {Main(k), Expire(k)} => \A x \in S : x[2] # l \/ x[1] = "expire"
    BY EntryParts
  <2>2. CASE \E n \in Int : Set(c, k, n)
    <3>1. PICK n \in Int : store' = With(Without(store, {Expire(k)}), {Main(k)}, n)
      BY <2>2 DEF Set, Exclusive
    <3>2. SameValue(store, Without(store, {Expire(k)}), l)
      BY <2>1, WithoutOther
    <3>3. SameValue(Without(store, {Expire(k)}), store', l)
      BY <2>1, <3>1, WithOther
    <3>4. QED
      BY <3>2, <3>3, SameTransitive
  <2>3. CASE \E by \in Int : IncrBy(c, k, by)
    <3>1. PICK by \in Int : store' = With(store, {Main(k)}, Number(k) + by)
      BY <2>3 DEF IncrBy, Exclusive
    <3>2. QED
      BY <2>1, <3>1, WithOther
  <2>4. CASE GetClean(c, k)
    <3>1. PICK S \in SUBSET {Main(k), Expire(k)} : store' = Without(store, S)
      BY <2>4 DEF GetClean
    <3>2. QED
      BY <2>1, <3>1, WithoutOther
  <2>5. QED
    BY <2>2, <2>3, <2>4
<1>5. {Main(k)} \subseteq Entries(k, type[k]) /\ IsFiniteSet({Main(k)})
  BY FS_Singleton DEF Entries
<1>6. QED
  BY <1>2, <1>3, <1>4, <1>5, CommandOK DEF RInv

\* EXPIRE.
LEMMA ExpireOK ==
  ASSUME RInv, NEW c \in Clients, NEW k \in Keys, NEW secs \in Seconds, SetExpire(c, k, secs)
  PROVE  StoreOK(store', type)
<1>1. store' = With(store, {Expire(k)}, now + secs)
  BY DEF SetExpire, Exclusive
<1>2. \A l \in Keys : SameValue(store, store', l)
  BY <1>1, WithOther, EntryParts
<1>3. KeyOK(store', k, type[k])
  BY <1>2, SameValueOK DEF RInv, StoreOK
<1>4. DOMAIN store' \subseteq DOMAIN store \cup {Expire(k)}
  BY <1>1 DEF With
<1>5. {Expire(k)} \subseteq Entries(k, type[k]) /\ IsFiniteSet({Expire(k)})
  BY FS_Singleton DEF Entries
<1>6. QED
  BY <1>2, <1>3, <1>4, <1>5, CommandOK DEF RInv

\* An entry in the store with the key k is one its type knows.
LEMMA TypedEntry ==
  ASSUME RInv, NEW k \in Keys, NEW x \in DOMAIN store, x[2] = k
  PROVE  x \in Entries(k, type[k])
<1>1. PICK l \in Keys : x \in Entries(l, type[l])
  BY DEF RInv, StoreOK
<1>2. QED
  BY <1>1, EntriesOfKey

\* The removal of an expired value takes every entry of the key.
LEMMA CleanTakesAll ==
  ASSUME RInv, NEW c \in Clients, NEW k \in Keys, Clean(c, k)
  PROVE  /\ store' = Without(store, CleanedEntries(k))
         /\ \A x \in DOMAIN store' : x[2] # k
         /\ \A x \in CleanedEntries(k) : x[2] = k
<1>1. store' = Without(store, CleanedEntries(k))
  BY DEF Clean
<1>2. type[k] \in {"hash", "list", "zset", "set"}
  BY DEF RInv, OpsOK, Clean, At, Types
<1>3. ASSUME NEW x \in DOMAIN store, x[2] = k  PROVE x \in CleanedEntries(k)
  <2>1. x \in Entries(k, type[k])
    BY <1>3, TypedEntry
  <2>2. CASE x \in {Main(k), Expire(k)}
    BY <2>2 DEF CleanedEntries
  <2>3. CASE type[k] = "hash" /\ \E f \in Items : x = Field(k, f)
    <3>1. PICK f \in Items : x = Field(k, f)
      BY <2>3
    <3>2. f \in ToSet(Fields(store, k))
      BY <2>3, <3>1 DEF RInv, StoreOK, KeyOK, HashOK
    <3>3. QED
      BY <2>3, <3>1, <3>2 DEF CleanedEntries, FieldEntries
  <2>4. CASE type[k] = "zset" /\ x \notin {Main(k), Expire(k)}
    <3>1. x[1] \in {"elem", "score"}
      BY <2>1, <2>4, EntryParts DEF Entries
    <3>2. QED
      BY <1>3, <2>4, <3>1 DEF CleanedEntries, ElemEntries, ScoreEntries
  <2>5. CASE type[k] = "set" /\ x \notin {Main(k), Expire(k)}
    <3>1. x[1] = "member"
      BY <2>1, <2>5, EntryParts DEF Entries
    <3>2. QED
      BY <1>3, <2>5, <3>1 DEF CleanedEntries, MemberEntries
  <2>6. QED
    BY <1>2, <2>1, <2>2, <2>3, <2>4, <2>5 DEF Entries
<1>4. ASSUME NEW x \in CleanedEntries(k)  PROVE x[2] = k
  <2>1. \A y \in {Main(k), Expire(k)} \cup FieldEntries(k, Fields(store, k)) : y[2] = k
    BY EntryParts DEF FieldEntries
  <2>2. \A y \in ElemEntries(store, k) \cup ScoreEntries(store, k) \cup MemberEntries(store, k) :
           y[2] = k
    BY DEF ElemEntries, ScoreEntries, MemberEntries
  <2>3. QED
    BY <1>2, <2>1, <2>2 DEF CleanedEntries
<1>5. QED
  BY <1>1, <1>3, <1>4 DEF Without

\* The exclusive section of a clean.
LEMMA CleanOK ==
  ASSUME RInv, NEW c \in Clients, NEW k \in Keys, Clean(c, k)
  PROVE  StoreOK(store', type)
<1>1. /\ store' = Without(store, CleanedEntries(k))
      /\ \A x \in DOMAIN store' : x[2] # k
      /\ \A x \in CleanedEntries(k) : x[2] = k
  BY CleanTakesAll
<1>2. \A l \in Keys \ {k} : SameValue(store, store', l)
  BY <1>1, WithoutOther
<1>3. /\ Main(k) \notin DOMAIN store'
      /\ \A f : Field(k, f) \notin DOMAIN store'
      /\ \A e : Elem(k, e) \notin DOMAIN store'
      /\ \A m : Member(k, m) \notin DOMAIN store'
  BY <1>1, EntryParts
<1>4. HashOK(store', k)
  BY <1>3 DEF HashOK, Fields, ToSet, IsInjective
<1>5. ListOK(store', k) /\ ScoresOK(store', k)
  BY <1>3 DEF ListOK, ScoresOK
<1>6. CountOf(store', k) = Cardinality(MembersOf(store', k))
  <2>1. CountOf(store', k) = 0 /\ MembersOf(store', k) = {}
    BY <1>3 DEF CountOf, MembersOf
  <2>2. QED
    BY <2>1, FS_EmptySet
<1>7. KeyOK(store', k, type[k])
  BY <1>4, <1>5, <1>6 DEF KeyOK
<1>8. DOMAIN store' \subseteq DOMAIN store \cup {}
  BY <1>1 DEF Without
<1>9. QED
  BY <1>2, <1>7, <1>8, CommandOK, FS_EmptySet DEF RInv

\* DEL of several keys at once.
LEMMA DelOK ==
  ASSUME RInv, NEW c \in Clients, NEW ks \in SUBSET Keys, Del(c, ks)
  PROVE  StoreOK(store', type)
<1> DEFINE gone(k) == {Main(k), Expire(k)} \cup
                        (IF type[k] = "hash" THEN FieldEntries(k, Fields(store, k)) ELSE {})
           S == UNION {gone(k) : k \in ks}
<1>1. store' = Without(store, S) /\ \A k \in ks : type[k] \in Deletable
  BY DEF Del, Exclusive
<1>2. \A k \in ks : \A x \in gone(k) : x[2] = k /\ x[1] \in {"main", "expire", "field"}
  BY EntryParts DEF FieldEntries
<1>3. ASSUME NEW l \in Keys \ ks  PROVE KeyOK(store', l, type[l])
  <2>1. SameValue(store, store', l)
    <3>1. \A x \in S : x[2] # l
      BY <1>2
    <3>2. QED
      BY <1>1, <3>1, WithoutOther
  <2>2. QED
    BY <2>1, SameValueOK DEF RInv, StoreOK
<1>4. ASSUME NEW l \in ks  PROVE KeyOK(store', l, type[l])
  <2>1. DOMAIN store' = DOMAIN store \ S /\ \A x \in DOMAIN store' : store'[x] = store[x]
    BY <1>1 DEF Without
  <2>2. Main(l) \notin DOMAIN store'
    BY <2>1
  <2>3. CASE type[l] = "hash"
    <3>1. HashOK(store, l)
      BY <2>3 DEF RInv, StoreOK, KeyOK
    <3>2. \A f \in ToSet(Fields(store, l)) : Field(l, f) \in S
      BY <2>3 DEF FieldEntries
    <3>3. \A f \in Items : Field(l, f) \notin DOMAIN store'
      BY <2>1, <3>1, <3>2 DEF HashOK
    <3>4. HashOK(store', l)
      BY <2>2, <3>3 DEF HashOK, Fields, ToSet, IsInjective
    <3>5. QED
      BY <2>3, <3>4 DEF KeyOK
  <2>4. CASE type[l] = "zset"
    <3>1. \A x : x[2] = l /\ x[1] \in {"elem", "score"} => x \notin S
      BY <1>2
    <3>2. \A e : Elem(l, e) \notin S /\ Score(l, e) \notin S
      BY <3>1, EntryParts
    <3>3. ScoresOK(store, l) => ScoresOK(store', l)
      BY <2>1, <3>2 DEF ScoresOK
    <3>4. QED
      BY <2>4, <3>3 DEF KeyOK, RInv, StoreOK
  <2>5. CASE type[l] \notin {"hash", "zset"}
    BY <1>1, <2>2, <2>5 DEF KeyOK, ListOK
  <2>6. QED
    BY <2>3, <2>4, <2>5
<1>5. DOMAIN store' \subseteq DOMAIN store
  BY <1>1 DEF Without
<1>6. IsFiniteSet(DOMAIN store')
  BY <1>5, FS_Subset DEF RInv, StoreOK
<1>7. QED
  BY <1>3, <1>4, <1>5, <1>6 DEF RInv, StoreOK

\* HSET.
LEMMA HSetOK ==
  ASSUME RInv, NEW c \in Clients, NEW k \in Keys, NEW fs \in SUBSET Items, HSet(c, k, fs)
  PROVE  StoreOK(store', type)
<1> DEFINE old == Fields(store, k)
           new == SetToSeq(fs \ ToSet(old))
           S   == {Field(k, f) : f \in fs}
           st1 == With(store, S, 1)
           st2 == With(st1, {Main(k)}, old \o new)
<1>1. type[k] = "hash" /\ store' = st2
  BY DEF HSet, Upserting, Writing, Return
<1>2. HashOK(store, k)
  BY <1>1 DEF RInv, StoreOK, KeyOK
<1>3. old \in Seq(Items) /\ IsInjective(old) /\ ToSet(old) \subseteq Items
  BY <1>2 DEF HashOK, ToSet
<1>4. IsFiniteSet(fs) /\ IsFiniteSet(fs \ ToSet(old))
  BY RedisAssumption, FS_Subset
<1>5. new \in Seq(fs \ ToSet(old)) /\ IsInjective(new) /\ ToSet(new) = fs \ ToSet(old)
  BY <1>4, SetToSeqLists
<1>6. new \in Seq(Items)
  BY <1>5
<1>7. /\ old \o new \in Seq(Items) /\ IsInjective(old \o new)
      /\ ToSet(old \o new) = ToSet(old) \cup fs
  <2>1. ToSet(old) \cap ToSet(new) = {}
    BY <1>5
  <2>2. ToSet(old) \cup ToSet(new) = ToSet(old) \cup fs
    BY <1>5
  <2>3. /\ old \in Seq(Items) /\ IsInjective(old)
        /\ new \in Seq(Items) /\ IsInjective(new)
    BY <1>3, <1>5, <1>6
  <2> HIDE DEF old, new
  <2>4. /\ old \o new \in Seq(Items) /\ IsInjective(old \o new)
        /\ ToSet(old \o new) = ToSet(old) \cup ToSet(new)
    BY <2>1, <2>3, JoinLists
  <2>5. QED
    BY <2>2, <2>4
<1> HIDE DEF new
<1>8. DOMAIN store' = DOMAIN store \cup S \cup {Main(k)} /\ store'[Main(k)] = old \o new
  BY <1>1 DEF With
<1>9. Fields(store', k) = old \o new
  BY <1>8 DEF Fields
<1>10. \A f \in Items : Field(k, f) \in DOMAIN store' <=> f \in ToSet(old) \cup fs
  <2>1. \A f \in Items : Field(k, f) \in S <=> f \in fs
    BY EntryParts
  <2>2. \A f \in Items : Field(k, f) # Main(k)
    BY EntryParts
  <2>3. QED
    BY <1>2, <1>8, <2>1, <2>2 DEF HashOK
<1>11. KeyOK(store', k, type[k])
  BY <1>1, <1>7, <1>9, <1>10 DEF KeyOK, HashOK
<1>12. ASSUME NEW l \in Keys \ {k}  PROVE SameValue(store, store', l)
  <2>1. (\A x \in S : x[2] # l) /\ Main(k)[2] # l
    BY EntryParts
  <2>2. SameValue(store, st1, l) /\ SameValue(st1, store', l)
    BY <1>1, <2>1, WithOther
  <2>3. QED
    BY <2>2, SameTransitive
<1>13. S \cup {Main(k)} \subseteq Entries(k, type[k]) /\ IsFiniteSet(S \cup {Main(k)})
  <2>1. IsFiniteSet(S)
    BY <1>4, FiniteEntries
  <2>2. QED
    BY <1>1, <2>1, FS_AddElement DEF Entries
<1>14. QED
  BY <1>8, <1>11, <1>12, <1>13, CommandOK DEF RInv

\* HDEL.
LEMMA HDelOK ==
  ASSUME RInv, NEW c \in Clients, NEW k \in Keys, NEW f \in Items, HDel(c, k, f)
  PROVE  StoreOK(store', type)
<1> DEFINE old  == Fields(store, k)
           list == RemoveFirst(old, f)
           rest == Without(store, {Field(k, f)})
<1>1. /\ type[k] = "hash"
      /\ store' = IF ~Contains(old, f) THEN rest
                  ELSE IF list = <<>> THEN Without(rest, {Main(k)})
                  ELSE With(rest, {Main(k)}, list)
  BY DEF HDel, Updating, Writing, Return
<1>2. HashOK(store, k)
  BY <1>1 DEF RInv, StoreOK, KeyOK
<1>3. old \in Seq(Items) /\ IsInjective(old)
  BY <1>2 DEF HashOK
<1>4. Contains(old, f) <=> f \in ToSet(old)
  BY <1>3 DEF Contains, ToSet
<1>5. (\A g : Field(k, g) # Main(k)) /\ \A g : Field(k, g) = Field(k, f) => g = f
  BY EntryParts
<1>6. /\ DOMAIN rest = DOMAIN store \ {Field(k, f)}
      /\ Main(k) \in DOMAIN store => rest[Main(k)] = store[Main(k)]
  BY <1>5 DEF Without
<1>7. HashOK(store', k)
  <2>1. CASE ~Contains(old, f)
    <3>1. store' = rest /\ Fields(rest, k) = old
      BY <1>1, <1>5, <1>6, <2>1 DEF Fields
    <3>2. QED
      BY <1>2, <1>4, <1>5, <1>6, <2>1, <3>1 DEF HashOK
  <2>2. CASE Contains(old, f)
    <3>1. list \in Seq(Items) /\ IsInjective(list) /\ ToSet(list) = ToSet(old) \ {f}
      BY <1>3, <1>4, <2>2, RemoveFromList
    <3> HIDE DEF list
    <3>2. Fields(store', k) = list
      BY <1>1, <2>2, <3>1 DEF Fields, With, Without
    <3>3. \A g \in Items : Field(k, g) \in DOMAIN store' <=> Field(k, g) \in DOMAIN rest
      BY <1>1, <1>5, <2>2 DEF With, Without
    <3>4. QED
      BY <1>2, <1>5, <1>6, <3>1, <3>2, <3>3 DEF HashOK
  <2>3. QED
    BY <2>1, <2>2
<1>8. KeyOK(store', k, type[k])
  BY <1>1, <1>7 DEF KeyOK
<1>9. ASSUME NEW l \in Keys \ {k}  PROVE SameValue(store, store', l)
  <2>1. Field(k, f)[2] # l /\ Main(k)[2] # l
    BY EntryParts
  <2>2. SameValue(store, rest, l)
    BY <2>1, WithoutOther
  <2>3. SameValue(rest, Without(rest, {Main(k)}), l) /\ SameValue(rest, With(rest, {Main(k)}, list), l)
    BY <2>1, WithOther, WithoutOther
  <2>4. QED
    BY <1>1, <2>2, <2>3, SameTransitive
<1>10. DOMAIN store' \subseteq DOMAIN store \cup {Main(k)}
  BY <1>1, <1>6 DEF With, Without
<1>11. {Main(k)} \subseteq Entries(k, type[k]) /\ IsFiniteSet({Main(k)})
  BY FS_Singleton DEF Entries
<1>12. QED
  BY <1>8, <1>9, <1>10, <1>11, CommandOK DEF RInv

\* LPUSH, RPUSH, LPOP and RPOP.
LEMMA ListCommandOK ==
  ASSUME RInv, NEW c \in Clients, NEW k \in Keys,
         \/ \E v \in Items : LPush(c, k, v) \/ RPush(c, k, v)
         \/ LPop(c, k) \/ RPop(c, k)
  PROVE  StoreOK(store', type)
<1>1. type[k] = "list" /\ List(k) \in Seq(Items)
  <2>1. type[k] = "list"
    BY DEF LPush, RPush, LPop, RPop, Upserting, Updating, Writing
  <2>2. QED
    BY <2>1 DEF RInv, StoreOK, KeyOK, ListOK, List, Has
<1>2. \/ store' = store
      \/ store' = Without(store, {Main(k)})
      \/ \E s \in Seq(Items) : store' = With(store, {Main(k)}, s)
  <2>1. ASSUME NEW v \in Items
        PROVE  <<v>> \o List(k) \in Seq(Items) /\ Append(List(k), v) \in Seq(Items)
    BY <1>1
  <2>2. ASSUME List(k) # <<>>  PROVE Tail(List(k)) \in Seq(Items) /\ Front(List(k)) \in Seq(Items)
    BY <1>1, <2>2 DEF Front
  <2>3. QED
    BY <2>1, <2>2 DEF LPush, RPush, LPop, RPop, Push, Pop, Return
<1>3. ListOK(store', k)
  BY <1>1, <1>2 DEF ListOK, List, Has, With, Without
<1>4. KeyOK(store', k, type[k])
  BY <1>1, <1>3 DEF KeyOK
<1>5. ASSUME NEW l \in Keys \ {k}  PROVE SameValue(store, store', l)
  <2>1. Main(k)[2] # l
    BY EntryParts
  <2>2. SameValue(store, store, l)
    BY DEF SameValue
  <2>3. QED
    BY <1>2, <2>1, <2>2, WithOther, WithoutOther
<1>6. DOMAIN store' \subseteq DOMAIN store \cup {Main(k)}
  BY <1>2 DEF With, Without
<1>7. {Main(k)} \subseteq Entries(k, type[k]) /\ IsFiniteSet({Main(k)})
  BY FS_Singleton DEF Entries
<1>8. QED
  BY <1>4, <1>5, <1>6, <1>7, CommandOK DEF RInv

\* A put of the two entries of an element and its score.
LEMMA PairPut ==
  ASSUME NEW st, NEW k, NEW e \in Items, NEW s \in Scores[e],
         DistinctScores, ScoresOK(st, k)
  PROVE  ScoresOK(With(With(st, {Elem(k, e)}, s), {Score(k, s)}, e), k)
<1> DEFINE st2 == With(With(st, {Elem(k, e)}, s), {Score(k, s)}, e)
<1>1. /\ \A d : Elem(k, d) = Elem(k, e) => d = e
      /\ \A r : Score(k, r) = Score(k, s) => r = s
      /\ \A d, r : Elem(k, d) # Score(k, r)
  BY EntryParts
<1>2. /\ DOMAIN st2 = DOMAIN st \cup {Elem(k, e), Score(k, s)}
      /\ st2[Elem(k, e)] = s /\ st2[Score(k, s)] = e
      /\ \A x \in DOMAIN st \ {Elem(k, e), Score(k, s)} : st2[x] = st[x]
  BY <1>1 DEF With
<1> HIDE DEF st2
<1>3. ASSUME NEW d \in Items, Elem(k, d) \in DOMAIN st2
      PROVE  /\ st2[Elem(k, d)] \in Scores[d]
             /\ Score(k, st2[Elem(k, d)]) \in DOMAIN st2
             /\ st2[Score(k, st2[Elem(k, d)])] = d
  <2>1. CASE d = e
    BY <1>2, <2>1
  <2>2. CASE d # e
    <3>1. Elem(k, d) \in DOMAIN st /\ st2[Elem(k, d)] = st[Elem(k, d)]
      BY <1>1, <1>2, <1>3, <2>2
    <3>2. /\ st[Elem(k, d)] \in Scores[d]
          /\ Score(k, st[Elem(k, d)]) \in DOMAIN st
          /\ st[Score(k, st[Elem(k, d)])] = d
      BY <3>1 DEF ScoresOK
    <3>3. st[Elem(k, d)] # s
      BY <2>2, <3>2 DEF DistinctScores
    <3>4. Score(k, st[Elem(k, d)]) \notin {Elem(k, e), Score(k, s)}
      BY <1>1, <3>3
    <3>5. QED
      BY <1>2, <3>1, <3>2, <3>4
  <2>3. QED
    BY <2>1, <2>2
<1>4. ScoresOK(st2, k)
  BY <1>3 DEF ScoresOK
<1>5. QED
  BY <1>4 DEF st2

\* ZADD.
LEMMA ZAddOK ==
  ASSUME RInv, NEW c \in Clients, NEW k \in Keys, NEW d \in Items, NEW e \in Items,
         NEW r \in Scores[d], NEW s \in Scores[e], ZAdd(c, k, r, d, s, e)
  PROVE  StoreOK(store', type)
<1> DEFINE put(st, score, elem) ==
             With(With(st, {Elem(k, elem)}, score), {Score(k, score)}, elem)
           st0 == With(store, {Main(k)}, "zset")
           S   == {Main(k), Elem(k, d), Score(k, r), Elem(k, e), Score(k, s)}
<1>1. /\ type[k] = "zset"
      /\ \E st1 \in {st0, put(st0, r, d)} : store' \in {st1, put(st1, s, e)}
  BY DEF ZAdd, Upserting, Writing, Return
<1>2. PICK st1 \in {st0, put(st0, r, d)} : store' \in {st1, put(st1, s, e)}
  BY <1>1
<1>3. ASSUME DistinctScores  PROVE ScoresOK(store', k)
  <2>1. ScoresOK(store, k)
    BY <1>1, <1>3 DEF RInv, StoreOK, KeyOK
  <2>2. ScoresOK(st0, k)
    <3>1. \A x : Elem(k, x) # Main(k) /\ Score(k, x) # Main(k)
      BY EntryParts
    <3>2. QED
      BY <2>1, <3>1 DEF ScoresOK, With
  <2>3. ScoresOK(st1, k)
    BY <1>2, <1>3, <2>2, PairPut
  <2>4. QED
    BY <1>2, <1>3, <2>3, PairPut
<1>4. KeyOK(store', k, type[k])
  BY <1>1, <1>3 DEF KeyOK
<1>5. DOMAIN store' \subseteq DOMAIN store \cup S
  <2>1. DOMAIN st1 \subseteq DOMAIN store \cup {Main(k), Elem(k, d), Score(k, r)}
    BY <1>2 DEF With
  <2>2. DOMAIN store' \subseteq DOMAIN st1 \cup {Elem(k, e), Score(k, s)}
    BY <1>2 DEF With
  <2>3. QED
    BY <2>1, <2>2
<1>6. ASSUME NEW l \in Keys \ {k}  PROVE SameValue(store, store', l)
  <2>1. Main(k)[2] # l /\ \A x : Elem(k, x)[2] # l /\ Score(k, x)[2] # l
    BY EntryParts
  <2>2. ASSUME NEW st, NEW x, NEW y  PROVE SameValue(st, put(st, x, y), l)
    <3>1. SameValue(st, With(st, {Elem(k, y)}, x), l)
      BY <2>1, WithOther
    <3>2. SameValue(With(st, {Elem(k, y)}, x), put(st, x, y), l)
      BY <2>1, WithOther
    <3>3. QED
      BY <3>1, <3>2, SameTransitive
  <2>3. SameValue(store, st0, l)
    BY <2>1, WithOther
  <2>4. SameValue(store, st1, l)
    BY <1>2, <2>2, <2>3, SameTransitive
  <2>5. QED
    BY <1>2, <2>2, <2>4, SameTransitive
<1>7. S \subseteq Entries(k, type[k])
  BY <1>1, RedisAssumption DEF Entries
<1>8. IsFiniteSet(S)
  <2>1. S = {} \cup {Main(k)} \cup {Elem(k, d)} \cup {Score(k, r)} \cup {Elem(k, e)} \cup {Score(k, s)}
    OBVIOUS
  <2> HIDE DEF S
  <2>2. QED
    BY <2>1, FS_EmptySet, FS_AddElement
<1>9. QED
  BY <1>4, <1>5, <1>6, <1>7, <1>8, CommandOK DEF RInv

\* ZREM.
LEMMA ZRemOK ==
  ASSUME RInv, NEW c \in Clients, NEW k \in Keys, NEW es \in SUBSET Items, ZRem(c, k, es)
  PROVE  StoreOK(store', type)
<1> DEFINE found == {e \in es : Has(Elem(k, e))}
           S == {Elem(k, e) : e \in found} \cup {Score(k, store[Elem(k, e)]) : e \in found}
<1>1. type[k] = "zset" /\ store' = Without(store, S)
  BY DEF ZRem, Updating, Writing, Return
<1>2. ASSUME DistinctScores  PROVE ScoresOK(store', k)
  <2>1. ScoresOK(store, k)
    BY <1>1, <1>2 DEF RInv, StoreOK, KeyOK
  <2>2. ASSUME NEW e \in Items, Elem(k, e) \in DOMAIN store'
        PROVE  /\ store'[Elem(k, e)] \in Scores[e]
               /\ Score(k, store'[Elem(k, e)]) \in DOMAIN store'
               /\ store'[Score(k, store'[Elem(k, e)])] = e
    <3>1. Elem(k, e) \in DOMAIN store \ S /\ store'[Elem(k, e)] = store[Elem(k, e)]
      BY <1>1, <2>2 DEF Without
    <3>2. e \notin found
      BY <3>1
    <3>3. /\ store[Elem(k, e)] \in Scores[e]
          /\ Score(k, store[Elem(k, e)]) \in DOMAIN store
          /\ store[Score(k, store[Elem(k, e)])] = e
      BY <2>1, <3>1 DEF ScoresOK
    <3>4. ASSUME NEW d \in found  PROVE Score(k, store[Elem(k, e)]) # Score(k, store[Elem(k, d)])
      <4>1. store[Elem(k, d)] \in Scores[d] /\ d # e /\ d \in Items
        BY <2>1, <3>2 DEF ScoresOK, Has
      <4>2. store[Elem(k, d)] # store[Elem(k, e)]
        BY <1>2, <3>3, <4>1 DEF DistinctScores
      <4>3. QED
        BY <4>2, EntryParts
    <3>5. \A d : Score(k, store[Elem(k, e)]) # Elem(k, d)
      BY EntryParts
    <3>6. Score(k, store[Elem(k, e)]) \in DOMAIN store \ S
      BY <3>3, <3>4, <3>5
    <3>7. QED
      BY <1>1, <3>1, <3>3, <3>6 DEF Without
  <2>3. QED
    BY <2>2 DEF ScoresOK
<1>3. KeyOK(store', k, type[k])
  BY <1>1, <1>2 DEF KeyOK
<1>4. ASSUME NEW l \in Keys \ {k}  PROVE SameValue(store, store', l)
  <2>1. \A x \in S : x[2] # l
    BY EntryParts
  <2>2. QED
    BY <1>1, <2>1, WithoutOther
<1>5. DOMAIN store' \subseteq DOMAIN store \cup {}
  BY <1>1 DEF Without
<1>6. QED
  BY <1>3, <1>4, <1>5, CommandOK, FS_EmptySet DEF RInv

\* ZINCRBY.
LEMMA ZIncrByOK ==
  ASSUME RInv, NEW c \in Clients, NEW k \in Keys, NEW e \in Items, NEW by \in Int,
         ZIncrBy(c, k, e, by)
  PROVE  StoreOK(store', type)
<1> DEFINE old == IF Has(Elem(k, e)) THEN {store[Elem(k, e)]} ELSE {}
           R   == {Score(k, s) : s \in old}
           st1 == Without(store, R)
<1>1. PICK new \in Scores[e] :
        store' = With(With(st1, {Score(k, new)}, e), {Elem(k, e)}, new)
  BY DEF ZIncrBy, Return
<1>2. type[k] = "zset"
  BY DEF ZIncrBy, Upserting, Writing
<1>3. /\ \A d : Elem(k, d) = Elem(k, e) => d = e
      /\ \A r, s : Score(k, r) = Score(k, s) => r = s
      /\ \A d, r : Elem(k, d) # Score(k, r)
  BY EntryParts
<1>4. /\ DOMAIN store' = (DOMAIN store \ R) \cup {Elem(k, e), Score(k, new)}
      /\ store'[Elem(k, e)] = new /\ store'[Score(k, new)] = e
      /\ \A x \in DOMAIN store \ (R \cup {Elem(k, e), Score(k, new)}) : store'[x] = store[x]
  BY <1>1, <1>3 DEF With, Without
<1>5. ASSUME DistinctScores  PROVE ScoresOK(store', k)
  <2>1. ScoresOK(store, k)
    BY <1>2, <1>5 DEF RInv, StoreOK, KeyOK
  <2>2. ASSUME NEW d \in Items, Elem(k, d) \in DOMAIN store'
        PROVE  /\ store'[Elem(k, d)] \in Scores[d]
               /\ Score(k, store'[Elem(k, d)]) \in DOMAIN store'
               /\ store'[Score(k, store'[Elem(k, d)])] = d
    <3>1. CASE d = e
      BY <1>4, <3>1
    <3>2. CASE d # e
      <4>1. Elem(k, d) \in DOMAIN store /\ store'[Elem(k, d)] = store[Elem(k, d)]
        BY <1>3, <1>4, <2>2, <3>2
      <4>2. /\ store[Elem(k, d)] \in Scores[d]
            /\ Score(k, store[Elem(k, d)]) \in DOMAIN store
            /\ store[Score(k, store[Elem(k, d)])] = d
        BY <2>1, <4>1 DEF ScoresOK
      <4>3. store[Elem(k, d)] # new /\ \A s \in old : store[Elem(k, d)] # s
        BY <1>5, <2>1, <3>2, <4>2 DEF DistinctScores, ScoresOK, Has
      <4>4. Score(k, store[Elem(k, d)]) \notin R \cup {Elem(k, e), Score(k, new)}
        BY <1>3, <4>3
      <4>5. QED
        BY <1>4, <4>1, <4>2, <4>4
    <3>3. QED
      BY <3>1, <3>2
  <2>3. QED
    BY <2>2 DEF ScoresOK
<1>6. KeyOK(store', k, type[k])
  BY <1>2, <1>5 DEF KeyOK
<1>7. ASSUME NEW l \in Keys \ {k}  PROVE SameValue(store, store', l)
  <2>1. (\A x \in R : x[2] # l) /\ Elem(k, e)[2] # l /\ Score(k, new)[2] # l
    BY EntryParts
  <2>2. SameValue(store, st1, l)
    BY <2>1, WithoutOther
  <2>3. SameValue(st1, With(st1, {Score(k, new)}, e), l)
    BY <2>1, WithOther
  <2>4. SameValue(With(st1, {Score(k, new)}, e), store', l)
    BY <1>1, <2>1, WithOther
  <2>5. QED
    BY <2>2, <2>3, <2>4, SameTransitive
<1>8. /\ {Elem(k, e), Score(k, new)} \subseteq Entries(k, type[k])
      /\ IsFiniteSet({Elem(k, e), Score(k, new)})
  <2>1. {Elem(k, e), Score(k, new)} = {} \cup {Elem(k, e)} \cup {Score(k, new)}
    OBVIOUS
  <2>2. IsFiniteSet({} \cup {Elem(k, e)} \cup {Score(k, new)})
    BY FS_EmptySet, FS_AddElement
  <2>3. QED
    BY <1>2, <2>1, <2>2, RedisAssumption DEF Entries
<1>9. DOMAIN store' \subseteq DOMAIN store \cup {Elem(k, e), Score(k, new)}
  BY <1>4
<1>10. QED
  BY <1>6, <1>7, <1>8, <1>9, CommandOK DEF RInv

\* SADD.
LEMMA SAddOK ==
  ASSUME RInv, NEW c \in Clients, NEW k \in Keys, NEW ms \in SUBSET Items, SAdd(c, k, ms)
  PROVE  StoreOK(store', type)
<1> DEFINE new == {m \in ms : ~Has(Member(k, m))}
           old == MembersOf(store, k)
           S   == {Member(k, m) : m \in new}
           st1 == With(store, S, 1)
<1>1. type[k] = "set" /\ store' = With(st1, {Main(k)}, Number(k) + Cardinality(new))
  BY DEF SAdd, Upserting, Writing, Return
<1>2. (\A m : Member(k, m) # Main(k)) /\ \A m, n : Member(k, m) = Member(k, n) => m = n
  BY EntryParts
<1>3. /\ DOMAIN store' = DOMAIN store \cup S \cup {Main(k)}
      /\ store'[Main(k)] = Number(k) + Cardinality(new)
  BY <1>1 DEF With
<1>4. IsFiniteSet(new) /\ IsFiniteSet(old)
  BY RedisAssumption, FS_Subset DEF MembersOf
<1>5. ASSUME "set" \notin Deletable  PROVE CountOf(store', k) = Cardinality(MembersOf(store', k))
  <2>1. MembersOf(store', k) = old \cup new /\ old \cap new = {}
    BY <1>2, <1>3 DEF MembersOf, Has
  <2>2. Cardinality(old \cup new) = Cardinality(old) + Cardinality(new)
    <3>1. Cardinality(old) \in Nat /\ Cardinality(new) \in Nat
      BY <1>4, FS_CardinalityType
    <3>2. Cardinality(old \cup new) = Cardinality(old) + Cardinality(new) - Cardinality({})
      BY <1>4, <2>1, FS_Union
    <3>3. QED
      BY <3>1, <3>2, FS_EmptySet
  <2>3. Number(k) = Cardinality(old)
    BY <1>1, <1>5 DEF RInv, StoreOK, KeyOK, CountOf, Number, Has
  <2>4. QED
    BY <1>3, <2>1, <2>2, <2>3 DEF CountOf
<1>6. KeyOK(store', k, type[k])
  BY <1>1, <1>5 DEF KeyOK
<1>7. ASSUME NEW l \in Keys \ {k}  PROVE SameValue(store, store', l)
  <2>1. (\A x \in S : x[2] # l) /\ Main(k)[2] # l
    BY EntryParts
  <2>2. SameValue(store, st1, l) /\ SameValue(st1, store', l)
    BY <1>1, <2>1, WithOther
  <2>3. QED
    BY <2>2, SameTransitive
<1>8. S \cup {Main(k)} \subseteq Entries(k, type[k]) /\ IsFiniteSet(S \cup {Main(k)})
  <2>1. IsFiniteSet(S)
    BY <1>4, FiniteEntries
  <2>2. QED
    BY <1>1, <2>1, FS_AddElement DEF Entries
<1>9. QED
  BY <1>3, <1>6, <1>7, <1>8, CommandOK DEF RInv

\* SREM.
LEMMA SRemOK ==
  ASSUME RInv, NEW c \in Clients, NEW k \in Keys, NEW ms \in SUBSET Items, SRem(c, k, ms)
  PROVE  StoreOK(store', type)
<1> DEFINE gone == {m \in ms : Has(Member(k, m))}
           old  == MembersOf(store, k)
           S    == {Member(k, m) : m \in gone}
           st1  == Without(store, S)
<1>1. type[k] = "set" /\ store' = With(st1, {Main(k)}, Number(k) - Cardinality(gone))
  BY DEF SRem, Updating, Writing, Return
<1>2. (\A m : Member(k, m) # Main(k)) /\ \A m, n : Member(k, m) = Member(k, n) => m = n
  BY EntryParts
<1>3. /\ DOMAIN store' = (DOMAIN store \ S) \cup {Main(k)}
      /\ store'[Main(k)] = Number(k) - Cardinality(gone)
  BY <1>1 DEF With, Without
<1>4. ASSUME "set" \notin Deletable  PROVE CountOf(store', k) = Cardinality(MembersOf(store', k))
  <2>1. IsFiniteSet(old) /\ gone \subseteq old
    BY RedisAssumption, FS_Subset DEF MembersOf, Has
  <2>2. MembersOf(store', k) = old \ gone /\ old \cap gone = gone
    BY <1>2, <1>3 DEF MembersOf, Has
  <2>3. Cardinality(old \ gone) = Cardinality(old) - Cardinality(gone)
    BY <2>1, <2>2, FS_Difference
  <2>4. Number(k) = Cardinality(old)
    BY <1>1, <1>4 DEF RInv, StoreOK, KeyOK, CountOf, Number, Has
  <2>5. QED
    BY <1>3, <2>2, <2>3, <2>4 DEF CountOf
<1>5. KeyOK(store', k, type[k])
  BY <1>1, <1>4 DEF KeyOK
<1>6. ASSUME NEW l \in Keys \ {k}  PROVE SameValue(store, store', l)
  <2>1. (\A x \in S : x[2] # l) /\ Main(k)[2] # l
    BY EntryParts
  <2>2. SameValue(store, st1, l) /\ SameValue(st1, store', l)
    BY <1>1, <2>1, WithOther, WithoutOther
  <2>3. QED
    BY <2>2, SameTransitive
<1>7. {Main(k)} \subseteq Entries(k, type[k]) /\ IsFiniteSet({Main(k)})
  BY FS_Singleton DEF Entries
<1>8. DOMAIN store' \subseteq DOMAIN store \cup {Main(k)}
  BY <1>3
<1>9. QED
  BY <1>5, <1>6, <1>7, <1>8, CommandOK DEF RInv

-----------------------------------------------------------------------------
(* Every step keeps the invariant.                                         *)

\* Where a thread goes from one section to the next.
LEMMA ThreadsOK ==
  ASSUME RInv, Next
  PROVE  type' = type /\ OpsOK(op', type)
<1>1. type' = type
  <2>1. ASSUME NEW c \in Clients, NEW k \in Keys, Command(c, k)  PROVE type' = type
    BY <2>1 DEF Command, Check, Clean, Set, IncrBy, SetExpire, GetCheck, GetClean, HSet, ZRem,
                SAdd, SRem, HDel, LPush, RPush, Push, Pop, ZIncrBy, LPop, RPop, ZAdd, Return,
                Exclusive
  <2>2. ASSUME NEW c \in Clients, NEW ks, Del(c, ks)  PROVE type' = type
    BY <2>2 DEF Del, Exclusive
  <2>3. QED
    BY <2>1, <2>2 DEF Next, Tick
<1>2. op \in [Clients -> Ops] /\ Idle \in Ops /\ Idle.step = "idle"
  BY DEF RInv, OpsOK, Ops, Idle
<1>3. ASSUME NEW c \in Clients, NEW o \in Ops,
             o.step \in {"clean", "write"} => type[o.key] # "string",
             o.step \in {"get_clean", "orphan"} => type[o.key] = "string",
             op' = [op EXCEPT ![c] = o]
      PROVE  OpsOK(op', type)
  BY <1>2, <1>3 DEF OpsOK, RInv
<1>4. ASSUME op' = op  PROVE OpsOK(op', type)
  BY <1>4 DEF RInv, OpsOK
<1>5. ASSUME NEW c \in Clients, op' = [op EXCEPT ![c] = Idle]  PROVE OpsOK(op', type)
  BY <1>2, <1>3, <1>5
<1>6. ASSUME NEW c \in Clients, NEW k \in Keys, NEW role \in Roles, Check(c, k, role)
      PROVE  OpsOK(op', type)
  <2>1. PICK o \in {[step |-> "clean", key |-> k, role |-> role], Idle,
                    [step |-> "write", key |-> k, role |-> role]} : op' = [op EXCEPT ![c] = o]
    BY <1>6 DEF Check
  <2>2. type[k] # "string"
    BY <1>6 DEF Check
  <2>3. QED
    BY <1>2, <1>3, <2>1, <2>2 DEF Ops
<1>7. ASSUME NEW c \in Clients, NEW k \in Keys, GetCheck(c, k)  PROVE OpsOK(op', type)
  <2>1. PICK o \in {[step |-> "get_clean", key |-> k], Idle, [step |-> "orphan", key |-> k]} :
          op' = [op EXCEPT ![c] = o]
    BY <1>7 DEF GetCheck
  <2>2. type[k] = "string"
    BY <1>7 DEF GetCheck
  <2>3. QED
    BY <1>2, <1>3, <2>1, <2>2 DEF Ops
<1>8. ASSUME NEW c \in Clients, NEW k \in Keys, Clean(c, k)  PROVE OpsOK(op', type)
  <2>1. op[c].step = "clean" /\ op[c] \in Ops
    BY <1>2, <1>8 DEF Clean, At
  <2>2. op[c] \in [step : {"clean", "write"}, key : Keys, role : Roles]
    BY <2>1 DEF Ops, Idle
  <2>3. type[op[c].key] # "string"
    BY <2>1 DEF RInv, OpsOK
  <2>4. PICK o \in {[op[c] EXCEPT !.step = "write"], Idle} : op' = [op EXCEPT ![c] = o]
    BY <1>2, <1>8 DEF Clean
  <2>5. o = Idle \/ (o \in Ops /\ o.step = "write" /\ o.key = op[c].key)
    BY <2>2, <2>4 DEF Ops
  <2>6. QED
    BY <1>2, <1>3, <2>3, <2>4, <2>5
<1>9. ASSUME NEW c \in Clients, NEW k \in Keys, Command(c, k)  PROVE OpsOK(op', type)
  <2>1. \/ \E role \in Roles : Check(c, k, role)
        \/ Clean(c, k) \/ GetCheck(c, k)
        \/ op' = op \/ op' = [op EXCEPT ![c] = Idle]
    BY <1>9 DEF Command, Roles, Set, IncrBy, SetExpire, GetClean, HSet, ZRem, SAdd, SRem, HDel,
                LPush, RPush, Push, Pop, ZIncrBy, LPop, RPop, ZAdd, Return, Exclusive
  <2>2. QED
    BY <1>4, <1>5, <1>6, <1>7, <1>8, <2>1
<1>10. ASSUME NEW c \in Clients, NEW ks, Del(c, ks)  PROVE OpsOK(op', type)
  BY <1>4, <1>10 DEF Del, Exclusive
<1>11. QED
  BY <1>1, <1>4, <1>9, <1>10 DEF Next, Tick

LEMMA StepOK == RInv /\ [Next]_vars => RInv'
<1>1. CASE UNCHANGED vars
  BY <1>1 DEF vars, RInv, OpsOK, StoreOK
<1>2. ASSUME RInv, Next  PROVE RInv'
  <2>1. type' = type /\ OpsOK(op', type)
    BY <1>2, ThreadsOK
  <2>2. StoreOK(store', type)
    <3>1. CASE store' = store
      BY <1>2, <3>1 DEF RInv
    <3>2. ASSUME NEW c \in Clients, NEW ks \in SUBSET Keys, Del(c, ks)
          PROVE  StoreOK(store', type)
      BY <1>2, <3>2, DelOK
    <3>3. ASSUME NEW c \in Clients, NEW k \in Keys, Command(c, k)
          PROVE  StoreOK(store', type)
      <4>1. CASE \/ \E role \in {"reader", "update", "upsert"} : Check(c, k, role)
                 \/ GetCheck(c, k)
        BY <3>1, <4>1 DEF Check, GetCheck
      <4>2. CASE Clean(c, k)
        BY <1>2, <4>2, CleanOK
      <4>3. CASE \/ Set(c, k, 0) \/ GetClean(c, k)
                 \/ \E by \in {1, -1} : IncrBy(c, k, by)
        BY <1>2, <4>3, StringOK
      <4>4. CASE \E secs \in Seconds : SetExpire(c, k, secs)
        BY <1>2, <4>4, ExpireOK
      <4>5. CASE \E xs \in SUBSET Items \ {{}} :
                   HSet(c, k, xs) \/ ZRem(c, k, xs) \/ SAdd(c, k, xs) \/ SRem(c, k, xs)
        BY <1>2, <4>5, HSetOK, ZRemOK, SAddOK, SRemOK
      <4>6. CASE \E x \in Items : HDel(c, k, x) \/ ZIncrBy(c, k, x, 1)
        BY <1>2, <4>6, HDelOK, ZIncrByOK
      <4>7. CASE \/ \E x \in Items : LPush(c, k, x) \/ RPush(c, k, x)
                 \/ LPop(c, k) \/ RPop(c, k)
        BY <1>2, <4>7, ListCommandOK
      <4>8. CASE \E d, e \in Items : \E r \in Scores[d], s \in Scores[e] :
                   ZAdd(c, k, r, d, s, e)
        BY <1>2, <4>8, ZAddOK
      <4>9. QED
        BY <3>3, <4>1, <4>2, <4>3, <4>4, <4>5, <4>6, <4>7, <4>8 DEF Command
    <3>4. QED
      BY <1>2, <3>1, <3>2, <3>3 DEF Next, Tick
  <2>3. QED
    BY <1>2, <2>1, <2>2 DEF RInv
<1>3. QED
  BY <1>1, <1>2

LEMMA InitOK == Init => RInv
<1> SUFFICES ASSUME Init  PROVE RInv
  OBVIOUS
<1>1. DOMAIN store = {}
  BY DEF Init
<1>2. OpsOK(op, type)
  BY DEF Init, OpsOK, Ops, Idle
<1>3. ASSUME NEW k \in Keys  PROVE KeyOK(store, k, type[k])
  <2>1. HashOK(store, k) /\ ListOK(store, k) /\ ScoresOK(store, k)
    BY <1>1 DEF HashOK, ListOK, ScoresOK, Fields, ToSet, IsInjective
  <2>2. CountOf(store, k) = 0 /\ MembersOf(store, k) = {}
    BY <1>1 DEF CountOf, MembersOf
  <2>3. QED
    BY <2>1, <2>2, FS_EmptySet DEF KeyOK
<1>4. StoreOK(store, type)
  BY <1>1, <1>3, FS_EmptySet DEF StoreOK
<1>5. QED
  BY <1>2, <1>4 DEF Init, RInv

\* The invariant holds in every reachable state.
THEOREM Invariance == Spec => []RInv
BY InitOK, StepOK, PTL DEF Spec

-----------------------------------------------------------------------------
(* The properties.                                                         *)

\* A hash is the same in its list of fields and in its entries: HKEYS and HGET agree
\* whatever the threads do between their sections.
THEOREM HashesAgree == Spec => []HashAgrees
<1>1. RInv => HashAgrees
  <2> SUFFICES ASSUME RInv, NEW k \in Keys, type[k] = "hash", NEW f \in Items
               PROVE  Cardinality({i \in DOMAIN HKeysReply(k) : HKeysReply(k)[i] = f})
                        = Cardinality(HGetReply(k, f))
    BY DEF HashAgrees
  <2> DEFINE fs == Fields(store, k)
             at == {i \in DOMAIN fs : fs[i] = f}
  <2>1. HashOK(store, k)
    BY DEF RInv, StoreOK, KeyOK
  <2> SUFFICES Cardinality(at) = Cardinality(HGetReply(k, f))
    BY DEF HKeysReply
  <2>2. CASE Has(Field(k, f))
    <3>1. PICK i \in DOMAIN fs : fs[i] = f
      BY <2>1, <2>2 DEF HashOK, Has, ToSet
    <3>2. at = {i}
      BY <2>1, <3>1 DEF HashOK, IsInjective
    <3>3. HGetReply(k, f) = {store[Field(k, f)]}
      BY <2>2 DEF HGetReply
    <3>4. QED
      BY <3>2, <3>3, FS_Singleton
  <2>3. CASE ~Has(Field(k, f))
    <3>1. at = {}
      BY <2>1, <2>3 DEF HashOK, Has, ToSet
    <3>2. HGetReply(k, f) = {}
      BY <2>3 DEF HGetReply
    <3>3. QED
      BY <3>1, <3>2
  <2>4. QED
    BY <2>2, <2>3
<1>2. QED
  BY <1>1, Invariance, PTL

\* As long as DEL is not called on a set, SCARD counts what SMEMBERS lists and
\* SISMEMBER confirms.
THEOREM SetCounts ==
  ASSUME "set" \notin Deletable
  PROVE  Spec => []SetCountExact
<1>1. RInv => SetCountExact
  <2> SUFFICES ASSUME RInv, NEW k \in Keys, type[k] = "set"
               PROVE  /\ SCardReply(k) = Cardinality(SMembersReply(k))
                      /\ SMembersReply(k) = {m \in Items : SIsMemberReply(k, m)}
    BY DEF SetCountExact
  <2>1. Number(k) = Cardinality(MembersOf(store, k))
    BY DEF RInv, StoreOK, KeyOK, CountOf, Number, Has
  <2>2. ASSUME NEW x \in MemberEntries(store, k)  PROVE x[3] \in MembersOf(store, k)
    <3>1. x \in DOMAIN store /\ x[1] = "member" /\ x[2] = k
      BY DEF MemberEntries
    <3>2. x \in Entries(k, type[k])
      BY <3>1, TypedEntry
    <3>3. PICK m \in Items : x = Member(k, m)
      BY <3>1, <3>2, EntryParts DEF Entries
    <3>4. QED
      BY <3>1, <3>3, EntryParts DEF MembersOf
  <2>3. ASSUME NEW m \in MembersOf(store, k)  PROVE m \in SMembersReply(k)
    <3>1. Member(k, m) \in MemberEntries(store, k) /\ Member(k, m)[3] = m
      BY EntryParts DEF MembersOf, MemberEntries
    <3>2. QED
      BY <3>1 DEF SMembersReply
  <2>4. SMembersReply(k) = MembersOf(store, k)
    BY <2>2, <2>3 DEF SMembersReply
  <2>5. QED
    BY <2>1, <2>4 DEF SCardReply, SIsMemberReply, Has, MembersOf
<1>2. QED
  BY <1>1, Invariance, PTL

\* A score is found at its rank.
LEMMA NthAtRank ==
  ASSUME NEW S \in SUBSET Nat, IsFiniteSet(S), NEW x \in S
  PROVE  \E i \in 1 .. Cardinality(S) : Nth(S, i) = x
<1> DEFINE below == [z \in S |-> {y \in S : y < z}]
           rank  == [z \in S |-> Cardinality({y \in S : y < z})]
<1>1. \A z \in S : /\ IsFiniteSet(below[z]) /\ below[z] \subseteq S
                   /\ rank[z] = Cardinality(below[z]) /\ rank[z] \in Nat
  <2>1. ASSUME NEW z \in S
        PROVE  IsFiniteSet({y \in S : y < z}) /\ Cardinality({y \in S : y < z}) \in Nat
    BY FS_Subset, FS_CardinalityType
  <2>2. QED
    BY <2>1
<1>2. \A y \in S : y \in Nat
  OBVIOUS
<1>3. \A w, z \in S : /\ w \notin below[w]
                      /\ w < z => below[w] \cup {w} \subseteq below[z]
  <2> SUFFICES ASSUME NEW w \in S, NEW z \in S
               PROVE  /\ w \notin below[w]
                      /\ w < z => below[w] \cup {w} \subseteq below[z]
    OBVIOUS
  <2>1. w \notin below[w]
    BY <1>2
  <2>2. ASSUME w < z, NEW y \in below[w] \cup {w}  PROVE y \in below[z]
    <3>1. y \in S /\ (y = w \/ y < w)
      OBVIOUS
    <3>2. y < z
      BY <1>2, <2>2, <3>1
    <3>3. QED
      BY <3>1, <3>2
  <2>3. QED
    BY <2>1, <2>2
<1>4. below[x] # S
  BY <1>3
<1>5. \A z \in S : rank[z] = Cardinality({y \in S : y < z})
  OBVIOUS
<1> HIDE DEF below, rank
<1>6. ASSUME NEW w \in S, NEW z \in S, w < z  PROVE rank[w] < rank[z]
  <2>1. Cardinality(below[w] \cup {w}) = rank[w] + 1
    BY <1>1, <1>3, FS_AddElement
  <2>2. Cardinality(below[w] \cup {w}) <= rank[z]
    BY <1>1, <1>3, <1>6, FS_Subset
  <2>3. QED
    BY <1>1, <2>1, <2>2
<1>7. \A z \in S : rank[z] = rank[x] => z = x
  BY <1>1, <1>2, <1>6
<1>8. Cardinality(S) \in Nat
  BY FS_CardinalityType
<1>9. rank[x] < Cardinality(S)
  <2>1. rank[x] <= Cardinality(S) /\ rank[x] # Cardinality(S)
    BY <1>1, <1>4, FS_Subset
  <2>2. QED
    BY <1>1, <1>8, <2>1
<1>10. PICK i \in 1 .. Cardinality(S) : rank[x] = i - 1
  <2>1. rank[x] + 1 \in 1 .. Cardinality(S) /\ rank[x] = (rank[x] + 1) - 1
    BY <1>1, <1>8, <1>9
  <2>2. QED
    BY <2>1
<1>11. \E z \in S : Cardinality({y \in S : y < z}) = i - 1
  BY <1>5, <1>10
<1>12. Nth(S, i) \in S /\ Cardinality({y \in S : y < Nth(S, i)}) = i - 1
  BY <1>11 DEF Nth
<1>13. Nth(S, i) = x
  BY <1>5, <1>7, <1>10, <1>12
<1>14. QED
  BY <1>13

\* ZRANGE 0 -1 answers the whole list.
LEMMA FullRange ==
  ASSUME NEW S, NEW s \in Seq(S)
  PROVE  RangeReply(s, 0, -1) = s
<1>1. Len(s) \in Nat
  OBVIOUS
<1>2. CASE Len(s) = 0
  <2>1. RangeReply(s, 0, -1) = <<>>
    BY <1>2 DEF RangeReply
  <2>2. s = <<>>
    BY <1>2
  <2>3. QED
    BY <2>1, <2>2
<1>3. CASE Len(s) > 0
  <2>1. RangeReply(s, 0, -1) = SubSeq(s, 1, Len(s))
    BY <1>1, <1>3 DEF RangeReply
  <2>2. QED
    BY <2>1
<1>4. QED
  BY <1>1, <1>2, <1>3

\* As long as no two elements are given the same score, every element with a score
\* is listed by ZRANGE, found by ZRANK and counted by ZCARD.
THEOREM SortedSetsComplete ==
  ASSUME DistinctScores
  PROVE  Spec => []ZRangeComplete
<1>1. RInv => ZRangeComplete
  <2> SUFFICES ASSUME RInv, NEW k \in Keys, type[k] = "zset"
               PROVE  LET scored == {e \in Items : ZScoreReply(k, e) # {}}
                      IN  /\ \A e \in scored : /\ Contains(ZRangeReply(k, 0, -1), e)
                                               /\ ZRankReply(k, e) # {}
                          /\ ZCardReply(k) >= Cardinality(scored)
    BY DEF ZRangeComplete
  <2> DEFINE scored == {e \in Items : ZScoreReply(k, e) # {}}
             SE == ScoreEntries(store, k)
             ss == {x[3] : x \in SE}
             all == {store[Score(k, Nth(ss, i))] : i \in 1 .. Cardinality(ss)}
  <2>1. ScoresOK(store, k)
    BY DEF RInv, StoreOK, KeyOK
  <2>2. \A e \in scored : e \in Items /\ Elem(k, e) \in DOMAIN store
    BY DEF ZScoreReply, Has
  <2>3. \A x \in SE : x[3] \in Nat
    <3>1. \A x \in SE : x \in Entries(k, type[k]) /\ x[1] = "score"
      BY TypedEntry DEF ScoreEntries
    <3>2. QED
      BY <3>1, EntryParts DEF Entries
  <2>4. IsFiniteSet(ss) /\ ss \in SUBSET Nat /\ Cardinality(ss) \in Nat
    <3>1. IsFiniteSet(SE)
      BY FS_Subset DEF RInv, StoreOK, ScoreEntries
    <3>2. [x \in SE |-> x[3]] \in Surjection(SE, ss)
      BY DEF Surjection
    <3>3. IsFiniteSet(ss)
      BY <3>1, <3>2, FS_Surjection
    <3>4. QED
      BY <2>3, <3>3, FS_CardinalityType
  <2>5. ASSUME NEW e \in scored
        PROVE  /\ store[Elem(k, e)] \in ss
               /\ Score(k, store[Elem(k, e)]) \in DOMAIN store
               /\ store[Score(k, store[Elem(k, e)])] = e
               /\ store[Elem(k, e)] \in Scores[e]
    <3>1. /\ Score(k, store[Elem(k, e)]) \in DOMAIN store
          /\ store[Score(k, store[Elem(k, e)])] = e
          /\ store[Elem(k, e)] \in Scores[e]
      BY <2>1, <2>2 DEF ScoresOK
    <3>2. Score(k, store[Elem(k, e)]) \in SE /\ Score(k, store[Elem(k, e)])[3] = store[Elem(k, e)]
      BY <3>1, EntryParts DEF ScoreEntries
    <3>3. QED
      BY <3>1, <3>2
  <2>6. /\ ByScore(k) = [i \in 1 .. Cardinality(ss) |-> store[Score(k, Nth(ss, i))]]
        /\ ByScore(k) \in Seq(all)
        /\ Len(ByScore(k)) = Cardinality(ss)
    <3>1. ByScore(k) = [i \in 1 .. Cardinality(ss) |-> store[Score(k, Nth(ss, i))]]
      BY DEF ByScore
    <3> HIDE DEF ss
    <3>2. QED
      BY <2>4, <3>1
  <2> HIDE DEF ss, all
  <2>7. ZRangeReply(k, 0, -1) = ByScore(k)
    BY <2>6, FullRange DEF ZRangeReply
  <2>8. ASSUME NEW e \in scored  PROVE Contains(ZRangeReply(k, 0, -1), e)
    <3>1. PICK r \in 1 .. Cardinality(ss) : Nth(ss, r) = store[Elem(k, e)]
      BY <2>4, <2>5, NthAtRank
    <3>2. ByScore(k)[r] = e
      BY <2>5, <2>6, <3>1
    <3>3. QED
      BY <2>6, <2>7, <3>1, <3>2 DEF Contains
  <2>9. ASSUME NEW e \in scored  PROVE ZRankReply(k, e) # {}
    BY <2>2, <2>5 DEF ZRankReply, Has
  <2>10. Cardinality(ss) >= Cardinality(scored)
    <3> DEFINE f == [e \in scored |-> store[Elem(k, e)]]
    <3>1. f \in [scored -> ss]
      BY <2>5
    <3>2. \A d, e \in scored : f[d] = f[e] => d = e
      BY <2>2, <2>5 DEF DistinctScores
    <3>3. f \in Injection(scored, ss)
      BY <3>1, <3>2 DEF Injection, IsInjective
    <3>4. Cardinality(scored) <= Cardinality(ss)
      BY <2>4, <3>3, FS_Injection
    <3>5. IsFiniteSet(scored) /\ Cardinality(scored) \in Nat
      BY RedisAssumption, FS_Subset, FS_CardinalityType
    <3>6. QED
      BY <2>4, <3>4, <3>5
  <2>11. QED
    BY <2>6, <2>8, <2>9, <2>10 DEF ZCardReply
<1>2. QED
  BY <1>1, Invariance, PTL

\* LRANGE answers the elements between the two positions.
THEOREM RangesExact == Spec => []RangeExact
<1>1. RInv => RangeExact
  <2> SUFFICES ASSUME RInv, NEW k \in Keys, type[k] = "list"
               PROVE  LET s == List(k)
                          n == LLenReply(k)
                          position(i) == IF i < 0 THEN i + n ELSE i
                      IN  \A start \in -(n + 1) .. n + 1, stop \in -n .. n + 1 :
                            RangeReply(s, start, stop) =
                              SubSeq(s, Max({position(start), 0}) + 1,
                                        Min({position(stop), n - 1}) + 1)
    BY DEF RangeExact
  <2> DEFINE s == List(k)
             n == LLenReply(k)
             position(i) == IF i < 0 THEN i + n ELSE i
  <2>1. s \in Seq(Items)
    BY DEF RInv, StoreOK, KeyOK, ListOK, List, Has
  <2>2. n = Len(s) /\ n \in Nat
    BY <2>1 DEF LLenReply
  <2> HIDE DEF s, n
  <2>3. ASSUME NEW start \in -(n + 1) .. n + 1, NEW stop \in -n .. n + 1
        PROVE  RangeReply(s, start, stop) =
                 SubSeq(s, Max({position(start), 0}) + 1, Min({position(stop), n - 1}) + 1)
    <3> DEFINE lo == IF position(start) < 0 THEN 0 ELSE position(start)
               hi == IF position(stop) >= n THEN n - 1 ELSE position(stop)
    <3>1. position(start) \in Int /\ position(stop) \in Nat
      BY <2>2
    <3>2. Max({position(start), 0}) = lo
      <4>1. \A x \in Int : Max({x, 0}) = IF x < 0 THEN 0 ELSE x
        BY DEF Max
      <4> HIDE DEF position
      <4>2. QED
        BY <3>1, <4>1
    <3>3. Min({position(stop), n - 1}) = hi
      <4>1. \A x \in Int, y \in Int : Min({x, y}) = IF x > y THEN y ELSE x
        BY DEF Min
      <4>2. n - 1 \in Int
        BY <2>2
      <4> HIDE DEF position
      <4>3. QED
        BY <2>2, <3>1, <4>1, <4>2
    <3>4. RangeReply(s, start, stop) = IF lo > hi THEN <<>> ELSE SubSeq(s, lo + 1, hi + 1)
      BY <2>2, <3>1 DEF RangeReply
    <3>5. lo \in Nat /\ hi \in Int
      BY <2>2, <3>1
    <3> HIDE DEF lo, hi, position
    <3>6. ASSUME lo > hi  PROVE SubSeq(s, lo + 1, hi + 1) = <<>>
      BY <2>1, <3>5, <3>6
    <3>7. QED
      BY <3>2, <3>3, <3>4, <3>6
  <2>4. QED
    BY <2>3 DEF s, n
<1>2. QED
  BY <1>1, Invariance, PTL

\* An expired value is removed as a whole, whatever has happened to it since its
\* deadline was looked at.
THEOREM CleansWhole == Spec => CleanWhole
<1>1. RInv /\ [Next]_vars =>
        [\A c \in Clients : At(c, "clean") /\ op'[c] # op[c] =>
           \A x \in DOMAIN store' : x[2] # op[c].key]_vars
  <2> SUFFICES ASSUME RInv, Next, NEW d \in Clients, At(d, "clean"), op'[d] # op[d]
               PROVE  \A x \in DOMAIN store' : x[2] # op[d].key
    BY DEF vars
  <2>1. DOMAIN op = Clients /\ op[d].step = "clean"
    BY DEF RInv, OpsOK, At
  <2>2. ASSUME NEW c \in Clients, NEW k \in Keys, Command(c, k)
        PROVE  c = d /\ Clean(d, k)
    <3>1. op' = [op EXCEPT ![c] = op'[c]] \/ op' = op
      BY <2>1, <2>2 DEF Command, Check, Clean, Set, IncrBy, SetExpire, GetCheck, GetClean, HSet,
            ZRem, SAdd, SRem, HDel, LPush, RPush, Push, Pop, ZIncrBy, LPop, RPop, ZAdd, Return,
            Exclusive
    <3>2. c = d
      BY <2>1, <3>1
    <3>3. QED
      BY <2>1, <2>2, <3>2 DEF Command, Check, Set, IncrBy, SetExpire, GetCheck, GetClean, HSet,
            ZRem, SAdd, SRem, HDel, LPush, RPush, ZIncrBy, LPop, RPop, ZAdd, Exclusive,
            Upserting, Updating, Writing, At
  <2>3. PICK k \in Keys : Clean(d, k)
    BY <2>2 DEF Next, Tick, Del, Exclusive
  <2>4. op[d].key = k
    BY <2>3 DEF Clean
  <2>5. QED
    BY <2>3, <2>4, CleanTakesAll
<1>2. QED
  BY <1>1, Invariance, PTL DEF Spec, CleanWhole
=============================================================================
