------------------------------- MODULE Redis -------------------------------
(***************************************************************************)
(* The Redis layer: strings, hashes, lists, sorted sets and sets with      *)
(* expiry, each kept in several entries of the key-value store, used by    *)
(* several threads under one shared mutex, redis_mtx.                      *)
(*                                                                         *)
(* A critical section of redis_mtx is one step: an exclusive section runs  *)
(* alone, a shared one only reads.  Most commands take the lock twice or   *)
(* three times: shared to look at the expiry, exclusive to remove an       *)
(* expired value, exclusive to write.  `op` is where a thread is between   *)
(* its sections; a command's arguments are chosen where they are used.     *)
(*                                                                         *)
(* The store is a map from entries to their newest values, prefix scans    *)
(* give all its entries with the prefix, and a key is used with the        *)
(* commands of one data type.                                              *)
(***************************************************************************)
EXTENDS Integers, SequencesExt

CONSTANTS Clients,    \* the threads that call RedisWrapper
          Keys,       \* user keys
          Items,      \* fields, list elements, members
          Scores,     \* Scores[e]: the scores given to element e
          Deletable,  \* the data types DEL is called on
          Seconds,    \* arguments of EXPIRE
          MaxTime,    \* bound: the clock
          MaxLen,     \* bound: length of a list
          MaxNumber   \* bound: absolute value of a counter

Types == {"string", "hash", "list", "zset", "set"}

ASSUME RedisAssumption ==
  /\ IsFiniteSet(Items)
  /\ \A e \in Items : Scores[e] \subseteq Nat
  /\ Deletable \subseteq Types
  /\ Seconds \subseteq Int /\ MaxTime \in Nat

VARIABLES
  type,   \* type[k]: the commands that key k is used with
  store,  \* the entries in the LSM store and their newest values
  now,    \* system_clock, in seconds
  op      \* op[c]: what thread c does between two critical sections

vars == <<type, store, now, op>>

-----------------------------------------------------------------------------
(* Entries.                                                                *)

Main(k)      == <<"main", k>>
Expire(k)    == <<"expire", k>>
Field(k, f)  == <<"field", k, f>>
Elem(k, e)   == <<"elem", k, e>>
Score(k, s)  == <<"score", k, s>>
Member(k, m) == <<"member", k, m>>

\* What a scan of the entries with one prefix finds.
ElemEntries(st, k)   == {x \in DOMAIN st : x[1] = "elem" /\ x[2] = k}
ScoreEntries(st, k)  == {x \in DOMAIN st : x[1] = "score" /\ x[2] = k}
MemberEntries(st, k) == {x \in DOMAIN st : x[1] = "member" /\ x[2] = k}

Has(x) == x \in DOMAIN store

\* What puts of the value v to the entries in S, and removes of them, leave.
With(st, S, v) == [x \in DOMAIN st \cup S |-> IF x \in S THEN v ELSE st[x]]
Without(st, S) == [x \in DOMAIN st \ S |-> st[x]]

\* The field list in the value of a hash key, empty if there is none.
Fields(st, k) == IF Main(k) \in DOMAIN st THEN st[Main(k)] ELSE <<>>
FieldEntries(k, fs) == {Field(k, f) : f \in ToSet(fs)}

\* The elements of a list key.
List(k) == IF Has(Main(k)) THEN store[Main(k)] ELSE <<>>

\* A deadline is in the past only when it is smaller than the clock.
is_expired(k) == Has(Expire(k)) /\ store[Expire(k)] < now

-----------------------------------------------------------------------------
(* The sections commands have in common.                                   *)

Idle == [step |-> "idle"]

At(c, step) == op[c].step = step

\* Bound: the threads under way do not make the list longer than MaxLen.
HasRoom(k) ==
  type[k] = "list" =>
    Len(List(k)) + Cardinality({c \in Clients : ~At(c, "idle")}) < MaxLen

\* Every command but the ones in one exclusive section begins here.  A reader
\* answers in the same section; "update" commands (HDEL, LPOP, RPOP, ZREM,
\* SREM) and "upsert" commands (HSET, LPUSH, RPUSH, ZADD, ZINCRBY, SADD) go on
\* to write, but an update returns once it has cleaned.
Check(c, k, role) ==
  /\ At(c, "idle")
  /\ type[k] # "string"
  /\ role = "upsert" => HasRoom(k)
  /\ op' = [op EXCEPT ![c] =
       IF is_expired(k) THEN [step |-> "clean", key |-> k, role |-> role]
       ELSE IF role = "reader" THEN Idle
       ELSE [step |-> "write", key |-> k, role |-> role]]
  /\ UNCHANGED <<type, store, now>>

\* The entries the clean of an expired value removes.
CleanedEntries(k) ==
  {Main(k), Expire(k)} \cup
    CASE type[k] = "hash" -> FieldEntries(k, Fields(store, k))
      [] type[k] = "list" -> {}
      [] type[k] = "zset" -> ElemEntries(store, k) \cup ScoreEntries(store, k)
      [] type[k] = "set"  -> MemberEntries(store, k)

\* Mutant of Clean: the score entries of a sorted set are forgotten.
CleanHalf(c, k) ==
  /\ At(c, "clean") /\ op[c].key = k
  /\ store' = Without(store, CleanedEntries(k) \ ScoreEntries(store, k))
  /\ op' = [op EXCEPT ![c] = IF op[c].role = "upsert" THEN [@ EXCEPT !.step = "write"]
                             ELSE Idle]
  /\ UNCHANGED <<type, now>>

\* expire_hash_clean and its siblings after the read lock has been given up.
\* The deadline is not looked at again.
Clean(c, k) ==
  /\ At(c, "clean") /\ op[c].key = k
  /\ store' = Without(store, CleanedEntries(k))
  /\ op' = [op EXCEPT ![c] = IF op[c].role = "upsert" THEN [@ EXCEPT !.step = "write"]
                             ELSE Idle]
  /\ UNCHANGED <<type, now>>

\* Thread c has redis_mtx exclusively, for a command on the key k of type t.
Writing(c, k, t)   == At(c, "write") /\ op[c].key = k /\ type[k] = t
Upserting(c, k, t) == Writing(c, k, t) /\ op[c].role = "upsert"
Updating(c, k, t)  == Writing(c, k, t) /\ op[c].role = "update"

\* What such a command leaves in the store, and its return.
Return(c, st) ==
  /\ store' = st
  /\ op' = [op EXCEPT ![c] = Idle]
  /\ UNCHANGED <<type, now>>

\* A command that is one exclusive section.
Exclusive(c, st) ==
  /\ At(c, "idle")
  /\ store' = st
  /\ UNCHANGED <<type, now, op>>

-----------------------------------------------------------------------------
(* Strings and expiry.                                                     *)

Number(k) == IF Has(Main(k)) THEN store[Main(k)] ELSE 0

\* SET drops the deadline with the old value.
Set(c, k, n) ==
  /\ type[k] = "string"
  /\ Exclusive(c, With(Without(store, {Expire(k)}), {Main(k)}, n))

\* INCR (by = 1) and DECR (by = -1); the deadline is neither looked at nor
\* dropped.
IncrBy(c, k, by) ==
  /\ type[k] = "string"
  /\ Number(k) + by \in -MaxNumber .. MaxNumber
  /\ Exclusive(c, With(store, {Main(k)}, Number(k) + by))

\* Mutant of Del: the fields of a hash stay.
DelKeepsFields(c, ks) ==
  /\ \A k \in ks : type[k] \in Deletable
  /\ Exclusive(c, Without(store, UNION {{Main(k), Expire(k)} : k \in ks}))

\* DEL knows how to remove the fields of a hash; the entries of a sorted set
\* and of a set stay.
Del(c, ks) ==
  /\ \A k \in ks : type[k] \in Deletable
  /\ Exclusive(c, Without(store, UNION {{Main(k), Expire(k)} \cup
                    (IF type[k] = "hash" THEN FieldEntries(k, Fields(store, k)) ELSE {})
                      : k \in ks}))

\* EXPIRE, whether or not the key exists.
SetExpire(c, k, secs) == Exclusive(c, With(store, {Expire(k)}, now + secs))

\* GET, its shared section: an expired value, or a deadline without a value,
\* is to be removed.
GetCheck(c, k) ==
  /\ At(c, "idle")
  /\ type[k] = "string"
  /\ op' = [op EXCEPT ![c] =
       IF Has(Main(k)) /\ is_expired(k) THEN [step |-> "get_clean", key |-> k]
       ELSE IF ~Has(Main(k)) /\ Has(Expire(k)) THEN [step |-> "orphan", key |-> k]
       ELSE Idle]
  /\ UNCHANGED <<type, store, now>>

\* GET, its exclusive section.
GetClean(c, k) ==
  /\ op[c].step \in {"get_clean", "orphan"} /\ op[c].key = k
  /\ store' = Without(store, {Expire(k)} \cup
                               (IF At(c, "get_clean") THEN {Main(k)} ELSE {}))
  /\ op' = [op EXCEPT ![c] = Idle]
  /\ UNCHANGED <<type, now>>

-----------------------------------------------------------------------------
(* Hashes: the value of the key lists the fields, each field has an entry. *)

\* HSET of the fields fs: new ones go to the end of the list.
HSet(c, k, fs) ==
  /\ Upserting(c, k, "hash")
  /\ LET new == SetToSeq(fs \ ToSet(Fields(store, k)))
     IN  Return(c, With(With(store, {Field(k, f) : f \in fs}, 1),
                        {Main(k)}, Fields(store, k) \o new))

\* HDEL: the entry, and the name in the list; the last one takes the key along.
HDel(c, k, f) ==
  /\ Updating(c, k, "hash")
  /\ LET list == RemoveFirst(Fields(store, k), f)
         rest == Without(store, {Field(k, f)})
     IN  Return(c, IF ~Contains(Fields(store, k), f) THEN rest
                   ELSE IF list = <<>> THEN Without(rest, {Main(k)})
                   ELSE With(rest, {Main(k)}, list))

HGetReply(k, f) == IF Has(Field(k, f)) THEN {store[Field(k, f)]} ELSE {}
HKeysReply(k)   == Fields(store, k)

-----------------------------------------------------------------------------
(* Lists: the value of the key is the joined list; it is never empty.      *)

Push(c, k, new) == Return(c, With(store, {Main(k)}, new))

LPush(c, k, v) == Upserting(c, k, "list") /\ Push(c, k, <<v>> \o List(k))
RPush(c, k, v) == Upserting(c, k, "list") /\ Push(c, k, Append(List(k), v))

Pop(c, k, rest) == Return(c, IF rest = <<>> THEN Without(store, {Main(k)})
                             ELSE With(store, {Main(k)}, rest))

LPop(c, k) ==
  /\ Updating(c, k, "list")
  /\ IF List(k) = <<>> THEN Return(c, store) ELSE Pop(c, k, Tail(List(k)))

RPop(c, k) ==
  /\ Updating(c, k, "list")
  /\ IF List(k) = <<>> THEN Return(c, store) ELSE Pop(c, k, Front(List(k)))

LLenReply(k) == Len(List(k))

\* Mutant of RangeReply: a stop one beyond the end is not cut.
RangeReplyUncut(s, start, stop) ==
  LET n    == Len(s)
      from == IF start < 0 THEN start + n ELSE start
      to   == IF stop < 0 THEN stop + n ELSE stop
      lo   == IF from < 0 THEN 0 ELSE from
      hi   == IF to < 0 \/ to > n THEN n - 1 ELSE to
  IN  [i \in 1 .. (IF lo > hi THEN 0 ELSE hi - lo + 1) |->
         IF lo + i <= n THEN s[lo + i] ELSE 0]

\* The index arithmetic of LRANGE and ZRANGE on int.  The comparison of stop
\* with size() is one of unsigned numbers: a stop that is still negative counts
\* as too large.
RangeReply(s, start, stop) ==
  LET n    == Len(s)
      from == IF start < 0 THEN start + n ELSE start
      to   == IF stop < 0 THEN stop + n ELSE stop
      lo   == IF from < 0 THEN 0 ELSE from
      hi   == IF to < 0 \/ to >= n THEN n - 1 ELSE to
  IN  IF lo > hi THEN <<>> ELSE SubSeq(s, lo + 1, hi + 1)

-----------------------------------------------------------------------------
(* Sorted sets: per element an entry with its score, per score an entry    *)
(* with its element.                                                       *)

\* Mutant of ZAdd: an element that is there gets its new score in one entry only.
ZAddOneEntry(c, k, r, d, s, e) ==
  LET add(st, score, elem) ==
        IF Has(Elem(k, elem)) THEN With(st, {Elem(k, elem)}, score)
        ELSE With(With(st, {Elem(k, elem)}, score), {Score(k, score)}, elem)
  IN  /\ Upserting(c, k, "zset")
      /\ Return(c, add(add(With(store, {Main(k)}, "zset"), r, d), s, e))

\* ZADD of the pairs (r, d) and (s, e) of a score and an element, in this order.
\* Scores are compared with the stored ones, not with those of a pair before.
\* The old score entry of an element is noted in remove_keys; what is removed is
\* del_keys, which is empty.
ZAdd(c, k, r, d, s, e) ==
  LET add(st, score, elem) ==
        IF Has(Elem(k, elem)) /\ store[Elem(k, elem)] = score THEN st
        ELSE With(With(st, {Elem(k, elem)}, score), {Score(k, score)}, elem)
  IN  /\ Upserting(c, k, "zset")
      /\ Return(c, add(add(With(store, {Main(k)}, "zset"), r, d), s, e))

\* ZREM takes both entries of each element away.
ZRem(c, k, es) ==
  LET found == {e \in es : Has(Elem(k, e))}
  IN  /\ Updating(c, k, "zset")
      /\ Return(c, Without(store, {Elem(k, e) : e \in found} \cup
                                    {Score(k, store[Elem(k, e)]) : e \in found}))

\* ZINCRBY takes the old score entry away before it puts the new one.
ZIncrBy(c, k, e, by) ==
  LET old == IF Has(Elem(k, e)) THEN {store[Elem(k, e)]} ELSE {}
      new == by + (IF old = {} THEN 0 ELSE store[Elem(k, e)])
  IN  /\ Upserting(c, k, "zset")
      /\ new \in Scores[e]
      /\ Return(c, With(With(Without(store, {Score(k, s) : s \in old}),
                             {Score(k, new)}, e),
                        {Elem(k, e)}, new))

\* The i-th of the scores in S: i - 1 are smaller.
Nth(S, i) == CHOOSE x \in S : Cardinality({y \in S : y < x}) = i - 1

\* The elements under the score prefix, by ascending score (the score is padded
\* to a fixed width, so the order of strings is the order of numbers).
ByScore(k) ==
  LET ss == {x[3] : x \in ScoreEntries(store, k)}
  IN  [i \in 1 .. Cardinality(ss) |-> store[Score(k, Nth(ss, i))]]

ZRangeReply(k, start, stop) == RangeReply(ByScore(k), start, stop)
ZCardReply(k)     == Len(ByScore(k))
ZScoreReply(k, e) == IF Has(Elem(k, e)) THEN {store[Elem(k, e)]} ELSE {}

\* ZRANK counts under the prefix that the two kinds of entries share; ELEM
\* sorts before SCORE.
ZRankReply(k, e) ==
  IF Has(Elem(k, e)) /\ Has(Score(k, store[Elem(k, e)]))
  THEN {Cardinality(ElemEntries(store, k))
          + Cardinality({x \in ScoreEntries(store, k) : x[3] < store[Elem(k, e)]})}
  ELSE {}

-----------------------------------------------------------------------------
(* Sets: per member an entry, and the number of members under the key.     *)

\* Mutant of SAdd: members already there are counted again.
SAddRecounts(c, k, ms) ==
  /\ Upserting(c, k, "set")
  /\ Return(c, With(With(store, {Member(k, m) : m \in ms}, 1),
                    {Main(k)}, Number(k) + Cardinality(ms)))

\* SADD of distinct members.
SAdd(c, k, ms) ==
  LET new == {m \in ms : ~Has(Member(k, m))}
  IN  /\ Upserting(c, k, "set")
      /\ Return(c, With(With(store, {Member(k, m) : m \in new}, 1),
                        {Main(k)}, Number(k) + Cardinality(new)))

\* SREM writes the number even if there was none.
SRem(c, k, ms) ==
  LET gone == {m \in ms : Has(Member(k, m))}
  IN  /\ Updating(c, k, "set")
      /\ Return(c, With(Without(store, {Member(k, m) : m \in gone}),
                        {Main(k)}, Number(k) - Cardinality(gone)))

SCardReply(k)        == Number(k)
SMembersReply(k)     == {x[3] : x \in MemberEntries(store, k)}
SIsMemberReply(k, m) == Has(Member(k, m))

-----------------------------------------------------------------------------
Init ==
  /\ type \in [Keys -> Types]
  /\ store = <<>>
  /\ now = 0
  /\ op = [c \in Clients |-> Idle]

Tick == now < MaxTime /\ now' = now + 1 /\ UNCHANGED <<type, store, op>>

\* A call, or the next section of one, by thread c on the key k.
Command(c, k) ==
  \/ \E role \in {"reader", "update", "upsert"} : Check(c, k, role)
  \/ Clean(c, k)
  \/ Set(c, k, 0)
  \/ \E by \in {1, -1} : IncrBy(c, k, by)
  \/ \E secs \in Seconds : SetExpire(c, k, secs)
  \/ GetCheck(c, k)
  \/ GetClean(c, k)
  \/ \E xs \in SUBSET Items \ {{}} :
       HSet(c, k, xs) \/ ZRem(c, k, xs) \/ SAdd(c, k, xs) \/ SRem(c, k, xs)
  \/ \E x \in Items :
       HDel(c, k, x) \/ LPush(c, k, x) \/ RPush(c, k, x) \/ ZIncrBy(c, k, x, 1)
  \/ LPop(c, k)
  \/ RPop(c, k)
  \/ \E d, e \in Items : \E r \in Scores[d], s \in Scores[e] :
       ZAdd(c, k, r, d, s, e)

Next ==
  \/ Tick
  \/ \E c \in Clients : \/ \E k \in Keys : Command(c, k)
                        \/ \E ks \in SUBSET Keys \ {{}} : Del(c, ks)

Spec == Init /\ [][Next]_vars

-----------------------------------------------------------------------------
(* Properties.                                                             *)

\* A hash is in two places that must agree at every moment, whatever the threads
\* do: a field is in the list exactly once if it has an entry and not at all
\* otherwise.  HKEYS reads the list, HGET the entries, and the removal of a
\* hash goes by the list.
HashAgrees ==
  \A k \in Keys : type[k] = "hash" =>
    \A f \in Items :
      Cardinality({i \in DOMAIN HKeysReply(k) : HKeysReply(k)[i] = f})
        = Cardinality(HGetReply(k, f))

\* The number SCARD answers is the number of members SMEMBERS lists and
\* SISMEMBER confirms, as long as a clean finds all members: its range over the
\* prefix is taken to be exact, which a range query over SSTs is not always.
SetCountExact ==
  \A k \in Keys : type[k] = "set" =>
    /\ SCardReply(k) = Cardinality(SMembersReply(k))
    /\ SMembersReply(k) = {m \in Items : SIsMemberReply(k, m)}

\* Every element with a score is listed by ZRANGE 0 -1, found by ZRANK and counted
\* by ZCARD, as long as no two elements are given the same score and ranges over a
\* prefix are exact.  That nothing else is listed is not said: ZADD leaves the entry
\* of the old score.
ZRangeComplete ==
  \A k \in Keys : type[k] = "zset" =>
    LET scored == {e \in Items : ZScoreReply(k, e) # {}}
    IN  /\ \A e \in scored : Contains(ZRangeReply(k, 0, -1), e) /\ ZRankReply(k, e) # {}
        /\ ZCardReply(k) >= Cardinality(scored)

\* LRANGE gives the elements between the two positions, where negative ones count
\* from the end, a start outside the list is cut off, and so is a stop beyond the end.
\* Stops below minus the length are left out: the code gives everything then.
RangeExact ==
  \A k \in Keys : type[k] = "list" =>
    LET s == List(k)
        n == LLenReply(k)
        position(i) == IF i < 0 THEN i + n ELSE i
    IN  \A start \in -(n + 1) .. n + 1, stop \in -n .. n + 1 :
          RangeReply(s, start, stop) =
            SubSeq(s, Max({position(start), 0}) + 1, Min({position(stop), n - 1}) + 1)

\* The value that is cleaned goes as a whole: nothing of an expired hash, sorted
\* set or set is left to turn up in the next value under its key, also of what other
\* clients have added since the check.  Ranges over a prefix are taken to be exact.
CleanWhole ==
  [][\A c \in Clients : At(c, "clean") /\ op'[c] # op[c] =>
       \A x \in DOMAIN store' : x[2] # op[c].key]_vars

\* A value is removed as expired only if it is: what a command has written,
\* without a deadline or with one to come, is there until a command removes it.
CleanOnlyExpired ==
  [][\A c \in Clients : op[c].step \in {"clean", "get_clean"} /\ op'[c] # op[c] =>
       ~Has(Main(op[c].key)) \/ is_expired(op[c].key)]_vars
=============================================================================
