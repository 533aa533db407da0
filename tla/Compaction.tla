----------------------------- MODULE Compaction -----------------------------
(***************************************************************************)
(* One compaction, entry by entry: LSMEngine::gen_sst_from_iter reads a    *)
(* TwoMergeIterator over two levels and cuts what it reads into new SSTs.  *)
(* The source level is L0, whose SSTs overlap and go through a heap, or a  *)
(* deeper level, whose SSTs follow each other like those of the target.    *)
(* LsmTree!Merge and LsmTree!CompactBuild say what comes out of it.        *)
(***************************************************************************)
EXTENDS SstBlocks

CONSTANTS BlockSizes,  \* LSM_BLOCK_SIZE, any of these
          TargetSize,  \* get_sst_size of the target level
          Ids          \* the tranc_ids in the input

ASSUME CompactionAssumption ==
  BlockSizes \subseteq Nat /\ TargetSize \in Nat /\ Ids \subseteq Nat \ {0}

VARIABLES
  block_size, \* LSM_BLOCK_SIZE
  from_l0,   \* full_l0_l1_compact or full_common_compact
  source,    \* the tables of the source level, for L0 the newest first
  target,    \* the tables of the target level, by key
  it_a,      \* the iterator over the source level
  it_b,      \* the iterator over the target level
  builder,   \* new_sst_builder
  new_ssts,  \* the SSTs written
  status     \* "adding", "done", or "thrown"

inputs == <<block_size, from_l0, source, target>>
vars == <<inputs, it_a, it_b, builder, new_ssts, status>>

AllVersions == UNION (ToSet(source) \cup ToSet(target))

-----------------------------------------------------------------------------
(* HeapIterator over the items of several SSTs, with all versions.         *)

\* merge_sst_iterator pushes every entry of every SST.
HeapOf(ssts) ==
  UNION {{[e |-> e, idx |-> i] : e \in ToSet(SstScan(ssts[i], 0, TRUE))} : i \in DOMAIN ssts}

\* operator> of SearchItem; the newest SST has the smallest idx, all have the
\* same level.  It orders items as long as a larger tranc_id of a key is never
\* in an older SST.
Greater(x, y) ==
  IF x.e.key # y.e.key THEN x.e.key > y.e.key
  ELSE x.e.id < y.e.id \/ x.idx > y.idx

Top(items) == CHOOSE x \in items : \A y \in items : ~Greater(x, y)

-----------------------------------------------------------------------------
(* ConcactIterator over the SSTs of one level.                             *)

ConcactBegin(ssts, n) == [n |-> n, it |-> IF n > Len(ssts) THEN Nowhere
                                          ELSE SstBegin(ssts[n], 0)]

ConcactNext(ssts, c) ==
  LET it == SstNext(ssts[c.n], c.it, 0, TRUE)
  IN  IF SstValid(ssts[c.n], it) THEN [c EXCEPT !.it = it]
      ELSE ConcactBegin(ssts, c.n + 1)

-----------------------------------------------------------------------------
(* TwoMergeIterator over both, with all versions.                          *)

SstsOf(tables) == [i \in DOMAIN tables |-> SstOf(tables[i], block_size)]

EndA(a) == IF from_l0 THEN a = {} ELSE a.n > Len(source)
EntryA(a) == IF from_l0 THEN Top(a).e ELSE SstEntry(SstOf(source[a.n], block_size), a.it)
NextA(a) == IF from_l0 THEN a \ {Top(a)} ELSE ConcactNext(SstsOf(source), a)

EndB(b) == b.n > Len(target)
EntryB(b) == SstEntry(SstOf(target[b.n], block_size), b.it)
NextB(b) == ConcactNext(SstsOf(target), b)

MergeEnd(a, b) == EndA(a) /\ EndB(b)

\* Mutant of choose_it_a: of two versions of a key the one of the target level
\* comes first.
choose_it_a_last(a, b) ==
  /\ ~EndA(a)
  /\ \/ EndB(b)
     \/ EntryA(a).key < EntryB(b).key

choose_it_a(a, b) ==
  /\ ~EndA(a)
  /\ \/ EndB(b)
     \/ EntryA(a).key < EntryB(b).key
     \/ EntryA(a).key = EntryB(b).key /\ EntryA(a).id > EntryB(b).id

Entry(a, b) == IF choose_it_a(a, b) THEN EntryA(a) ELSE EntryB(b)

-----------------------------------------------------------------------------
(* gen_sst_from_iter.                                                      *)

\* The SST ends here: it is large enough, counting whole blocks only, and the
\* next entry has another key.
Cut(key, a, b, bld) ==
  /\ MergeEnd(a, b) \/ Entry(a, b).key # key
  /\ estimated_size(bld) >= TargetSize

\* One round of the loop.
Add ==
  /\ status = "adding"
  /\ ~MergeEnd(it_a, it_b)
  /\ LET chosen == choose_it_a(it_a, it_b)
         e == Entry(it_a, it_b)
         bld == add(builder, e)
     IN  /\ it_a' = IF chosen THEN NextA(it_a) ELSE it_a
         /\ it_b' = IF chosen THEN it_b ELSE NextB(it_b)
         /\ IF Cut(e.key, it_a', it_b', bld)
            THEN new_ssts' = Append(new_ssts, build(bld)) /\ builder' = NewBuilder(block_size)
            ELSE builder' = bld /\ UNCHANGED new_ssts
  /\ UNCHANGED <<inputs, status>>

\* What is left after the loop.  The size of a builder is never 0; build throws
\* if there was nothing left.
Finish ==
  /\ status = "adding"
  /\ MergeEnd(it_a, it_b)
  /\ real_size(builder) > 0
  /\ IF build(builder) = <<>>
     THEN status' = "thrown" /\ UNCHANGED <<builder, new_ssts>>
     ELSE /\ status' = "done"
          /\ new_ssts' = Append(new_ssts, build(builder))
          /\ builder' = NewBuilder(block_size)
  /\ UNCHANGED <<inputs, it_a, it_b>>

\* Two tables of each level, of which any may be missing.  Versions of a key are
\* the newer the nearer they are to the front of the read path; only the SSTs
\* of L0 overlap.  The values do not matter here.
Init ==
  /\ block_size \in BlockSizes
  /\ from_l0 \in BOOLEAN
  /\ \E place \in [[key : AllKeys, id : Ids, val : {Tombstone}] -> 0 .. 4] :
       LET part(i) == {v \in DOMAIN place : place[v] = i}
           apart(s, t) == \A v \in s, w \in t : v.key < w.key
           newer(s, t) == \A v \in s, w \in t : v.key = w.key => v.id > w.id
           present(s) == SelectSeq(s, LAMBDA t : t # {})
       IN  /\ newer(part(1) \cup part(2), part(3) \cup part(4))
           /\ IF from_l0 THEN newer(part(1), part(2)) ELSE apart(part(1), part(2))
           /\ apart(part(3), part(4))
           /\ source = present(<<part(1), part(2)>>)
           /\ target = present(<<part(3), part(4)>>)
  /\ source # <<>>
  /\ it_a = IF from_l0 THEN HeapOf(SstsOf(source)) ELSE ConcactBegin(SstsOf(source), 1)
  /\ it_b = ConcactBegin(SstsOf(target), 1)
  /\ builder = NewBuilder(block_size)
  /\ new_ssts = <<>>
  /\ status = "adding"

Returned == status # "adding" /\ UNCHANGED vars

Next == Add \/ Finish \/ Returned

Spec == Init /\ [][Next]_vars

-----------------------------------------------------------------------------
(* Properties.                                                             *)

EntriesOf(sst) == FlattenSeq([b \in DOMAIN sst |-> sst[b].entries])

\* The SSTs at hand, as the builder has laid them out.
Ssts == ToSet(SstsOf(source)) \cup ToSet(new_ssts)

\* The two binary searches of a lookup, over the blocks and inside one, with the
\* walk to the visible version, find what a search of all entries finds, for
\* every key and every reader.
SearchExact ==
  \A sst \in Ssts : \A k \in AllKeys, q \in Ids \cup {0} :
    Seek(sst, k, q) = SstGet(ToSet(EntriesOf(sst)), k, q)

\* The newest version of each key of a table with lo <= key <= hi, by key.
NewestIn(t, lo, hi) == Sorted(UNION {TableGet(t, k, 0) : k \in KeysOf(t) \cap lo .. hi})

\* A scan of an SST without a transaction crosses its blocks without losing or
\* repeating a key; one inside a transaction gives nothing that is not the newest
\* version of its key the reader may see.
ScanExact ==
  \A sst \in Ssts : LET t == ToSet(EntriesOf(sst)) IN
    /\ SstScan(sst, 0, TRUE) = Sorted(t)
    /\ SstScan(sst, 0, FALSE) = NewestIn(t, Marker, Max(AllKeys))
    /\ \A q \in Ids : ToSet(SstScan(sst, q, FALSE))
                        \subseteq UNION {TableGet(t, k, q) : k \in AllKeys}

\* A range query finds every key of the range in order, before anything else.
RangeComplete ==
  \A sst \in Ssts : \A lo, hi \in Keys :
    IsPrefix(NewestIn(ToSet(EntriesOf(sst)), lo, hi), RangeScan(sst, lo, hi, 0))

\* The merge of a heap and chained iterators over blocks gives every version of
\* both levels once, sorted by key and descending tranc_id, and each of them
\* reaches a new SST or the builder.  The new SSTs have disjoint key ranges in
\* the order they were written, which the binary search over a level relies on.
MergeExact ==
  LET written == FlattenSeq([i \in DOMAIN new_ssts |-> EntriesOf(new_ssts[i])])
                   \o EntriesOf(builder.blocks) \o builder.block
  IN  /\ IsPrefix(written, Sorted(AllVersions))
      /\ MergeEnd(it_a, it_b) => Len(written) = Cardinality(AllVersions)
      /\ \A i, j \in DOMAIN new_ssts : i < j =>
           Last(new_ssts[i]).last_key < new_ssts[j][1].first_key
=============================================================================
