----------------------------- MODULE SstBlocks -----------------------------
(***************************************************************************)
(* The inside of an SST: a sequence of blocks, each a sequence of entries  *)
(* sorted by key and descending tranc_id, with the first and last key of   *)
(* every block in its meta entry.  How SSTBuilder cuts entries into        *)
(* blocks, how a lookup finds one, and how the iterators of blocks and     *)
(* SSTs step.                                                              *)
(*                                                                         *)
(* Sizes are counted in entries, and a block has one unit of its own (the  *)
(* number of entries it ends with).  Positions are counted from 1, and the *)
(* end of a block is the position after its last entry.                    *)
(***************************************************************************)
EXTENDS Table, Integers, SequencesExt

Before(v, w) == v.key < w.key \/ (v.key = w.key /\ v.id > w.id)

\* A table in the order SkipList::flush hands it over.
Sorted(t) == SetToSortSeq(t, Before)

-----------------------------------------------------------------------------
(* SSTBuilder.                                                             *)

\* A builder for blocks of the given size.
NewBuilder(size) == [capacity |-> size, first_key |-> Marker, last_key |-> Marker,
                     block |-> <<>>, blocks |-> <<>>]

BlockCurSize(block) == Len(block) + 1

\* SSTBuilder::estimated_size: the encoded blocks.
estimated_size(b) ==
  FoldLeft(LAMBDA n, block : n + BlockCurSize(block.entries), 0, b.blocks)

\* SSTBuilder::real_size: these and the block under way, which counts even if
\* it is empty.
real_size(b) == estimated_size(b) + BlockCurSize(b.block)

finish_block(b) ==
  [b EXCEPT !.blocks = Append(@, [first_key |-> b.first_key, last_key |-> b.last_key,
                                  entries |-> b.block]),
            !.block = <<>>]

\* SSTBuilder::add.  An empty first_key counts as unset; an entry that does not
\* fit closes the block unless it has the key of the entry before.
add(b0, e) ==
  LET b == [b0 EXCEPT !.first_key = IF @ = Marker THEN e.key ELSE @]
  IN  IF e.key = b.last_key \/ b.block = <<>> \/ BlockCurSize(b.block) < b.capacity
      THEN [b EXCEPT !.block = Append(@, e), !.last_key = e.key]
      ELSE [finish_block(b) EXCEPT !.block = <<e>>, !.first_key = e.key, !.last_key = e.key]

\* SSTBuilder::build: the blocks of the SST, <<>> when there are none and it
\* throws.
build(b) == (IF b.block = <<>> THEN b ELSE finish_block(b)).blocks

\* The SST with the entries of a table, in blocks of the given size.
SstOf(t, size) == build(FoldLeft(add, NewBuilder(size), Sorted(t)))

-----------------------------------------------------------------------------
(* Point lookup.                                                           *)

\* SST::find_block_idx after the Bloom filter has let the key through, 0 for
\* none.  If no block covers the key it is the block after the gap.
find_block_idx(sst, k) ==
  LET search[l \in 1 .. Len(sst) + 1, r \in 1 .. Len(sst) + 1] ==
        LET mid == (l + r - 2) \div 2 + 1
        IN  IF l >= r THEN l
            ELSE IF k < sst[mid].first_key THEN search[l, mid]
            ELSE IF k > sst[mid].last_key THEN search[mid + 1, r]
            ELSE mid
      found == search[1, Len(sst) + 1]
  IN  IF found > Len(sst) THEN 0 ELSE found

Seen(e, q) == q = 0 \/ e.id <= q

\* Mutant of adjust_idx_by_tranc_id: a visible entry is taken as it is.
adjust_idx_forward_only(block, idx, q) ==
  LET ahead[i \in 1 .. Len(block) + 1] ==
        IF i > Len(block) \/ block[i].key # block[idx].key THEN 0
        ELSE IF Seen(block[i], q) THEN i
        ELSE ahead[i + 1]
  IN  ahead[idx]

\* Block::adjust_idx_by_tranc_id: from one entry of a key to the newest one the
\* reader may see, 0 for none.
adjust_idx_by_tranc_id(block, idx, q) ==
  LET same(i) == block[i].key = block[idx].key
      back[i \in 1 .. idx] ==
        IF i > 1 /\ same(i - 1) /\ Seen(block[i - 1], q) THEN back[i - 1] ELSE i
      ahead[i \in 1 .. Len(block) + 1] ==
        IF i > Len(block) \/ ~same(i) THEN 0
        ELSE IF Seen(block[i], q) THEN i
        ELSE ahead[i + 1]
  IN  IF Seen(block[idx], q) THEN back[idx] ELSE ahead[idx + 1]

\* Block::get_idx_binary, 0 for none.
get_idx_binary(block, k, q) ==
  LET search[l \in 1 .. Len(block) + 1, r \in 0 .. Len(block)] ==
        LET mid == l + (r - l) \div 2
        IN  IF l > r THEN 0
            ELSE IF block[mid].key = k THEN adjust_idx_by_tranc_id(block, mid, q)
            ELSE IF block[mid].key < k THEN search[mid + 1, r]
            ELSE search[l, mid - 1]
  IN  search[1, Len(block)]

\* SST::get and SstIterator::seek: the set of the entry found, or {}.
Seek(sst, k, q) ==
  IF k < sst[1].first_key \/ k > Last(sst).last_key \/ find_block_idx(sst, k) = 0 THEN {}
  ELSE LET block == sst[find_block_idx(sst, k)].entries
           i     == get_idx_binary(block, k, q)
       IN  IF i = 0 THEN {} ELSE {block[i]}

-----------------------------------------------------------------------------
(* Iterators.  BlockIterator is an index; SstIterator is a block number and *)
(* an index, and its block number is beyond the blocks when it has ended.   *)

\* BlockIterator::skip_by_tranc_id
skip_by_tranc_id(block, i, q) ==
  Min({j \in i .. Len(block) : Seen(block[j], q)} \cup {Len(block) + 1})

\* BlockIterator::operator++: past the other versions of the key, unless all are
\* wanted, and past what the reader may not see.
BlockNext(block, i, q, all) ==
  LET next == IF all THEN i + 1
              ELSE Min({j \in i .. Len(block) : block[j].key # block[i].key}
                         \cup {Len(block) + 1})
  IN  skip_by_tranc_id(block, next, q)

\* The iterator at the begin of a block, not moved on if nothing there is visible.
BlockBegin(sst, b, q) ==
  [b |-> b, i |-> IF b > Len(sst) THEN 1 ELSE skip_by_tranc_id(sst[b].entries, 1, q)]

SstBegin(sst, q) == BlockBegin(sst, 1, q)

\* Mutant of SstNext: the first entry of the next block is passed over.
SstNextSkipsOne(sst, it, q, all) ==
  LET i == BlockNext(sst[it.b].entries, it.i, q, all)
  IN  IF i <= Len(sst[it.b].entries) THEN [it EXCEPT !.i = i]
      ELSE [BlockBegin(sst, it.b + 1, q) EXCEPT !.i = @ + 1]

\* SstIterator::operator++: at the end of a block on to the next one.
SstNext(sst, it, q, all) ==
  LET i == BlockNext(sst[it.b].entries, it.i, q, all)
  IN  IF i <= Len(sst[it.b].entries) THEN [it EXCEPT !.i = i]
      ELSE BlockBegin(sst, it.b + 1, q)

SstValid(sst, it) == it.b <= Len(sst) /\ it.i <= Len(sst[it.b].entries)
SstEntry(sst, it) == sst[it.b].entries[it.i]

\* How many steps an iterator can take at most.
NumEntries(sst) == FoldLeft(LAMBDA n, block : n + Len(block.entries), 0, sst)

\* What a loop from `from` reads: it ends when the iterator is invalid or at `to`.
ReadLoop(sst, from, to, q, all) ==
  LET step(s, n) ==
        IF s.it = to \/ ~SstValid(sst, s.it) THEN s
        ELSE [it |-> SstNext(sst, s.it, q, all), out |-> Append(s.out, SstEntry(sst, s.it))]
  IN  FoldLeft(step, [it |-> from, out |-> <<>>], [n \in 1 .. NumEntries(sst) |-> n]).out

Nowhere == [b |-> 0, i |-> 0]

\* SST::begin and ++ until the iterator is invalid.
SstScan(sst, q, all) == ReadLoop(sst, SstBegin(sst, q), Nowhere, q, all)

\* Mutant of BlockRange: the end is the last entry of the range.
BlockRangeClosed(block, lo, hi, q) ==
  LET in == {i \in DOMAIN block : lo <= block[i].key /\ block[i].key <= hi}
  IN  IF in = {} THEN {}
      ELSE {[first |-> skip_by_tranc_id(block, Min(in), q),
             past  |-> skip_by_tranc_id(block, Max(in), q)]}

\* Block::get_monotony_predicate_iters for the predicate "lo <= key <= hi": the
\* first and the last entry of the range by two binary searches, then one past
\* the last; both ends are moved on to something visible.  {} for no entry.
BlockRange(block, lo, hi, q) ==
  LET first[l \in 1 .. Len(block) + 1, r \in 0 .. Len(block)] ==
        LET mid == l + (r - l) \div 2
        IN  IF l > r THEN l
            ELSE IF block[mid].key >= lo THEN first[l, mid - 1] ELSE first[mid + 1, r]
      past[l \in 1 .. Len(block) + 1, r \in 0 .. Len(block)] ==
        LET mid == l + (r - l) \div 2
        IN  IF l > r THEN l
            ELSE IF block[mid].key > hi THEN past[l, mid - 1] ELSE past[mid + 1, r]
      f == first[1, Len(block)]
  IN  IF f > Len(block) \/ block[f].key > hi THEN {}
      ELSE {[first |-> skip_by_tranc_id(block, f, q),
             past  |-> skip_by_tranc_id(block, past[f, Len(block)], q)]}

\* sst_iters_monotony_predicate and the loop over its result in
\* lsm_iters_monotony_predicate.  A block whose meta entry lies wholly to one
\* side is passed over; the end of the range is a position in the last block
\* that has entries of it.
RangeScan(sst, lo, hi, q) ==
  LET stop  == {b \in DOMAIN sst : sst[b].first_key > hi}
      tried == {b \in DOMAIN sst : (\A c \in stop : b < c) /\ sst[b].last_key >= lo}
      hit   == {b \in tried : BlockRange(sst[b].entries, lo, hi, q) # {}}
      range(b) == CHOOSE r \in BlockRange(sst[b].entries, lo, hi, q) : TRUE
  IN  IF hit = {} THEN <<>>
      ELSE ReadLoop(sst, [b |-> Min(hit), i |-> range(Min(hit)).first],
                         [b |-> Max(hit), i |-> range(Max(hit)).past], q, FALSE)
=============================================================================
