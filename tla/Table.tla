------------------------------- MODULE Table -------------------------------
(***************************************************************************)
(* A table of versions: what a SkipList holds in memory and an SST on      *)
(* disk.  A version is a (key, tranc_id, value) entry; a table holds at    *)
(* most one version of a key under one tranc_id and orders its entries by  *)
(* key, then by descending tranc_id.  The order is left implicit: a table  *)
(* is the set of its versions and the searches below say which entry the   *)
(* ordered structures stop at.                                             *)
(*                                                                         *)
(* Keys are natural numbers, compared as the code compares strings; the    *)
(* number 0 is the empty string, the key of the commit markers.            *)
(***************************************************************************)
EXTENDS Naturals, FiniteSetsExt

CONSTANTS Keys,      \* the users' keys, non-empty strings
          Values,    \* non-empty values
          Tombstone  \* the empty value: what remove() writes

ASSUME KeysAssumption == Keys \subseteq Nat \ {0} /\ IsFiniteSet(Keys)
ASSUME TombstoneAssumption == Tombstone \notin Values

\* The key "" that a commit writes with an empty value.
Marker == 0

AllKeys == Keys \cup {Marker}

Version == [key : AllKeys, id : Nat, val : Values \cup {Tombstone}]

\* Tables hold finitely many versions.
Tables == {t \in SUBSET Version : IsFiniteSet(t)}

\* The versions one call writes: f maps each key to its value (all calls of
\* a batch carry the same tranc_id).
Batch(f, id) == {[key |-> k, id |-> id, val |-> f[k]] : k \in DOMAIN f}

KeysOf(t) == {v.key : v \in t}

\* SkipList::put for each version of B: an entry with the same key and the
\* same tranc_id is overwritten, any other entry stays.
TablePut(t, B) ==
  {v \in t : \A w \in B : w.key # v.key \/ w.id # v.id} \cup B

\* The versions of k a reader at q may see; q = 0 switches MVCC off.
VisibleTo(t, k, q) == {v \in t : v.key = k /\ (q = 0 \/ v.id <= q)}

\* SkipList::get: entries of a key are laid out by descending tranc_id and the
\* search stops at the first one the reader may see.  The result is the set
\* of that one version, or {}.
TableGet(t, k, q) ==
  LET visible == VisibleTo(t, k, q)
  IN  {v \in visible : \A w \in visible : w.id <= v.id}

\* SST::first_key and SST::last_key as SSTBuilder::add leaves them: an empty
\* first_key counts as unset, so a leading marker does not become the first key.
FirstKey(t) == IF KeysOf(t) \subseteq {Marker} THEN Marker
               ELSE Min(KeysOf(t) \ {Marker})
LastKey(t)  == Max(KeysOf(t))

InRange(t, k) == FirstKey(t) <= k /\ k <= LastKey(t)

\* SST::get: the key range first (the Bloom filter rejects no key that is
\* there), then the block that covers the key, where the entries of one key
\* lie together as in the skip list.
SstGet(t, k, q) == IF InRange(t, k) THEN TableGet(t, k, q) ELSE {}

\* The tranc_ids whose commit marker is in the table.
MarkerIds(t) == {v.id : v \in {w \in t : w.key = Marker}}
=============================================================================
