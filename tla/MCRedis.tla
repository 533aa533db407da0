------------------------------ MODULE MCRedis ------------------------------
(***************************************************************************)
(* Model-checking instances of the Redis layer: one key of each type in    *)
(* turn, three threads. What holds: Redis.cfg.  What does not: the removal  *)
(* of an expired value (RedisExpiry.cfg).                                  *)
(***************************************************************************)
EXTENDS Redis

\* No two elements ever have the same score; an element has two that
\* follow each other, so that ZINCRBY leads from one to the other.
DisjointScores == [e \in Items |-> {2 * e - 1, 2 * e}]

\* The threads are interchangeable.
ThreadSymmetry == Permutations(Clients)
=============================================================================
