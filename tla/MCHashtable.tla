---------------------------- MODULE MCHashtable ----------------------------
(* An instance of Hashtable for TLC. *)
EXTENDS Hashtable, TLC

CONSTANTS t1, t2, k1, k2, k3, v1, v2

Symmetry == Permutations(Threads) \cup Permutations(Values)

\* k1 and k2 always collide, k3 joins them until there are four buckets.
Collisions == (k1 :> 1) @@ (k2 :> 9) @@ (k3 :> 3)

NodeNumbers == 1 .. 9
====
