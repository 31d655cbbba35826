------------------------------ MODULE MCSpan ------------------------------
(* Instances of Span for TLC: what the threads of each run call. *)
EXTENDS Span, TLC

CONSTANTS t1, t2, t3, s1, s2

Symmetry == Permutations(Threads)

\* Every thread calls everything ...
CallAll == [t \in Threads |-> AllOps]

\* ... or starts and finishes spans.
CallStart == [t \in Threads |-> {"start", "finish"}]
====
