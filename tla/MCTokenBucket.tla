--------------------------- MODULE MCTokenBucket ---------------------------
(* An instance of TokenBucket for TLC. *)
EXTENDS TokenBucket

\* A bound below one trace per second, one above, none, and a negative one.
SomeRates == {-1, 0, 1, 3}
====
