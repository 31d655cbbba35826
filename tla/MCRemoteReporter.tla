------------------------- MODULE MCRemoteReporter -------------------------
(* Instances of RemoteReporter for TLC. *)
EXTENDS RemoteReporter, TLC

CONSTANTS t1, t2, a1, a2, b1, b2, big

\* Two small spans share a packet, a larger one fills it, the last one does
\* not fit at all.
MCSpanSize ==
  [s \in Spans |-> CASE s \in {a1, a2} -> 1
                     [] s \in {b1, b2} -> 2
                     [] OTHER -> 5]

\* Threads are interchangeable, and so are spans of one size.
MCSymmetry ==
  {f @@ g @@ h : f \in Permutations({t1, t2}),
                 g \in Permutations({a1, a2}),
                 h \in Permutations({b1, b2})}
===========================================================================
