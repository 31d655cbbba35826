----------------------------- MODULE MCTracer -----------------------------
(* A tracer with its default reporter, or with reporters of each kind. *)
EXTENDS Tracer

CONSTANTS s1, s2, big

\* A remote reporter with the tracer's metrics and one without, and the
\* in-memory and the null reporter.
MCKind == [default |-> "remote", sharing |-> "remote", alone |-> "remote",
           memory |-> "memory", null |-> "null"]
MCLeaves == DOMAIN MCKind

\* One span fits no packet, but for a reporter with a larger limit.
MCLarge == [l \in MCLeaves |-> IF l = "alone" THEN {} ELSE {big}]

\* Every metrics, sampler and reporter; a composite reporter with one sampler.
MCArguments ==
  {a \in [metrics : Metrics, sampler : Samplers, reporter : Reporters] :
     a.reporter = "composite" => a.sampler = "simple"}
Symmetry == Permutations({s1, s2})
====
