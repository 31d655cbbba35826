-------------------------- MODULE MCRemoteSampler --------------------------
(* An instance of RemoteSampler for TLC. *)
EXTENDS RemoteSampler

\* Two strategies differ in both defaults.
TwoDefaults == {[rate |-> 0, lower |-> 1], [rate |-> 2, lower |-> 2]}
OneDefault == {[rate |-> 0, lower |-> 1]}
====
