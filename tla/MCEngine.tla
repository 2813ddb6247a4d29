------------------------------ MODULE MCEngine ------------------------------
(* Instances of Engine for TLC. *)
EXTENDS Engine, Definitions

CONSTANTS i1, i2, w1, w2, m1, m2, m3

\* Workers, messages and instances are used only as identities; the symmetry is used in
\* runs without liveness properties.
Symmetry ==
  Permutations({i1, i2}) \cup Permutations({w1, w2}) \cup Permutations({m1, m2, m3})
=============================================================================
