--------------------------- MODULE MCEnvInjector ---------------------------
(* Instances of EnvInjector for TLC. *)
EXTENDS EnvInjector, TLC

CONSTANTS p1, p2, v1, v2

Codes == {0, 3}

\* The values of a secret are interchangeable.
Symmetry == Permutations(Values)
=============================================================================
