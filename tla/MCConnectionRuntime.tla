------------------------ MODULE MCConnectionRuntime ------------------------
(* Instances of ConnectionRuntime for TLC. *)
EXTENDS ConnectionRuntime, TLC

CONSTANTS k1, k2, k3, c1, c2

CallSymmetry == Permutations(Call)
=============================================================================
