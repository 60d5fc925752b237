--------------------------- MODULE MCTokenVerifier ---------------------------
(* Instances of TokenVerifier for TLC. *)
EXTENDS TokenVerifier, TLC

Symmetry == Permutations(Call) \cup Permutations(Kid)
=============================================================================
