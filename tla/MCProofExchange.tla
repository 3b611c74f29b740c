--------------------------- MODULE MCProofExchange ---------------------------
(* An instance of ProofExchange for TLC. *)
EXTENDS ProofExchange, TLC

Symmetry == Permutations(Threads)
==============================================================================
