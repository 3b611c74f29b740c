---------------------------- MODULE MCHmBitCommit ----------------------------
(* Instances of HmBitCommit for TLC. *)
EXTENDS HmBitCommit, TLC

Symmetry == Permutations(Threads)
==============================================================================
