---------------------------- MODULE MCHmBitVerify ----------------------------
(* Instances of HmBitVerify for TLC. *)
EXTENDS HmBitVerify, TLC

Symmetry == Permutations(Threads)
==============================================================================
