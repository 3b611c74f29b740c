------------------------------ MODULE MCHmPlain ------------------------------
(* Instances of HmPlain for TLC: nibbles and bytes for bytes and words.      *)
EXTENDS HmPlain, TLC

\* Bit patterns as long as the longest matrix; none has all its bits alike in
\* the unused bits of a last byte.
MCEntropy ==
  {{k \in 0 .. 63 : k % 3 = 0}, {k \in 0 .. 63 : (k * k) % 7 < 3}}

Symmetry == Permutations(Contexts)

MCMessages == {{}, {0, 2, 3, 8}}
==============================================================================
