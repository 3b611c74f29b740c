----------------------------- MODULE MCMpcRound ------------------------------
(* Values for MpcRound: SHA-256 at full width on the code's opening of 1030   *)
(* bits, which takes three blocks, and patterns in which neighbouring words,  *)
(* shares and tapes differ.                                                   *)
EXTENDS MpcRound

\* A pattern of ones that is neither periodic in words nor in bytes.
Pattern(p, q, s, top) == {b \in 0 .. top : (b * b * p + b * q + s) % 11 < 5}

\* The secrets fill the opening; the coins also fill the last word's spare bits.
MCInputs ==
  { [r |-> Pattern(3, 1, 0, LBits - 1), m |-> 1,
     x0 |-> Pattern(1, 5, 2, LBits + 25), x1 |-> Pattern(2, 7, 4, LBits + 25),
     m0 |-> 1, m1 |-> 0],
    [r |-> Pattern(5, 2, 3, LBits - 1), m |-> 0,
     x0 |-> Pattern(4, 1, 1, LBits + 25), x1 |-> Pattern(7, 3, 0, LBits + 25),
     m0 |-> 1, m1 |-> 1] }

MCHashA == Pattern(1, 3, 1, LBits + 25)

MCJunk == {{3, 6}}

\* Challenge 0, challenge 1, and four ones: no challenge, so the digest is
\* hashed, to one whose second pair is challenge 2.
MCDigests == {{}, {1}, 0 .. 3}
MCRehash  == [d \in SUBSET (0 .. 3) |-> IF d = 0 .. 3 THEN 0 .. 2 ELSE {}]

MCTape ==
  [j \in 0 .. 2 |-> [row \in 0 .. TapeWords - 1 |->
    {b \in Bit : (b * b * (j + 1) + b * ((row % 13) + 1) + row * (j + 3)) % 11 < 5}]]
==============================================================================
