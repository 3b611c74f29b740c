--------------------------- MODULE MCMpcArithmetic ---------------------------
(* Values for MpcArithmetic: words of three bits.                            *)
EXTENDS MpcArithmetic

\* The shares of v with the given masks of parties 0 and 1.
Split(v, m0, m1) ==
  [j \in Party |-> IF j = 0 THEN m0 ELSE IF j = 1 THEN m1 ELSE Xor(v, Xor(m0, m1))]

MCInputs ==
  { <<Split(x, m, {0, 2}), Split(y, {1}, m), Split({0, 1}, {2}, m)>> :
      x \in Word, y \in Word, m \in {{}, {0, 1}} }

MCTapes ==
  { [k \in 0 .. MaxGates - 1 |-> Split({k}, m, {1, 2})] : m \in {{0}, {1, 2}} }

MCAddend == {0, 1}
==============================================================================
