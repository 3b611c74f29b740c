------------------------------ MODULE MpcGates -------------------------------
(* The operators behind the gates of src/src/mpc_arithmetic.c, on words       *)
(* shared by XOR among three parties.  A word is the set of its one bits.     *)
EXTENDS Integers, FiniteSetsExt

CONSTANT Width      \* bits of a word, 32 in the code

Party == 0 .. 2
Bit   == 0 .. Width - 1
Word  == SUBSET Bit
Shares == [Party -> Word]

Next3(j) == (j + 1) % 3

Xor(x, y) == (x \ y) \cup (y \ x)

\* mpc_XOR and mpc_XOR2, on the shares that there are.
XorShares(x, y) == [j \in DOMAIN x |-> Xor(x[j], y[j])]

\* The value that shares stand for.
Recon(x) == Xor(Xor(x[0], x[1]), x[2])

Zero == [j \in Party |-> {}]

ProductOps == {"AND", "MAJ", "CH"}
SumOps     == {"ADD", "ADDK"}

\* The factors of the product in mpc_AND, mpc_MAJ and mpc_CH, and the result.
Factors(op, a, y, w) ==
  CASE op = "AND" -> <<a, y>>
    [] op = "MAJ" -> <<XorShares(a, y), XorShares(a, w)>>
    [] op = "CH"  -> <<a, XorShares(y, w)>>

Result(op, t, a, w) ==
  CASE op = "AND" -> t
    [] op = "MAJ" -> XorShares(t, a)
    [] op = "CH"  -> XorShares(t, w)

\* Mutant: party 2's cross terms taken with party 1.
MutAndShare(x, y, r, j) ==
  LET k == IF j = 2 THEN 1 ELSE j + 1 IN
    Xor(Xor(Xor(x[j] \cap y[k], x[k] \cap y[j]), x[j] \cap y[j]), Xor(r[j], r[k]))

AndShare(x, y, r, j) ==
  LET k == Next3(j) IN
    Xor(Xor(Xor(x[j] \cap y[k], x[k] \cap y[j]), x[j] \cap y[j]), Xor(r[j], r[k]))

\* Mutant: the carry-out of a position forgets its carry-in.
MutCarryOut(x, y, d, r, j, b) ==
  LET k == Next3(j)
      aj == b \in Xor(x[j], d[j])    ak == b \in Xor(x[k], d[k])
      bj == b \in Xor(y[j], d[j])    bk == b \in Xor(y[k], d[k])
  IN ((((aj /\ bk) # (ak /\ bj)) # (b \in r[k])) # (aj /\ bj)) # (b \in r[j])

\* Party j's share of the carry out of position b, given the carries d up to b.
CarryOut(x, y, d, r, j, b) ==
  LET k == Next3(j)
      aj == b \in Xor(x[j], d[j])    ak == b \in Xor(x[k], d[k])
      bj == b \in Xor(y[j], d[j])    bk == b \in Xor(y[k], d[k])
  IN (((((aj /\ bk) # (ak /\ bj)) # (b \in r[k])) # (aj /\ bj)) # (b \in d[j]))
       # (b \in r[j])
-----------------------------------------------------------------------------
(* What the gates compute.                                                    *)

Majority(x, y, z) == (x /\ y) \/ (x /\ z) \/ (y /\ z)

\* The carries d of x + y with the random word r are computed up to position n.
CarriesUpTo(d, x, y, r, n) ==
  \A j \in Party, b \in Bit :
    b \in d[j] <=> b \in 1 .. n /\ CarryOut(x, y, d, r, j, b - 1)

\* The weight of a position is a power of two; the value of a word is the sum of
\* the weights of its ones.
Weight[n \in Nat] == IF n = 0 THEN 1 ELSE 2 * Weight[n - 1]

ValueBelow(x) ==
  LET v[n \in Nat] ==
        IF n = 0 THEN 0 ELSE v[n - 1] + (IF n - 1 \in x THEN Weight[n - 1] ELSE 0)
  IN  v

Value(x) == ValueBelow(x)[Width]

\* What a product gate does to the words that its inputs stand for.
PlainProduct(op, a, y, w) ==
  CASE op = "AND" -> a \cap y
    [] op = "MAJ" -> (a \cap y) \cup (a \cap w) \cup (y \cap w)
    [] op = "CH"  -> (a \cap y) \cup (w \ a)
==============================================================================
