---------------------------- MODULE MpcArithmetic ----------------------------
(* The gates of src/src/mpc_arithmetic.c on words shared among three parties, *)
(* and their replay by the verifier, who sees the views of parties e and e+1. *)
(* The prover evaluates a sequence of gates, each on the previous gate's      *)
(* result and two fixed inputs.                                               *)
EXTENDS Integers, Sequences, MpcGates

CONSTANTS
  MaxGates,   \* bound on the length of the circuit, and words of each tape
  Inputs,     \* the inputs: shared words <<a, y, w>>
  Tapes,      \* the parties' tapes: the shares of random word number k
  Addend      \* the public constant of mpc_ADDK_impl

ASSUME ArithmeticAssumption ==
  /\ Width \in Nat \ {0} /\ MaxGates \in Nat
  /\ Inputs \subseteq Shares \X Shares \X Shares
  /\ Tapes \subseteq [0 .. MaxGates - 1 -> Shares]
  /\ Addend \in Word

VARIABLES
  pc,         \* prove, carry, check, checkcarry, accepted or rejected
  in,         \* the inputs
  tape,       \* the tapes, which the verifier expands from the same keys
  ops,        \* the gates evaluated so far: the circuit is fixed in the code
  wires,      \* wires[g]: the shares gate g reads, wires[1] being the input
  views,      \* views[g][j] = y_views[j][g - 1]
  c, i,       \* the carries and the loop index of mpc_ADD
  e,          \* the challenge
  seen,       \* the verifier's shares of the current wire, of parties e and e+1
  randCount, countY  \* the counters, of the prover and then of the verifier

inputVars == <<in, tape>>
proverVars == <<ops, wires, views>>
vars == <<pc, inputVars, proverVars, c, i, e, seen, randCount, countY>>

Opened   == {e, Next3(e)}

\* getRandom32: the words of all tapes at an offset.
Random(k) == tape[k]

\* What mpc_ADDK_impl adds: every party's share is the constant.
Operand(op) == IF op = "ADDK" THEN [j \in Party |-> Addend] ELSE in[2]

-----------------------------------------------------------------------------
(* The prover.                                                               *)

Wire == wires[Len(wires)]

TypeOK ==
  /\ pc \in {"prove", "carry", "check", "checkcarry", "accepted", "rejected"}
  /\ in \in Inputs /\ tape \in Tapes
  /\ ops \in Seq(ProductOps \cup SumOps) /\ Len(ops) <= MaxGates
  /\ wires \in Seq(Shares) /\ views \in Seq(Shares)
  /\ c \in Shares /\ i \in Bit /\ e \in Party
  /\ seen \in [Opened -> Word]
  /\ randCount \in 0 .. MaxGates /\ countY \in 0 .. MaxGates

Init ==
  /\ pc = "prove"
  /\ in \in Inputs /\ tape \in Tapes
  /\ ops = <<>> /\ wires = <<in[1]>> /\ views = <<>>
  /\ c = Zero /\ i = 0
  /\ e = 0 /\ seen = [j \in Opened |-> {}]
  /\ randCount = 0 /\ countY = 0

\* A gate is done: its openings t enter the views, its result z is a wire.
Record(t, z) ==
  /\ views' = Append(views, t)
  /\ wires' = Append(wires, z)
  /\ countY' = countY + 1

\* mpc_AND, mpc_MAJ and mpc_CH.
Product(op) ==
  /\ pc = "prove" /\ Len(ops) < MaxGates
  /\ LET f == Factors(op, Wire, in[2], in[3])
         t == [j \in Party |-> AndShare(f[1], f[2], Random(randCount), j)]
     IN Record(t, Result(op, t, Wire, in[3]))
  /\ randCount' = randCount + 1
  /\ ops' = Append(ops, op)
  /\ UNCHANGED <<pc, inputVars, c, i, e, seen>>

\* mpc_ADD up to the loop.
BeginAdd(op) ==
  /\ pc = "prove" /\ Len(ops) < MaxGates
  /\ pc' = "carry" /\ c' = Zero /\ i' = 0
  /\ randCount' = randCount + 1
  /\ ops' = Append(ops, op)
  /\ UNCHANGED <<inputVars, wires, views, e, seen, countY>>

Addition == Operand(ops[Len(ops)])

\* Mutant: the loop goes one position too far.
MutCarryStep ==
  /\ pc = "carry" /\ i < Width
  /\ c' = [j \in Party |->
             IF CarryOut(Wire, Addition, c, Random(randCount - 1), j, i)
             THEN c[j] \cup {i + 1} ELSE c[j] \ {i + 1}]
  /\ i' = i + 1
  /\ UNCHANGED <<pc, inputVars, proverVars, e, seen, randCount, countY>>

\* One iteration: bit i + 1 of every party's carry.
CarryStep ==
  /\ pc = "carry" /\ i < Width - 1
  /\ c' = [j \in Party |->
             IF CarryOut(Wire, Addition, c, Random(randCount - 1), j, i)
             THEN c[j] \cup {i + 1} ELSE c[j] \ {i + 1}]
  /\ i' = i + 1
  /\ UNCHANGED <<pc, inputVars, proverVars, e, seen, randCount, countY>>

\* Mutant: a party's carries are left out of its share of the sum.
MutEndAdd ==
  /\ pc = "carry" /\ i = Width - 1
  /\ Record(c, XorShares(XorShares(Wire, Addition), [c EXCEPT ![2] = {}]))
  /\ pc' = "prove"
  /\ UNCHANGED <<inputVars, ops, c, i, e, seen, randCount>>

EndAdd ==
  /\ pc = "carry" /\ i = Width - 1
  /\ Record(c, XorShares(XorShares(Wire, Addition), c))
  /\ pc' = "prove"
  /\ UNCHANGED <<inputVars, ops, c, i, e, seen, randCount>>
-----------------------------------------------------------------------------
(* The verifier.                                                             *)

\* The challenge: views and keys of e and e + 1 are opened, counters restart.
Open(challenge) ==
  /\ pc = "prove"
  /\ pc' = "check" /\ e' = challenge
  /\ seen' = [j \in {challenge, Next3(challenge)} |-> in[1][j]]
  /\ randCount' = 0 /\ countY' = 0
  /\ UNCHANGED <<inputVars, proverVars, c, i>>

\* The opened shares of an input.
Part(x) == [j \in Opened |-> x[j]]

Op   == ops[countY + 1]
View == views[countY + 1]

\* Mutant: the verifier reads a tape word late.
MutCheckTape(k) == tape[(k + 1) % MaxGates]

CheckTape(k) == tape[k]

\* mpc_AND_verify recomputes party e's opening, and believes party e + 1's.
CheckProduct ==
  /\ pc = "check" /\ countY < Len(ops) /\ Op \in ProductOps
  /\ LET n == Next3(e)
         f == Factors(Op, seen, Part(in[2]), Part(in[3]))
         r == CheckTape(randCount)
         t == Xor(Xor(Xor(f[1][e] \cap f[2][n], f[1][n] \cap f[2][e]),
                      f[1][e] \cap f[2][e]), Xor(r[e], r[n]))
     IN IF View[e] = t
        THEN /\ seen' = Result(Op, [j \in Opened |-> IF j = e THEN t ELSE View[j]],
                               seen, Part(in[3]))
             /\ countY' = countY + 1
             /\ UNCHANGED pc
        ELSE pc' = "rejected" /\ UNCHANGED <<seen, countY>>
  /\ randCount' = randCount + 1
  /\ UNCHANGED <<inputVars, proverVars, c, i, e>>

\* mpc_ADD_verify up to its loop.
BeginCheckAdd ==
  /\ pc = "check" /\ countY < Len(ops) /\ Op \in SumOps
  /\ pc' = "checkcarry" /\ i' = 0
  /\ randCount' = randCount + 1
  /\ UNCHANGED <<inputVars, proverVars, c, e, seen, countY>>

\* One iteration: bit i + 1 of party e's opened carry word.
CheckCarry ==
  /\ pc = "checkcarry" /\ i < Width - 1
  /\ LET n == Next3(e)
         x == seen    y == Part(Operand(Op))    r == CheckTape(randCount - 1)
         ae == i \in Xor(x[e], View[e])    an == i \in Xor(x[n], View[n])
         be == i \in Xor(y[e], View[e])    bn == i \in Xor(y[n], View[n])
         t  == ((ae /\ bn) # (an /\ be)) # (i \in r[n])
     IN IF (i + 1 \in View[e])
             <=> (((t # (ae /\ be)) # (i \in View[e])) # (i \in r[e]))
        THEN i' = i + 1 /\ UNCHANGED pc
        ELSE pc' = "rejected" /\ UNCHANGED i
  /\ UNCHANGED <<inputVars, proverVars, c, e, seen, randCount, countY>>

\* Mutant: the verifier adds without the opened carries.
MutEndCheckAdd ==
  /\ pc = "checkcarry" /\ i = Width - 1
  /\ seen' = XorShares(seen, Part(Operand(Op)))
  /\ countY' = countY + 1
  /\ pc' = "check"
  /\ UNCHANGED <<inputVars, proverVars, c, i, e, randCount>>

EndCheckAdd ==
  /\ pc = "checkcarry" /\ i = Width - 1
  /\ seen' = XorShares(XorShares(seen, Part(Operand(Op))), Part(View))
  /\ countY' = countY + 1
  /\ pc' = "check"
  /\ UNCHANGED <<inputVars, proverVars, c, i, e, randCount>>

\* The final comparison with the prover's output shares (mpc_sha256_verify).
CompareOutput ==
  /\ pc = "check" /\ countY = Len(ops)
  /\ pc' = IF seen = Part(Wire) THEN "accepted" ELSE "rejected"
  /\ UNCHANGED <<inputVars, proverVars, c, i, e, seen, randCount, countY>>

Finished == pc \in {"accepted", "rejected"} /\ UNCHANGED vars

Next ==
  \/ \E op \in ProductOps : Product(op)
  \/ \E op \in SumOps : BeginAdd(op)
  \/ CarryStep \/ EndAdd
  \/ \E challenge \in Party : Open(challenge)
  \/ CheckProduct \/ BeginCheckAdd \/ CheckCarry \/ EndCheckAdd
  \/ CompareOutput \/ Finished

Spec == Init /\ [][Next]_vars
-----------------------------------------------------------------------------

\* The shared carries of mpc_ADD stand for the carries of the sum of the words
\* that are shared, position by position, whatever the tapes are.
CarriesRipple ==
  pc = "carry" =>
    \A b \in Bit :
      b \in Recon(c) <=>
        /\ b \in 1 .. i
        /\ Majority(b - 1 \in Recon(Wire), b - 1 \in Recon(Addition),
                    b - 1 \in Recon(c))

\* mpc_AND, mpc_MAJ and mpc_CH, which are one multiplication each, compute the
\* bitwise and, the majority and the choice of the words that are shared.
ProductsCompute ==
  \A g \in DOMAIN views : ops[g] \in ProductOps =>
    Recon(wires[g + 1]) =
      PlainProduct(ops[g], Recon(wires[g]), Recon(in[2]), Recon(in[3]))

\* mpc_ADD computes the sum modulo 2^Width, the weight of the carry-out, of the
\* words that are shared, and mpc_ADDK_impl the sum with its constant.
SumsCompute ==
  \A g \in DOMAIN views : ops[g] \in SumOps =>
    Value(Recon(wires[g + 1])) =
      (Value(Recon(wires[g])) + Value(Recon(Operand(ops[g])))) % Weight[Width]

\* A verifier who replays the gates over two honest views is never refused,
\* whatever the challenge, gates and data.
HonestViewsAccepted == pc # "rejected"

\* At every gate the verifier holds the prover's shares of the two parties, and
\* its counters are where the prover's were: a gate that advances one of them by
\* another amount shows here before it shows in a verdict.
VerifierFollows ==
  pc \in {"check", "checkcarry", "accepted"} =>
    /\ seen = Part(wires[countY + 1])
    /\ randCount = countY + (IF pc = "checkcarry" THEN 1 ELSE 0)
-----------------------------------------------------------------------------
(* The inductive invariant.                                                  *)

\* How many gates are recorded, and where the counters are.
CounterInv ==
  /\ Len(wires) = Len(views) + 1 /\ wires[1] = in[1]
  /\ pc = "prove" => randCount = Len(ops) /\ countY = Len(ops)
  /\ pc = "carry" =>
       /\ randCount = Len(ops) /\ countY = Len(views)
       /\ Len(ops) = Len(views) + 1 /\ ops[Len(ops)] \in SumOps
  /\ pc # "carry" => Len(ops) = Len(views)
  /\ pc \in {"check", "checkcarry"} => countY <= Len(ops)
  /\ pc = "check" => randCount = countY
  /\ pc = "checkcarry" =>
       countY < Len(ops) /\ Op \in SumOps /\ randCount = countY + 1

LoopInv ==
  pc = "carry" => CarriesUpTo(c, Wire, Addition, Random(randCount - 1), i)

\* Gate g, as it was recorded.
GateRecorded(g) ==
  LET op == ops[g]
      f  == Factors(op, wires[g], in[2], in[3])
      y  == Operand(op)
  IN /\ op \in ProductOps =>
          /\ views[g] = [j \in Party |-> AndShare(f[1], f[2], Random(g - 1), j)]
          /\ wires[g + 1] = Result(op, views[g], wires[g], in[3])
     /\ op \in SumOps =>
          /\ CarriesUpTo(views[g], wires[g], y, Random(g - 1), Width - 1)
          /\ wires[g + 1] = XorShares(XorShares(wires[g], y), views[g])

TraceInv == \A g \in 1 .. Len(views) : GateRecorded(g)

ArithmeticInv ==
  /\ TypeOK /\ CounterInv /\ LoopInv /\ TraceInv
  /\ HonestViewsAccepted /\ VerifierFollows
==============================================================================
