------------------------ MODULE MpcArithmetic_proofs ------------------------
(* The gates compute on what the shares stand for, and a verifier who replays *)
(* honest views accepts, for every word width, circuit, input and tape.       *)
EXTENDS MpcArithmetic, MpcGates_proofs

(***************************************************************************)
(* The invariant.                                                          *)
(***************************************************************************)
(* What the invariant says of the types of what a step reads.                *)
LEMMA Typing ==
  ASSUME TypeOK, CounterInv
  PROVE  /\ Width \in Nat \ {0} /\ MaxGates \in Nat
         /\ in[1] \in Shares /\ in[2] \in Shares /\ in[3] \in Shares
         /\ \A op : Operand(op) \in Shares
         /\ \A k \in 0 .. MaxGates - 1 : Random(k) \in Shares
         /\ Len(wires) \in Nat /\ Len(views) \in Nat /\ Len(ops) \in Nat
         /\ Wire \in Shares
<1>1. in \in Shares \X Shares \X Shares /\ tape \in [0 .. MaxGates - 1 -> Shares]
  BY ArithmeticAssumption DEF TypeOK
<1>2. Width \in Nat \ {0} /\ MaxGates \in Nat /\ Addend \in Word
  BY ArithmeticAssumption
<1>3. in[1] \in Shares /\ in[2] \in Shares /\ in[3] \in Shares
  BY <1>1
<1>4. \A op : Operand(op) \in Shares
  BY <1>2, <1>3 DEF Operand, Shares
<1>5. \A k \in 0 .. MaxGates - 1 : Random(k) \in Shares
  BY <1>1 DEF Random
<1>6. /\ Len(wires) \in Nat /\ Len(views) \in Nat /\ Len(ops) \in Nat
      /\ Wire \in Shares
  BY DEF TypeOK, CounterInv, Wire
<1> QED
  BY <1>2, <1>3, <1>4, <1>5, <1>6

LEMMA InitArithmetic == Init => ArithmeticInv
<1> SUFFICES ASSUME Init PROVE ArithmeticInv
  OBVIOUS
<1>1. Width \in Nat \ {0} /\ MaxGates \in Nat /\ in[1] \in Shares
  BY ArithmeticAssumption DEF Init
<1>2. Zero \in Shares /\ seen \in [Opened -> Word] /\ e \in Party
  BY DEF Init, Zero, Shares, Word, Party
<1>3. TypeOK
  BY <1>1, <1>2 DEF Init, TypeOK, Bit
<1>4. CounterInv
  BY DEF Init, CounterInv
<1>5. LoopInv /\ TraceInv /\ HonestViewsAccepted /\ VerifierFollows
  BY DEF Init, LoopInv, TraceInv, HonestViewsAccepted, VerifierFollows
<1> QED
  BY <1>3, <1>4, <1>5 DEF ArithmeticInv

(* The gates that are recorded stay as they are.                             *)
LEMMA TraceKept ==
  ASSUME TypeOK, CounterInv, UNCHANGED inputVars, NEW g \in 1 .. Len(views),
         GateRecorded(g), ops'[g] = ops[g], wires'[g] = wires[g],
         wires'[g + 1] = wires[g + 1], views'[g] = views[g]
  PROVE  GateRecorded(g)'
  BY DEF GateRecorded, Random, Operand, inputVars

LEMMA ProductStep ==
  ASSUME ArithmeticInv, NEW op \in ProductOps, Product(op)
  PROVE  ArithmeticInv'
<1> USE DEF ArithmeticInv
<1> DEFINE f == Factors(op, Wire, in[2], in[3])
           t == [j \in Party |-> AndShare(f[1], f[2], Random(randCount), j)]
           z == Result(op, t, Wire, in[3])
<1>0. /\ pc = "prove" /\ pc' = pc /\ Len(ops) < MaxGates
      /\ views' = Append(views, t) /\ wires' = Append(wires, z)
      /\ countY' = countY + 1 /\ randCount' = randCount + 1
      /\ ops' = Append(ops, op)
      /\ UNCHANGED <<inputVars, c, i, e, seen>>
  BY DEF Product, Record
<1>1. /\ randCount = Len(ops) /\ countY = Len(ops) /\ Len(ops) = Len(views)
      /\ Len(wires) = Len(views) + 1 /\ wires[1] = in[1]
  BY <1>0 DEF CounterInv
<1>2. /\ Width \in Nat \ {0} /\ MaxGates \in Nat /\ Len(views) \in Nat
      /\ in[2] \in Shares /\ in[3] \in Shares /\ Wire \in Shares
      /\ Random(randCount) \in Shares
  BY <1>0, <1>1, Typing
<1>3. f[1] \in Shares /\ f[2] \in Shares
  BY <1>2, GateTypes DEF Shares
<1>4. t \in Shares
  BY <1>2, <1>3, NextParty DEF Shares, AndShare, Xor, Word
<1>5. z \in Shares
  BY <1>2, <1>4, GateTypes DEF Shares
<1> HIDE DEF f, t, z
<1>6. TypeOK'
  BY <1>0, <1>1, <1>2, <1>4, <1>5 DEF TypeOK, inputVars, Opened
<1>7. CounterInv'
  BY <1>0, <1>1, <1>2, <1>4, <1>5 DEF TypeOK, CounterInv, inputVars
<1>8. TraceInv'
  <2> SUFFICES ASSUME NEW g \in 1 .. Len(views') PROVE GateRecorded(g)'
    BY DEF TraceInv
  <2>0. /\ views \in Seq(Shares) /\ wires \in Seq(Shares)
        /\ ops \in Seq(ProductOps \cup SumOps)
    BY DEF TypeOK
  <2>1. CASE g \in 1 .. Len(views)
    <3>1. /\ ops'[g] = ops[g] /\ wires'[g] = wires[g]
          /\ wires'[g + 1] = wires[g + 1] /\ views'[g] = views[g]
      BY <1>0, <1>1, <1>2, <2>0, <2>1
    <3>2. GateRecorded(g)
      BY <2>1 DEF TraceInv
    <3> QED
      BY <1>0, <2>1, <3>1, <3>2, TraceKept
  <2>2. CASE g = Len(views) + 1
    <3>1. /\ ops'[g] = op /\ wires'[g] = Wire /\ wires'[g + 1] = z /\ views'[g] = t
      BY <1>0, <1>1, <1>2, <2>0, <2>2 DEF Wire
    <3>2. Random(g - 1)' = Random(randCount) /\ in' = in
      BY <1>0, <1>1, <1>2, <2>2 DEF Random, inputVars
    <3>3. op \notin SumOps
      BY DEF ProductOps, SumOps
    <3> QED
      BY <3>1, <3>2, <3>3 DEF GateRecorded, f, t, z
  <2>3. g \in 1 .. Len(views) + 1
    BY <1>0, <1>4, <2>0
  <2> QED
    BY <1>2, <2>1, <2>2, <2>3
<1>9. LoopInv' /\ HonestViewsAccepted' /\ VerifierFollows'
  BY <1>0 DEF LoopInv, HonestViewsAccepted, VerifierFollows
<1> QED
  BY <1>6, <1>7, <1>8, <1>9

LEMMA BeginAddStep ==
  ASSUME ArithmeticInv, NEW op \in SumOps, BeginAdd(op)
  PROVE  ArithmeticInv'
<1> USE DEF ArithmeticInv
<1>0. /\ pc = "prove" /\ pc' = "carry" /\ Len(ops) < MaxGates
      /\ c' = Zero /\ i' = 0 /\ randCount' = randCount + 1
      /\ ops' = Append(ops, op)
      /\ UNCHANGED <<inputVars, wires, views, e, seen, countY>>
  BY DEF BeginAdd
<1>1. /\ randCount = Len(ops) /\ countY = Len(ops) /\ Len(ops) = Len(views)
      /\ Len(wires) = Len(views) + 1 /\ wires[1] = in[1]
  BY <1>0 DEF CounterInv
<1>2. Width \in Nat \ {0} /\ MaxGates \in Nat /\ Len(views) \in Nat
  BY Typing
<1>3. /\ Zero \in Shares /\ ops \in Seq(ProductOps \cup SumOps)
  BY DEF Zero, Shares, Word, TypeOK
<1>4. TypeOK'
  BY <1>0, <1>1, <1>2, <1>3 DEF TypeOK, inputVars, Opened, Bit
<1>5. CounterInv'
  BY <1>0, <1>1, <1>2, <1>3 DEF CounterInv, inputVars
<1>6. LoopInv'
  BY <1>0 DEF LoopInv, CarriesUpTo, Zero
<1>7. TraceInv'
  <2> SUFFICES ASSUME NEW g \in 1 .. Len(views) PROVE GateRecorded(g)'
    BY <1>0 DEF TraceInv
  <2>1. ops'[g] = ops[g]
    BY <1>0, <1>1, <1>2, <1>3
  <2>2. GateRecorded(g)
    BY DEF TraceInv
  <2> QED
    BY <1>0, <2>1, <2>2, TraceKept
<1>8. HonestViewsAccepted' /\ VerifierFollows'
  BY <1>0 DEF HonestViewsAccepted, VerifierFollows
<1> QED
  BY <1>4, <1>5, <1>6, <1>7, <1>8

LEMMA CarryLoopStep ==
  ASSUME ArithmeticInv, CarryStep
  PROVE  ArithmeticInv'
<1> USE DEF ArithmeticInv
<1> DEFINE x == Wire
           y == Addition
           r == Random(randCount - 1)
<1>0. /\ pc = "carry" /\ pc' = pc /\ i < Width - 1 /\ i' = i + 1
      /\ c' = [j \in Party |-> IF CarryOut(x, y, c, r, j, i)
                               THEN c[j] \cup {i + 1} ELSE c[j] \ {i + 1}]
      /\ UNCHANGED <<inputVars, proverVars, e, seen, randCount, countY>>
  BY DEF CarryStep
<1>1. /\ Width \in Nat \ {0} /\ MaxGates \in Nat
      /\ x \in Shares /\ y \in Shares /\ c \in Shares /\ i \in Nat
  BY Typing DEF Addition, TypeOK, Bit
<1>2. r \in Shares
  <2>1. randCount - 1 \in 0 .. MaxGates - 1
    BY <1>0, <1>1, Typing DEF CounterInv, TypeOK
  <2> QED
    BY <2>1, Typing
<1>3. CarriesUpTo(c, x, y, r, i)
  BY <1>0 DEF LoopInv
<1> HIDE DEF x, y, r
<1>4. c' \in Shares /\ CarriesUpTo(c', x, y, r, i + 1)
  BY <1>0, <1>1, <1>2, <1>3, CarryExtends
<1>5. TypeOK'
  BY <1>0, <1>1, <1>4 DEF TypeOK, inputVars, proverVars, Opened, Bit
<1>6. CounterInv'
  BY <1>0 DEF CounterInv, inputVars, proverVars
<1>7. x' = x /\ y' = y /\ r' = r
  BY <1>0 DEF x, y, r, Wire, Addition, Operand, Random, inputVars, proverVars
<1>8. LoopInv'
  BY <1>0, <1>4, <1>7 DEF LoopInv, x, y, r
<1>9. TraceInv'
  BY <1>0, TraceKept DEF TraceInv, proverVars
<1>10. HonestViewsAccepted' /\ VerifierFollows'
  BY <1>0 DEF HonestViewsAccepted, VerifierFollows
<1> QED
  BY <1>5, <1>6, <1>8, <1>9, <1>10

LEMMA EndAddStep ==
  ASSUME ArithmeticInv, EndAdd
  PROVE  ArithmeticInv'
<1> USE DEF ArithmeticInv
<1> DEFINE y == Addition
           z == XorShares(XorShares(Wire, y), c)
<1>0. /\ pc = "carry" /\ pc' = "prove" /\ i = Width - 1
      /\ views' = Append(views, c) /\ wires' = Append(wires, z)
      /\ countY' = countY + 1
      /\ UNCHANGED <<inputVars, ops, c, i, e, seen, randCount>>
  BY DEF EndAdd, Record
<1>1. /\ randCount = Len(ops) /\ countY = Len(views) /\ Len(ops) = Len(views) + 1
      /\ ops[Len(ops)] \in SumOps
      /\ Len(wires) = Len(views) + 1 /\ wires[1] = in[1]
  BY <1>0 DEF CounterInv
<1>2. /\ Width \in Nat \ {0} /\ MaxGates \in Nat /\ Len(views) \in Nat
      /\ Wire \in Shares /\ y \in Shares /\ c \in Shares
      /\ Len(ops) \in Nat /\ Len(ops) <= MaxGates
  BY Typing DEF Addition, TypeOK
<1>3. z \in Shares
  BY <1>2 DEF XorShares, Xor, Shares, Word
<1>4. CarriesUpTo(c, Wire, y, Random(randCount - 1), Width - 1)
  BY <1>0 DEF LoopInv
<1> HIDE DEF y, z
<1>a. views \in Seq(Shares) /\ wires \in Seq(Shares)
  BY DEF TypeOK
<1>b. /\ views' \in Seq(Shares) /\ wires' \in Seq(Shares)
      /\ Len(views') = Len(views) + 1 /\ Len(wires') = Len(wires) + 1
      /\ wires'[1] = wires[1]
  BY <1>0, <1>1, <1>2, <1>3, <1>a
<1>5. TypeOK'
  BY <1>0, <1>1, <1>2, <1>b DEF TypeOK, inputVars, Opened
<1>6. CounterInv'
  BY <1>0, <1>1, <1>2, <1>b DEF CounterInv, inputVars
<1>7. TraceInv'
  <2> SUFFICES ASSUME NEW g \in 1 .. Len(views') PROVE GateRecorded(g)'
    BY DEF TraceInv
  <2>0. views \in Seq(Shares) /\ wires \in Seq(Shares)
    BY <1>a
  <2>1. CASE g \in 1 .. Len(views)
    <3>1. /\ ops'[g] = ops[g] /\ wires'[g] = wires[g]
          /\ wires'[g + 1] = wires[g + 1] /\ views'[g] = views[g]
      BY <1>0, <1>1, <1>2, <2>0, <2>1
    <3>2. GateRecorded(g)
      BY <2>1 DEF TraceInv
    <3> QED
      BY <1>0, <2>1, <3>1, <3>2, TraceKept
  <2>2. CASE g = Len(views) + 1
    <3>1. /\ ops'[g] = ops[Len(ops)] /\ wires'[g] = Wire
          /\ wires'[g + 1] = z /\ views'[g] = c
      BY <1>0, <1>1, <1>2, <2>0, <2>2 DEF Wire
    <3>2. Random(g - 1)' = Random(randCount - 1) /\ Operand(ops[g])' = y
      BY <1>0, <1>1, <1>2, <2>2, <3>1 DEF Random, Operand, Addition, y, inputVars
    <3>3. ops'[g] \in SumOps /\ ops'[g] \notin ProductOps
      BY <1>1, <3>1 DEF ProductOps, SumOps
    <3> QED
      BY <1>4, <3>1, <3>2, <3>3 DEF GateRecorded, z
  <2>3. g \in 1 .. Len(views) + 1
    BY <1>0, <1>2, <2>0
  <2> QED
    BY <1>2, <2>1, <2>2, <2>3
<1>8. LoopInv' /\ HonestViewsAccepted' /\ VerifierFollows'
  BY <1>0 DEF LoopInv, HonestViewsAccepted, VerifierFollows
<1> QED
  BY <1>5, <1>6, <1>7, <1>8

(* The verifier's gates are the prover's on the opened shares.               *)
LEMMA PartXor ==
  ASSUME e \in Party, NEW a \in Shares, NEW b \in Shares
  PROVE  /\ XorShares(Part(a), Part(b)) = Part(XorShares(a, b))
         /\ XorShares(a, b) \in Shares /\ Part(a) \in [Opened -> Word]
  BY NextParty DEF XorShares, Part, Opened, Shares, Xor, Word

LEMMA PartFactors ==
  ASSUME e \in Party, NEW op \in ProductOps, NEW a \in Shares, NEW y \in Shares,
         NEW w \in Shares
  PROVE  /\ Factors(op, Part(a), Part(y), Part(w))[1] = Part(Factors(op, a, y, w)[1])
         /\ Factors(op, Part(a), Part(y), Part(w))[2] = Part(Factors(op, a, y, w)[2])
<1>1. /\ XorShares(Part(a), Part(y)) = Part(XorShares(a, y))
      /\ XorShares(Part(a), Part(w)) = Part(XorShares(a, w))
      /\ XorShares(Part(y), Part(w)) = Part(XorShares(y, w))
  BY PartXor
<1> QED
  BY <1>1 DEF Factors, ProductOps

LEMMA PartResult ==
  ASSUME e \in Party, NEW op \in ProductOps, NEW a \in Shares, NEW t \in Shares,
         NEW w \in Shares
  PROVE  Result(op, Part(t), Part(a), Part(w)) = Part(Result(op, t, a, w))
<1>1. /\ XorShares(Part(t), Part(a)) = Part(XorShares(t, a))
      /\ XorShares(Part(t), Part(w)) = Part(XorShares(t, w))
  BY PartXor
<1> QED
  BY <1>1 DEF Result, ProductOps

(* The next wire, seen through the counter that has advanced.                *)
LEMMA NextWire ==
  ASSUME e \in Party, e' = e, wires' = wires, countY \in Nat, countY' = countY + 1,
         wires[countY + 2] \in Shares, seen' = Part(wires[countY + 2])
  PROVE  seen' = Part(wires[countY + 1])' /\ seen' \in [Opened' -> Word]
<1>1. Opened' = Opened /\ countY' + 1 = countY + 2
  BY DEF Opened
<1>2. Part(wires[countY + 1])' = Part(wires[countY + 2])
  BY <1>1 DEF Part
<1> QED
  BY <1>1, <1>2, PartXor

LEMMA OpenStep ==
  ASSUME ArithmeticInv, NEW challenge \in Party, Open(challenge)
  PROVE  ArithmeticInv'
<1> USE DEF ArithmeticInv
<1>0. /\ pc = "prove" /\ pc' = "check" /\ e' = challenge
      /\ seen' = [j \in {challenge, Next3(challenge)} |-> in[1][j]]
      /\ randCount' = 0 /\ countY' = 0
      /\ UNCHANGED <<inputVars, proverVars, c, i>>
  BY DEF Open
<1>1. /\ in[1] \in Shares /\ Len(ops) \in Nat /\ MaxGates \in Nat
      /\ wires[1] = in[1]
  BY Typing DEF CounterInv
<1>2. seen' = Part(wires[1])' /\ seen' \in [Opened' -> Word]
  BY <1>0, <1>1, NextParty DEF Part, Opened, Shares, inputVars, proverVars
<1>3. TypeOK'
  BY <1>0, <1>1, <1>2 DEF TypeOK, inputVars, proverVars
<1>4. CounterInv'
  BY <1>0, <1>1 DEF CounterInv, inputVars, proverVars
<1>5. TraceInv'
  BY <1>0, TraceKept DEF TraceInv, proverVars
<1>6. LoopInv' /\ HonestViewsAccepted' /\ VerifierFollows'
  BY <1>0, <1>2 DEF LoopInv, HonestViewsAccepted, VerifierFollows, proverVars
<1> QED
  BY <1>3, <1>4, <1>5, <1>6

(* What the verifier meets at gate countY + 1.                               *)
LEMMA AtGate ==
  ASSUME ArithmeticInv, pc \in {"check", "checkcarry"}, countY < Len(ops)
  PROVE  /\ countY \in Nat /\ countY + 1 \in 1 .. Len(views)
         /\ Len(views) = Len(ops) /\ Len(wires) = Len(views) + 1
         /\ Len(ops) \in Nat /\ Len(ops) <= MaxGates /\ MaxGates \in Nat
         /\ GateRecorded(countY + 1) /\ View \in Shares
         /\ wires[countY + 1] \in Shares /\ wires[countY + 2] \in Shares
         /\ seen = Part(wires[countY + 1]) /\ e \in Party
         /\ Next3(e) \in Party /\ e # Next3(e)
         /\ Random(countY) \in Shares /\ in[2] \in Shares /\ in[3] \in Shares
<1>1. /\ countY \in Nat /\ countY + 1 \in 1 .. Len(views)
      /\ Len(views) = Len(ops) /\ Len(wires) = Len(views) + 1
      /\ Len(ops) \in Nat /\ Len(ops) <= MaxGates /\ MaxGates \in Nat
      /\ in[2] \in Shares /\ in[3] \in Shares
  BY Typing DEF ArithmeticInv, TypeOK, CounterInv
<1>2. /\ View \in Shares
      /\ wires[countY + 1] \in Shares /\ wires[countY + 2] \in Shares
  BY <1>1 DEF ArithmeticInv, TypeOK, View
<1>3. Random(countY) \in Shares
  BY <1>1, Typing DEF ArithmeticInv
<1>4. e \in Party /\ Next3(e) \in Party /\ e # Next3(e)
  BY NextParty DEF ArithmeticInv, TypeOK
<1> QED
  BY <1>1, <1>2, <1>3, <1>4 DEF ArithmeticInv, TraceInv, VerifierFollows

LEMMA CheckProductStep ==
  ASSUME ArithmeticInv, CheckProduct
  PROVE  ArithmeticInv'
<1> DEFINE n == Next3(e)
           f == Factors(Op, seen, Part(in[2]), Part(in[3]))
           r == CheckTape(randCount)
           t == Xor(Xor(Xor(f[1][e] \cap f[2][n], f[1][n] \cap f[2][e]),
                        f[1][e] \cap f[2][e]), Xor(r[e], r[n]))
           w == wires[countY + 1]
           g == Factors(Op, w, in[2], in[3])
<1>0. /\ pc = "check" /\ countY < Len(ops) /\ Op \in ProductOps
      /\ randCount' = randCount + 1
      /\ UNCHANGED <<inputVars, proverVars, c, i, e>>
  BY DEF CheckProduct
<1>1. /\ countY \in Nat /\ countY + 1 \in 1 .. Len(views)
      /\ Len(views) = Len(ops) /\ Len(ops) \in Nat /\ Len(ops) <= MaxGates
      /\ MaxGates \in Nat /\ GateRecorded(countY + 1)
      /\ View \in Shares /\ w \in Shares /\ wires[countY + 2] \in Shares
      /\ seen = Part(w) /\ e \in Party /\ n \in Party /\ e # n
      /\ Random(countY) \in Shares /\ in[2] \in Shares /\ in[3] \in Shares
      /\ Len(wires) = Len(views) + 1
  BY <1>0, AtGate
<1>2. randCount = countY
  BY <1>0 DEF ArithmeticInv, CounterInv
<1>3. r = Random(countY)
  BY <1>2 DEF CheckTape, Random
<1>4. /\ f[1][e] = g[1][e] /\ f[1][n] = g[1][n]
      /\ f[2][e] = g[2][e] /\ f[2][n] = g[2][n]
  <2>1. f[1] = Part(g[1]) /\ f[2] = Part(g[2])
    <3>1. /\ e \in Party /\ Op \in ProductOps /\ w \in Shares
          /\ in[2] \in Shares /\ in[3] \in Shares
      BY <1>0, <1>1
    <3>2. /\ Factors(Op, Part(w), Part(in[2]), Part(in[3]))[1] = Part(g[1])
          /\ Factors(Op, Part(w), Part(in[2]), Part(in[3]))[2] = Part(g[2])
      BY <3>1, PartFactors, Zenon
    <3> QED
      BY <1>1, <3>2
  <2>2. \A x : Part(x)[e] = x[e] /\ Part(x)[n] = x[n]
    BY DEF Part, Opened
  <2> QED
    BY <2>1, <2>2
<1>5. /\ View = [j \in Party |-> AndShare(g[1], g[2], Random(countY), j)]
      /\ wires[countY + 2] = Result(Op, View, w, in[3])
  BY <1>0, <1>1 DEF GateRecorded, Op, View
<1>6. View[e] = t
  BY <1>1, <1>3, <1>4, <1>5 DEF AndShare
<1>7. /\ seen' = Result(Op, [j \in Opened |-> IF j = e THEN t ELSE View[j]],
                       seen, Part(in[3]))
      /\ countY' = countY + 1 /\ pc' = pc
  BY <1>6 DEF CheckProduct
<1>8. [j \in Opened |-> IF j = e THEN t ELSE View[j]] = Part(View)
  BY <1>6 DEF Part
<1>9. seen' = Part(wires[countY + 2])
  <2>1. Result(Op, Part(View), Part(w), Part(in[3])) = Part(Result(Op, View, w, in[3]))
    BY <1>0, <1>1, PartResult
  <2> QED
    BY <1>1, <1>5, <1>7, <1>8, <2>1
<1> HIDE DEF n, f, r, t, w, g
<1>10. seen' = Part(wires[countY + 1])' /\ seen' \in [Opened' -> Word]
  BY <1>0, <1>1, <1>7, <1>9, NextWire DEF proverVars
<1>11. TypeOK'
  BY <1>0, <1>1, <1>2, <1>7, <1>10
  DEF ArithmeticInv, TypeOK, inputVars, proverVars
<1>12. CounterInv'
  BY <1>0, <1>1, <1>2, <1>7 DEF ArithmeticInv, CounterInv, inputVars, proverVars
<1>13. TraceInv'
  BY <1>0, TraceKept DEF ArithmeticInv, TraceInv, proverVars
<1>14. LoopInv' /\ HonestViewsAccepted' /\ VerifierFollows'
  BY <1>0, <1>2, <1>7, <1>10 DEF LoopInv, HonestViewsAccepted, VerifierFollows
<1> QED
  BY <1>11, <1>12, <1>13, <1>14 DEF ArithmeticInv

LEMMA BeginCheckAddStep ==
  ASSUME ArithmeticInv, BeginCheckAdd
  PROVE  ArithmeticInv'
<1>0. /\ pc = "check" /\ countY < Len(ops) /\ Op \in SumOps
      /\ pc' = "checkcarry" /\ i' = 0 /\ randCount' = randCount + 1
      /\ UNCHANGED <<inputVars, proverVars, c, e, seen, countY>>
  BY DEF BeginCheckAdd
<1>1. /\ countY \in Nat /\ Len(ops) \in Nat /\ Len(ops) <= MaxGates
      /\ MaxGates \in Nat /\ randCount = countY /\ Width \in Nat \ {0}
  BY <1>0, AtGate, Typing DEF ArithmeticInv, CounterInv
<1>2. TypeOK'
  BY <1>0, <1>1 DEF ArithmeticInv, TypeOK, inputVars, proverVars, Opened, Bit
<1>3. CounterInv'
  BY <1>0, <1>1 DEF ArithmeticInv, CounterInv, Op, inputVars, proverVars
<1>4. TraceInv'
  BY <1>0, TraceKept DEF ArithmeticInv, TraceInv, proverVars
<1>5. LoopInv' /\ HonestViewsAccepted' /\ VerifierFollows'
  BY <1>0, <1>1 DEF ArithmeticInv, LoopInv, HonestViewsAccepted, VerifierFollows,
                    Part, Opened, proverVars
<1> QED
  BY <1>2, <1>3, <1>4, <1>5 DEF ArithmeticInv

LEMMA CheckCarryStep ==
  ASSUME ArithmeticInv, CheckCarry
  PROVE  ArithmeticInv'
<1> DEFINE n == Next3(e)
           x == seen
           y == Part(Operand(Op))
           r == CheckTape(randCount - 1)
           w == wires[countY + 1]
           o == Operand(Op)
<1>0. /\ pc = "checkcarry" /\ i < Width - 1
      /\ UNCHANGED <<inputVars, proverVars, c, e, seen, randCount, countY>>
  BY DEF CheckCarry
<1>a. countY < Len(ops) /\ Op \in SumOps /\ randCount = countY + 1
  BY <1>0 DEF ArithmeticInv, CounterInv
<1>1. /\ countY \in Nat /\ GateRecorded(countY + 1) /\ seen = Part(w)
      /\ e \in Party /\ n \in Party /\ e # n /\ View \in Shares
      /\ Width \in Nat \ {0} /\ i \in Bit /\ i \in Nat
  BY <1>0, <1>a, AtGate, Typing DEF ArithmeticInv, TypeOK, Bit
<1>2. r = Random(countY)
  BY <1>a, <1>1 DEF CheckTape, Random
<1>3. /\ x[e] = w[e] /\ x[n] = w[n] /\ y[e] = o[e] /\ y[n] = o[n]
  BY <1>1 DEF Part, Opened
<1>4. CarriesUpTo(View, w, o, Random(countY), Width - 1)
  BY <1>a, <1>1 DEF GateRecorded, Op, View
<1>5. i + 1 \in Bit /\ i + 1 \in 1 .. Width - 1 /\ (i + 1) - 1 = i
  BY <1>0, <1>1 DEF Bit
<1>6. i + 1 \in View[e] <=> CarryOut(w, o, View, Random(countY), e, i)
  BY <1>1, <1>4, <1>5 DEF CarriesUpTo
<1>7. i' = i + 1 /\ pc' = pc
  BY <1>2, <1>3, <1>6 DEF CheckCarry, CarryOut
<1> HIDE DEF n, x, y, r, w, o
<1>8. TypeOK'
  BY <1>0, <1>5, <1>7 DEF ArithmeticInv, TypeOK, inputVars, proverVars, Opened
<1>9. CounterInv'
  BY <1>0, <1>7 DEF ArithmeticInv, CounterInv, Op, inputVars, proverVars
<1>10. TraceInv'
  BY <1>0, TraceKept DEF ArithmeticInv, TraceInv, proverVars
<1>11. LoopInv' /\ HonestViewsAccepted' /\ VerifierFollows'
  BY <1>0, <1>7 DEF ArithmeticInv, LoopInv, HonestViewsAccepted, VerifierFollows,
                    Part, Opened, proverVars
<1> QED
  BY <1>8, <1>9, <1>10, <1>11 DEF ArithmeticInv

LEMMA EndCheckAddStep ==
  ASSUME ArithmeticInv, EndCheckAdd
  PROVE  ArithmeticInv'
<1> DEFINE w == wires[countY + 1]
           o == Operand(Op)
<1>0. /\ pc = "checkcarry" /\ pc' = "check" /\ countY' = countY + 1
      /\ seen' = XorShares(XorShares(seen, Part(o)), Part(View))
      /\ UNCHANGED <<inputVars, proverVars, c, i, e, randCount>>
  BY DEF EndCheckAdd
<1>a. countY < Len(ops) /\ Op \in SumOps /\ randCount = countY + 1
  BY <1>0 DEF ArithmeticInv, CounterInv
<1>1. /\ countY \in Nat /\ Len(ops) \in Nat /\ Len(ops) <= MaxGates
      /\ MaxGates \in Nat /\ GateRecorded(countY + 1) /\ seen = Part(w)
      /\ e \in Party /\ View \in Shares /\ w \in Shares /\ o \in Shares
      /\ wires[countY + 2] \in Shares
  BY <1>0, <1>a, AtGate, Typing DEF ArithmeticInv
<1>2. wires[countY + 2] = XorShares(XorShares(w, o), View)
  BY <1>a, <1>1 DEF GateRecorded, Op, View
<1>3. seen' = Part(wires[countY + 2])
  BY <1>0, <1>1, <1>2, PartXor
<1> HIDE DEF w, o
<1>4. seen' = Part(wires[countY + 1])' /\ seen' \in [Opened' -> Word]
  BY <1>0, <1>1, <1>3, NextWire DEF proverVars
<1>5. TypeOK'
  BY <1>0, <1>a, <1>1, <1>4 DEF ArithmeticInv, TypeOK, inputVars, proverVars
<1>6. CounterInv'
  BY <1>0, <1>a, <1>1 DEF ArithmeticInv, CounterInv, inputVars, proverVars
<1>7. TraceInv'
  BY <1>0, TraceKept DEF ArithmeticInv, TraceInv, proverVars
<1>8. LoopInv' /\ HonestViewsAccepted' /\ VerifierFollows'
  BY <1>0, <1>a, <1>4 DEF LoopInv, HonestViewsAccepted, VerifierFollows
<1> QED
  BY <1>5, <1>6, <1>7, <1>8 DEF ArithmeticInv

LEMMA CompareStep ==
  ASSUME ArithmeticInv, CompareOutput
  PROVE  ArithmeticInv'
<1>0. /\ pc = "check" /\ countY = Len(ops)
      /\ pc' = IF seen = Part(Wire) THEN "accepted" ELSE "rejected"
      /\ UNCHANGED <<inputVars, proverVars, c, i, e, seen, randCount, countY>>
  BY DEF CompareOutput
<1>1. /\ Len(wires) = countY + 1 /\ seen = Part(wires[countY + 1])
      /\ randCount = countY /\ Len(ops) = Len(views)
  BY <1>0 DEF ArithmeticInv, CounterInv, VerifierFollows
<1>2. pc' = "accepted"
  BY <1>0, <1>1 DEF Wire
<1>3. TypeOK'
  BY <1>0, <1>2 DEF ArithmeticInv, TypeOK, inputVars, proverVars, Opened
<1>4. CounterInv'
  BY <1>0, <1>1, <1>2 DEF ArithmeticInv, CounterInv, inputVars, proverVars
<1>5. TraceInv'
  BY <1>0, TraceKept DEF ArithmeticInv, TraceInv, proverVars
<1>6. LoopInv' /\ HonestViewsAccepted' /\ VerifierFollows'
  BY <1>0, <1>1, <1>2 DEF ArithmeticInv, LoopInv, HonestViewsAccepted,
                          VerifierFollows, Part, Opened, TypeOK, proverVars
<1> QED
  BY <1>3, <1>4, <1>5, <1>6 DEF ArithmeticInv

LEMMA ArithmeticInvariant == Spec => []ArithmeticInv
<1>1. ArithmeticInv /\ [Next]_vars => ArithmeticInv'
  <2> SUFFICES ASSUME ArithmeticInv, [Next]_vars PROVE ArithmeticInv'
    OBVIOUS
  <2>1. CASE UNCHANGED vars
    <3>1. UNCHANGED <<pc, inputVars, proverVars, c, i, e, seen, randCount, countY>>
      BY <2>1 DEF vars
    <3>2. TraceInv'
      BY <3>1, TraceKept DEF ArithmeticInv, TraceInv, proverVars
    <3>3. TypeOK' /\ CounterInv'
      BY <3>1 DEF ArithmeticInv, TypeOK, CounterInv, Op, Opened, inputVars, proverVars
    <3>4. LoopInv'
      BY <3>1 DEF ArithmeticInv, LoopInv, CarriesUpTo, Wire, Addition, Operand, Random,
                  inputVars, proverVars
    <3>5. HonestViewsAccepted' /\ VerifierFollows'
      BY <3>1 DEF ArithmeticInv, HonestViewsAccepted, VerifierFollows, Part, Opened,
                  proverVars
    <3> QED
      BY <3>2, <3>3, <3>4, <3>5 DEF ArithmeticInv
  <2> QED
    BY <2>1, ProductStep, BeginAddStep, CarryLoopStep, EndAddStep, OpenStep,
       CheckProductStep, BeginCheckAddStep, CheckCarryStep, EndCheckAddStep,
       CompareStep
    DEF Next, Finished
<1> QED
  BY InitArithmetic, <1>1, PTL DEF Spec

(***************************************************************************)
(* The results.                                                            *)
(***************************************************************************)
(* Counters, loop indices, words and views keep their ranges.                *)
THEOREM ArithmeticTypes == Spec => []TypeOK
  BY ArithmeticInvariant, PTL DEF ArithmeticInv

(* No gate of an honest transcript is refused, whatever the challenge.       *)
THEOREM HonestNeverRefused == Spec => []HonestViewsAccepted
  BY ArithmeticInvariant, PTL DEF ArithmeticInv

(* The verifier holds the prover's shares at every gate, counters included.  *)
THEOREM VerifierTracks == Spec => []VerifierFollows
  BY ArithmeticInvariant, PTL DEF ArithmeticInv

(* The three carries of mpc_ADD are a sharing of the carry of the sum, at    *)
(* every position of a word of any width.                                   *)
THEOREM AdderCarries == Spec => []CarriesRipple
<1>1. ArithmeticInv => CarriesRipple
  <2> SUFFICES ASSUME ArithmeticInv, pc = "carry", NEW b \in Bit
               PROVE  b \in Recon(c) <=>
                        /\ b \in 1 .. i
                        /\ Majority(b - 1 \in Recon(Wire),
                                    b - 1 \in Recon(Addition), b - 1 \in Recon(c))
    BY DEF CarriesRipple
  <2> DEFINE r == Random(randCount - 1)
  <2>1. /\ Wire \in Shares /\ Addition \in Shares /\ c \in Shares
        /\ Width \in Nat \ {0}
    BY Typing DEF ArithmeticInv, TypeOK, Addition
  <2>2. r \in Shares
    <3>1. randCount - 1 \in 0 .. MaxGates - 1
      BY Typing DEF ArithmeticInv, CounterInv, TypeOK
    <3> QED
      BY <3>1, Typing DEF ArithmeticInv
  <2>3. CarriesUpTo(c, Wire, Addition, r, i) /\ i \in Nat
    BY <2>1 DEF ArithmeticInv, LoopInv, TypeOK, Bit
  <2> QED
    BY <2>1, <2>2, <2>3, CarriesReconstruct
<1> QED
  BY <1>1, ArithmeticInvariant, PTL

(* Every recorded product gate computed its Boolean function of the values.  *)
THEOREM GatesMultiply == Spec => []ProductsCompute
<1>1. ArithmeticInv => ProductsCompute
  <2> SUFFICES ASSUME ArithmeticInv, NEW g \in DOMAIN views, ops[g] \in ProductOps
               PROVE  Recon(wires[g + 1]) =
                        PlainProduct(ops[g], Recon(wires[g]), Recon(in[2]),
                                     Recon(in[3]))
    BY DEF ProductsCompute
  <2>1. /\ g \in 1 .. Len(views) /\ Len(views) \in Nat /\ Len(ops) \in Nat
        /\ Len(wires) = Len(views) + 1 /\ Len(views) <= MaxGates
        /\ MaxGates \in Nat /\ in[2] \in Shares /\ in[3] \in Shares
    BY Typing DEF ArithmeticInv, TypeOK, CounterInv
  <2>2. wires[g] \in Shares
    BY <2>1 DEF ArithmeticInv, TypeOK
  <2>3. Random(g - 1) \in Shares
    BY <2>1, Typing DEF ArithmeticInv
  <2>4. GateRecorded(g)
    BY <2>1 DEF ArithmeticInv, TraceInv
  <2> QED
    BY <2>1, <2>2, <2>3, <2>4, GateReconstructs DEF GateRecorded
<1> QED
  BY <1>1, ArithmeticInvariant, PTL

(* Every recorded sum gate computed the sum of the values modulo 2^Width: an    *)
(* addition is right for every word and tape, not on the few words of a run.  *)
THEOREM GatesAdd == Spec => []SumsCompute
<1>1. ArithmeticInv => SumsCompute
  <2> SUFFICES ASSUME ArithmeticInv, NEW g \in DOMAIN views, ops[g] \in SumOps
               PROVE  Value(Recon(wires[g + 1])) =
                        ((Value(Recon(wires[g])) + Value(Recon(Operand(ops[g]))))
                           % Weight[Width])
    BY DEF SumsCompute
  <2>1. /\ g \in 1 .. Len(views) /\ Len(views) \in Nat /\ Len(ops) \in Nat
        /\ Len(wires) = Len(views) + 1 /\ Len(views) <= MaxGates
        /\ MaxGates \in Nat /\ Width \in Nat \ {0}
    BY Typing DEF ArithmeticInv, TypeOK, CounterInv
  <2>2. wires[g] \in Shares /\ views[g] \in Shares
    BY <2>1 DEF ArithmeticInv, TypeOK
  <2>3. Operand(ops[g]) \in Shares
    BY Typing DEF ArithmeticInv, TypeOK
  <2>4. Random(g - 1) \in Shares
    BY <2>1, Typing DEF ArithmeticInv
  <2>5. GateRecorded(g)
    BY <2>1 DEF ArithmeticInv, TraceInv
  <2> DEFINE x == wires[g]    y == Operand(ops[g])    d == views[g]
  <2>6. /\ CarriesUpTo(d, x, y, Random(g - 1), Width - 1)
        /\ wires[g + 1] = XorShares(XorShares(x, y), d)
    BY <2>5 DEF GateRecorded
  <2> QED
    BY <2>1, <2>2, <2>3, <2>4, <2>6, SumReconstructs
<1> QED
  BY <1>1, ArithmeticInvariant, PTL
==============================================================================
