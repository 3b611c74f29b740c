--------------------------- MODULE MpcRound_proofs ---------------------------
(* One repetition of the proof is evaluated to the end on both sides, and its *)
(* verdict is exact.                                                          *)
EXTENDS MpcRound, MpcGates_proofs

(***************************************************************************)
(* Sizes and sequences.                                                    *)
(***************************************************************************)
(* A block takes 728 words of every tape.                                     *)
LEMMA Sizes ==
  /\ Width = 32 /\ Bit = 0 .. 31 /\ Width \in Nat \ {0}
  /\ NumBlocks \in Nat \ {0} /\ TapeWords = 728 * NumBlocks
  /\ Tape \in [Party -> [Rows -> Word]]
<1>1. Width = 32 /\ LBits \in Nat
  BY Sha256Assumption
<1>2. LBytes \in Nat
  BY <1>1 DEF LBytes
<1>3. NumBlocks \in Nat \ {0}
  BY <1>2 DEF NumBlocks
<1>4. TapeWords = 728 * NumBlocks
  BY <1>3 DEF TapeWords
<1> QED
  BY <1>1, <1>3, <1>4, Sha256Assumption DEF Bit, Rows

(* A list with one more element.                                              *)
LEMMA LastOfAppend ==
  ASSUME NEW S, NEW s \in Seq(S), NEW v
  PROVE  /\ Append(s, v) \in Seq(S \cup {v}) /\ Last(Append(s, v)) = v
         /\ Len(Append(s, v)) = Len(s) + 1
         /\ \A n \in 1 .. Len(s) : Append(s, v)[n] = s[n]
         /\ Append(s, v)[Len(s) + 1] = v
<1>1. s \in Seq(S \cup {v})
  OBVIOUS
<1> QED
  BY <1>1 DEF Last

(***************************************************************************)
(* Programs and loops.                                                     *)
(***************************************************************************)
(* The machines between the calls of a program.                               *)
IsTrace(g, u, program, i) ==
  /\ g[0] = u
  /\ \A p \in 1 .. Len(program) : g[p] = Exec(g[p - 1], program[p], i)

LEMMA RunTrace ==
  ASSUME NEW u, NEW program, NEW i, Len(program) \in Nat
  PROVE  \E g : IsTrace(g, u, program, i) /\ Run(u, program, i) = g[Len(program)]
<1> DEFINE L == Len(program)
           Step1(h, p) == IF p = 0 THEN u ELSE Exec(h[p - 1], program[p], i)
           IsRun(h, n) == h = [p \in 0 .. n |-> Step1(h, p)]
           T == {n \in Nat : \E h : IsRun(h, n)}
<1>1. 0 \in T
  <2> DEFINE h0 == [p \in 0 .. 0 |-> u]
  <2>1. h0 = [p \in 0 .. 0 |-> Step1(h0, p)]
    OBVIOUS
  <2> QED
    BY <2>1
<1>2. ASSUME NEW n \in Nat, n \in T PROVE n + 1 \in T
  <2>1. PICK h : IsRun(h, n)
    BY <1>2
  <2> DEFINE h2 == [p \in 0 .. n + 1 |->
                      IF p = n + 1 THEN Exec(h[n], program[n + 1], i) ELSE h[p]]
  <2> HIDE DEF IsRun
  <2>2. \A p \in 0 .. n : h[p] = Step1(h, p)
    BY <2>1 DEF IsRun
  <2>3. ASSUME NEW p \in 0 .. n + 1 PROVE h2[p] = Step1(h2, p)
    <3>1. CASE p = 0
      BY <2>2, <3>1
    <3>2. CASE p # 0 /\ p # n + 1
      <4>1. p \in 0 .. n /\ p - 1 \in 0 .. n /\ p - 1 \in 0 .. n + 1 /\ p - 1 # n + 1
        BY <3>2
      <4>2. h2[p] = h[p] /\ h2[p - 1] = h[p - 1]
        BY <3>2, <4>1
      <4> HIDE DEF h2
      <4> QED
        BY <2>2, <3>2, <4>1, <4>2
    <3>3. CASE p = n + 1
      <4>1. p # 0 /\ p - 1 = n /\ n \in 0 .. n + 1 /\ n # n + 1
        BY <3>3
      <4>2. h2[p - 1] = h[n] /\ h2[p] = Exec(h[n], program[p], i)
        BY <3>3, <4>1
      <4> HIDE DEF h2
      <4> QED
        BY <4>1, <4>2
    <3> QED
      BY <3>1, <3>2, <3>3
  <2>4. h2 = [p \in 0 .. n + 1 |-> Step1(h2, p)]
    <3>1. h2 = [p \in 0 .. n + 1 |-> h2[p]]
      OBVIOUS
    <3> HIDE DEF h2, Step1
    <3> QED
      BY <2>3, <3>1
  <2>5. IsRun(h2, n + 1)
    BY <2>4 DEF IsRun
  <2> QED
    BY <2>5
<1> HIDE DEF IsRun
<1>3. \E h : IsRun(h, L)
  <2> HIDE DEF T
  <2>1. Nat \subseteq T
    BY <1>1, <1>2, SetInduction
  <2> QED
    BY <2>1 DEF T
<1> DEFINE g == CHOOSE h : IsRun(h, L)
<1>4. Run(u, program, i) = g[L]
  BY DEF Run, IsRun
<1>5. IsRun(g, L)
  BY <1>3
<1> HIDE DEF g
<1>6. \A p \in 0 .. L : g[p] = Step1(g, p)
  BY <1>5 DEF IsRun
<1>7. IsTrace(g, u, program, i)
  BY <1>6 DEF IsTrace
<1> QED
  BY <1>4, <1>7

(* The machines at the head of a loop.                                        *)
IsLoop(g, u, program, first) ==
  /\ g[first] = u
  /\ \A i \in first .. 63 : g[i + 1] = Run(g[i], program, i)

LEMMA LoopTrace ==
  ASSUME NEW u, NEW program, NEW first \in 0 .. 64
  PROVE  \E g : IsLoop(g, u, program, first) /\ Loop(u, program, first) = g[64]
<1> DEFINE Step1(h, q) == IF q = first THEN <<u>>
                          ELSE Append(h[q - 1], Run(Last(h[q - 1]), program, q - 1))
           IsRun(h, n) == h = [q \in first .. first + n |-> Step1(h, q)]
           T == {n \in Nat : \E h : IsRun(h, n)}
<1>1. 0 \in T
  <2> DEFINE h0 == [q \in first .. first + 0 |-> <<u>>]
  <2>1. h0 = [q \in first .. first + 0 |-> Step1(h0, q)]
    OBVIOUS
  <2> QED
    BY <2>1
<1>2. ASSUME NEW n \in Nat, n \in T PROVE n + 1 \in T
  <2>1. PICK h : IsRun(h, n)
    BY <1>2
  <2> DEFINE top == first + (n + 1)
             h2 == [q \in first .. top |->
                      IF q = top
                      THEN Append(h[q - 1], Run(Last(h[q - 1]), program, q - 1))
                      ELSE h[q]]
  <2> HIDE DEF IsRun
  <2>2. \A q \in first .. first + n : h[q] = Step1(h, q)
    BY <2>1 DEF IsRun
  <2>3. ASSUME NEW q \in first .. top PROVE h2[q] = Step1(h2, q)
    <3>1. CASE q = first
      BY <2>2, <3>1
    <3>2. CASE q # first
      <4>1. q - 1 \in first .. top /\ q - 1 # top
        BY <3>2
      <4>2. h2[q - 1] = h[q - 1]
        BY <4>1
      <4>3. h2[q] = IF q = top
                    THEN Append(h[q - 1], Run(Last(h[q - 1]), program, q - 1))
                    ELSE h[q]
        OBVIOUS
      <4>4. q # top => q \in first .. first + n
        OBVIOUS
      <4> HIDE DEF h2, top
      <4> QED
        BY <2>2, <3>2, <4>2, <4>3, <4>4
    <3> QED
      BY <3>1, <3>2
  <2>4. h2 = [q \in first .. top |-> Step1(h2, q)]
    <3>1. h2 = [q \in first .. top |-> h2[q]]
      OBVIOUS
    <3> HIDE DEF h2, Step1, top
    <3> QED
      BY <2>3, <3>1
  <2>5. IsRun(h2, n + 1)
    BY <2>4 DEF IsRun
  <2> QED
    BY <2>5
<1> HIDE DEF IsRun
<1>3. \E h : IsRun(h, 64 - first)
  <2> HIDE DEF T
  <2>1. Nat \subseteq T
    BY <1>1, <1>2, SetInduction
  <2> QED
    BY <2>1 DEF T
<1> DEFINE IsTable(h) == h = [q \in first .. 64 |-> Step1(h, q)]
           t == CHOOSE h : IsTable(h)
           g == [q \in first .. 64 |-> Last(t[q])]
<1>4. Loop(u, program, first) = Last(t[64])
  BY DEF Loop
<1>5. IsTable(t)
  <2>1. first + (64 - first) = 64
    OBVIOUS
  <2>2. \A h : IsRun(h, 64 - first) <=> IsTable(h)
    BY <2>1 DEF IsRun
  <2> HIDE DEF IsTable
  <2> QED
    BY <1>3, <2>2
<1> HIDE DEF t
<1>6. t[first] = <<u>>
  <2>1. first \in first .. 64
    OBVIOUS
  <2>2. t[first] = Step1(t, first)
    BY <1>5, <2>1
  <2> QED
    BY <2>2
<1>7. ASSUME NEW i \in first .. 63
      PROVE  t[i + 1] = Append(t[i], Run(Last(t[i]), program, i))
  <2>1. i + 1 \in first .. 64 /\ i + 1 # first /\ (i + 1) - 1 = i
    OBVIOUS
  <2>2. t[i + 1] = Step1(t, i + 1)
    BY <1>5, <2>1
  <2> QED
    BY <2>1, <2>2
<1> HIDE DEF IsTable, Step1
<1>8. \A i \in first .. 64 : \E S : t[i] \in Seq(S)
  <2> DEFINE IsList(i) == \E S : t[i] \in Seq(S)
             U == {n \in Nat : first + n <= 64 => IsList(first + n)}
  <2>1. 0 \in U
    <3>1. first + 0 = first
      OBVIOUS
    <3>2. <<u>> \in Seq({u})
      OBVIOUS
    <3> QED
      BY <1>6, <3>1, <3>2
  <2>2. ASSUME NEW n \in Nat, n \in U PROVE n + 1 \in U
    <3> SUFFICES ASSUME first + (n + 1) <= 64 PROVE IsList(first + (n + 1))
      OBVIOUS
    <3> DEFINE i == first + n
    <3>1. i \in first .. 63 /\ i + 1 = first + (n + 1) /\ i <= 64
      OBVIOUS
    <3>2. IsList(i)
      BY <2>2, <3>1
    <3> HIDE DEF i
    <3>3. PICK S : t[i] \in Seq(S)
      BY <3>2
    <3>4. t[i + 1] = Append(t[i], Run(Last(t[i]), program, i))
      BY <1>7, <3>1
    <3> DEFINE v == Run(Last(t[i]), program, i)
    <3>5. t[i + 1] = Append(t[i], v)
      BY <3>4
    <3> HIDE DEF v
    <3>6. t[i + 1] \in Seq(S \cup {v})
      BY <3>3, <3>5, LastOfAppend
    <3>7. IsList(i + 1)
      BY <3>6
    <3> QED
      BY <3>1, <3>7
  <2> HIDE DEF U, IsList
  <2>3. Nat \subseteq U
    BY <2>1, <2>2, SetInduction
  <2>4. ASSUME NEW i \in first .. 64 PROVE IsList(i)
    <3>1. i - first \in Nat /\ first + (i - first) = i /\ i <= 64
      OBVIOUS
    <3>2. i - first \in U
      BY <2>3, <3>1
    <3> QED
      BY <3>1, <3>2 DEF U
  <2> QED
    BY <2>4 DEF IsList
<1>9. g[first] = u
  <2>1. first \in first .. 64
    OBVIOUS
  <2>2. g[first] = Last(t[first])
    BY <2>1
  <2> QED
    BY <1>6, <2>2 DEF Last
<1>10. ASSUME NEW i \in first .. 63 PROVE g[i + 1] = Run(g[i], program, i)
  <2>1. i \in first .. 64 /\ i + 1 \in first .. 64
    OBVIOUS
  <2>2. g[i] = Last(t[i]) /\ g[i + 1] = Last(t[i + 1])
    BY <2>1
  <2>3. PICK S : t[i] \in Seq(S)
    BY <1>8, <2>1
  <2> DEFINE v == Run(Last(t[i]), program, i)
  <2>4. t[i + 1] = Append(t[i], v)
    BY <1>7
  <2>5. Last(t[i + 1]) = v
    <3> HIDE DEF v, g
    <3> DEFINE s == t[i]
    <3>1. s \in Seq(S)
      BY <2>3
    <3> HIDE DEF s
    <3>2. s \in Seq(S \cup {v})
      BY <3>1
    <3>3. Last(Append(s, v)) = v
      BY <3>2 DEF Last
    <3> QED
      BY <2>4, <3>3 DEF s
  <2>6. g[i + 1] = v /\ v = Run(g[i], program, i)
    BY <2>2, <2>5
  <2> QED
    BY <2>6
<1>11. 64 \in first .. 64
  OBVIOUS
<1>12. g[64] = Last(t[64])
  BY <1>11
<1> HIDE DEF g
<1>13. IsLoop(g, u, program, first)
  BY <1>9, <1>10 DEF IsLoop
<1> QED
  BY <1>4, <1>12, <1>13

(***************************************************************************)
(* Words.                                                                  *)
(***************************************************************************)
GateOps == {"ADD", "ADDK", "CH", "MAJ"}
LocalOps == {"COPY", "ROT", "SHR"}

(* What is written is a word for every party.                                 *)
Stored(v) == [j \in DOMAIN v |-> {b \in Bit : b \in v[j]}]

(* What the prover's gates do to words, and their openings.                    *)
GateValue(op, s1, s2, s3, t) ==
  IF op = "ADD" THEN XorShares(XorShares(s1, s2), t) ELSE Result(op, t, s1, s3)

Opening(op, s1, s2, s3, r) ==
  IF op = "ADD" THEN Carries(s1, s2, r)
  ELSE [j \in Party |-> AndShare(Factors(op, s1, s2, s3)[1],
                                 Factors(op, s1, s2, s3)[2], r, j)]

(* The loop of mpc_ADD ends with the carries of every position.               *)
LEMMA CarriesAre ==
  ASSUME NEW s \in Shares, NEW t \in Shares, NEW r \in Shares
  PROVE  /\ Carries(s, t, r) \in Shares
         /\ CarriesUpTo(Carries(s, t, r), s, t, r, Width - 1)
<1> DEFINE Further(d, n) == [j \in Party |-> IF CarryOut(s, t, d, r, j, n - 1)
                                             THEN d[j] \cup {n} ELSE d[j] \ {n}]
           Step1(h, q) == IF q = 0 THEN <<Zero>>
                          ELSE Append(h[q - 1], Table(Further(Last(h[q - 1]), q)))
           IsRun(h, n) == h = [q \in 0 .. n |-> Step1(h, q)]
           Good(h, n) == /\ h[n] \in Seq(Shares) /\ Last(h[n]) \in Shares
                         /\ CarriesUpTo(Last(h[n]), s, t, r, n)
           T == {n \in Nat : n <= 31 => \E h : IsRun(h, n) /\ Good(h, n)}
<1>0. Width = 32 /\ Bit = 0 .. 31
  BY Sizes
<1>1. 0 \in T
  <2> DEFINE h0 == [q \in 0 .. 0 |-> <<Zero>>]
  <2>1. h0 = [q \in 0 .. 0 |-> Step1(h0, q)]
    OBVIOUS
  <2>2. Zero \in Shares /\ CarriesUpTo(Zero, s, t, r, 0)
    BY DEF Zero, Shares, Word, CarriesUpTo
  <2>3. h0[0] = <<Zero>> /\ Last(<<Zero>>) = Zero
    BY DEF Last
  <2>4. Good(h0, 0)
    BY <2>2, <2>3
  <2> QED
    BY <2>1, <2>4
<1>2. ASSUME NEW n \in Nat, n \in T PROVE n + 1 \in T
  <2> HIDE DEF IsRun, Good
  <2> SUFFICES ASSUME n + 1 <= 31 PROVE \E h : IsRun(h, n + 1) /\ Good(h, n + 1)
    OBVIOUS
  <2>1. PICK h : IsRun(h, n) /\ Good(h, n)
    <3>1. n <= 31
      OBVIOUS
    <3> QED
      BY <1>2, <3>1
  <2> DEFINE v == Table(Further(Last(h[n]), n + 1))
             h2 == [q \in 0 .. n + 1 |-> IF q = n + 1 THEN Append(h[n], v) ELSE h[q]]
  <2>2. v \in Shares /\ CarriesUpTo(v, s, t, r, n + 1)
    <3>1. v = [j \in Party |-> IF CarryOut(s, t, Last(h[n]), r, j, n)
                               THEN Last(h[n])[j] \cup {n + 1}
                               ELSE Last(h[n])[j] \ {n + 1}]
      BY DEF Table
    <3>2. Last(h[n]) \in Shares /\ CarriesUpTo(Last(h[n]), s, t, r, n)
      BY <2>1 DEF Good
    <3>3. n < Width - 1 /\ Width \in Nat
      BY <1>0
    <3> DEFINE d == Last(h[n])
    <3> HIDE DEF v, d
    <3> QED
      BY <3>1, <3>2, <3>3, CarryExtends DEF d
  <2>3. \A q \in 0 .. n : h[q] = Step1(h, q)
    BY <2>1 DEF IsRun
  <2>4. h[n] \in Seq(Shares)
    BY <2>1 DEF Good
  <2>5. ASSUME NEW q \in 0 .. n + 1 PROVE h2[q] = Step1(h2, q)
    <3> HIDE DEF Further
    <3>1. CASE q = 0
      <4>1. h2[q] = h[q] /\ h[q] = Step1(h, q)
        BY <2>3, <3>1
      <4> QED
        BY <3>1, <4>1
    <3>2. CASE q # 0 /\ q # n + 1
      <4>1. q \in 0 .. n /\ q - 1 \in 0 .. n + 1 /\ q - 1 # n + 1
        BY <3>2
      <4>2. h2[q] = h[q] /\ h2[q - 1] = h[q - 1] /\ h[q] = Step1(h, q)
        BY <2>3, <3>2, <4>1
      <4> HIDE DEF h2
      <4> QED
        BY <3>2, <4>2
    <3>3. CASE q = n + 1
      <4>1. q # 0 /\ q - 1 = n /\ n \in 0 .. n + 1 /\ n # n + 1
        BY <3>3
      <4>2. h2[q - 1] = h[n] /\ h2[q] = Append(h[n], v)
        BY <3>3, <4>1
      <4> HIDE DEF h2
      <4> QED
        BY <3>3, <4>1, <4>2
    <3> QED
      BY <3>1, <3>2, <3>3
  <2>6. IsRun(h2, n + 1)
    <3>1. h2 = [q \in 0 .. n + 1 |-> h2[q]]
      OBVIOUS
    <3>2. h2 = [q \in 0 .. n + 1 |-> Step1(h2, q)]
      <4> HIDE DEF h2, Step1
      <4> QED
        BY <2>5, <3>1
    <3> QED
      BY <3>2 DEF IsRun
  <2>7. Good(h2, n + 1)
    <3>1. h2[n + 1] = Append(h[n], v)
      OBVIOUS
    <3>2. Append(h[n], v) \in Seq(Shares)
      BY <2>2, <2>4
    <3>3. Last(Append(h[n], v)) = v
      <4> HIDE DEF v, h2
      <4> DEFINE l == h[n]
      <4>1. l \in Seq(Shares)
        BY <2>4
      <4> HIDE DEF l
      <4>2. Last(Append(l, v)) = v
        BY <4>1, LastOfAppend
      <4> QED
        BY <4>2 DEF l
    <3> HIDE DEF v, h2
    <3> QED
      BY <2>2, <3>1, <3>2, <3>3 DEF Good
  <2> QED
    BY <2>6, <2>7
<1>3. \E h : IsRun(h, 31) /\ Good(h, 31)
  <2> HIDE DEF T
  <2>1. Nat \subseteq T
    BY <1>1, <1>2, SetInduction
  <2> HIDE DEF IsRun, Good
  <2> QED
    BY <2>1 DEF T
<1> DEFINE IsTable(h) == h = [n \in Bit |-> Step1(h, n)]
           g == CHOOSE h : IsTable(h)
<1>4. Carries(s, t, r) = Last(g[31])
  BY <1>0 DEF Carries
<1> HIDE DEF Step1
<1>5. \A h : IsRun(h, 31) <=> IsTable(h)
  BY <1>0
<1>6. PICK h : IsRun(h, 31) /\ Good(h, 31)
  BY <1>3
<1>7. IsTable(g) /\ IsTable(h)
  <2> HIDE DEF IsTable, IsRun, Good
  <2> QED
    BY <1>5, <1>6
<1>8. \A n \in Nat : n <= 31 => g[n] = h[n]
  <2> DEFINE U == {n \in Nat : n <= 31 => g[n] = h[n]}
  <2> HIDE DEF g
  <2>1. 0 \in U
    <3>1. 0 \in Bit
      BY <1>0
    <3>2. g[0] = Step1(g, 0) /\ h[0] = Step1(h, 0)
      BY <1>7, <3>1
    <3> QED
      BY <3>2 DEF Step1
  <2>2. ASSUME NEW n \in Nat, n \in U PROVE n + 1 \in U
    <3> SUFFICES ASSUME n + 1 <= 31 PROVE g[n + 1] = h[n + 1]
      OBVIOUS
    <3>1. g[n] = h[n] /\ n + 1 \in Bit /\ n + 1 # 0 /\ (n + 1) - 1 = n
      BY <1>0, <2>2
    <3>2. g[n + 1] = Step1(g, n + 1) /\ h[n + 1] = Step1(h, n + 1)
      BY <1>7, <3>1
    <3> HIDE DEF IsTable, Further
    <3> QED
      BY <3>1, <3>2 DEF Step1
  <2> HIDE DEF U
  <2>3. Nat \subseteq U
    BY <2>1, <2>2, SetInduction
  <2> QED
    BY <2>3 DEF U
<1>9. Good(g, 31)
  <2> HIDE DEF g
  <2>1. g[31] = h[31]
    BY <1>8
  <2> QED
    BY <1>6, <2>1
<1> QED
  BY <1>0, <1>4, <1>9

(* Rotation, position by position.                                             *)
LEMMA Rotated ==
  ASSUME NEW q \in 0 .. 31, NEW b \in 0 .. 31, NEW n \in 0 .. 31
  PROVE  /\ (q - n) % 32 = b <=> q = ((b + n) % 32)
         /\ ((b + n) % 32) \in 0 .. 31 /\ ((q - n) % 32) \in 0 .. 31
<1>1. b + n < 32 => ((b + n) % 32) = b + n
  OBVIOUS
<1>2. b + n >= 32 => ((b + n) % 32) = b + n - 32
  OBVIOUS
<1>3. q - n >= 0 => ((q - n) % 32) = q - n
  OBVIOUS
<1>4. q - n < 0 => ((q - n) % 32) = q - n + 32
  OBVIOUS
<1> QED
  BY <1>1, <1>2, <1>3, <1>4

(* Members of what the plain operations yield.                                *)
LEMMA RotrMember ==
  ASSUME NEW s \in Word, NEW n \in 0 .. 31, NEW b \in Bit
  PROVE  b \in Rotr(s, n) <=> ((b + n) % 32) \in s
<1>1. b \in 0 .. 31 /\ s \subseteq 0 .. 31 /\ Width = 32
  BY Sizes DEF Word
<1>2. b \in Rotr(s, n) <=> \E q \in s : ((q - n) % 32) = b
  BY <1>1 DEF Rotr
<1>3. \A q \in s : ((q - n) % 32) = b <=> q = ((b + n) % 32)
  BY <1>1, Rotated
<1> QED
  BY <1>2, <1>3

LEMMA ShrMember ==
  ASSUME NEW s \in Word, NEW n \in 0 .. 31, NEW b \in Bit
  PROVE  b \in Shr(s, n) <=> b + n \in s
<1>1. b \in 0 .. 31 /\ s \subseteq 0 .. 31
  BY Sizes DEF Word
<1> QED
  BY <1>1 DEF Shr

LEMMA PlainWords ==
  ASSUME NEW s \in Word, NEW t, NEW r, NEW n \in 0 .. 31
  PROVE  /\ Rotr(s, n) \in Word /\ Shr(s, n) \in Word
         /\ Sum(s, t) \in Word /\ Xor3(s, t, r) \in Word
<1>1. s \subseteq 0 .. 31 /\ Width = 32 /\ Bit = 0 .. 31
  BY Sizes DEF Word
<1>2. \A q \in s : ((q - n) % 32) \in 0 .. 31
  BY <1>1, Rotated
<1>3. Rotr(s, n) \in Word
  <2>1. Rotr(s, n) = {((q - n) % 32) : q \in s}
    BY <1>1 DEF Rotr
  <2> QED
    BY <1>1, <1>2, <2>1 DEF Word
<1>4. Shr(s, n) \in Word
  <2>1. \A q \in s : q >= n => q - n \in 0 .. 31
    BY <1>1
  <2> QED
    BY <1>1, <2>1 DEF Shr, Word
<1>5. Sum(s, t) \in Word /\ Xor3(s, t, r) \in Word
  BY DEF Sum, Xor3, Word
<1> QED
  BY <1>3, <1>4, <1>5

(* Rotations, shifts and copies of the shares move what they stand for.        *)
PlainLocal(g, v) ==
  CASE g.op = "COPY" -> v [] g.op = "ROT" -> Rotr(v, g.n) [] g.op = "SHR" -> Shr(v, g.n)

LEMMA LocalReconstructs ==
  ASSUME NEW g, g.op \in LocalOps, g.n \in 0 .. 31, NEW s \in Shares
  PROVE  LET v == Stored([j \in Party |-> Local(g, s[j])]) IN
           v \in Shares /\ Recon(v) = PlainLocal(g, Recon(s))
<1> DEFINE v == Stored([j \in Party |-> Local(g, s[j])])
<1>0. Bit = 0 .. 31 /\ Width = 32
  BY Sizes
<1>1. v = [j \in Party |-> {b \in Bit : b \in Local(g, s[j])}]
  BY DEF Stored
<1>2. v \in Shares
  BY <1>1 DEF Shares, Word
<1>3. \A j \in Party : s[j] \in Word /\ s[j] \subseteq 0 .. 31
  BY <1>0 DEF Shares, Word
<1>4. Recon(s) \in Word /\ Recon(v) \in Word
  BY <1>2 DEF Recon, Xor, Shares, Word, Party
<1>5. \A b \in Bit : b \in Recon(v) <=> (((b \in v[0]) # (b \in v[1])) # (b \in v[2]))
  BY DEF Recon, Xor
<1>6. \A q : q \in Recon(s) <=> (((q \in s[0]) # (q \in s[1])) # (q \in s[2]))
  BY DEF Recon, Xor
<1>7. CASE g.op = "COPY"
  <2>1. \A j \in Party, b \in Bit : b \in v[j] <=> b \in s[j]
    BY <1>1, <1>7 DEF Local
  <2>2. \A b \in Bit : b \in Recon(v) <=> b \in Recon(s)
    BY <1>5, <1>6, <2>1 DEF Party
  <2>3. Recon(v) = Recon(s)
    BY <1>4, <2>2 DEF Word
  <2> QED
    BY <1>2, <1>7, <2>3 DEF PlainLocal
<1>8. CASE g.op = "ROT"
  <2>1. ASSUME NEW j \in Party, NEW b \in Bit
        PROVE  b \in v[j] <=> ((b + g.n) % 32) \in s[j]
    <3>1. Local(g, s[j]) = Rotr(s[j], g.n)
      BY <1>8 DEF Local, Rotr
    <3> QED
      BY <1>1, <1>3, <3>1, RotrMember
  <2>2. \A b \in Bit : b \in Recon(v) <=> ((b + g.n) % 32) \in Recon(s)
    BY <1>5, <1>6, <2>1 DEF Party
  <2>3. \A b \in Bit : b \in Rotr(Recon(s), g.n) <=> ((b + g.n) % 32) \in Recon(s)
    BY <1>4, RotrMember
  <2>4. Rotr(Recon(s), g.n) \in Word
    BY <1>4, PlainWords
  <2>5. Recon(v) = Rotr(Recon(s), g.n)
    BY <1>4, <2>2, <2>3, <2>4 DEF Word
  <2> QED
    BY <1>2, <1>8, <2>5 DEF PlainLocal
<1>9. CASE g.op = "SHR"
  <2>1. ASSUME NEW j \in Party, NEW b \in Bit
        PROVE  b \in v[j] <=> b + g.n \in s[j]
    <3>1. Local(g, s[j]) = {q - g.n : q \in s[j]}
      BY <1>9 DEF Local
    <3>2. b \in Local(g, s[j]) <=> b + g.n \in s[j]
      BY <1>0, <1>3, <3>1
    <3> QED
      BY <1>1, <3>2
  <2>2. \A b \in Bit : b \in Recon(v) <=> b + g.n \in Recon(s)
    BY <1>5, <1>6, <2>1 DEF Party
  <2>3. \A b \in Bit : b \in Shr(Recon(s), g.n) <=> b + g.n \in Recon(s)
    BY <1>4, ShrMember
  <2>4. Shr(Recon(s), g.n) \in Word
    BY <1>4, PlainWords
  <2>5. Recon(v) = Shr(Recon(s), g.n)
    BY <1>4, <2>2, <2>3, <2>4 DEF Word
  <2> QED
    BY <1>2, <1>9, <2>5 DEF PlainLocal
<1> QED
  BY <1>7, <1>8, <1>9 DEF LocalOps

(* The carry into a position, looked ahead and position by position.          *)
LEMMA CarryLookahead ==
  ASSUME NEW s, NEW t, NEW b \in Nat
  PROVE  LET Into(q) == \E p \in 0 .. q - 1 :
                          p \in s /\ p \in t /\ \A o \in p + 1 .. q - 1 : o \in s \/ o \in t
         IN  /\ ~ Into(0)
             /\ Into(b + 1) <=> Majority(b \in s, b \in t, Into(b))
<1> DEFINE Into(q) == \E p \in 0 .. q - 1 :
                        p \in s /\ p \in t /\ \A o \in p + 1 .. q - 1 : o \in s \/ o \in t
<1>1. ~ Into(0)
  OBVIOUS
<1>2. ASSUME b \in s, b \in t PROVE Into(b + 1)
  <2>1. b \in 0 .. (b + 1) - 1 /\ \A o \in b + 1 .. (b + 1) - 1 : FALSE
    OBVIOUS
  <2> QED
    BY <1>2, <2>1
<1>3. ASSUME b \in s \/ b \in t, Into(b) PROVE Into(b + 1)
  <2>1. PICK p \in 0 .. b - 1 :
          p \in s /\ p \in t /\ \A o \in p + 1 .. b - 1 : o \in s \/ o \in t
    BY <1>3
  <2>2. \A o \in p + 1 .. (b + 1) - 1 : o = b \/ o \in p + 1 .. b - 1
    OBVIOUS
  <2>3. p \in 0 .. (b + 1) - 1
    OBVIOUS
  <2> QED
    BY <1>3, <2>1, <2>2, <2>3
<1>4. ASSUME Into(b + 1) PROVE (b \in s /\ b \in t) \/ ((b \in s \/ b \in t) /\ Into(b))
  <2>1. PICK p \in 0 .. (b + 1) - 1 :
          p \in s /\ p \in t /\ \A o \in p + 1 .. (b + 1) - 1 : o \in s \/ o \in t
    BY <1>4
  <2>2. CASE p = b
    BY <2>1, <2>2
  <2>3. CASE p # b
    <3>1. p \in 0 .. b - 1 /\ b \in p + 1 .. (b + 1) - 1
      BY <2>3
    <3>2. \A o \in p + 1 .. b - 1 : o \in p + 1 .. (b + 1) - 1
      OBVIOUS
    <3> QED
      BY <2>1, <3>1, <3>2
  <2> QED
    BY <2>2, <2>3
<1> HIDE DEF Into
<1>5. Into(b + 1) <=> Majority(b \in s, b \in t, Into(b))
  BY <1>2, <1>3, <1>4 DEF Majority
<1> QED
  BY <1>1, <1>5 DEF Into

(* The carries are determined: mpc_ADD computes the sum of the standard.      *)
LEMMA CarriesDetermined ==
  ASSUME NEW s, NEW t, NEW d,
         \A b \in Bit : b \in d <=>
           b \in 1 .. Width - 1 /\ Majority(b - 1 \in s, b - 1 \in t, b - 1 \in d)
  PROVE  {b \in Bit : ((b \in s) # (b \in t)) # (b \in d)} = Sum(s, t)
<1> DEFINE Into(q) == \E p \in 0 .. q - 1 :
                        p \in s /\ p \in t /\ \A o \in p + 1 .. q - 1 : o \in s \/ o \in t
           U == {b \in Nat : b <= 31 => (b \in d <=> Into(b))}
<1>0. Width = 32 /\ Bit = 0 .. 31
  BY Sizes
<1>1. ~ Into(0) /\ \A b \in Nat : Into(b + 1) <=> Majority(b \in s, b \in t, Into(b))
  BY CarryLookahead
<1>2. Sum(s, t) = {b \in Bit : ((b \in s) # (b \in t)) # Into(b)}
  BY DEF Sum
<1>3. \A q : Into(q) \in BOOLEAN
  OBVIOUS
<1> HIDE DEF Into
<1>4. 0 \in U
  BY <1>0, <1>1
<1>5. ASSUME NEW b \in Nat, b \in U PROVE b + 1 \in U
  <2> SUFFICES ASSUME b + 1 <= 31 PROVE b + 1 \in d <=> Into(b + 1)
    OBVIOUS
  <2>1. b \in d <=> Into(b)
    BY <1>5
  <2>2. b + 1 \in Bit /\ b + 1 \in 1 .. Width - 1 /\ (b + 1) - 1 = b
    BY <1>0
  <2>3. b + 1 \in d <=> Majority(b \in s, b \in t, b \in d)
    BY <2>2
  <2> QED
    BY <1>1, <2>1, <2>3 DEF Majority
<1> HIDE DEF U
<1>6. Nat \subseteq U
  BY <1>4, <1>5, SetInduction
<1>7. \A b \in Bit : b \in d <=> Into(b)
  BY <1>0, <1>6 DEF U
<1> QED
  BY <1>2, <1>3, <1>7

(* What the prover's gates compute of the words that are shared.              *)
PlainGate(op, v1, v2, v3) == IF op = "ADD" THEN Sum(v1, v2) ELSE PlainProduct(op, v1, v2, v3)

LEMMA GatesReconstruct ==
  ASSUME NEW op \in {"ADD", "CH", "MAJ"}, NEW s1 \in Shares, NEW s2 \in Shares,
         NEW s3 \in Shares, NEW r \in Shares
  PROVE  LET t == Opening(op, s1, s2, s3, r)
             v == GateValue(op, s1, s2, s3, t)
         IN  /\ t \in Shares /\ v \in Shares
             /\ Recon(v) = PlainGate(op, Recon(s1), Recon(s2), Recon(s3))
<1>1. CASE op = "ADD"
  <2> DEFINE t == Carries(s1, s2, r)
             v == XorShares(XorShares(s1, s2), t)
  <2>1. t \in Shares /\ CarriesUpTo(t, s1, s2, r, Width - 1)
    BY CarriesAre
  <2> HIDE DEF t
  <2>2. v \in Shares
    BY <2>1 DEF Shares, XorShares, Xor, Word
  <2>3. \A b \in Bit : b \in Recon(t) <=>
          /\ b \in 1 .. Width - 1
          /\ Majority(b - 1 \in Recon(s1), b - 1 \in Recon(s2), b - 1 \in Recon(t))
    <3>1. Width \in Nat /\ Width - 1 \in Nat
      BY Sizes
    <3> QED
      BY <2>1, <3>1, CarriesReconstruct
  <2>4. Recon(v) = {b \in Bit : ((b \in Recon(s1)) # (b \in Recon(s2))) # (b \in Recon(t))}
    <3>1. \A b : b \in Recon(v) <=>
                  (((b \in Recon(s1)) # (b \in Recon(s2))) # (b \in Recon(t)))
      BY <2>1 DEF Recon, Xor, XorShares, Shares, Party
    <3>2. Recon(v) \subseteq Bit
      BY <2>2 DEF Recon, Xor, Shares, Word, Party
    <3> QED
      BY <3>1, <3>2
  <2>5. Recon(v) = Sum(Recon(s1), Recon(s2))
    BY <2>3, <2>4, CarriesDetermined
  <2> QED
    BY <1>1, <2>1, <2>2, <2>5 DEF Opening, GateValue, PlainGate, t
<1>2. CASE op \in {"CH", "MAJ"}
  <2> DEFINE f == Factors(op, s1, s2, s3)
             t == [j \in Party |-> AndShare(f[1], f[2], r, j)]
             v == Result(op, t, s1, s3)
  <2>1. op \in ProductOps /\ op # "ADD"
    BY <1>2 DEF ProductOps
  <2>2. f[1] \in Shares /\ f[2] \in Shares
    BY <1>2 DEF Factors, XorShares, Xor, Shares, Word
  <2>3. t \in Shares
    <3> HIDE DEF f
    <3> QED
      BY <2>2, NextParty DEF AndShare, Xor, Shares, Word
  <2>4. v \in Shares
    <3> HIDE DEF t
    <3> QED
      BY <1>2, <2>3 DEF Result, XorShares, Xor, Shares, Word
  <2>5. Recon(v) = PlainProduct(op, Recon(s1), Recon(s2), Recon(s3))
    BY <2>1, GateReconstructs
  <2> QED
    BY <2>1, <2>3, <2>4, <2>5 DEF Opening, GateValue, PlainGate
<1> QED
  BY <1>1, <1>2

-----------------------------------------------------------------------------
(* Calls.                                                                     *)

Arity(op) == IF op \in LocalOps \cup {"ADDK"} THEN 1
             ELSE IF op \in {"XOR", "ADD"} THEN 2 ELSE 3

(* A call may be made in iteration i when the words below n are known.         *)
Readable(v, i, n) == v \in Registers \/ (v \in DOMAIN Back /\ i - Back[v] \in 0 .. n - 1)

CallOK(g, i, n) ==
  /\ g.op \in GateOps \cup LocalOps \cup {"XOR"}
  /\ DOMAIN g.src = 1 .. Arity(g.op)
  /\ \A p \in DOMAIN g.src : Readable(g.src[p], i, n)
  /\ g.dst \in Registers \/ (g.dst = "w" /\ i = n /\ n \in 0 .. 63)
  /\ g.n \in 0 .. 31

(* The prover's machine between calls: the words below n are known, and so are *)
(* the openings that have been recorded.                                       *)
Fields == {"e", "key", "rand", "county", "views", "ok", "w", "reg"}

Sound(u, n) ==
  /\ DOMAIN u = Fields /\ u.e = Prover /\ u.ok = TRUE
  /\ u.key = [j \in Party |-> j]
  /\ u.reg \in [Registers -> Shares]
  /\ DOMAIN u.w = 0 .. 63 /\ \A j \in 0 .. n - 1 : u.w[j] \in Shares
  /\ u.rand \in 0 .. TapeWords /\ u.county = u.rand /\ DOMAIN u.views = Rows
  /\ \A row \in Rows : row < u.county => u.views[row] \in Shares

(* The words that a call reads.                                               *)
Arg(u, g, i, p) == Read(u, g.src[p], i)

LEMMA Places ==
  /\ DOMAIN Back = {"w", "w-2", "w-7", "w-15", "w-16"} /\ Back["w"] = 0
  /\ Registers \cap DOMAIN Back = {}
<1>1. DOMAIN Back = {"w", "w-2", "w-7", "w-15", "w-16"} /\ Back["w"] = 0
  BY DEF Back
<1>2. Range(Vars8) = {"a", "b", "c", "d", "e", "f", "g", "h"}
  BY DEF Vars8, Range
<1>3. Range(H8) = {"H0", "H1", "H2", "H3", "H4", "H5", "H6", "H7"}
  BY DEF H8, Range
<1>4. Registers \cap {"w", "w-2", "w-7", "w-15", "w-16"} = {}
  BY <1>2, <1>3 DEF Registers
<1> QED
  BY <1>1, <1>4

LEMMA WriteIs ==
  ASSUME NEW u, NEW v, NEW val, NEW i
  PROVE  Write(u, v, val, i) = IF v \in DOMAIN Back
                               THEN [u EXCEPT !.w[i - Back[v]] = Stored(val)]
                               ELSE [u EXCEPT !.reg[v] = Stored(val)]
  BY DEF Write, Table, Stored

LEMMA StoredWords ==
  ASSUME NEW D, NEW val, DOMAIN val = D
  PROVE  /\ Stored(val) \in [D -> Word]
         /\ val \in [D -> Word] => Stored(val) = val
<1>1. Stored(val) \in [D -> Word]
  BY DEF Stored, Word
<1>2. ASSUME val \in [D -> Word] PROVE Stored(val) = val
  <2>1. \A j \in D : {b \in Bit : b \in val[j]} = val[j]
    BY <1>2 DEF Word
  <2>2. val = [j \in D |-> val[j]]
    BY <1>2
  <2> QED
    BY <2>1, <2>2 DEF Stored
<1> QED
  BY <1>1, <1>2

(* The machine u2 is u with the word val in dst.                              *)
Puts(u, u2, dst, val, i) ==
  /\ DOMAIN u2 = Fields
  /\ u2.e = u.e /\ u2.key = u.key
  /\ dst \in Registers => u2.reg = [u.reg EXCEPT ![dst] = val] /\ u2.w = u.w
  /\ dst = "w" => u2.reg = u.reg /\ u2.w = [u.w EXCEPT ![i] = val]

LEMMA WritePuts ==
  ASSUME NEW u, DOMAIN u = Fields, NEW dst \in Registers \cup {"w"}, NEW val, NEW i \in Int
  PROVE  LET u2 == Write(u, dst, val, i) IN
           /\ Puts(u, u2, dst, Stored(val), i) /\ u2.ok = u.ok
           /\ u2.rand = u.rand /\ u2.county = u.county /\ u2.views = u.views
<1>1. CASE dst = "w"
  <2>1. Write(u, dst, val, i) = [u EXCEPT !.w[i] = Stored(val)]
    BY <1>1, WriteIs, Places
  <2>2. "w" \notin Registers
    BY Places
  <2> QED
    BY <1>1, <2>1, <2>2 DEF Puts, Fields
<1>2. CASE dst \in Registers
  <2>1. dst \notin DOMAIN Back /\ dst # "w"
    BY <1>2, Places
  <2>2. Write(u, dst, val, i) = [u EXCEPT !.reg[dst] = Stored(val)]
    BY <2>1, WriteIs
  <2> QED
    BY <1>2, <2>1, <2>2 DEF Puts, Fields
<1> QED
  BY <1>1, <1>2

(* What Exec does, by the kind of the call.                                    *)
LEMMA ExecIs ==
  ASSUME NEW u, u.ok = TRUE, NEW g, NEW i, DOMAIN g.src = 1 .. Arity(g.op)
  PROVE  /\ g.op \in LocalOps =>
              Exec(u, g, i) =
                Write(u, g.dst, [j \in Parties(u.e) |-> Local(g, Arg(u, g, i, 1)[j])], i)
         /\ g.op = "XOR" =>
              Exec(u, g, i) =
                Write(u, g.dst, XorShares(Arg(u, g, i, 1), Arg(u, g, i, 2)), i)
         /\ g.op = "ADD" =>
              Exec(u, g, i) =
                Gate(u, "ADD", <<Arg(u, g, i, 1), Arg(u, g, i, 2), Arg(u, g, i, 1)>>,
                     g.dst, i)
         /\ g.op = "ADDK" =>
              Exec(u, g, i) =
                Gate(u, "ADD", <<Arg(u, g, i, 1), Constant(u, i), Arg(u, g, i, 1)>>,
                     g.dst, i)
         /\ g.op \in {"CH", "MAJ"} =>
              Exec(u, g, i) =
                Gate(u, g.op, <<Arg(u, g, i, 1), Arg(u, g, i, 2), Arg(u, g, i, 3)>>,
                     g.dst, i)
<1> DEFINE n == Arity(g.op)
           y == Table([p \in DOMAIN g.src |-> Read(u, g.src[p], i)])
<1>0. /\ n \in {1, 2, 3}
      /\ g.op \in {"XOR", "ADD"} => n = 2
      /\ g.op \in {"CH", "MAJ"} => n = 3
  BY DEF Arity, LocalOps
<1>1. y = [p \in 1 .. n |-> Arg(u, g, i, p)]
  BY DEF Table, Arg
<1> HIDE DEF n
<1>2. y[1] = Arg(u, g, i, 1)
  BY <1>0, <1>1
<1>3. n > 1 => y[2] = Arg(u, g, i, 2)
  BY <1>0, <1>1
<1>4. n = 3 => y = <<Arg(u, g, i, 1), Arg(u, g, i, 2), Arg(u, g, i, 3)>>
  BY <1>0, <1>1
<1> HIDE DEF y
<1>5. Exec(u, g, i) =
        CASE ~u.ok -> u
          [] u.ok /\ g.op \in {"COPY", "ROT", "SHR"} ->
               Write(u, g.dst, [j \in Parties(u.e) |-> Local(g, y[1][j])], i)
          [] u.ok /\ g.op = "XOR"  -> Write(u, g.dst, XorShares(y[1], y[2]), i)
          [] u.ok /\ g.op = "K"    -> Write(u, g.dst, Constant(u, i), i)
          [] u.ok /\ g.op = "ADDK" ->
               Gate(u, "ADD", <<y[1], Constant(u, i), y[1]>>, g.dst, i)
          [] u.ok /\ g.op = "ADD"  -> Gate(u, "ADD", <<y[1], y[2], y[1]>>, g.dst, i)
          [] u.ok /\ g.op \in {"CH", "MAJ"} -> Gate(u, g.op, y, g.dst, i)
  BY DEF Exec, y
<1>6. CASE g.op \in LocalOps
  BY <1>2, <1>5, <1>6 DEF LocalOps
<1>7. CASE g.op = "XOR"
  BY <1>0, <1>2, <1>3, <1>5, <1>7 DEF LocalOps
<1>8. CASE g.op = "ADD"
  BY <1>0, <1>2, <1>3, <1>5, <1>8 DEF LocalOps
<1>9. CASE g.op = "ADDK"
  BY <1>2, <1>5, <1>9 DEF LocalOps
<1>10. CASE g.op \in {"CH", "MAJ"}
  BY <1>0, <1>4, <1>5, <1>10 DEF LocalOps
<1> QED
  BY <1>6, <1>7, <1>8, <1>9, <1>10

TapeWord(row) == [j \in Party |-> Tape[j][row]]

(* A gate puts val in dst, records the openings t, and takes a word of the tapes. *)
Records(u, u2, dst, val, t, i) ==
  /\ Puts(u, u2, dst, val, i)
  /\ u2.ok = TRUE /\ u2.rand = u.rand + 1 /\ u2.county = u.county + 1
  /\ u2.views = [u.views EXCEPT ![u.county] = t]

(* A gate of the prover: one word of the tapes, one of the views.             *)
LEMMA ProverGate ==
  ASSUME NEW n, NEW u, Sound(u, n), u.rand \in Rows, NEW op \in {"ADD", "CH", "MAJ"},
         NEW s1, NEW s2, NEW s3,
         NEW dst \in Registers \cup {"w"}, NEW i \in Int
  PROVE  LET t == Opening(op, s1, s2, s3, TapeWord(u.rand))
         IN  Records(u, Gate(u, op, <<s1, s2, s3>>, dst, i), dst,
                     Stored(GateValue(op, s1, s2, s3, t)), t, i)
<1> DEFINE r == TapeWord(u.rand)
           y == <<s1, s2, s3>>
           t == Opening(op, s1, s2, s3, r)
           v == GateValue(op, s1, s2, s3, t)
           u1 == Write(u, dst, v, i)
           u2 == [u1 EXCEPT !.rand = @ + 1, !.county = @ + 1, !.views[u.county] = t]
<1>1. Draw(u, u.rand) = r
  BY DEF Draw, TapeWord, Table, Parties, Sound, Prover
<1>2. Gate(u, op, y, dst, i) = ProveGate(u, op, y, dst, i)
  BY DEF Gate, Sound
<1>3. y[1] = s1 /\ y[2] = s2 /\ y[3] = s3
  OBVIOUS
<1> HIDE DEF y, r
<1>4. ProveGate(u, op, y, dst, i) = u2
  BY <1>1, <1>3 DEF ProveGate, Opening, GateValue
<1>5. /\ Puts(u, u1, dst, Stored(v), i) /\ u1.ok = u.ok
      /\ u1.rand = u.rand /\ u1.county = u.county /\ u1.views = u.views
  <2> HIDE DEF v
  <2> QED
    BY WritePuts DEF Sound
<1> HIDE DEF t, v, u1
<1>6. /\ Puts(u, u2, dst, Stored(v), i)
      /\ u2.ok = TRUE /\ u2.rand = u.rand + 1 /\ u2.county = u.county + 1
      /\ u2.views = [u.views EXCEPT ![u.county] = t]
  BY <1>5 DEF Puts, Fields, Sound
<1> QED
  BY <1>2, <1>4, <1>6 DEF t, v, y, r, Records

(* Places that a call reads hold words.                                       *)
LEMMA ReadKnown ==
  ASSUME NEW n, NEW u, Sound(u, n), NEW v, NEW i, Readable(v, i, n)
  PROVE  Read(u, v, i) \in Shares
<1>1. CASE v \in Registers
  <2>1. v \notin DOMAIN Back
    BY <1>1, Places
  <2> QED
    BY <1>1, <2>1 DEF Read, Sound
<1>2. CASE v \in DOMAIN Back /\ i - Back[v] \in 0 .. n - 1
  BY <1>2 DEF Read, Sound
<1> QED
  BY <1>1, <1>2 DEF Readable

LEMMA Constants ==
  /\ \A i \in 0 .. 63 : k[i] \in Word
  /\ \A q \in 1 .. 8 : hA[q] \in Word
<1>1. \A p : Halves(p) \in Word
  BY DEF Halves, Word
<1>2. \A i \in 0 .. 63 : \E p : k[i] = Halves(p)
  BY DEF k
<1>3. \A q \in 1 .. 8 : \E p : hA[q] = Halves(p)
  BY DEF hA
<1> QED
  BY <1>1, <1>2, <1>3

(* The prover's machine with a word written in dst.                           *)
LEMMA PutsSound ==
  ASSUME NEW n, NEW u, Sound(u, n), NEW u2, NEW i,
         NEW dst, dst \in Registers \/ (dst = "w" /\ i = n /\ n \in 0 .. 63),
         NEW val \in Shares, Puts(u, u2, dst, val, i), u2.ok = TRUE,
         u2.rand \in 0 .. TapeWords, u2.county = u2.rand, DOMAIN u2.views = Rows,
         \A row \in Rows : row < u2.county => u2.views[row] \in Shares
  PROVE  Sound(u2, n) /\ (dst = "w" => Sound(u2, n + 1))
<1>1. CASE dst \in Registers
  <2>1. dst # "w"
    BY <1>1, Places
  <2> QED
    BY <1>1, <2>1 DEF Sound, Puts
<1>2. CASE dst = "w"
  <2>1. /\ u2.reg = u.reg /\ u2.w = [u.w EXCEPT ![n] = val] /\ n \in 0 .. 63
        /\ DOMAIN u.w = 0 .. 63
    BY <1>2, Places DEF Puts, Sound
  <2>2. u2.w[n] = val /\ \A j \in 0 .. n - 1 : u2.w[j] \in Shares
    BY <2>1 DEF Sound
  <2>3. \A j \in 0 .. (n + 1) - 1 : u2.w[j] \in Shares
    BY <2>1, <2>2
  <2>4. /\ DOMAIN u2 = Fields /\ u2.e = Prover /\ u2.key = [j \in Party |-> j]
        /\ u2.reg \in [Registers -> Shares] /\ DOMAIN u2.w = 0 .. 63
    BY <2>1 DEF Puts, Sound
  <2> QED
    BY <2>2, <2>3, <2>4 DEF Sound
<1> QED
  BY <1>1, <1>2

(* What a call computes, on words that are not shared.                        *)
PlainCall(g, i, v1, v2, v3) ==
  CASE g.op \in LocalOps -> PlainLocal(g, v1)
    [] g.op = "XOR"  -> Xor(v1, v2)
    [] g.op = "ADD"  -> Sum(v1, v2)
    [] g.op = "ADDK" -> Sum(v1, k[i])
    [] g.op \in {"CH", "MAJ"} -> PlainProduct(g.op, v1, v2, v3)

Gates(g) == IF g.op \in GateOps THEN 1 ELSE 0

(* Later machines have the openings of earlier ones.                           *)
Keeps(u, u2) == /\ u.county <= u2.county
                /\ \A row \in Rows : row < u.county => u2.views[row] = u.views[row]

(* One call of the prover: it writes shares of the word that the call computes *)
(* of the words that are shared, and a gate takes one word of the tapes.       *)
LEMMA ProverCall ==
  ASSUME NEW i \in 0 .. 63, NEW n, NEW u, Sound(u, n), NEW g, CallOK(g, i, n),
         g.op \in GateOps => u.rand \in Rows
  PROVE  LET u2 == Exec(u, g, i) IN
           /\ \E val \in Shares :
                /\ Puts(u, u2, g.dst, val, i)
                /\ Recon(val) = PlainCall(g, i, Recon(Arg(u, g, i, 1)),
                                  Recon(Arg(u, g, i, 2)), Recon(Arg(u, g, i, 3)))
           /\ Sound(u2, n) /\ (g.dst = "w" => Sound(u2, n + 1))
           /\ u2.rand = u.rand + Gates(g) /\ Keeps(u, u2)
<1> DEFINE u2 == Exec(u, g, i)
           s1 == Arg(u, g, i, 1)    s2 == Arg(u, g, i, 2)    s3 == Arg(u, g, i, 3)
           L  == Arity(g.op)
<1>1. /\ L \in {1, 2, 3} /\ DOMAIN g.src = 1 .. L
      /\ s1 \in Shares /\ (L > 1 => s2 \in Shares) /\ (L = 3 => s3 \in Shares)
  <2>1. L \in {1, 2, 3} /\ DOMAIN g.src = 1 .. L
    BY DEF CallOK, Arity
  <2>2. \A p \in 1 .. L : Arg(u, g, i, p) \in Shares
    BY <2>1, ReadKnown DEF CallOK, Arg
  <2> HIDE DEF L
  <2> QED
    BY <2>1, <2>2
<1>2. /\ g.dst \in Registers \cup {"w"} /\ i \in Int /\ DOMAIN u = Fields /\ u.ok = TRUE
      /\ g.dst \in Registers \/ (g.dst = "w" /\ i = n /\ n \in 0 .. 63)
      /\ Parties(u.e) = Party /\ u.rand \in 0 .. TapeWords /\ u.county = u.rand
  BY DEF CallOK, Sound, Parties
<1>3. ASSUME g.op \notin GateOps
      PROVE  /\ \E val \in Shares :
                  /\ Puts(u, u2, g.dst, val, i) /\ u2 = Write(u, g.dst, val, i)
                  /\ Recon(val) = PlainCall(g, i, Recon(s1), Recon(s2), Recon(s3))
  <2>1. CASE g.op \in LocalOps
    <3> DEFINE v == [j \in Party |-> Local(g, s1[j])]
    <3>1. u2 = Write(u, g.dst, v, i)
      BY <1>1, <1>2, <2>1, ExecIs
    <3>2. Stored(v) \in Shares /\ Recon(Stored(v)) = PlainLocal(g, Recon(s1))
      BY <1>1, <2>1, LocalReconstructs DEF CallOK
    <3>3. PlainCall(g, i, Recon(s1), Recon(s2), Recon(s3)) = PlainLocal(g, Recon(s1))
      BY <2>1 DEF PlainCall, LocalOps
    <3> HIDE DEF v, u2, s1, s2, s3
    <3>4. Stored(Stored(v)) = Stored(v)
      BY <3>2, StoredWords DEF Shares
    <3>5. Write(u, g.dst, v, i) = Write(u, g.dst, Stored(v), i)
      BY <3>4, WriteIs
    <3>6. Puts(u, u2, g.dst, Stored(v), i)
      BY <1>2, <3>1, WritePuts
    <3> QED
      BY <3>1, <3>2, <3>3, <3>5, <3>6
  <2>2. CASE g.op = "XOR"
    <3> DEFINE v == XorShares(s1, s2)
    <3>0. L = 2
      BY <2>2 DEF Arity, LocalOps
    <3>1. u2 = Write(u, g.dst, v, i)
      BY <1>1, <1>2, <2>2, ExecIs
    <3>2. v \in Shares /\ Recon(v) = Xor(Recon(s1), Recon(s2))
      <4> HIDE DEF s1, s2
      <4>1. s1 \in Shares /\ s2 \in Shares
        BY <1>1, <3>0
      <4> QED
        BY <4>1 DEF XorShares, Recon, Xor, Shares, Word, Party
    <3>3. PlainCall(g, i, Recon(s1), Recon(s2), Recon(s3)) = Xor(Recon(s1), Recon(s2))
      BY <2>2 DEF PlainCall, LocalOps
    <3> HIDE DEF v, u2, s1, s2, s3
    <3>4. Stored(v) = v
      BY <3>2, StoredWords DEF Shares
    <3>5. Puts(u, u2, g.dst, v, i)
      BY <1>2, <3>1, <3>4, WritePuts
    <3> QED
      BY <3>1, <3>2, <3>3, <3>5
  <2> QED
    BY <1>3, <2>1, <2>2 DEF CallOK, GateOps
<1>4. ASSUME g.op \in GateOps
      PROVE  \E val \in Shares, t \in Shares :
               /\ Puts(u, u2, g.dst, val, i)
               /\ Recon(val) = PlainCall(g, i, Recon(s1), Recon(s2), Recon(s3))
               /\ u2.ok = TRUE /\ u2.rand = u.rand + 1 /\ u2.county = u.county + 1
               /\ u2.views = [u.views EXCEPT ![u.county] = t]
  <2> DEFINE op == IF g.op = "ADDK" THEN "ADD" ELSE g.op
             y2 == IF g.op = "ADDK" THEN Constant(u, i) ELSE s2
             y3 == IF g.op \in {"CH", "MAJ"} THEN s3 ELSE s1
             r  == TapeWord(u.rand)
             t  == Opening(op, s1, y2, y3, r)
             v  == GateValue(op, s1, y2, y3, t)
  <2>1. u2 = Gate(u, op, <<s1, y2, y3>>, g.dst, i)
    <3>1. CASE g.op = "ADD"
      <4>1. op = "ADD" /\ y2 = s2 /\ y3 = s1
        BY <3>1
      <4>2. u2 = Gate(u, "ADD", <<s1, s2, s1>>, g.dst, i)
        BY <1>1, <1>2, <3>1, ExecIs
      <4> HIDE DEF op, y2, y3, u2, s1, s2, s3
      <4> QED
        BY <4>1, <4>2
    <3>2. CASE g.op = "ADDK"
      <4>1. op = "ADD" /\ y2 = Constant(u, i) /\ y3 = s1
        BY <3>2
      <4>2. u2 = Gate(u, "ADD", <<s1, Constant(u, i), s1>>, g.dst, i)
        BY <1>1, <1>2, <3>2, ExecIs
      <4> HIDE DEF op, y2, y3, u2, s1, s2, s3
      <4> QED
        BY <4>1, <4>2
    <3>3. CASE g.op \in {"CH", "MAJ"}
      <4>1. op = g.op /\ y2 = s2 /\ y3 = s3
        BY <3>3
      <4>2. u2 = Gate(u, g.op, <<s1, s2, s3>>, g.dst, i)
        BY <1>1, <1>2, <3>3, ExecIs
      <4> HIDE DEF op, y2, y3, u2, s1, s2, s3
      <4> QED
        BY <4>1, <4>2
    <3> HIDE DEF op, y2, y3, u2, s1, s2, s3
    <3> QED
      BY <1>4, <3>1, <3>2, <3>3 DEF GateOps
  <2>2. s1 \in Shares /\ y2 \in Shares /\ y3 \in Shares /\ r \in Shares
    <3>1. Constant(u, i) \in Shares
      BY <1>2, Constants DEF Constant, Shares
    <3>2. r \in Shares
      <4>1. u.rand \in Rows
        BY <1>4
      <4> QED
        BY <4>1, Sizes DEF TapeWord, Shares
    <3>3. /\ g.op = "ADD" => L = 2
          /\ g.op \in {"CH", "MAJ"} => L = 3
      BY DEF Arity, LocalOps
    <3> HIDE DEF s1, s2, s3, r, L
    <3> QED
      BY <1>1, <1>4, <3>1, <3>2, <3>3 DEF GateOps
  <2>3. op \in {"ADD", "CH", "MAJ"}
    BY <1>4 DEF GateOps
  <2>4. t \in Shares /\ v \in Shares
        /\ Recon(v) = PlainGate(op, Recon(s1), Recon(y2), Recon(y3))
    <3> HIDE DEF op, y2, y3, r, s1
    <3> QED
      BY <2>2, <2>3, GatesReconstruct
  <2>5. PlainGate(op, Recon(s1), Recon(y2), Recon(y3))
          = PlainCall(g, i, Recon(s1), Recon(s2), Recon(s3))
    <3>1. Recon(Constant(u, i)) = k[i]
      BY <1>2 DEF Recon, Constant, Xor, Party
    <3> HIDE DEF s1, s2, s3
    <3> QED
      BY <1>4, <3>1 DEF PlainGate, PlainCall, GateOps, LocalOps
  <2>6. /\ Puts(u, u2, g.dst, Stored(v), i)
        /\ u2.ok = TRUE /\ u2.rand = u.rand + 1 /\ u2.county = u.county + 1
        /\ u2.views = [u.views EXCEPT ![u.county] = t]
    <3> HIDE DEF op, y2, y3, s1
    <3> DEFINE G == Gate(u, op, <<s1, y2, y3>>, g.dst, i)
               T == Opening(op, s1, y2, y3, TapeWord(u.rand))
    <3>1. u.rand \in Rows /\ i \in Int /\ g.dst \in Registers \cup {"w"} /\ Sound(u, n)
      BY <1>2, <1>4
    <3>2. Records(u, G, g.dst, Stored(GateValue(op, s1, y2, y3, T)), T, i)
      <4>1. \A d \in Registers \cup {"w"} :
              Records(u, Gate(u, op, <<s1, y2, y3>>, d, i), d,
                Stored(GateValue(op, s1, y2, y3, Opening(op, s1, y2, y3, TapeWord(u.rand)))),
                Opening(op, s1, y2, y3, TapeWord(u.rand)), i)
        BY <2>3, <3>1, ProverGate
      <4> QED
        BY <3>1, <4>1
    <3>4. T = t /\ GateValue(op, s1, y2, y3, T) = v
      OBVIOUS
    <3> HIDE DEF T
    <3> HIDE DEF G, u2, v, t
    <3>3. u2 = G
      BY <2>1 DEF G
    <3> QED
      BY <3>2, <3>3, <3>4 DEF Records
  <2>7. Stored(v) = v
    <3> HIDE DEF v
    <3> QED
      BY <2>4, StoredWords DEF Shares
  <2> HIDE DEF v, t, u2
  <2> QED
    BY <2>4, <2>5, <2>6, <2>7
<1> HIDE DEF s1, s2, s3, L
<1>5. CASE g.op \notin GateOps
  <2>1. PICK val \in Shares :
          /\ Puts(u, u2, g.dst, val, i) /\ u2 = Write(u, g.dst, val, i)
          /\ Recon(val) = PlainCall(g, i, Recon(s1), Recon(s2), Recon(s3))
    BY <1>3, <1>5
  <2>2. /\ u2.ok = u.ok /\ u2.rand = u.rand /\ u2.county = u.county
        /\ u2.views = u.views
    BY <1>2, <2>1, WritePuts
  <2> HIDE DEF u2
  <2>3. Sound(u2, n) /\ (g.dst = "w" => Sound(u2, n + 1))
    <3>1. /\ DOMAIN u2.views = Rows
          /\ \A row \in Rows : row < u2.county => u2.views[row] \in Shares
      BY <2>2 DEF Sound
    <3> QED
      BY <1>2, <2>1, <2>2, <3>1, PutsSound
  <2>4. u2.rand = u.rand + Gates(g) /\ Keeps(u, u2)
    BY <1>2, <1>5, <2>2 DEF Gates, Keeps
  <2> QED
    BY <2>1, <2>3, <2>4 DEF u2, s1, s2, s3
<1>6. CASE g.op \in GateOps
  <2>1. PICK val \in Shares, t \in Shares :
          /\ Puts(u, u2, g.dst, val, i)
          /\ Recon(val) = PlainCall(g, i, Recon(s1), Recon(s2), Recon(s3))
          /\ u2.ok = TRUE /\ u2.rand = u.rand + 1 /\ u2.county = u.county + 1
          /\ u2.views = [u.views EXCEPT ![u.county] = t]
    BY <1>4, <1>6
  <2> HIDE DEF u2
  <2>2. /\ DOMAIN u2.views = Rows
        /\ \A row \in Rows : row < u2.county => u2.views[row] \in Shares
        /\ \A row \in Rows : row < u.county => u2.views[row] = u.views[row]
    <3>1. /\ DOMAIN u.views = Rows /\ u.county \in Nat
          /\ \A row \in Rows : row < u.county => u.views[row] \in Shares
      BY <1>2 DEF Sound
    <3>2. \A row \in Rows : row \in Nat
      BY Sizes DEF Rows
    <3> QED
      BY <2>1, <3>1, <3>2
  <2>3. Sound(u2, n) /\ (g.dst = "w" => Sound(u2, n + 1))
    <3>1. u2.rand \in 0 .. TapeWords /\ u2.county = u2.rand /\ u2.ok = TRUE
      <4>1. u.rand \in 0 .. TapeWords - 1 /\ TapeWords \in Nat
        BY <1>6, Sizes DEF Rows
      <4> QED
        BY <1>2, <2>1, <4>1
    <3>2. Puts(u, u2, g.dst, val, i)
      BY <2>1
    <3> QED
      BY <1>2, <2>2, <3>1, <3>2, PutsSound
  <2>4. u2.rand = u.rand + Gates(g) /\ Keeps(u, u2)
    BY <1>2, <1>6, <2>1, <2>2 DEF Gates, Keeps
  <2> QED
    BY <2>1, <2>3, <2>4 DEF u2, s1, s2, s3
<1> QED
  BY <1>5, <1>6

(***************************************************************************)
(* Programs on the prover's machine.                                       *)
(***************************************************************************)
(* The calls of a program may be made in iteration i.                         *)
ProgramOK(program, i, n) ==
  /\ Len(program) \in Nat
  /\ \A p \in 1 .. Len(program) : CallOK(program[p], i, n)

(* C[p] is the number of gates among the first p calls.                        *)
Costs(C, program) ==
  /\ C[0] = 0
  /\ \A p \in 1 .. Len(program) : C[p] = C[p - 1] + Gates(program[p])
  /\ \A p \in 0 .. Len(program) : C[p] \in Nat /\ C[p] <= C[Len(program)]

(* From u the prover comes to u2, with cost words of the tapes.                *)
Goes(u, u2, n, cost) == Sound(u2, n) /\ u2.rand = u.rand + cost /\ Keeps(u, u2)

(* A call puts shares of what it computes in dst.                             *)
Computes(u, u2, g, i) ==
  \E val \in Shares :
    /\ Puts(u, u2, g.dst, val, i)
    /\ Recon(val) = PlainCall(g, i, Recon(Arg(u, g, i, 1)), Recon(Arg(u, g, i, 2)),
                              Recon(Arg(u, g, i, 3)))

LEMMA GoesOn ==
  ASSUME NEW n, NEW n1, NEW n2, NEW u, Sound(u, n1), NEW u2, NEW u3,
         NEW c1 \in Nat, NEW c2 \in Nat,
         Goes(u, u2, n, c1), Goes(u2, u3, n2, c2)
  PROVE  Goes(u, u3, n2, c1 + c2)
<1>1. /\ u.county \in Nat /\ u2.county \in Nat /\ u3.county \in Nat
      /\ u.rand \in Nat /\ u2.rand \in Nat
  BY DEF Goes, Sound
<1>2. Keeps(u, u3)
  <2>1. \A row \in Rows : row \in Nat
    BY Sizes DEF Rows
  <2> QED
    BY <1>1, <2>1 DEF Goes, Keeps
<1> QED
  BY <1>1, <1>2 DEF Goes

LEMMA RunSound ==
  ASSUME NEW i \in 0 .. 63, NEW n, NEW u, Sound(u, n),
         NEW program, ProgramOK(program, i, n), NEW C, Costs(C, program),
         u.rand + C[Len(program)] <= TapeWords,
         NEW g, IsTrace(g, u, program, i)
  PROVE  /\ \A p \in 0 .. Len(program) : Goes(u, g[p], n, C[p])
         /\ \A p \in 1 .. Len(program) :
              /\ Computes(g[p - 1], g[p], program[p], i) /\ Keeps(g[p - 1], g[p])
              /\ program[p].dst = "w" => Sound(g[p], n + 1)
<1> DEFINE L == Len(program)
           After(p) == /\ Goes(u, g[p], n, C[p])
                       /\ p > 0 => /\ Computes(g[p - 1], g[p], program[p], i)
                                   /\ Keeps(g[p - 1], g[p])
                                   /\ program[p].dst = "w" => Sound(g[p], n + 1)
           T == {p \in Nat : p <= L => After(p)}
<1>0. L \in Nat
  BY DEF ProgramOK
<1>1. 0 \in T
  <2>1. g[0] = u /\ C[0] = 0 /\ u.rand \in Nat /\ u.county \in Nat
    BY DEF IsTrace, Costs, Sound
  <2>2. Goes(u, u, n, 0)
    BY <2>1 DEF Goes, Keeps
  <2> QED
    BY <2>1, <2>2
<1>2. ASSUME NEW p \in Nat, p \in T PROVE p + 1 \in T
  <2> SUFFICES ASSUME p + 1 <= L PROVE After(p + 1)
    OBVIOUS
  <2> DEFINE u1 == g[p]    q == program[p + 1]    u2 == Exec(u1, q, i)
  <2>1. p + 1 \in 1 .. L /\ p <= L /\ p \in 0 .. L /\ (p + 1) - 1 = p
    BY <1>0
  <2>2. g[p + 1] = u2 /\ C[p + 1] = C[p] + Gates(q) /\ CallOK(q, i, n)
        /\ C[p] \in Nat /\ C[p + 1] \in Nat /\ C[p + 1] <= C[L]
    BY <2>1 DEF IsTrace, Costs, ProgramOK
  <2>3. Goes(u, u1, n, C[p])
    BY <1>2, <2>1
  <2>4. Sound(u1, n) /\ u1.rand = u.rand + C[p] /\ u.rand \in Nat
    BY <2>3 DEF Goes, Sound
  <2>5. q.op \in GateOps => u1.rand \in Rows
    <3> SUFFICES ASSUME q.op \in GateOps PROVE u1.rand \in Rows
      OBVIOUS
    <3>1. C[p + 1] = C[p] + 1
      BY <2>2 DEF Gates
    <3>2. C[L] \in Nat /\ TapeWords \in Nat
      <4>1. L \in 0 .. L
        BY <1>0
      <4> QED
        BY <4>1, Sizes DEF Costs
    <3> QED
      BY <2>2, <2>4, <3>1, <3>2 DEF Rows
  <2> HIDE DEF u1, q
  <2>6. /\ \E val \in Shares :
             /\ Puts(u1, u2, q.dst, val, i)
             /\ Recon(val) = PlainCall(q, i, Recon(Arg(u1, q, i, 1)),
                               Recon(Arg(u1, q, i, 2)), Recon(Arg(u1, q, i, 3)))
        /\ Sound(u2, n) /\ (q.dst = "w" => Sound(u2, n + 1))
        /\ u2.rand = u1.rand + Gates(q) /\ Keeps(u1, u2)
    BY <2>2, <2>4, <2>5, ProverCall
  <2> HIDE DEF u2
  <2>7. Computes(u1, u2, q, i)
    BY <2>6 DEF Computes
  <2>8. Goes(u1, u2, n, Gates(q)) /\ Gates(q) \in Nat
    BY <2>6 DEF Goes, Gates
  <2>9. Goes(u, u2, n, C[p] + Gates(q))
    BY <2>2, <2>3, <2>8, GoesOn
  <2> QED
    BY <2>1, <2>2, <2>6, <2>7, <2>9 DEF u1, q
<1> HIDE DEF After
<1>3. Nat \subseteq T
  <2> HIDE DEF T
  <2> QED
    BY <1>1, <1>2, SetInduction
<1>4. \A p \in 0 .. L : After(p)
  BY <1>0, <1>3
<1> QED
  BY <1>0, <1>4 DEF After

(* Programs and their composition.                                            *)
IsList(s) == \E S : s \in Seq(S)

LEMMA ListComposed ==
  ASSUME NEW s, IsList(s), NEW t, IsList(t)
  PROVE  /\ IsList(s \o t)
         /\ Len(s) \in Nat /\ Len(t) \in Nat /\ Len(s \o t) = Len(s) + Len(t)
         /\ \A p \in 1 .. Len(s) : (s \o t)[p] = s[p]
         /\ \A p \in 1 .. Len(t) : (s \o t)[Len(s) + p] = t[p]
<1>1. PICK S : s \in Seq(S)
  BY DEF IsList
<1>2. PICK S2 : t \in Seq(S2)
  BY DEF IsList
<1>3. s \in Seq(S \cup S2) /\ t \in Seq(S \cup S2)
  BY <1>1, <1>2
<1>4. s \o t \in Seq(S \cup S2)
  BY <1>3
<1> QED
  BY <1>3, <1>4 DEF IsList

LEMMA SigmaList ==
  ASSUME NEW v, NEW q1, NEW q2, NEW third, NEW s
  PROVE  IsList(Sigma(v, q1, q2, third, s)) /\ Len(Sigma(v, q1, q2, third, s)) = 5
<1> DEFINE c1 == ROT(v, q1, "t0")       c2 == ROT(v, q2, "t1")
           c3 == XOR("t0", "t1", "t0")  c5 == XOR("t0", "t1", s)
<1>1. Sigma(v, q1, q2, third, s) = <<c1, c2, c3, third, c5>>
  BY DEF Sigma
<1> HIDE DEF c1, c2, c3, c5
<1>2. <<c1, c2, c3, third, c5>> \in Seq({c1, c2, c3, third, c5})
  OBVIOUS
<1> QED
  BY <1>1, <1>2 DEF IsList

LEMMA TraceSplit ==
  ASSUME NEW s, IsList(s), NEW t, IsList(t), NEW u, NEW i, NEW g,
         IsTrace(g, u, s \o t, i)
  PROVE  /\ IsTrace(g, u, s, i)
         /\ \E h : /\ IsTrace(h, g[Len(s)], t, i)
                   /\ h[Len(t)] = g[Len(s \o t)]
<1>1. /\ Len(s) \in Nat /\ Len(t) \in Nat /\ Len(s \o t) = Len(s) + Len(t)
      /\ \A p \in 1 .. Len(s) : (s \o t)[p] = s[p]
      /\ \A p \in 1 .. Len(t) : (s \o t)[Len(s) + p] = t[p]
  BY ListComposed
<1> DEFINE l == Len(s)
           h == [p \in 0 .. Len(t) |-> g[l + p]]
<1>2. IsTrace(g, u, s, i)
  <2>1. ASSUME NEW p \in 1 .. Len(s) PROVE g[p] = Exec(g[p - 1], s[p], i)
    <3>1. p \in 1 .. Len(s \o t)
      BY <1>1
    <3> QED
      BY <1>1, <3>1 DEF IsTrace
  <2> QED
    BY <2>1 DEF IsTrace
<1>3. IsTrace(h, g[l], t, i)
  <2>1. h[0] = g[l]
    BY <1>1
  <2>2. ASSUME NEW p \in 1 .. Len(t) PROVE h[p] = Exec(h[p - 1], t[p], i)
    <3>1. l + p \in 1 .. Len(s \o t) /\ p - 1 \in 0 .. Len(t) /\ p \in 0 .. Len(t)
          /\ l + (p - 1) = (l + p) - 1
      BY <1>1
    <3>2. h[p] = g[l + p] /\ h[p - 1] = g[(l + p) - 1]
      BY <3>1
    <3> HIDE DEF h
    <3> QED
      BY <1>1, <3>1, <3>2 DEF IsTrace
  <2> HIDE DEF h
  <2> QED
    BY <2>1, <2>2 DEF IsTrace
<1>4. h[Len(t)] = g[Len(s \o t)]
  BY <1>1
<1> QED
  BY <1>2, <1>3, <1>4

-----------------------------------------------------------------------------
(* What the words stand for.                                                  *)

Val(u, v, i) == Recon(Read(u, v, i))

(* The words that may be read stand for what they stood for, and dst for val.  *)
Sets(u, u2, dst, val, i, n) ==
  /\ Val(u2, dst, i) = val
  /\ \A v : Readable(v, i, n) /\ v # dst => Val(u2, v, i) = Val(u, v, i)
  /\ dst \in Registers => u2.w = u.w
  /\ dst = "w" => \A j \in 0 .. n - 1 : u2.w[j] = u.w[j]

PlainResult(u, g, i) ==
  PlainCall(g, i, Val(u, g.src[1], i), Val(u, g.src[2], i), Val(u, g.src[3], i))

LEMMA CallSets ==
  ASSUME NEW i \in 0 .. 63, NEW n, NEW u, Sound(u, n), NEW g, CallOK(g, i, n), NEW u2,
         Computes(u, u2, g, i)
  PROVE  Sets(u, u2, g.dst, PlainResult(u, g, i), i, n)
<1>1. PICK val \in Shares :
        /\ Puts(u, u2, g.dst, val, i)
        /\ Recon(val) = PlainResult(u, g, i)
  BY DEF Computes, PlainResult, Val, Arg
<1>2. /\ DOMAIN u.reg = Registers /\ DOMAIN u.w = 0 .. 63
      /\ g.dst \in Registers \/ (g.dst = "w" /\ i = n /\ n \in 0 .. 63)
  BY DEF Sound, CallOK
<1>3. CASE g.dst \in Registers
  <2>1. g.dst # "w" /\ g.dst \notin DOMAIN Back
    BY <1>3, Places
  <2>2. u2.reg = [u.reg EXCEPT ![g.dst] = val] /\ u2.w = u.w
    BY <1>1, <1>3 DEF Puts
  <2>3. Read(u2, g.dst, i) = val
    BY <1>2, <1>3, <2>1, <2>2 DEF Read
  <2>4. ASSUME NEW v, Readable(v, i, n), v # g.dst PROVE Read(u2, v, i) = Read(u, v, i)
    <3>1. CASE v \in Registers
      BY <1>2, <2>2, <2>4, <3>1, Places DEF Read
    <3>2. CASE v \in DOMAIN Back
      BY <2>2, <3>2 DEF Read
    <3> QED
      BY <2>4, <3>1, <3>2 DEF Readable
  <2> QED
    BY <1>1, <2>1, <2>2, <2>3, <2>4 DEF Sets, Val
<1>4. CASE g.dst = "w"
  <2>1. "w" \notin Registers /\ "w" \in DOMAIN Back /\ Back["w"] = 0 /\ i = n /\ i - 0 = i
    BY <1>2, <1>4, Places
  <2>2. u2.reg = u.reg /\ u2.w = [u.w EXCEPT ![i] = val]
    BY <1>1, <1>4 DEF Puts
  <2>3. Read(u2, g.dst, i) = val
    BY <1>2, <1>4, <2>1, <2>2 DEF Read
  <2>4. ASSUME NEW v, Readable(v, i, n), v # g.dst PROVE Read(u2, v, i) = Read(u, v, i)
    <3>1. CASE v \in Registers
      BY <2>2, <3>1, Places DEF Read
    <3>2. CASE v \in DOMAIN Back /\ i - Back[v] \in 0 .. n - 1
      <4>1. i - Back[v] \in 0 .. 63 /\ i - Back[v] # i
        BY <1>2, <2>1, <3>2
      <4>2. u2.w[i - Back[v]] = u.w[i - Back[v]]
        BY <1>2, <2>2, <4>1
      <4> QED
        BY <3>2, <4>2 DEF Read
    <3> QED
      BY <2>4, <3>1, <3>2 DEF Readable
  <2>5. \A j \in 0 .. n - 1 : u2.w[j] = u.w[j]
    BY <1>2, <2>1, <2>2
  <2> QED
    BY <1>1, <1>4, <2>1, <2>3, <2>4, <2>5 DEF Sets, Val
<1> QED
  BY <1>2, <1>3, <1>4

(* A program in a trace of the prover, by what its calls compute.             *)
Evaluates(g, u, program, i, n, C) ==
  /\ \A p \in 0 .. Len(program) : Goes(u, g[p], n, C[p])
  /\ \A p \in 1 .. Len(program) :
       /\ Sets(g[p - 1], g[p], program[p].dst, PlainResult(g[p - 1], program[p], i), i, n)
       /\ program[p].dst = "w" => Sound(g[p], n + 1)

LEMMA RunEvaluates ==
  ASSUME NEW i \in 0 .. 63, NEW n, NEW u, Sound(u, n),
         NEW program, ProgramOK(program, i, n), NEW C, Costs(C, program),
         u.rand + C[Len(program)] <= TapeWords,
         NEW g, IsTrace(g, u, program, i)
  PROVE  Evaluates(g, u, program, i, n, C)
<1>1. /\ \A p \in 0 .. Len(program) : Goes(u, g[p], n, C[p])
      /\ \A p \in 1 .. Len(program) :
           /\ Computes(g[p - 1], g[p], program[p], i)
           /\ program[p].dst = "w" => Sound(g[p], n + 1)
  BY RunSound
<1>2. ASSUME NEW p \in 1 .. Len(program)
      PROVE  Sets(g[p - 1], g[p], program[p].dst, PlainResult(g[p - 1], program[p], i), i, n)
  <2>1. p - 1 \in 0 .. Len(program) /\ CallOK(program[p], i, n)
    BY DEF ProgramOK
  <2>2. Sound(g[p - 1], n)
    BY <1>1, <2>1 DEF Goes
  <2> DEFINE u1 == g[p - 1]   u2 == g[p]   q == program[p]
  <2>3. Computes(u1, u2, q, i)
    BY <1>1
  <2> HIDE DEF u1, u2, q
  <2>4. Sound(u1, n) /\ CallOK(q, i, n)
    BY <2>1, <2>2 DEF u1, q
  <2>5. Sets(u1, u2, q.dst, PlainResult(u1, q, i), i, n)
    BY <2>3, <2>4, CallSets
  <2> QED
    BY <2>5 DEF u1, u2, q
<1> QED
  BY <1>1, <1>2 DEF Evaluates

(* Words that may be read are words.                                          *)
LEMMA ValWord ==
  ASSUME NEW n, NEW u, Sound(u, n), NEW i, NEW v, Readable(v, i, n)
  PROVE  Val(u, v, i) \in Word
<1>1. Read(u, v, i) \in Shares
  BY ReadKnown
<1> DEFINE s == Read(u, v, i)
<1> HIDE DEF s
<1>2. s \in Shares => Recon(s) \in Word
  BY DEF Recon, Xor, Shares, Word, Party
<1> QED
  BY <1>1, <1>2 DEF Val, s

(* The calls that the programs make.                                          *)
Writable(d, i, n) == d \in Registers \/ (d = "w" /\ i = n /\ n \in 0 .. 63)

LEMMA RotCall ==
  ASSUME NEW v1, NEW d, NEW q
  PROVE  /\ \A i, n : Readable(v1, i, n) /\ Writable(d, i, n) /\ q \in 0 .. 31 => CallOK(ROT(v1, q, d), i, n)
         /\ ROT(v1, q, d).dst = d /\ Gates(ROT(v1, q, d)) = 0
         /\ \A u, i : PlainResult(u, ROT(v1, q, d), i) = Rotr(Val(u, v1, i), q)
<1> DEFINE g == ROT(v1, q, d)
<1>1. /\ g.op = "ROT" /\ g.src = <<v1>> /\ g.dst = d
      /\ g.n = q /\ DOMAIN g.src = 1 .. 1
      /\ g.src[1] = v1
  BY DEF ROT, Call
<1>2. Arity("ROT") = 1
  BY DEF Arity, LocalOps
<1> HIDE DEF g
<1>3. \A i, n : Readable(v1, i, n) /\ Writable(d, i, n) /\ q \in 0 .. 31 => CallOK(g, i, n)
  BY <1>1, <1>2 DEF CallOK, GateOps, LocalOps, Writable
<1>4. Gates(g) = 0
  BY <1>1 DEF Gates, GateOps
<1>5. \A u, i : PlainResult(u, g, i) = Rotr(Val(u, v1, i), q)
  BY <1>1 DEF PlainResult, PlainCall, PlainLocal, LocalOps
<1> QED
  BY <1>1, <1>3, <1>4, <1>5 DEF g

LEMMA ShrCall ==
  ASSUME NEW v1, NEW d, NEW q
  PROVE  /\ \A i, n : Readable(v1, i, n) /\ Writable(d, i, n) /\ q \in 0 .. 31 => CallOK(SHR(v1, q, d), i, n)
         /\ SHR(v1, q, d).dst = d /\ Gates(SHR(v1, q, d)) = 0
         /\ \A u, i : PlainResult(u, SHR(v1, q, d), i) = Shr(Val(u, v1, i), q)
<1> DEFINE g == SHR(v1, q, d)
<1>1. /\ g.op = "SHR" /\ g.src = <<v1>> /\ g.dst = d
      /\ g.n = q /\ DOMAIN g.src = 1 .. 1
      /\ g.src[1] = v1
  BY DEF SHR, Call
<1>2. Arity("SHR") = 1
  BY DEF Arity, LocalOps
<1> HIDE DEF g
<1>3. \A i, n : Readable(v1, i, n) /\ Writable(d, i, n) /\ q \in 0 .. 31 => CallOK(g, i, n)
  BY <1>1, <1>2 DEF CallOK, GateOps, LocalOps, Writable
<1>4. Gates(g) = 0
  BY <1>1 DEF Gates, GateOps
<1>5. \A u, i : PlainResult(u, g, i) = Shr(Val(u, v1, i), q)
  BY <1>1 DEF PlainResult, PlainCall, PlainLocal, LocalOps
<1> QED
  BY <1>1, <1>3, <1>4, <1>5 DEF g

LEMMA CopyCall ==
  ASSUME NEW v1, NEW d
  PROVE  /\ \A i, n : Readable(v1, i, n) /\ Writable(d, i, n) => CallOK(COPY(v1, d), i, n)
         /\ COPY(v1, d).dst = d /\ Gates(COPY(v1, d)) = 0
         /\ \A u, i : PlainResult(u, COPY(v1, d), i) = Val(u, v1, i)
<1> DEFINE g == COPY(v1, d)
<1>1. /\ g.op = "COPY" /\ g.src = <<v1>> /\ g.dst = d
      /\ g.n = 0 /\ DOMAIN g.src = 1 .. 1
      /\ g.src[1] = v1
  BY DEF COPY, Call
<1>2. Arity("COPY") = 1
  BY DEF Arity, LocalOps
<1> HIDE DEF g
<1>3. \A i, n : Readable(v1, i, n) /\ Writable(d, i, n) => CallOK(g, i, n)
  BY <1>1, <1>2 DEF CallOK, GateOps, LocalOps, Writable
<1>4. Gates(g) = 0
  BY <1>1 DEF Gates, GateOps
<1>5. \A u, i : PlainResult(u, g, i) = Val(u, v1, i)
  BY <1>1 DEF PlainResult, PlainCall, PlainLocal, LocalOps
<1> QED
  BY <1>1, <1>3, <1>4, <1>5 DEF g

LEMMA AddkCall ==
  ASSUME NEW v1, NEW d
  PROVE  /\ \A i, n : Readable(v1, i, n) /\ Writable(d, i, n) => CallOK(ADDK(v1, d), i, n)
         /\ ADDK(v1, d).dst = d /\ Gates(ADDK(v1, d)) = 1
         /\ \A u, i : PlainResult(u, ADDK(v1, d), i) = Sum(Val(u, v1, i), k[i])
<1> DEFINE g == ADDK(v1, d)
<1>1. /\ g.op = "ADDK" /\ g.src = <<v1>> /\ g.dst = d
      /\ g.n = 0 /\ DOMAIN g.src = 1 .. 1
      /\ g.src[1] = v1
  BY DEF ADDK, Call
<1>2. Arity("ADDK") = 1
  BY DEF Arity, LocalOps
<1> HIDE DEF g
<1>3. \A i, n : Readable(v1, i, n) /\ Writable(d, i, n) => CallOK(g, i, n)
  BY <1>1, <1>2 DEF CallOK, GateOps, LocalOps, Writable
<1>4. Gates(g) = 1
  BY <1>1 DEF Gates, GateOps
<1>5. \A u, i : PlainResult(u, g, i) = Sum(Val(u, v1, i), k[i])
  BY <1>1 DEF PlainResult, PlainCall, PlainLocal, LocalOps
<1> QED
  BY <1>1, <1>3, <1>4, <1>5 DEF g

LEMMA XorCall ==
  ASSUME NEW v1, NEW v2, NEW d
  PROVE  /\ \A i, n : Readable(v1, i, n) /\ Readable(v2, i, n) /\ Writable(d, i, n) => CallOK(XOR(v1, v2, d), i, n)
         /\ XOR(v1, v2, d).dst = d /\ Gates(XOR(v1, v2, d)) = 0
         /\ \A u, i : PlainResult(u, XOR(v1, v2, d), i) = Xor(Val(u, v1, i), Val(u, v2, i))
<1> DEFINE g == XOR(v1, v2, d)
<1>1. /\ g.op = "XOR" /\ g.src = <<v1, v2>> /\ g.dst = d
      /\ g.n = 0 /\ DOMAIN g.src = 1 .. 2
      /\ g.src[1] = v1 /\ g.src[2] = v2
  BY DEF XOR, Call
<1>2. Arity("XOR") = 2
  BY DEF Arity, LocalOps
<1> HIDE DEF g
<1>3. \A i, n : Readable(v1, i, n) /\ Readable(v2, i, n) /\ Writable(d, i, n) => CallOK(g, i, n)
  BY <1>1, <1>2 DEF CallOK, GateOps, LocalOps, Writable
<1>4. Gates(g) = 0
  BY <1>1 DEF Gates, GateOps
<1>5. \A u, i : PlainResult(u, g, i) = Xor(Val(u, v1, i), Val(u, v2, i))
  BY <1>1 DEF PlainResult, PlainCall, PlainLocal, LocalOps
<1> QED
  BY <1>1, <1>3, <1>4, <1>5 DEF g

LEMMA AddCall ==
  ASSUME NEW v1, NEW v2, NEW d
  PROVE  /\ \A i, n : Readable(v1, i, n) /\ Readable(v2, i, n) /\ Writable(d, i, n) => CallOK(ADD(v1, v2, d), i, n)
         /\ ADD(v1, v2, d).dst = d /\ Gates(ADD(v1, v2, d)) = 1
         /\ \A u, i : PlainResult(u, ADD(v1, v2, d), i) = Sum(Val(u, v1, i), Val(u, v2, i))
<1> DEFINE g == ADD(v1, v2, d)
<1>1. /\ g.op = "ADD" /\ g.src = <<v1, v2>> /\ g.dst = d
      /\ g.n = 0 /\ DOMAIN g.src = 1 .. 2
      /\ g.src[1] = v1 /\ g.src[2] = v2
  BY DEF ADD, Call
<1>2. Arity("ADD") = 2
  BY DEF Arity, LocalOps
<1> HIDE DEF g
<1>3. \A i, n : Readable(v1, i, n) /\ Readable(v2, i, n) /\ Writable(d, i, n) => CallOK(g, i, n)
  BY <1>1, <1>2 DEF CallOK, GateOps, LocalOps, Writable
<1>4. Gates(g) = 1
  BY <1>1 DEF Gates, GateOps
<1>5. \A u, i : PlainResult(u, g, i) = Sum(Val(u, v1, i), Val(u, v2, i))
  BY <1>1 DEF PlainResult, PlainCall, PlainLocal, LocalOps
<1> QED
  BY <1>1, <1>3, <1>4, <1>5 DEF g

LEMMA ChCall ==
  ASSUME NEW v1, NEW v2, NEW v3, NEW d
  PROVE  /\ \A i, n : Readable(v1, i, n) /\ Readable(v2, i, n) /\ Readable(v3, i, n) /\ Writable(d, i, n) => CallOK(CH(v1, v2, v3, d), i, n)
         /\ CH(v1, v2, v3, d).dst = d /\ Gates(CH(v1, v2, v3, d)) = 1
         /\ \A u, i : PlainResult(u, CH(v1, v2, v3, d), i) = PlainProduct("CH", Val(u, v1, i), Val(u, v2, i), Val(u, v3, i))
<1> DEFINE g == CH(v1, v2, v3, d)
<1>1. /\ g.op = "CH" /\ g.src = <<v1, v2, v3>> /\ g.dst = d
      /\ g.n = 0 /\ DOMAIN g.src = 1 .. 3
      /\ g.src[1] = v1 /\ g.src[2] = v2 /\ g.src[3] = v3
  BY DEF CH, Call
<1>2. Arity("CH") = 3
  BY DEF Arity, LocalOps
<1> HIDE DEF g
<1>3. \A i, n : Readable(v1, i, n) /\ Readable(v2, i, n) /\ Readable(v3, i, n) /\ Writable(d, i, n) => CallOK(g, i, n)
  BY <1>1, <1>2 DEF CallOK, GateOps, LocalOps, Writable
<1>4. Gates(g) = 1
  BY <1>1 DEF Gates, GateOps
<1>5. \A u, i : PlainResult(u, g, i) = PlainProduct("CH", Val(u, v1, i), Val(u, v2, i), Val(u, v3, i))
  BY <1>1 DEF PlainResult, PlainCall, PlainLocal, LocalOps
<1> QED
  BY <1>1, <1>3, <1>4, <1>5 DEF g

LEMMA MajCall ==
  ASSUME NEW v1, NEW v2, NEW v3, NEW d
  PROVE  /\ \A i, n : Readable(v1, i, n) /\ Readable(v2, i, n) /\ Readable(v3, i, n) /\ Writable(d, i, n) => CallOK(MAJ(v1, v2, v3, d), i, n)
         /\ MAJ(v1, v2, v3, d).dst = d /\ Gates(MAJ(v1, v2, v3, d)) = 1
         /\ \A u, i : PlainResult(u, MAJ(v1, v2, v3, d), i) = PlainProduct("MAJ", Val(u, v1, i), Val(u, v2, i), Val(u, v3, i))
<1> DEFINE g == MAJ(v1, v2, v3, d)
<1>1. /\ g.op = "MAJ" /\ g.src = <<v1, v2, v3>> /\ g.dst = d
      /\ g.n = 0 /\ DOMAIN g.src = 1 .. 3
      /\ g.src[1] = v1 /\ g.src[2] = v2 /\ g.src[3] = v3
  BY DEF MAJ, Call
<1>2. Arity("MAJ") = 3
  BY DEF Arity, LocalOps
<1> HIDE DEF g
<1>3. \A i, n : Readable(v1, i, n) /\ Readable(v2, i, n) /\ Readable(v3, i, n) /\ Writable(d, i, n) => CallOK(g, i, n)
  BY <1>1, <1>2 DEF CallOK, GateOps, LocalOps, Writable
<1>4. Gates(g) = 1
  BY <1>1 DEF Gates, GateOps
<1>5. \A u, i : PlainResult(u, g, i) = PlainProduct("MAJ", Val(u, v1, i), Val(u, v2, i), Val(u, v3, i))
  BY <1>1 DEF PlainResult, PlainCall, PlainLocal, LocalOps
<1> QED
  BY <1>1, <1>3, <1>4, <1>5 DEF g

LEMMA RegisterNames ==
  /\ {"a", "b", "c", "d", "e", "f", "g", "h"} \subseteq Registers
  /\ {"H0", "H1", "H2", "H3", "H4", "H5", "H6", "H7"} \subseteq Registers
  /\ {"s0", "s1", "t0", "t1", "temp1", "temp2", "maj"} \subseteq Registers
  /\ \A v \in Registers : \A i, n : Readable(v, i, n)
<1>1. Range(Vars8) = {"a", "b", "c", "d", "e", "f", "g", "h"}
  BY DEF Vars8, Range
<1>2. Range(H8) = {"H0", "H1", "H2", "H3", "H4", "H5", "H6", "H7"}
  BY DEF H8, Range
<1> QED
  BY <1>1, <1>2 DEF Registers, Readable

(* Nothing but the registers D changes.                                       *)
Leaves(u, u2, D, i, n) ==
  /\ \A v : Readable(v, i, n) /\ v \notin D => Val(u2, v, i) = Val(u, v, i)
  /\ u2.w = u.w

(* A third call that rotates or shifts v into t1.                              *)
IsThird(third, v) == \E q3 \in 0 .. 31 : third \in {ROT(v, q3, "t1"), SHR(v, q3, "t1")}

(* Two rotations and a third word, xored in t0 and t1.                         *)
SigmaOf(u, u2, v, q1, q2, third, s, i, n) ==
  /\ Goes(u, u2, n, 0) /\ Leaves(u, u2, {"t0", "t1", s}, i, n)
  /\ Val(u2, s, i) = Xor3(Rotr(Val(u, v, i), q1), Rotr(Val(u, v, i), q2),
                          PlainResult(u, third, i))

SigmaCalls(program, v, q1, q2, third, s, i, n) ==
  /\ Len(program) = 5
  /\ program[1] = ROT(v, q1, "t0") /\ program[2] = ROT(v, q2, "t1")
  /\ program[3] = XOR("t0", "t1", "t0") /\ program[4] = third
  /\ program[5] = XOR("t0", "t1", s)
  /\ ProgramOK(program, i, n) /\ \E C : Costs(C, program) /\ C[5] = 0

LEMMA SigmaProgram ==
  ASSUME NEW i \in 0 .. 63, NEW n, NEW v, Readable(v, i, n),
         v \notin {"t0", "t1"}, NEW q1 \in 0 .. 31, NEW q2 \in 0 .. 31,
         NEW third, IsThird(third, v), NEW s \in {"s0", "s1"}
  PROVE  SigmaCalls(Sigma(v, q1, q2, third, s), v, q1, q2, third, s, i, n)
<1>0. PICK q3 \in 0 .. 31 : third \in {ROT(v, q3, "t1"), SHR(v, q3, "t1")}
  BY DEF IsThird
<1> DEFINE C == [p \in 0 .. 5 |-> 0]
           program == Sigma(v, q1, q2, third, s)
<1>1. /\ Len(program) = 5
      /\ program[1] = ROT(v, q1, "t0") /\ program[2] = ROT(v, q2, "t1")
      /\ program[3] = XOR("t0", "t1", "t0") /\ program[4] = third
      /\ program[5] = XOR("t0", "t1", s)
  BY DEF Sigma
<1> HIDE DEF program
<1>2. /\ {"t0", "t1", s} \subseteq Registers /\ Readable("t0", i, n) /\ Readable("t1", i, n)
      /\ Readable(s, i, n) /\ s \notin {"t0", "t1"}
      /\ Writable("t0", i, n) /\ Writable("t1", i, n) /\ Writable(s, i, n)
  BY RegisterNames DEF Writable
<1>3. \A p \in 1 .. 5 : CallOK(program[p], i, n)
  <2>1. CallOK(program[1], i, n) /\ CallOK(program[2], i, n) /\ CallOK(program[4], i, n)
    BY <1>0, <1>1, <1>2, RotCall, ShrCall
  <2>2. CallOK(program[3], i, n) /\ CallOK(program[5], i, n)
    BY <1>1, <1>2, XorCall
  <2> QED
    BY <2>1, <2>2
<1>4. ProgramOK(program, i, n)
  BY <1>1, <1>3 DEF ProgramOK
<1>5. Costs(C, program)
  <2>1. \A p \in 1 .. 5 : Gates(program[p]) = 0
    BY <1>0, <1>1, RotCall, ShrCall, XorCall
  <2> QED
    BY <1>1, <2>1 DEF Costs
<1>6. C[5] = 0
  OBVIOUS
<1>7. SigmaCalls(program, v, q1, q2, third, s, i, n)
  BY <1>1, <1>4, <1>5, <1>6 DEF SigmaCalls
<1> QED
  BY <1>7 DEF program

LEMMA SigmaEvaluates ==
  ASSUME NEW i \in 0 .. 63, NEW n, NEW u, Sound(u, n), NEW v, Readable(v, i, n),
         v \notin {"t0", "t1"}, NEW q1 \in 0 .. 31, NEW q2 \in 0 .. 31,
         NEW third, IsThird(third, v), NEW s \in {"s0", "s1"},
         NEW g, IsTrace(g, u, Sigma(v, q1, q2, third, s), i)
  PROVE  SigmaOf(u, g[5], v, q1, q2, third, s, i, n)
<1>0. PICK q3 \in 0 .. 31 : third \in {ROT(v, q3, "t1"), SHR(v, q3, "t1")}
  BY DEF IsThird
<1> DEFINE program == Sigma(v, q1, q2, third, s)
<1>4. SigmaCalls(program, v, q1, q2, third, s, i, n)
  BY SigmaProgram, Zenon
<1> HIDE DEF program
<1>1. /\ Len(program) = 5
      /\ program[1] = ROT(v, q1, "t0") /\ program[2] = ROT(v, q2, "t1")
      /\ program[3] = XOR("t0", "t1", "t0") /\ program[4] = third
      /\ program[5] = XOR("t0", "t1", s)
      /\ ProgramOK(program, i, n)
  BY <1>4 DEF SigmaCalls
<1>2. /\ {"t0", "t1", s} \subseteq Registers /\ Readable("t0", i, n) /\ Readable("t1", i, n)
      /\ Readable(s, i, n) /\ s \notin {"t0", "t1"}
      /\ Writable("t0", i, n) /\ Writable("t1", i, n) /\ Writable(s, i, n)
  BY RegisterNames DEF Writable
<1>5. PICK C : Costs(C, program) /\ C[5] = 0
  BY <1>4 DEF SigmaCalls
<1>6. u.rand + C[Len(program)] <= TapeWords
  BY <1>1, <1>5, Sizes DEF Sound
<1>7. C[5] = 0 /\ g[0] = u
  BY <1>5 DEF IsTrace
<1>8. Evaluates(g, u, program, i, n, C)
  BY <1>1, <1>5, <1>6, RunEvaluates DEF program
<1>9. /\ Goes(u, g[5], n, 0)
      /\ \A p \in 1 .. 5 :
          Sets(g[p - 1], g[p], program[p].dst, PlainResult(g[p - 1], program[p], i), i, n)
  BY <1>1, <1>7, <1>8 DEF Evaluates
<1> DEFINE val == Val(u, v, i)    T(w) == PlainResult(w, third, i)
<1>10. Sets(u, g[1], "t0", Rotr(val, q1), i, n)
  <2>1. Sets(g[1 - 1], g[1], program[1].dst, PlainResult(g[1 - 1], program[1], i), i, n)
    BY <1>9
  <2> QED
    BY <1>1, <1>7, <2>1, RotCall
<1>11. Sets(g[1], g[2], "t1", Rotr(Val(g[1], v, i), q2), i, n)
  <2>1. Sets(g[2 - 1], g[2], program[2].dst, PlainResult(g[2 - 1], program[2], i), i, n)
    BY <1>9
  <2> QED
    BY <1>1, <2>1, RotCall
<1>12. Sets(g[2], g[3], "t0", Xor(Val(g[2], "t0", i), Val(g[2], "t1", i)), i, n)
  <2>1. Sets(g[3 - 1], g[3], program[3].dst, PlainResult(g[3 - 1], program[3], i), i, n)
    BY <1>9
  <2> QED
    BY <1>1, <2>1, XorCall
<1>13. Sets(g[3], g[4], "t1", PlainResult(g[3], third, i), i, n)
  <2>1. Sets(g[4 - 1], g[4], program[4].dst, PlainResult(g[4 - 1], program[4], i), i, n)
    BY <1>9
  <2> QED
    BY <1>0, <1>1, <2>1, RotCall, ShrCall
<1>14. Sets(g[4], g[5], s, Xor(Val(g[4], "t0", i), Val(g[4], "t1", i)), i, n)
  <2>1. Sets(g[5 - 1], g[5], program[5].dst, PlainResult(g[5 - 1], program[5], i), i, n)
    BY <1>9
  <2> QED
    BY <1>1, <2>1, XorCall
<1>15. /\ Val(g[1], v, i) = val /\ Val(g[2], "t0", i) = Rotr(val, q1)
       /\ Val(g[2], "t1", i) = Rotr(val, q2) /\ Val(g[3], v, i) = val
  BY <1>2, <1>10, <1>11, <1>12 DEF Sets
<1>16. PlainResult(g[3], third, i) = PlainResult(u, third, i)
  <2>1. /\ PlainResult(g[3], ROT(v, q3, "t1"), i) = Rotr(Val(g[3], v, i), q3)
        /\ PlainResult(g[3], SHR(v, q3, "t1"), i) = Shr(Val(g[3], v, i), q3)
    BY RotCall, ShrCall
  <2>2. /\ PlainResult(u, ROT(v, q3, "t1"), i) = Rotr(Val(u, v, i), q3)
        /\ PlainResult(u, SHR(v, q3, "t1"), i) = Shr(Val(u, v, i), q3)
    BY RotCall, ShrCall
  <2> QED
    BY <1>0, <1>15, <2>1, <2>2
<1>17. /\ Val(g[4], "t0", i) = Xor(Rotr(val, q1), Rotr(val, q2))
       /\ Val(g[4], "t1", i) = PlainResult(u, third, i)
  BY <1>2, <1>12, <1>13, <1>15, <1>16 DEF Sets
<1>18. Val(g[5], s, i) = Xor(Xor(Rotr(val, q1), Rotr(val, q2)), PlainResult(u, third, i))
  BY <1>14, <1>17 DEF Sets
<1>19. Leaves(u, g[5], {"t0", "t1", s}, i, n)
  BY <1>2, <1>10, <1>11, <1>12, <1>13, <1>14 DEF Sets, Leaves
<1>20. val \in Word /\ PlainResult(u, third, i) \in Word
  <2>1. val \in Word
    BY ValWord
  <2>2. Rotr(val, q3) \in Word /\ Shr(val, q3) \in Word
    BY <2>1, PlainWords
  <2> QED
    BY <1>0, <2>1, <2>2, RotCall, ShrCall
<1>21. Rotr(val, q1) \in Word /\ Rotr(val, q2) \in Word
  BY <1>20, PlainWords
<1> HIDE DEF val
<1>22. \A x1 \in Word, x2 \in Word, x3 \in Word : Xor(Xor(x1, x2), x3) = Xor3(x1, x2, x3)
  BY DEF Xor, Xor3, Word
<1> QED
  BY <1>9, <1>18, <1>19, <1>20, <1>21, <1>22 DEF val, SigmaOf

(* The additions of an iteration of the schedule.                             *)
ExpandSum == <<ADD("w-16", "s0", "t1"), ADD("w-7", "t1", "t1"), ADD("t1", "s1", "w")>>

LEMMA ExpandSumProgram ==
  ASSUME NEW i \in 16 .. 63
  PROVE  /\ Len(ExpandSum) = 3
         /\ ExpandSum[1] = ADD("w-16", "s0", "t1") /\ ExpandSum[2] = ADD("w-7", "t1", "t1")
         /\ ExpandSum[3] = ADD("t1", "s1", "w")
         /\ ProgramOK(ExpandSum, i, i) /\ \E C : Costs(C, ExpandSum) /\ C[3] = 3
<1> DEFINE C == [p \in 0 .. 3 |-> p]
           program == ExpandSum
<1>1. /\ Len(program) = 3
      /\ program[1] = ADD("w-16", "s0", "t1") /\ program[2] = ADD("w-7", "t1", "t1")
      /\ program[3] = ADD("t1", "s1", "w")
  BY DEF ExpandSum
<1> HIDE DEF program
<1>2. /\ \A v \in {"s0", "s1", "t1"} : v \in Registers /\ Readable(v, i, i)
      /\ Readable("w-7", i, i) /\ Readable("w-16", i, i)
      /\ "w" \notin Registers /\ "w-7" \notin Registers /\ "w-16" \notin Registers
      /\ Writable("t1", i, i) /\ Writable("w", i, i)
  <2>1. /\ "w" \notin Registers /\ "w-7" \notin Registers /\ "w-16" \notin Registers
        /\ "w-7" \in DOMAIN Back /\ "w-16" \in DOMAIN Back
    BY Places
  <2>2. Back["w-7"] = 7 /\ Back["w-16"] = 16
    BY DEF Back
  <2>3. \A v \in {"s0", "s1", "t1"} : v \in Registers
    BY RegisterNames
  <2> QED
    BY <2>1, <2>2, <2>3 DEF Readable, Writable
<1>3. ProgramOK(program, i, i)
  <2>1. CallOK(program[1], i, i) /\ CallOK(program[2], i, i) /\ CallOK(program[3], i, i)
    BY <1>1, <1>2, AddCall
  <2> QED
    BY <1>1, <2>1 DEF ProgramOK
<1>4. Costs(C, program)
  <2>1. \A p \in 1 .. 3 : Gates(program[p]) = 1
    BY <1>1, AddCall
  <2> QED
    BY <1>1, <2>1 DEF Costs
<1>5. C[3] = 3
  OBVIOUS
<1> QED
  BY <1>1, <1>3, <1>4, <1>5 DEF program

LEMMA ExpandSumEvaluates ==
  ASSUME NEW i \in 16 .. 63, NEW u, Sound(u, i), u.rand + 3 <= TapeWords,
         NEW g, IsTrace(g, u, ExpandSum, i)
  PROVE  /\ Goes(u, g[3], i + 1, 3)
         /\ \A v \in Registers : v # "t1" => Val(g[3], v, i) = Val(u, v, i)
         /\ \A j \in 0 .. i - 1 : g[3].w[j] = u.w[j]
         /\ Val(g[3], "w", i) =
              Sum(Sum(Val(u, "w-7", i), Sum(Val(u, "w-16", i), Val(u, "s0", i))),
                  Val(u, "s1", i))
<1> DEFINE program == ExpandSum
<1>0. i \in 0 .. 63
  OBVIOUS
<1>1. /\ Len(program) = 3
      /\ program[1] = ADD("w-16", "s0", "t1") /\ program[2] = ADD("w-7", "t1", "t1")
      /\ program[3] = ADD("t1", "s1", "w")
  BY ExpandSumProgram
<1> HIDE DEF program
<1>2. /\ \A v \in {"s0", "s1", "t1"} : v \in Registers /\ Readable(v, i, i)
      /\ Readable("w-7", i, i) /\ Readable("w-16", i, i)
      /\ "w" \notin Registers /\ "w-7" \notin Registers /\ "w-16" \notin Registers
      /\ Writable("t1", i, i) /\ Writable("w", i, i)
  <2>1. /\ "w" \notin Registers /\ "w-7" \notin Registers /\ "w-16" \notin Registers
        /\ "w-7" \in DOMAIN Back /\ "w-16" \in DOMAIN Back
    BY Places
  <2>2. Back["w-7"] = 7 /\ Back["w-16"] = 16
    BY DEF Back
  <2>3. \A v \in {"s0", "s1", "t1"} : v \in Registers
    BY RegisterNames
  <2> QED
    BY <2>1, <2>2, <2>3 DEF Readable, Writable
<1>3. ProgramOK(program, i, i)
  BY ExpandSumProgram DEF program
<1>4. PICK C : Costs(C, program) /\ C[3] = 3
  BY ExpandSumProgram DEF program
<1>5. C[3] = 3 /\ g[0] = u
  BY <1>4 DEF IsTrace
<1>6. Evaluates(g, u, program, i, i, C)
  BY <1>0, <1>1, <1>3, <1>4, <1>5, RunEvaluates DEF program
<1>7. /\ Goes(u, g[3], i, 3)
      /\ \A p \in 1 .. 3 :
          /\ Sets(g[p - 1], g[p], program[p].dst, PlainResult(g[p - 1], program[p], i), i, i)
          /\ program[p].dst = "w" => Sound(g[p], i + 1)
  BY <1>1, <1>5, <1>6 DEF Evaluates
<1>8. Sets(u, g[1], "t1", Sum(Val(u, "w-16", i), Val(u, "s0", i)), i, i)
  <2>1. Sets(g[1 - 1], g[1], program[1].dst, PlainResult(g[1 - 1], program[1], i), i, i)
    BY <1>7
  <2> QED
    BY <1>1, <1>5, <2>1, AddCall
<1>9. Sets(g[1], g[2], "t1", Sum(Val(g[1], "w-7", i), Val(g[1], "t1", i)), i, i)
  <2>1. Sets(g[2 - 1], g[2], program[2].dst, PlainResult(g[2 - 1], program[2], i), i, i)
    BY <1>7
  <2> QED
    BY <1>1, <2>1, AddCall
<1>10. Sets(g[2], g[3], "w", Sum(Val(g[2], "t1", i), Val(g[2], "s1", i)), i, i)
  <2>1. Sets(g[3 - 1], g[3], program[3].dst, PlainResult(g[3 - 1], program[3], i), i, i)
    BY <1>7
  <2> QED
    BY <1>1, <2>1, AddCall
<1>11. Goes(u, g[3], i + 1, 3)
  <2>1. program[3].dst = "w"
    BY <1>1, AddCall
  <2>2. Sound(g[3], i + 1)
    BY <1>7, <2>1
  <2> QED
    BY <1>7, <2>2 DEF Goes
<1>12. \A v \in Registers : v # "t1" => Val(g[3], v, i) = Val(u, v, i)
  BY <1>2, <1>8, <1>9, <1>10, RegisterNames DEF Sets
<1>13. \A j \in 0 .. i - 1 : g[3].w[j] = u.w[j]
  BY <1>2, <1>8, <1>9, <1>10 DEF Sets
<1>14. /\ Val(g[1], "w-7", i) = Val(u, "w-7", i)
       /\ Val(g[1], "t1", i) = Sum(Val(u, "w-16", i), Val(u, "s0", i))
       /\ Val(g[2], "s1", i) = Val(u, "s1", i)
  BY <1>2, <1>8, <1>9 DEF Sets
<1>15. Val(g[2], "t1", i) =
         Sum(Val(u, "w-7", i), Sum(Val(u, "w-16", i), Val(u, "s0", i)))
  BY <1>9, <1>14 DEF Sets
<1> QED
  BY <1>10, <1>11, <1>12, <1>13, <1>14, <1>15 DEF Sets

(* An iteration of the schedule: a call of the table is a sum of the standard. *)
ScheduleWord(w2, w7, w15, w16) ==
  Sum(Sum3(w16, Xor3(Rotr(w15, 7), Rotr(w15, 18), Shr(w15, 3)), w7),
      Xor3(Rotr(w2, 17), Rotr(w2, 19), Shr(w2, 10)))

Expanded(u, u2, i) ==
  /\ Goes(u, u2, i + 1, 3)
  /\ \A j \in 0 .. i - 1 : u2.w[j] = u.w[j]
  /\ Recon(u2.w[i]) = ScheduleWord(Recon(u.w[i - 2]), Recon(u.w[i - 7]),
                                   Recon(u.w[i - 15]), Recon(u.w[i - 16]))
  /\ \A v \in Registers \ {"t0", "t1", "s0", "s1"} : Recon(u2.reg[v]) = Recon(u.reg[v])

LEMMA SumCommutes ==
  ASSUME NEW s, NEW t
  PROVE  Sum(s, t) = Sum(t, s)
  BY DEF Sum

LEMMA ValPlaces ==
  ASSUME NEW u, NEW i \in Int
  PROVE  /\ \A v \in Registers : Val(u, v, i) = Recon(u.reg[v])
         /\ Val(u, "w", i) = Recon(u.w[i]) /\ Val(u, "w-2", i) = Recon(u.w[i - 2])
         /\ Val(u, "w-7", i) = Recon(u.w[i - 7]) /\ Val(u, "w-15", i) = Recon(u.w[i - 15])
         /\ Val(u, "w-16", i) = Recon(u.w[i - 16])
<1>1. \A v \in Registers : v \notin DOMAIN Back
  BY Places
<1>2. /\ Back["w"] = 0 /\ Back["w-2"] = 2 /\ Back["w-7"] = 7 /\ Back["w-15"] = 15
      /\ Back["w-16"] = 16 /\ i - 0 = i
      /\ {"w", "w-2", "w-7", "w-15", "w-16"} \subseteq DOMAIN Back
  BY DEF Back
<1> QED
  BY <1>1, <1>2 DEF Val, Read

LEMMA ExpandEvaluates ==
  ASSUME NEW i \in 16 .. 63, NEW u, Sound(u, i), u.rand + 3 <= TapeWords,
         NEW g, IsTrace(g, u, ProveExpand, i)
  PROVE  Len(ProveExpand) = 13 /\ Expanded(u, g[13], i)
<1> DEFINE A == Sigma("w-15", 7, 18, SHR("w-15", 3, "t1"), "s0")
           B == Sigma("w-2", 17, 19, SHR("w-2", 10, "t1"), "s1")
<1>1. ProveExpand = (A \o B) \o ExpandSum
  BY DEF ProveExpand, ExpandSum
<1>2. /\ IsList(A) /\ IsList(B) /\ IsList(A \o B) /\ IsList(ExpandSum)
      /\ Len(A) = 5 /\ Len(B) = 5 /\ Len(A \o B) = 10 /\ Len(ExpandSum) = 3
      /\ Len((A \o B) \o ExpandSum) = 13
  <2>1. IsList(A) /\ IsList(B) /\ Len(A) = 5 /\ Len(B) = 5
    BY SigmaList
  <2>2. IsList(ExpandSum) /\ Len(ExpandSum) = 3
    <3> DEFINE c1 == ADD("w-16", "s0", "t1")    c2 == ADD("w-7", "t1", "t1")
               c3 == ADD("t1", "s1", "w")
    <3>1. ExpandSum = <<c1, c2, c3>>
      BY DEF ExpandSum
    <3> HIDE DEF c1, c2, c3
    <3>2. <<c1, c2, c3>> \in Seq({c1, c2, c3})
      OBVIOUS
    <3> QED
      BY <3>1, <3>2 DEF IsList
  <2> HIDE DEF A, B
  <2>3. IsList(A \o B) /\ Len(A \o B) = Len(A) + Len(B)
    BY <2>1, ListComposed
  <2>4. Len((A \o B) \o ExpandSum) = Len(A \o B) + Len(ExpandSum)
    BY <2>2, <2>3, ListComposed
  <2> QED
    BY <2>1, <2>2, <2>3, <2>4
<1>3. \E h : IsTrace(h, g[10], ExpandSum, i) /\ h[3] = g[13]
  <2> DEFINE D == A \o B    E == ExpandSum
  <2>1. IsTrace(g, u, D \o E, i) /\ IsList(D) /\ IsList(E)
    BY <1>1, <1>2
  <2>2. Len(D) = 10 /\ Len(E) = 3 /\ Len(D \o E) = 13
    BY <1>2
  <2> HIDE DEF D, E
  <2>3. \E h : IsTrace(h, g[Len(D)], E, i) /\ h[Len(E)] = g[Len(D \o E)]
    BY <2>1, TraceSplit
  <2> QED
    BY <2>2, <2>3 DEF E
<1>4. IsTrace(g, u, A \o B, i)
  <2> HIDE DEF A, B
  <2>1. IsTrace(g, u, (A \o B) \o ExpandSum, i)
    BY <1>1
  <2> QED
    BY <1>2, <2>1, TraceSplit
<1>5. IsTrace(g, u, A, i) /\ \E h : IsTrace(h, g[5], B, i) /\ h[5] = g[10]
  <2> HIDE DEF A, B
  <2> QED
    BY <1>2, <1>4, TraceSplit
<1>6. PICK h1 : IsTrace(h1, g[5], B, i) /\ h1[5] = g[10]
  BY <1>5
<1>7. PICK h2 : IsTrace(h2, g[10], ExpandSum, i) /\ h2[3] = g[13]
  BY <1>3
<1>8. /\ i \in 0 .. 63 /\ Readable("w-15", i, i) /\ Readable("w-2", i, i)
      /\ Readable("w-7", i, i) /\ Readable("w-16", i, i)
      /\ \A v \in {"w", "w-2", "w-7", "w-15", "w-16"} : v \notin Registers
  <2>1. {"w-2", "w-7", "w-15", "w-16"} \subseteq DOMAIN Back
    BY DEF Back
  <2>2. Back["w-15"] = 15 /\ Back["w-2"] = 2 /\ Back["w-7"] = 7 /\ Back["w-16"] = 16
    BY DEF Back
  <2> QED
    BY <2>1, <2>2, Places DEF Readable
<1> DEFINE P(v) == Val(u, v, i)
           r15 == SHR("w-15", 3, "t1")    r2 == SHR("w-2", 10, "t1")
           X0 == Xor3(Rotr(P("w-15"), 7), Rotr(P("w-15"), 18), Shr(P("w-15"), 3))
           X1 == Xor3(Rotr(P("w-2"), 17), Rotr(P("w-2"), 19), Shr(P("w-2"), 10))
<1>9. /\ Goes(u, g[5], i, 0) /\ Leaves(u, g[5], {"t0", "t1", "s0"}, i, i)
      /\ Val(g[5], "s0", i) = X0
  <2>1. /\ Goes(u, g[5], i, 0) /\ Leaves(u, g[5], {"t0", "t1", "s0"}, i, i)
        /\ Val(g[5], "s0", i) = Xor3(Rotr(P("w-15"), 7), Rotr(P("w-15"), 18),
                                     PlainResult(u, r15, i))
    <3> DEFINE n1 == 7    n2 == 18
    <3>1. IsThird(r15, "w-15") /\ n1 \in 0 .. 31 /\ n2 \in 0 .. 31
      BY DEF IsThird
    <3>2. IsTrace(g, u, Sigma("w-15", n1, n2, r15, "s0"), i)
      BY <1>5
    <3> HIDE DEF r15, n1, n2
    <3>3. SigmaOf(u, g[5], "w-15", n1, n2, r15, "s0", i, i)
      BY <1>8, <3>1, <3>2, SigmaEvaluates
    <3> QED
      BY <3>3 DEF SigmaOf, n1, n2
  <2>2. PlainResult(u, r15, i) = Shr(P("w-15"), 3)
    BY ShrCall
  <2> QED
    BY <2>1, <2>2
<1>10. /\ Goes(g[5], g[10], i, 0) /\ Leaves(g[5], g[10], {"t0", "t1", "s1"}, i, i)
       /\ Val(g[10], "s1", i) = X1
  <2>1. Sound(g[5], i)
    BY <1>9 DEF Goes
  <2> DEFINE u1 == g[5]
  <2>2. /\ Goes(u1, h1[5], i, 0) /\ Leaves(u1, h1[5], {"t0", "t1", "s1"}, i, i)
        /\ Val(h1[5], "s1", i) = Xor3(Rotr(Val(u1, "w-2", i), 17),
                                  Rotr(Val(u1, "w-2", i), 19), PlainResult(u1, r2, i))
    <3> DEFINE n1 == 17    n2 == 19
    <3>1. IsThird(r2, "w-2") /\ n1 \in 0 .. 31 /\ n2 \in 0 .. 31
      BY DEF IsThird
    <3>2. IsTrace(h1, u1, Sigma("w-2", n1, n2, r2, "s1"), i) /\ Sound(u1, i)
      BY <1>6, <2>1
    <3> HIDE DEF r2, u1, n1, n2
    <3>3. SigmaOf(u1, h1[5], "w-2", n1, n2, r2, "s1", i, i)
      BY <1>8, <3>1, <3>2, SigmaEvaluates
    <3> QED
      BY <3>3 DEF SigmaOf, n1, n2
  <2>3. PlainResult(u1, r2, i) = Shr(Val(u1, "w-2", i), 10)
    BY ShrCall
  <2>4. Val(u1, "w-2", i) = P("w-2")
    BY <1>8, <1>9 DEF Leaves
  <2> QED
    BY <1>6, <2>2, <2>3, <2>4
<1>11. /\ Goes(g[10], g[13], i + 1, 3)
       /\ \A v \in Registers : v # "t1" => Val(g[13], v, i) = Val(g[10], v, i)
       /\ \A j \in 0 .. i - 1 : g[13].w[j] = g[10].w[j]
       /\ Val(g[13], "w", i) =
            Sum(Sum(Val(g[10], "w-7", i), Sum(Val(g[10], "w-16", i), Val(g[10], "s0", i))),
                Val(g[10], "s1", i))
  <2> DEFINE u1 == g[10]
  <2>1. Sound(u1, i) /\ u1.rand + 3 <= TapeWords
    BY <1>9, <1>10 DEF Goes, Sound
  <2> HIDE DEF u1
  <2>2. IsTrace(h2, u1, ExpandSum, i)
    BY <1>7 DEF u1
  <2> DEFINE v3 == h2[3]
  <2>3. /\ Goes(u1, v3, i + 1, 3)
        /\ \A v \in Registers : v # "t1" => Val(v3, v, i) = Val(u1, v, i)
        /\ \A j \in 0 .. i - 1 : v3.w[j] = u1.w[j]
        /\ Val(v3, "w", i) =
             Sum(Sum(Val(u1, "w-7", i), Sum(Val(u1, "w-16", i), Val(u1, "s0", i))),
                 Val(u1, "s1", i))
    BY <2>1, <2>2, ExpandSumEvaluates
  <2>4. v3 = g[13]
    BY <1>7
  <2> HIDE DEF v3
  <2> QED
    BY <2>3, <2>4 DEF u1
<1>12. /\ Val(g[10], "w-7", i) = P("w-7") /\ Val(g[10], "w-16", i) = P("w-16")
       /\ Val(g[10], "s0", i) = X0
  <2>1. Readable("s0", i, i)
    BY RegisterNames
  <2> HIDE DEF X0
  <2> QED
    BY <1>8, <1>9, <1>10, <2>1 DEF Leaves
<1>13. Val(g[13], "w", i) = Sum(Sum3(P("w-16"), X0, P("w-7")), X1)
  <2> HIDE DEF P, X0, X1
  <2>1. Sum(P("w-7"), Sum(P("w-16"), X0)) = Sum(Sum(P("w-16"), X0), P("w-7"))
    BY SumCommutes
  <2> QED
    BY <1>10, <1>11, <1>12, <2>1 DEF Sum3
<1>14. Val(g[13], "w", i) = ScheduleWord(P("w-2"), P("w-7"), P("w-15"), P("w-16"))
  BY <1>13 DEF ScheduleWord
<1>15. Goes(u, g[13], i + 1, 3)
  <2>1. Goes(u, g[10], i, 0)
    BY <1>9, <1>10, GoesOn
  <2> QED
    BY <1>11, <2>1, GoesOn
<1>16. \A j \in 0 .. i - 1 : g[13].w[j] = u.w[j]
  BY <1>9, <1>10, <1>11 DEF Leaves
<1>17. \A v \in Registers \ {"t0", "t1", "s0", "s1"} : Val(g[13], v, i) = Val(u, v, i)
  BY <1>9, <1>10, <1>11, RegisterNames DEF Leaves
<1> DEFINE u2 == g[13]
<1> HIDE DEF u2
<1>18. Expanded(u, u2, i)
  BY <1>14, <1>15, <1>16, <1>17, ValPlaces DEF Expanded, u2
<1> QED
  BY <1>1, <1>2, <1>18 DEF u2

(* The machine u2 is where a program takes u.                                 *)
Through(u, u2, program, i) == \E g : IsTrace(g, u, program, i) /\ u2 = g[Len(program)]

LEMMA RunThrough ==
  ASSUME NEW u, NEW program, IsList(program), NEW i
  PROVE  Through(u, Run(u, program, i), program, i)
<1>1. Len(program) \in Nat
  BY DEF IsList
<1> QED
  BY <1>1, RunTrace DEF Through

LEMMA ThroughBoth ==
  ASSUME NEW s, IsList(s), NEW t, IsList(t), NEW u, NEW i, NEW u2,
         Through(u, u2, s \o t, i)
  PROVE  \E u1 : Through(u, u1, s, i) /\ Through(u1, u2, t, i)
<1> DEFINE st == s \o t
<1> HIDE DEF st
<1>1. PICK g : IsTrace(g, u, st, i) /\ u2 = g[Len(st)]
  BY DEF Through, st
<1>2. IsTrace(g, u, s, i) /\ \E h : IsTrace(h, g[Len(s)], t, i) /\ h[Len(t)] = g[Len(st)]
  BY <1>1, TraceSplit DEF st
<1> DEFINE u1 == g[Len(s)]
<1>3. Through(u, u1, s, i)
  BY <1>2 DEF Through
<1>4. Through(u1, u2, t, i)
  BY <1>1, <1>2 DEF Through
<1> QED
  BY <1>3, <1>4

(* The pieces of an iteration of the compression.                             *)
Choose   == <<ADD("h", "s1", "t0"), CH("e", "f", "g", "t1"), ADD("t0", "t1", "t1")>>
AddKey   == <<ADDK("t1", "t1")>>
AddWord  == <<ADD("t1", "w", "temp1")>>
Majority3 == <<MAJ("a", "b", "c", "maj"), ADD("s0", "maj", "temp2")>>
SigmaE   == Sigma("e", 6, 11, ROT("e", 25, "t1"), "s1")
SigmaA   == Sigma("a", 2, 13, ROT("a", 22, "t1"), "s0")

(* Its calls are in order, and so many of them are gates.                      *)
LEMMA ChooseProgram ==
  ASSUME NEW i \in 0 .. 63, NEW n
  PROVE  /\ Len(Choose) = 3 /\ IsList(Choose)
         /\ Choose[1] = ADD("h", "s1", "t0") /\ Choose[2] = CH("e", "f", "g", "t1")
         /\ Choose[3] = ADD("t0", "t1", "t1")
         /\ ProgramOK(Choose, i, n) /\ \E C : Costs(C, Choose) /\ C[3] = 3
<1> DEFINE C == [p \in 0 .. 3 |-> p]
           program == Choose
<1>1. /\ Len(program) = 3 /\ IsList(program)
      /\ program[1] = ADD("h", "s1", "t0") /\ program[2] = CH("e", "f", "g", "t1")
      /\ program[3] = ADD("t0", "t1", "t1")
  <2> DEFINE c1 == ADD("h", "s1", "t0")
             c2 == CH("e", "f", "g", "t1")
             c3 == ADD("t0", "t1", "t1")
  <2>1. program = <<c1, c2, c3>>
    BY DEF Choose
  <2> HIDE DEF c1, c2, c3, program
  <2>2. <<c1, c2, c3>> \in Seq({c1, c2, c3})
    OBVIOUS
  <2>3. /\ Len(program) = 3 /\ IsList(program)
        /\ program[1] = c1 /\ program[2] = c2 /\ program[3] = c3
    BY <2>1, <2>2 DEF IsList
  <2> QED
    BY <2>3 DEF c1, c2, c3
<1> HIDE DEF program
<1>2. /\ \A v \in {"e", "f", "g", "h", "s1", "t0", "t1"} : Readable(v, i, n) /\ Writable(v, i, n) /\ v \in Registers
  BY RegisterNames DEF Writable
<1>3. ProgramOK(program, i, n)
  <2>1. CallOK(program[1], i, n)
    BY <1>1, <1>2, AddCall
  <2>2. CallOK(program[2], i, n)
    BY <1>1, <1>2, ChCall
  <2>3. CallOK(program[3], i, n)
    BY <1>1, <1>2, AddCall
  <2> QED
    BY <1>1, <2>1, <2>2, <2>3 DEF ProgramOK
<1>4. Costs(C, program)
  <2>1. Gates(program[1]) = 1
    BY <1>1, AddCall
  <2>2. Gates(program[2]) = 1
    BY <1>1, ChCall
  <2>3. Gates(program[3]) = 1
    BY <1>1, AddCall
  <2> QED
    BY <1>1, <2>1, <2>2, <2>3 DEF Costs
<1>5. C[3] = 3
  OBVIOUS
<1> QED
  BY <1>1, <1>3, <1>4, <1>5 DEF program

(* t1 is h + s1 + ch.                                                         *)
LEMMA ChooseEvaluates ==
  ASSUME NEW i \in 0 .. 63, NEW n, NEW u, Sound(u, n), u.rand + 3 <= TapeWords,
         NEW u2, Through(u, u2, Choose, i)
  PROVE  /\ Goes(u, u2, n, 3) /\ Leaves(u, u2, {"t0", "t1"}, i, n)
         /\ Val(u2, "t0", i) = Sum(Val(u, "h", i), Val(u, "s1", i))
         /\ Val(u2, "t1", i) = Sum(Sum(Val(u, "h", i), Val(u, "s1", i)), PlainProduct("CH", Val(u, "e", i), Val(u, "f", i), Val(u, "g", i)))
<1> DEFINE program == Choose
<1>1. /\ Len(program) = 3 /\ IsList(program)
      /\ program[1] = ADD("h", "s1", "t0") /\ program[2] = CH("e", "f", "g", "t1")
      /\ program[3] = ADD("t0", "t1", "t1")
  BY ChooseProgram
<1> HIDE DEF program
<1>2. /\ \A v \in {"e", "f", "g", "h", "s1", "t0", "t1"} : Readable(v, i, n) /\ Writable(v, i, n) /\ v \in Registers
  BY RegisterNames DEF Writable
<1>3. ProgramOK(program, i, n)
  BY ChooseProgram DEF program
<1>4. PICK C : Costs(C, program) /\ C[3] = 3
  BY ChooseProgram DEF program
<1>5. C[3] = 3
  BY <1>4
<1>6. PICK g : IsTrace(g, u, program, i) /\ u2 = g[3] /\ g[0] = u
  BY <1>1 DEF Through, program, IsTrace
<1>7. Evaluates(g, u, program, i, n, C)
  BY <1>1, <1>3, <1>4, <1>5, <1>6, RunEvaluates
<1>8. /\ Goes(u, u2, n, 3)
      /\ \A p \in 1 .. 3 :
          Sets(g[p - 1], g[p], program[p].dst, PlainResult(g[p - 1], program[p], i), i, n)
  BY <1>1, <1>5, <1>6, <1>7 DEF Evaluates
<1>9. Sets(u, g[1], "t0", Sum(Val(u, "h", i), Val(u, "s1", i)), i, n)
  <2>1. Sets(g[1 - 1], g[1], program[1].dst, PlainResult(g[1 - 1], program[1], i), i, n)
    BY <1>8
  <2> QED
    BY <1>1, <1>6, <2>1, AddCall
<1>10. Sets(g[1], g[2], "t1", PlainProduct("CH", Val(g[1], "e", i), Val(g[1], "f", i), Val(g[1], "g", i)), i, n)
  <2>1. Sets(g[2 - 1], g[2], program[2].dst, PlainResult(g[2 - 1], program[2], i), i, n)
    BY <1>8
  <2> QED
    BY <1>1, <1>6, <2>1, ChCall
<1>11. Sets(g[2], u2, "t1", Sum(Val(g[2], "t0", i), Val(g[2], "t1", i)), i, n)
  <2>1. Sets(g[3 - 1], g[3], program[3].dst, PlainResult(g[3 - 1], program[3], i), i, n)
    BY <1>8
  <2> QED
    BY <1>1, <1>6, <2>1, AddCall
<1>12. /\ Val(g[1], "e", i) = Val(u, "e", i)
      /\ Val(g[1], "f", i) = Val(u, "f", i)
      /\ Val(g[1], "g", i) = Val(u, "g", i)
      /\ Val(g[1], "t0", i) = Sum(Val(u, "h", i), Val(u, "s1", i))
      /\ Val(g[1], "t1", i) = Val(u, "t1", i)
  BY <1>2, <1>9 DEF Sets
<1>13. /\ Val(g[2], "t0", i) = Sum(Val(u, "h", i), Val(u, "s1", i))
      /\ Val(g[2], "t1", i) = PlainProduct("CH", Val(u, "e", i), Val(u, "f", i), Val(u, "g", i))
  BY <1>2, <1>10, <1>12 DEF Sets
<1>14. /\ Val(u2, "t0", i) = Sum(Val(u, "h", i), Val(u, "s1", i))
      /\ Val(u2, "t1", i) = Sum(Sum(Val(u, "h", i), Val(u, "s1", i)), PlainProduct("CH", Val(u, "e", i), Val(u, "f", i), Val(u, "g", i)))
  BY <1>2, <1>11, <1>13 DEF Sets
<1>15. Leaves(u, u2, {"t0", "t1"}, i, n)
  BY <1>2, <1>9, <1>10, <1>11 DEF Sets, Leaves
<1> QED
  BY <1>8, <1>14, <1>15

(* The constant of the round is added.                                        *)
LEMMA AddKeyEvaluates ==
  ASSUME NEW i \in 0 .. 63, NEW n, NEW u, Sound(u, n), u.rand + 1 <= TapeWords,
         NEW u2, Through(u, u2, AddKey, i)
  PROVE  /\ Goes(u, u2, n, 1) /\ Leaves(u, u2, {"t1"}, i, n)
         /\ Val(u2, "t1", i) = Sum(Val(u, "t1", i), k[i])
<1> DEFINE C == [p \in 0 .. 1 |-> p]
           program == AddKey
<1>1. /\ Len(program) = 1 /\ IsList(program)
      /\ program[1] = ADDK("t1", "t1")
  <2> DEFINE c1 == ADDK("t1", "t1")
  <2>1. program = <<c1>>
    BY DEF AddKey
  <2> HIDE DEF c1, program
  <2>2. <<c1>> \in Seq({c1})
    OBVIOUS
  <2>3. /\ Len(program) = 1 /\ IsList(program)
        /\ program[1] = c1
    BY <2>1, <2>2 DEF IsList
  <2> QED
    BY <2>3 DEF c1
<1> HIDE DEF program
<1>2. /\ \A v \in {"t1"} : Readable(v, i, n) /\ Writable(v, i, n) /\ v \in Registers
  BY RegisterNames DEF Writable
<1>3. ProgramOK(program, i, n)
  <2>1. CallOK(program[1], i, n)
    BY <1>1, <1>2, AddkCall
  <2> QED
    BY <1>1, <2>1 DEF ProgramOK
<1>4. Costs(C, program)
  <2>1. Gates(program[1]) = 1
    BY <1>1, AddkCall
  <2> QED
    BY <1>1, <2>1 DEF Costs
<1>5. C[1] = 1
  OBVIOUS
<1> HIDE DEF C
<1>6. PICK g : IsTrace(g, u, program, i) /\ u2 = g[1] /\ g[0] = u
  BY <1>1 DEF Through, program, IsTrace
<1>7. Evaluates(g, u, program, i, n, C)
  BY <1>1, <1>3, <1>4, <1>5, <1>6, RunEvaluates
<1>8. /\ Goes(u, u2, n, 1)
      /\ \A p \in 1 .. 1 :
          Sets(g[p - 1], g[p], program[p].dst, PlainResult(g[p - 1], program[p], i), i, n)
  BY <1>1, <1>5, <1>6, <1>7 DEF Evaluates
<1>9. Sets(u, u2, "t1", Sum(Val(u, "t1", i), k[i]), i, n)
  <2>1. Sets(g[1 - 1], g[1], program[1].dst, PlainResult(g[1 - 1], program[1], i), i, n)
    BY <1>8
  <2> QED
    BY <1>1, <1>6, <2>1, AddkCall
<1>10. /\ Val(u2, "t1", i) = Sum(Val(u, "t1", i), k[i])
  BY <1>2, <1>9 DEF Sets
<1>11. Leaves(u, u2, {"t1"}, i, n)
  BY <1>2, <1>9 DEF Sets, Leaves
<1> QED
  BY <1>8, <1>10, <1>11

(* Its calls are in order, and so many of them are gates.                      *)
LEMMA AddWordProgram ==
  ASSUME NEW i \in 0 .. 63, NEW n, n \in Nat, i < n
  PROVE  /\ Len(AddWord) = 1 /\ IsList(AddWord)
         /\ AddWord[1] = ADD("t1", "w", "temp1")
         /\ ProgramOK(AddWord, i, n) /\ \E C : Costs(C, AddWord) /\ C[1] = 1
<1> DEFINE C == [p \in 0 .. 1 |-> p]
           program == AddWord
<1>1. /\ Len(program) = 1 /\ IsList(program)
      /\ program[1] = ADD("t1", "w", "temp1")
  <2> DEFINE c1 == ADD("t1", "w", "temp1")
  <2>1. program = <<c1>>
    BY DEF AddWord
  <2> HIDE DEF c1, program
  <2>2. <<c1>> \in Seq({c1})
    OBVIOUS
  <2>3. /\ Len(program) = 1 /\ IsList(program)
        /\ program[1] = c1
    BY <2>1, <2>2 DEF IsList
  <2> QED
    BY <2>3 DEF c1
<1> HIDE DEF program
<1>2. /\ \A v \in {"t1", "temp1"} : Readable(v, i, n) /\ Writable(v, i, n) /\ v \in Registers
      /\ Readable("w", i, n)
  BY RegisterNames, Places DEF Writable, Readable
<1>3. ProgramOK(program, i, n)
  <2>1. CallOK(program[1], i, n)
    BY <1>1, <1>2, AddCall
  <2> QED
    BY <1>1, <2>1 DEF ProgramOK
<1>4. Costs(C, program)
  <2>1. Gates(program[1]) = 1
    BY <1>1, AddCall
  <2> QED
    BY <1>1, <2>1 DEF Costs
<1>5. C[1] = 1
  OBVIOUS
<1> QED
  BY <1>1, <1>3, <1>4, <1>5 DEF program

(* temp1 is complete.                                                         *)
LEMMA AddWordEvaluates ==
  ASSUME NEW i \in 0 .. 63, NEW n, NEW u, Sound(u, n), u.rand + 1 <= TapeWords, i < n,
         n \in Nat,
         NEW u2, Through(u, u2, AddWord, i)
  PROVE  /\ Goes(u, u2, n, 1) /\ Leaves(u, u2, {"temp1"}, i, n)
         /\ Val(u2, "temp1", i) = Sum(Val(u, "t1", i), Val(u, "w", i))
<1> DEFINE program == AddWord
<1>1. /\ Len(program) = 1 /\ IsList(program)
      /\ program[1] = ADD("t1", "w", "temp1")
  BY AddWordProgram
<1> HIDE DEF program
<1>2. /\ \A v \in {"t1", "temp1"} : Readable(v, i, n) /\ Writable(v, i, n) /\ v \in Registers
      /\ Readable("w", i, n)
  BY RegisterNames, Places DEF Writable, Readable
<1>3. ProgramOK(program, i, n)
  BY AddWordProgram DEF program
<1>4. PICK C : Costs(C, program) /\ C[1] = 1
  BY AddWordProgram DEF program
<1>5. C[1] = 1
  BY <1>4
<1>6. PICK g : IsTrace(g, u, program, i) /\ u2 = g[1] /\ g[0] = u
  BY <1>1 DEF Through, program, IsTrace
<1>7. Evaluates(g, u, program, i, n, C)
  BY <1>1, <1>3, <1>4, <1>5, <1>6, RunEvaluates
<1>8. /\ Goes(u, u2, n, 1)
      /\ \A p \in 1 .. 1 :
          Sets(g[p - 1], g[p], program[p].dst, PlainResult(g[p - 1], program[p], i), i, n)
  BY <1>1, <1>5, <1>6, <1>7 DEF Evaluates
<1>9. Sets(u, u2, "temp1", Sum(Val(u, "t1", i), Val(u, "w", i)), i, n)
  <2>1. Sets(g[1 - 1], g[1], program[1].dst, PlainResult(g[1 - 1], program[1], i), i, n)
    BY <1>8
  <2> QED
    BY <1>1, <1>6, <2>1, AddCall
<1>10. /\ Val(u2, "temp1", i) = Sum(Val(u, "t1", i), Val(u, "w", i))
  BY <1>2, <1>9 DEF Sets
<1>11. Leaves(u, u2, {"temp1"}, i, n)
  BY <1>2, <1>9 DEF Sets, Leaves
<1> QED
  BY <1>8, <1>10, <1>11

(* Its calls are in order, and so many of them are gates.                      *)
LEMMA Majority3Program ==
  ASSUME NEW i \in 0 .. 63, NEW n
  PROVE  /\ Len(Majority3) = 2 /\ IsList(Majority3)
         /\ Majority3[1] = MAJ("a", "b", "c", "maj") /\ Majority3[2] = ADD("s0", "maj", "temp2")
         /\ ProgramOK(Majority3, i, n) /\ \E C : Costs(C, Majority3) /\ C[2] = 2
<1> DEFINE C == [p \in 0 .. 2 |-> p]
           program == Majority3
<1>1. /\ Len(program) = 2 /\ IsList(program)
      /\ program[1] = MAJ("a", "b", "c", "maj") /\ program[2] = ADD("s0", "maj", "temp2")
  <2> DEFINE c1 == MAJ("a", "b", "c", "maj")
             c2 == ADD("s0", "maj", "temp2")
  <2>1. program = <<c1, c2>>
    BY DEF Majority3
  <2> HIDE DEF c1, c2, program
  <2>2. <<c1, c2>> \in Seq({c1, c2})
    OBVIOUS
  <2>3. /\ Len(program) = 2 /\ IsList(program)
        /\ program[1] = c1 /\ program[2] = c2
    BY <2>1, <2>2 DEF IsList
  <2> QED
    BY <2>3 DEF c1, c2
<1> HIDE DEF program
<1>2. /\ \A v \in {"a", "b", "c", "maj", "s0", "temp2"} : Readable(v, i, n) /\ Writable(v, i, n) /\ v \in Registers
  BY RegisterNames DEF Writable
<1>3. ProgramOK(program, i, n)
  <2>1. CallOK(program[1], i, n)
    BY <1>1, <1>2, MajCall
  <2>2. CallOK(program[2], i, n)
    BY <1>1, <1>2, AddCall
  <2> QED
    BY <1>1, <2>1, <2>2 DEF ProgramOK
<1>4. Costs(C, program)
  <2>1. Gates(program[1]) = 1
    BY <1>1, MajCall
  <2>2. Gates(program[2]) = 1
    BY <1>1, AddCall
  <2> QED
    BY <1>1, <2>1, <2>2 DEF Costs
<1>5. C[2] = 2
  OBVIOUS
<1> QED
  BY <1>1, <1>3, <1>4, <1>5 DEF program

(* temp2 is s0 + maj.                                                         *)
LEMMA MajorityEvaluates ==
  ASSUME NEW i \in 0 .. 63, NEW n, NEW u, Sound(u, n), u.rand + 2 <= TapeWords,
         NEW u2, Through(u, u2, Majority3, i)
  PROVE  /\ Goes(u, u2, n, 2) /\ Leaves(u, u2, {"maj", "temp2"}, i, n)
         /\ Val(u2, "maj", i) = PlainProduct("MAJ", Val(u, "a", i), Val(u, "b", i), Val(u, "c", i))
         /\ Val(u2, "temp2", i) = Sum(Val(u, "s0", i), PlainProduct("MAJ", Val(u, "a", i), Val(u, "b", i), Val(u, "c", i)))
<1> DEFINE program == Majority3
<1>1. /\ Len(program) = 2 /\ IsList(program)
      /\ program[1] = MAJ("a", "b", "c", "maj") /\ program[2] = ADD("s0", "maj", "temp2")
  BY Majority3Program
<1> HIDE DEF program
<1>2. /\ \A v \in {"a", "b", "c", "maj", "s0", "temp2"} : Readable(v, i, n) /\ Writable(v, i, n) /\ v \in Registers
  BY RegisterNames DEF Writable
<1>3. ProgramOK(program, i, n)
  BY Majority3Program DEF program
<1>4. PICK C : Costs(C, program) /\ C[2] = 2
  BY Majority3Program DEF program
<1>5. C[2] = 2
  BY <1>4
<1>6. PICK g : IsTrace(g, u, program, i) /\ u2 = g[2] /\ g[0] = u
  BY <1>1 DEF Through, program, IsTrace
<1>7. Evaluates(g, u, program, i, n, C)
  BY <1>1, <1>3, <1>4, <1>5, <1>6, RunEvaluates
<1>8. /\ Goes(u, u2, n, 2)
      /\ \A p \in 1 .. 2 :
          Sets(g[p - 1], g[p], program[p].dst, PlainResult(g[p - 1], program[p], i), i, n)
  BY <1>1, <1>5, <1>6, <1>7 DEF Evaluates
<1>9. Sets(u, g[1], "maj", PlainProduct("MAJ", Val(u, "a", i), Val(u, "b", i), Val(u, "c", i)), i, n)
  <2>1. Sets(g[1 - 1], g[1], program[1].dst, PlainResult(g[1 - 1], program[1], i), i, n)
    BY <1>8
  <2> QED
    BY <1>1, <1>6, <2>1, MajCall
<1>10. Sets(g[1], u2, "temp2", Sum(Val(g[1], "s0", i), Val(g[1], "maj", i)), i, n)
  <2>1. Sets(g[2 - 1], g[2], program[2].dst, PlainResult(g[2 - 1], program[2], i), i, n)
    BY <1>8
  <2> QED
    BY <1>1, <1>6, <2>1, AddCall
<1>11. /\ Val(g[1], "s0", i) = Val(u, "s0", i)
      /\ Val(g[1], "maj", i) = PlainProduct("MAJ", Val(u, "a", i), Val(u, "b", i), Val(u, "c", i))
  BY <1>2, <1>9 DEF Sets
<1>12. /\ Val(u2, "maj", i) = PlainProduct("MAJ", Val(u, "a", i), Val(u, "b", i), Val(u, "c", i))
      /\ Val(u2, "temp2", i) = Sum(Val(u, "s0", i), PlainProduct("MAJ", Val(u, "a", i), Val(u, "b", i), Val(u, "c", i)))
  BY <1>2, <1>10, <1>11 DEF Sets
<1>13. Leaves(u, u2, {"maj", "temp2"}, i, n)
  BY <1>2, <1>9, <1>10 DEF Sets, Leaves
<1> QED
  BY <1>8, <1>12, <1>13

(* Its calls are in order, and so many of them are gates.                      *)
LEMMA RotationProgram ==
  ASSUME NEW i \in 0 .. 63, NEW n
  PROVE  /\ Len(Rotation) = 8 /\ IsList(Rotation)
         /\ Rotation[1] = COPY("g", "h") /\ Rotation[2] = COPY("f", "g")
         /\ Rotation[3] = COPY("e", "f") /\ Rotation[4] = ADD("d", "temp1", "e")
         /\ Rotation[5] = COPY("c", "d") /\ Rotation[6] = COPY("b", "c")
         /\ Rotation[7] = COPY("a", "b") /\ Rotation[8] = ADD("temp1", "temp2", "a")
         /\ ProgramOK(Rotation, i, n) /\ \E C : Costs(C, Rotation) /\ C[8] = 2
<1> DEFINE C == [p \in 0 .. 8 |-> CASE p = 0 -> 0 [] p = 1 -> 0 [] p = 2 -> 0 [] p = 3 -> 0 [] p = 4 -> 1 [] p = 5 -> 1 [] p = 6 -> 1 [] p = 7 -> 1 [] p = 8 -> 2]
           program == Rotation
<1>1. /\ Len(program) = 8 /\ IsList(program)
      /\ program[1] = COPY("g", "h") /\ program[2] = COPY("f", "g")
      /\ program[3] = COPY("e", "f") /\ program[4] = ADD("d", "temp1", "e")
      /\ program[5] = COPY("c", "d") /\ program[6] = COPY("b", "c")
      /\ program[7] = COPY("a", "b") /\ program[8] = ADD("temp1", "temp2", "a")
  <2> DEFINE c1 == COPY("g", "h")
             c2 == COPY("f", "g")
             c3 == COPY("e", "f")
             c4 == ADD("d", "temp1", "e")
             c5 == COPY("c", "d")
             c6 == COPY("b", "c")
             c7 == COPY("a", "b")
             c8 == ADD("temp1", "temp2", "a")
  <2>1. program = <<c1, c2, c3, c4, c5, c6, c7, c8>>
    BY DEF Rotation
  <2> HIDE DEF c1, c2, c3, c4, c5, c6, c7, c8, program
  <2>2. <<c1, c2, c3, c4, c5, c6, c7, c8>> \in Seq({c1, c2, c3, c4, c5, c6, c7, c8})
    OBVIOUS
  <2>3. /\ Len(program) = 8 /\ IsList(program)
        /\ program[1] = c1 /\ program[2] = c2 /\ program[3] = c3 /\ program[4] = c4
        /\ program[5] = c5 /\ program[6] = c6 /\ program[7] = c7 /\ program[8] = c8
    BY <2>1, <2>2 DEF IsList
  <2> QED
    BY <2>3 DEF c1, c2, c3, c4, c5, c6, c7, c8
<1> HIDE DEF program
<1>2. /\ \A v \in {"a", "b", "c", "d", "e", "f", "g", "h", "temp1", "temp2"} : Readable(v, i, n) /\ Writable(v, i, n) /\ v \in Registers
  BY RegisterNames DEF Writable
<1>3. ProgramOK(program, i, n)
  <2>1. CallOK(program[1], i, n)
    BY <1>1, <1>2, CopyCall
  <2>2. CallOK(program[2], i, n)
    BY <1>1, <1>2, CopyCall
  <2>3. CallOK(program[3], i, n)
    BY <1>1, <1>2, CopyCall
  <2>4. CallOK(program[4], i, n)
    BY <1>1, <1>2, AddCall
  <2>5. CallOK(program[5], i, n)
    BY <1>1, <1>2, CopyCall
  <2>6. CallOK(program[6], i, n)
    BY <1>1, <1>2, CopyCall
  <2>7. CallOK(program[7], i, n)
    BY <1>1, <1>2, CopyCall
  <2>8. CallOK(program[8], i, n)
    BY <1>1, <1>2, AddCall
  <2> QED
    BY <1>1, <2>1, <2>2, <2>3, <2>4, <2>5, <2>6, <2>7, <2>8 DEF ProgramOK
<1>4. Costs(C, program)
  <2>1. Gates(program[1]) = 0
    BY <1>1, CopyCall
  <2>2. Gates(program[2]) = 0
    BY <1>1, CopyCall
  <2>3. Gates(program[3]) = 0
    BY <1>1, CopyCall
  <2>4. Gates(program[4]) = 1
    BY <1>1, AddCall
  <2>5. Gates(program[5]) = 0
    BY <1>1, CopyCall
  <2>6. Gates(program[6]) = 0
    BY <1>1, CopyCall
  <2>7. Gates(program[7]) = 0
    BY <1>1, CopyCall
  <2>8. Gates(program[8]) = 1
    BY <1>1, AddCall
  <2> QED
    BY <1>1, <2>1, <2>2, <2>3, <2>4, <2>5, <2>6, <2>7, <2>8 DEF Costs
<1>5. C[8] = 2
  OBVIOUS
<1> QED
  BY <1>1, <1>3, <1>4, <1>5 DEF program

(* The eight variables move down.                                             *)
LEMMA RotationEvaluates ==
  ASSUME NEW i \in 0 .. 63, NEW n, NEW u, Sound(u, n), u.rand + 2 <= TapeWords,
         NEW u2, Through(u, u2, Rotation, i)
  PROVE  /\ Goes(u, u2, n, 2) /\ Leaves(u, u2, {"h", "g", "f", "e", "d", "c", "b", "a"}, i, n)
         /\ Val(u2, "h", i) = Val(u, "g", i)
         /\ Val(u2, "g", i) = Val(u, "f", i)
         /\ Val(u2, "f", i) = Val(u, "e", i)
         /\ Val(u2, "e", i) = Sum(Val(u, "d", i), Val(u, "temp1", i))
         /\ Val(u2, "d", i) = Val(u, "c", i)
         /\ Val(u2, "c", i) = Val(u, "b", i)
         /\ Val(u2, "b", i) = Val(u, "a", i)
         /\ Val(u2, "a", i) = Sum(Val(u, "temp1", i), Val(u, "temp2", i))
<1> DEFINE program == Rotation
<1>1. /\ Len(program) = 8 /\ IsList(program)
      /\ program[1] = COPY("g", "h") /\ program[2] = COPY("f", "g")
      /\ program[3] = COPY("e", "f") /\ program[4] = ADD("d", "temp1", "e")
      /\ program[5] = COPY("c", "d") /\ program[6] = COPY("b", "c")
      /\ program[7] = COPY("a", "b") /\ program[8] = ADD("temp1", "temp2", "a")
  BY RotationProgram
<1> HIDE DEF program
<1>2. /\ \A v \in {"a", "b", "c", "d", "e", "f", "g", "h", "temp1", "temp2"} : Readable(v, i, n) /\ Writable(v, i, n) /\ v \in Registers
  BY RegisterNames DEF Writable
<1>3. ProgramOK(program, i, n)
  BY RotationProgram DEF program
<1>4. PICK C : Costs(C, program) /\ C[8] = 2
  BY RotationProgram DEF program
<1>5. C[8] = 2
  BY <1>4
<1>6. PICK g : IsTrace(g, u, program, i) /\ u2 = g[8] /\ g[0] = u
  BY <1>1 DEF Through, program, IsTrace
<1>7. Evaluates(g, u, program, i, n, C)
  BY <1>1, <1>3, <1>4, <1>5, <1>6, RunEvaluates
<1>8. /\ Goes(u, u2, n, 2)
      /\ \A p \in 1 .. 8 :
          Sets(g[p - 1], g[p], program[p].dst, PlainResult(g[p - 1], program[p], i), i, n)
  BY <1>1, <1>5, <1>6, <1>7 DEF Evaluates
<1>9. Sets(u, g[1], "h", Val(u, "g", i), i, n)
  <2>1. Sets(g[1 - 1], g[1], program[1].dst, PlainResult(g[1 - 1], program[1], i), i, n)
    BY <1>8
  <2> QED
    BY <1>1, <1>6, <2>1, CopyCall
<1>10. Sets(g[1], g[2], "g", Val(g[1], "f", i), i, n)
  <2>1. Sets(g[2 - 1], g[2], program[2].dst, PlainResult(g[2 - 1], program[2], i), i, n)
    BY <1>8
  <2> QED
    BY <1>1, <1>6, <2>1, CopyCall
<1>11. Sets(g[2], g[3], "f", Val(g[2], "e", i), i, n)
  <2>1. Sets(g[3 - 1], g[3], program[3].dst, PlainResult(g[3 - 1], program[3], i), i, n)
    BY <1>8
  <2> QED
    BY <1>1, <1>6, <2>1, CopyCall
<1>12. Sets(g[3], g[4], "e", Sum(Val(g[3], "d", i), Val(g[3], "temp1", i)), i, n)
  <2>1. Sets(g[4 - 1], g[4], program[4].dst, PlainResult(g[4 - 1], program[4], i), i, n)
    BY <1>8
  <2> QED
    BY <1>1, <1>6, <2>1, AddCall
<1>13. Sets(g[4], g[5], "d", Val(g[4], "c", i), i, n)
  <2>1. Sets(g[5 - 1], g[5], program[5].dst, PlainResult(g[5 - 1], program[5], i), i, n)
    BY <1>8
  <2> QED
    BY <1>1, <1>6, <2>1, CopyCall
<1>14. Sets(g[5], g[6], "c", Val(g[5], "b", i), i, n)
  <2>1. Sets(g[6 - 1], g[6], program[6].dst, PlainResult(g[6 - 1], program[6], i), i, n)
    BY <1>8
  <2> QED
    BY <1>1, <1>6, <2>1, CopyCall
<1>15. Sets(g[6], g[7], "b", Val(g[6], "a", i), i, n)
  <2>1. Sets(g[7 - 1], g[7], program[7].dst, PlainResult(g[7 - 1], program[7], i), i, n)
    BY <1>8
  <2> QED
    BY <1>1, <1>6, <2>1, CopyCall
<1>16. Sets(g[7], u2, "a", Sum(Val(g[7], "temp1", i), Val(g[7], "temp2", i)), i, n)
  <2>1. Sets(g[8 - 1], g[8], program[8].dst, PlainResult(g[8 - 1], program[8], i), i, n)
    BY <1>8
  <2> QED
    BY <1>1, <1>6, <2>1, AddCall
<1>17. /\ Val(g[1], "f", i) = Val(u, "f", i)
      /\ Val(g[1], "e", i) = Val(u, "e", i)
      /\ Val(g[1], "d", i) = Val(u, "d", i)
      /\ Val(g[1], "temp1", i) = Val(u, "temp1", i)
      /\ Val(g[1], "c", i) = Val(u, "c", i)
      /\ Val(g[1], "b", i) = Val(u, "b", i)
      /\ Val(g[1], "a", i) = Val(u, "a", i)
      /\ Val(g[1], "temp2", i) = Val(u, "temp2", i)
      /\ Val(g[1], "h", i) = Val(u, "g", i)
  BY <1>2, <1>9 DEF Sets
<1>18. /\ Val(g[2], "e", i) = Val(u, "e", i)
      /\ Val(g[2], "d", i) = Val(u, "d", i)
      /\ Val(g[2], "temp1", i) = Val(u, "temp1", i)
      /\ Val(g[2], "c", i) = Val(u, "c", i)
      /\ Val(g[2], "b", i) = Val(u, "b", i)
      /\ Val(g[2], "a", i) = Val(u, "a", i)
      /\ Val(g[2], "temp2", i) = Val(u, "temp2", i)
      /\ Val(g[2], "h", i) = Val(u, "g", i)
      /\ Val(g[2], "g", i) = Val(u, "f", i)
  BY <1>2, <1>10, <1>17 DEF Sets
<1>19. /\ Val(g[3], "d", i) = Val(u, "d", i)
      /\ Val(g[3], "temp1", i) = Val(u, "temp1", i)
      /\ Val(g[3], "c", i) = Val(u, "c", i)
      /\ Val(g[3], "b", i) = Val(u, "b", i)
      /\ Val(g[3], "a", i) = Val(u, "a", i)
      /\ Val(g[3], "temp2", i) = Val(u, "temp2", i)
      /\ Val(g[3], "h", i) = Val(u, "g", i)
      /\ Val(g[3], "g", i) = Val(u, "f", i)
      /\ Val(g[3], "f", i) = Val(u, "e", i)
  BY <1>2, <1>11, <1>18 DEF Sets
<1>20. /\ Val(g[4], "c", i) = Val(u, "c", i)
      /\ Val(g[4], "b", i) = Val(u, "b", i)
      /\ Val(g[4], "a", i) = Val(u, "a", i)
      /\ Val(g[4], "temp1", i) = Val(u, "temp1", i)
      /\ Val(g[4], "temp2", i) = Val(u, "temp2", i)
      /\ Val(g[4], "h", i) = Val(u, "g", i)
      /\ Val(g[4], "g", i) = Val(u, "f", i)
      /\ Val(g[4], "f", i) = Val(u, "e", i)
      /\ Val(g[4], "e", i) = Sum(Val(u, "d", i), Val(u, "temp1", i))
  BY <1>2, <1>12, <1>19 DEF Sets
<1>21. /\ Val(g[5], "b", i) = Val(u, "b", i)
      /\ Val(g[5], "a", i) = Val(u, "a", i)
      /\ Val(g[5], "temp1", i) = Val(u, "temp1", i)
      /\ Val(g[5], "temp2", i) = Val(u, "temp2", i)
      /\ Val(g[5], "h", i) = Val(u, "g", i)
      /\ Val(g[5], "g", i) = Val(u, "f", i)
      /\ Val(g[5], "f", i) = Val(u, "e", i)
      /\ Val(g[5], "e", i) = Sum(Val(u, "d", i), Val(u, "temp1", i))
      /\ Val(g[5], "d", i) = Val(u, "c", i)
  BY <1>2, <1>13, <1>20 DEF Sets
<1>22. /\ Val(g[6], "a", i) = Val(u, "a", i)
      /\ Val(g[6], "temp1", i) = Val(u, "temp1", i)
      /\ Val(g[6], "temp2", i) = Val(u, "temp2", i)
      /\ Val(g[6], "h", i) = Val(u, "g", i)
      /\ Val(g[6], "g", i) = Val(u, "f", i)
      /\ Val(g[6], "f", i) = Val(u, "e", i)
      /\ Val(g[6], "e", i) = Sum(Val(u, "d", i), Val(u, "temp1", i))
      /\ Val(g[6], "d", i) = Val(u, "c", i)
      /\ Val(g[6], "c", i) = Val(u, "b", i)
  BY <1>2, <1>14, <1>21 DEF Sets
<1>23. /\ Val(g[7], "temp1", i) = Val(u, "temp1", i)
      /\ Val(g[7], "temp2", i) = Val(u, "temp2", i)
      /\ Val(g[7], "h", i) = Val(u, "g", i)
      /\ Val(g[7], "g", i) = Val(u, "f", i)
      /\ Val(g[7], "f", i) = Val(u, "e", i)
      /\ Val(g[7], "e", i) = Sum(Val(u, "d", i), Val(u, "temp1", i))
      /\ Val(g[7], "d", i) = Val(u, "c", i)
      /\ Val(g[7], "c", i) = Val(u, "b", i)
      /\ Val(g[7], "b", i) = Val(u, "a", i)
  BY <1>2, <1>15, <1>22 DEF Sets
<1>24. /\ Val(u2, "h", i) = Val(u, "g", i)
      /\ Val(u2, "g", i) = Val(u, "f", i)
      /\ Val(u2, "f", i) = Val(u, "e", i)
      /\ Val(u2, "e", i) = Sum(Val(u, "d", i), Val(u, "temp1", i))
      /\ Val(u2, "d", i) = Val(u, "c", i)
      /\ Val(u2, "c", i) = Val(u, "b", i)
      /\ Val(u2, "b", i) = Val(u, "a", i)
      /\ Val(u2, "a", i) = Sum(Val(u, "temp1", i), Val(u, "temp2", i))
  BY <1>2, <1>16, <1>23 DEF Sets
<1>25. Leaves(u, u2, {"h", "g", "f", "e", "d", "c", "b", "a"}, i, n)
  BY <1>2, <1>9, <1>10, <1>11, <1>12, <1>13, <1>14, <1>15, <1>16 DEF Sets, Leaves
<1> QED
  BY <1>8, <1>24, <1>25

(* An iteration of the compression, call by piece.                            *)
LEMMA PieceLists ==
  /\ IsList(Choose) /\ IsList(AddKey) /\ IsList(AddWord) /\ IsList(Majority3)
  /\ IsList(Rotation) /\ IsList(SigmaE) /\ IsList(SigmaA)
<1>1. \A c1 : IsList(<<c1>>)
  <2>1. \A c1 : <<c1>> \in Seq({c1})
    OBVIOUS
  <2> QED
    BY <2>1 DEF IsList
<1>2. \A c1, c2 : IsList(<<c1, c2>>)
  <2>1. \A c1, c2 : <<c1, c2>> \in Seq({c1, c2})
    OBVIOUS
  <2> QED
    BY <2>1 DEF IsList
<1>3. \A c1, c2, c3 : IsList(<<c1, c2, c3>>)
  <2>1. \A c1, c2, c3 : <<c1, c2, c3>> \in Seq({c1, c2, c3})
    OBVIOUS
  <2> QED
    BY <2>1 DEF IsList
<1>4. \A c1, c2, c3, c4, c5, c6, c7, c8 : IsList(<<c1, c2, c3, c4, c5, c6, c7, c8>>)
  <2>1. \A c1, c2, c3, c4, c5, c6, c7, c8 :
          <<c1, c2, c3, c4, c5, c6, c7, c8>> \in Seq({c1, c2, c3, c4, c5, c6, c7, c8})
    OBVIOUS
  <2> QED
    BY <2>1 DEF IsList
<1>5. IsList(SigmaE) /\ IsList(SigmaA)
  BY SigmaList DEF SigmaE, SigmaA
<1>6. IsList(Choose)
  BY <1>3 DEF Choose
<1>7. IsList(AddKey) /\ IsList(AddWord)
  BY <1>1 DEF AddKey, AddWord
<1>8. IsList(Majority3)
  BY <1>2 DEF Majority3
<1>9. IsList(Rotation)
  BY <1>4 DEF Rotation
<1> QED
  BY <1>5, <1>6, <1>7, <1>8, <1>9

LEMMA CompressPieces ==
  ASSUME NEW addk, IsList(addk), NEW u, NEW u2, NEW i, Through(u, u2, Compress(addk), i)
  PROVE  \E u3, u4, u5, u6, u7, u8 :
           /\ Through(u, u3, SigmaE, i) /\ Through(u3, u4, Choose, i)
           /\ Through(u4, u5, addk, i) /\ Through(u5, u6, AddWord, i)
           /\ Through(u6, u7, SigmaA, i) /\ Through(u7, u8, Majority3, i)
           /\ Through(u8, u2, Rotation, i)
<1> DEFINE P2 == SigmaE \o Choose    P3 == P2 \o addk        P4 == P3 \o AddWord
           P5 == P4 \o SigmaA        P6 == P5 \o Majority3   P7 == P6 \o Rotation
<1>1. Compress(addk) = P7
  BY DEF Compress, SigmaE, Choose, AddWord, SigmaA, Majority3
<1>2. Through(u, u2, P7, i)
  BY <1>1
<1>3. IsList(P2)
  BY PieceLists, ListComposed
<1>4. IsList(P3)
  <2> HIDE DEF P2
  <2> QED
    BY <1>3, ListComposed
<1>5. IsList(P4)
  <2> HIDE DEF P3
  <2> QED
    BY <1>4, PieceLists, ListComposed
<1>6. IsList(P5)
  <2> HIDE DEF P4
  <2> QED
    BY <1>5, PieceLists, ListComposed
<1>7. IsList(P6)
  <2> HIDE DEF P5
  <2> QED
    BY <1>6, PieceLists, ListComposed
<1>8. \E v : Through(u, v, P6, i) /\ Through(v, u2, Rotation, i)
  <2> HIDE DEF P6
  <2> QED
    BY <1>2, <1>7, PieceLists, ThroughBoth
<1>9. PICK u8 : Through(u, u8, P6, i) /\ Through(u8, u2, Rotation, i)
  BY <1>8
<1>10. \E v : Through(u, v, P5, i) /\ Through(v, u8, Majority3, i)
  <2> HIDE DEF P5
  <2> QED
    BY <1>6, <1>9, PieceLists, ThroughBoth
<1>11. PICK u7 : Through(u, u7, P5, i) /\ Through(u7, u8, Majority3, i)
  BY <1>10
<1>12. \E v : Through(u, v, P4, i) /\ Through(v, u7, SigmaA, i)
  <2> HIDE DEF P4
  <2> QED
    BY <1>5, <1>11, PieceLists, ThroughBoth
<1>13. PICK u6 : Through(u, u6, P4, i) /\ Through(u6, u7, SigmaA, i)
  BY <1>12
<1>14. \E v : Through(u, v, P3, i) /\ Through(v, u6, AddWord, i)
  <2> HIDE DEF P3
  <2> QED
    BY <1>4, <1>13, PieceLists, ThroughBoth
<1>15. PICK u5 : Through(u, u5, P3, i) /\ Through(u5, u6, AddWord, i)
  BY <1>14
<1>16. \E v : Through(u, v, P2, i) /\ Through(v, u5, addk, i)
  <2> HIDE DEF P2
  <2> QED
    BY <1>3, <1>15, ThroughBoth
<1>17. PICK u4 : Through(u, u4, P2, i) /\ Through(u4, u5, addk, i)
  BY <1>16
<1>18. \E v : Through(u, v, SigmaE, i) /\ Through(v, u4, Choose, i)
  BY <1>17, PieceLists, ThroughBoth
<1> HIDE DEF P2, P3, P4, P5, P6, P7
<1> QED
  BY <1>9, <1>11, <1>13, <1>15, <1>17, <1>18

(* The sigmas of the compression.                                             *)
LEMMA SigmaEEvaluates ==
  ASSUME NEW i \in 0 .. 63, NEW n, NEW u, Sound(u, n), NEW u2, Through(u, u2, SigmaE, i)
  PROVE  /\ Goes(u, u2, n, 0) /\ Leaves(u, u2, {"t0", "t1", "s1"}, i, n)
         /\ Val(u2, "s1", i) = Xor3(Rotr(Val(u, "e", i), 6), Rotr(Val(u, "e", i), 11),
                                    Rotr(Val(u, "e", i), 25))
<1> DEFINE n1 == 6    n2 == 11    third == ROT("e", 25, "t1")
           program == Sigma("e", n1, n2, third, "s1")
<1>1. /\ IsThird(third, "e") /\ n1 \in 0 .. 31 /\ n2 \in 0 .. 31
      /\ PlainResult(u, third, i) = Rotr(Val(u, "e", i), 25)
      /\ Len(program) = 5 /\ SigmaE = program
  BY RotCall, SigmaList DEF IsThird, SigmaE
<1>2. Readable("e", i, n)
  BY RegisterNames
<1> HIDE DEF n1, n2, third
<1>3. PICK g : IsTrace(g, u, program, i) /\ u2 = g[5]
  <2> HIDE DEF program
  <2> QED
    BY <1>1 DEF Through
<1>4. SigmaOf(u, g[5], "e", n1, n2, third, "s1", i, n)
  BY <1>1, <1>2, <1>3, SigmaEvaluates
<1> QED
  BY <1>1, <1>3, <1>4 DEF SigmaOf, n1, n2

LEMMA SigmaAEvaluates ==
  ASSUME NEW i \in 0 .. 63, NEW n, NEW u, Sound(u, n), NEW u2, Through(u, u2, SigmaA, i)
  PROVE  /\ Goes(u, u2, n, 0) /\ Leaves(u, u2, {"t0", "t1", "s0"}, i, n)
         /\ Val(u2, "s0", i) = Xor3(Rotr(Val(u, "a", i), 2), Rotr(Val(u, "a", i), 13),
                                    Rotr(Val(u, "a", i), 22))
<1> DEFINE n1 == 2    n2 == 13    third == ROT("a", 22, "t1")
           program == Sigma("a", n1, n2, third, "s0")
<1>1. /\ IsThird(third, "a") /\ n1 \in 0 .. 31 /\ n2 \in 0 .. 31
      /\ PlainResult(u, third, i) = Rotr(Val(u, "a", i), 22)
      /\ Len(program) = 5 /\ SigmaA = program
  BY RotCall, SigmaList DEF IsThird, SigmaA
<1>2. Readable("a", i, n)
  BY RegisterNames
<1> HIDE DEF n1, n2, third
<1>3. PICK g : IsTrace(g, u, program, i) /\ u2 = g[5]
  <2> HIDE DEF program
  <2> QED
    BY <1>1 DEF Through
<1>4. SigmaOf(u, g[5], "a", n1, n2, third, "s0", i, n)
  BY <1>1, <1>2, <1>3, SigmaEvaluates
<1> QED
  BY <1>1, <1>3, <1>4 DEF SigmaOf, n1, n2

(* An iteration of the compression is a round of the standard.                *)
State8(u) == [q \in 1 .. 8 |-> Recon(u.reg[Vars8[q]])]

ChainWords(u) == [q \in 1 .. 8 |-> Recon(u.reg[H8[q]])]

Compressed(u, u2, i) ==
  /\ Goes(u, u2, 64, 9) /\ u2.w = u.w
  /\ State8(u2) = RoundOf(State8(u), k[i], Recon(u.w[i]))
  /\ ChainWords(u2) = ChainWords(u)

LEMMA StateWords ==
  ASSUME NEW u, NEW i \in Int
  PROVE  /\ State8(u) = <<Val(u, "a", i), Val(u, "b", i), Val(u, "c", i), Val(u, "d", i),
                          Val(u, "e", i), Val(u, "f", i), Val(u, "g", i), Val(u, "h", i)>>
         /\ ChainWords(u) =
              <<Val(u, "H0", i), Val(u, "H1", i), Val(u, "H2", i), Val(u, "H3", i),
                Val(u, "H4", i), Val(u, "H5", i), Val(u, "H6", i), Val(u, "H7", i)>>
<1>1. \A v \in Registers : Val(u, v, i) = Recon(u.reg[v])
  BY ValPlaces
<1>2. /\ Vars8[1] = "a" /\ Vars8[2] = "b" /\ Vars8[3] = "c" /\ Vars8[4] = "d"
      /\ Vars8[5] = "e" /\ Vars8[6] = "f" /\ Vars8[7] = "g" /\ Vars8[8] = "h"
  BY DEF Vars8
<1>3. /\ H8[1] = "H0" /\ H8[2] = "H1" /\ H8[3] = "H2" /\ H8[4] = "H3"
      /\ H8[5] = "H4" /\ H8[6] = "H5" /\ H8[7] = "H6" /\ H8[8] = "H7"
  BY DEF H8
<1>4. /\ Val(u, "a", i) = Recon(u.reg["a"]) /\ Val(u, "b", i) = Recon(u.reg["b"])
      /\ Val(u, "c", i) = Recon(u.reg["c"]) /\ Val(u, "d", i) = Recon(u.reg["d"])
      /\ Val(u, "e", i) = Recon(u.reg["e"]) /\ Val(u, "f", i) = Recon(u.reg["f"])
      /\ Val(u, "g", i) = Recon(u.reg["g"]) /\ Val(u, "h", i) = Recon(u.reg["h"])
  BY <1>1, RegisterNames
<1>5. /\ Val(u, "H0", i) = Recon(u.reg["H0"]) /\ Val(u, "H1", i) = Recon(u.reg["H1"])
      /\ Val(u, "H2", i) = Recon(u.reg["H2"]) /\ Val(u, "H3", i) = Recon(u.reg["H3"])
      /\ Val(u, "H4", i) = Recon(u.reg["H4"]) /\ Val(u, "H5", i) = Recon(u.reg["H5"])
      /\ Val(u, "H6", i) = Recon(u.reg["H6"]) /\ Val(u, "H7", i) = Recon(u.reg["H7"])
  BY <1>1, RegisterNames
<1>6. State8(u) = <<Recon(u.reg["a"]), Recon(u.reg["b"]), Recon(u.reg["c"]),
                    Recon(u.reg["d"]), Recon(u.reg["e"]), Recon(u.reg["f"]),
                    Recon(u.reg["g"]), Recon(u.reg["h"])>>
  BY <1>2 DEF State8
<1>7. ChainWords(u) = <<Recon(u.reg["H0"]), Recon(u.reg["H1"]), Recon(u.reg["H2"]),
                        Recon(u.reg["H3"]), Recon(u.reg["H4"]), Recon(u.reg["H5"]),
                        Recon(u.reg["H6"]), Recon(u.reg["H7"])>>
  BY <1>3 DEF ChainWords
<1> QED
  BY <1>4, <1>5, <1>6, <1>7

LEMMA CompressEvaluates ==
  ASSUME NEW i \in 0 .. 63, NEW u, Sound(u, 64), u.rand + 9 <= TapeWords, NEW u2,
         Through(u, u2, ProveCompress, i)
  PROVE  Compressed(u, u2, i)
<1> DEFINE n == 64
<1>0. i < n /\ n \in Nat /\ Sound(u, n) /\ u.rand \in Nat /\ i \in Int
  BY DEF Sound
<1> HIDE DEF n
<1>1. PICK u3, u4, u5, u6, u7, u8 :
        /\ Through(u, u3, SigmaE, i) /\ Through(u3, u4, Choose, i)
        /\ Through(u4, u5, AddKey, i) /\ Through(u5, u6, AddWord, i)
        /\ Through(u6, u7, SigmaA, i) /\ Through(u7, u8, Majority3, i)
        /\ Through(u8, u2, Rotation, i)
  <2>1. ProveCompress = Compress(AddKey)
    BY DEF ProveCompress, AddKey
  <2> QED
    BY <2>1, PieceLists, CompressPieces
<1>2. \A v \in {"a", "b", "c", "d", "e", "f", "g", "h", "s0", "s1", "t0", "t1", "temp1",
                "temp2", "maj", "H0", "H1", "H2", "H3", "H4", "H5", "H6", "H7"} :
        Readable(v, i, n) /\ v \in Registers
  BY RegisterNames
<1>3. Readable("w", i, n) /\ "w" \notin Registers
  BY <1>0, Places DEF Readable
<1> DEFINE P(v) == Val(u, v, i)
           S1 == Xor3(Rotr(P("e"), 6), Rotr(P("e"), 11), Rotr(P("e"), 25))
           S0 == Xor3(Rotr(P("a"), 2), Rotr(P("a"), 13), Rotr(P("a"), 22))
           CC == PlainProduct("CH", P("e"), P("f"), P("g"))
           MM == PlainProduct("MAJ", P("a"), P("b"), P("c"))
           T1 == Sum(Sum(Sum(Sum(P("h"), S1), CC), k[i]), P("w"))
           T2 == Sum(S0, MM)
<1>4. /\ Goes(u, u3, n, 0) /\ Leaves(u, u3, {"t0", "t1", "s1"}, i, n)
      /\ Val(u3, "s1", i) = S1
  BY <1>0, <1>1, SigmaEEvaluates
<1>5. /\ Goes(u3, u4, n, 3) /\ Leaves(u3, u4, {"t0", "t1"}, i, n)
      /\ Val(u4, "t1", i) =
           Sum(Sum(Val(u3, "h", i), Val(u3, "s1", i)),
               PlainProduct("CH", Val(u3, "e", i), Val(u3, "f", i), Val(u3, "g", i)))
  <2>1. Sound(u3, n) /\ u3.rand + 3 <= TapeWords
    BY <1>0, <1>4, Sizes DEF Goes
  <2> QED
    BY <1>1, <2>1, ChooseEvaluates
<1>6. Goes(u, u4, n, 3)
  BY <1>0, <1>4, <1>5, GoesOn
<1>7. /\ Goes(u4, u5, n, 1) /\ Leaves(u4, u5, {"t1"}, i, n)
      /\ Val(u5, "t1", i) = Sum(Val(u4, "t1", i), k[i])
  <2>1. Sound(u4, n) /\ u4.rand + 1 <= TapeWords
    BY <1>0, <1>6, Sizes DEF Goes
  <2> QED
    BY <1>1, <2>1, AddKeyEvaluates
<1>8. Goes(u, u5, n, 4)
  BY <1>0, <1>6, <1>7, GoesOn
<1>9. /\ Goes(u5, u6, n, 1) /\ Leaves(u5, u6, {"temp1"}, i, n)
      /\ Val(u6, "temp1", i) = Sum(Val(u5, "t1", i), Val(u5, "w", i))
  <2>1. Sound(u5, n) /\ u5.rand + 1 <= TapeWords
    BY <1>0, <1>8, Sizes DEF Goes
  <2> QED
    BY <1>0, <1>1, <2>1, AddWordEvaluates
<1>10. Goes(u, u6, n, 5)
  BY <1>0, <1>8, <1>9, GoesOn
<1>11. /\ Goes(u6, u7, n, 0) /\ Leaves(u6, u7, {"t0", "t1", "s0"}, i, n)
       /\ Val(u7, "s0", i) = Xor3(Rotr(Val(u6, "a", i), 2), Rotr(Val(u6, "a", i), 13),
                                  Rotr(Val(u6, "a", i), 22))
  <2>1. Sound(u6, n)
    BY <1>10 DEF Goes
  <2> QED
    BY <1>1, <2>1, SigmaAEvaluates
<1>12. Goes(u, u7, n, 5)
  BY <1>0, <1>10, <1>11, GoesOn
<1>13. /\ Goes(u7, u8, n, 2) /\ Leaves(u7, u8, {"maj", "temp2"}, i, n)
       /\ Val(u8, "temp2", i) =
            Sum(Val(u7, "s0", i),
                PlainProduct("MAJ", Val(u7, "a", i), Val(u7, "b", i), Val(u7, "c", i)))
  <2>1. Sound(u7, n) /\ u7.rand + 2 <= TapeWords
    BY <1>0, <1>12, Sizes DEF Goes
  <2> QED
    BY <1>1, <2>1, MajorityEvaluates
<1>14. Goes(u, u8, n, 7)
  BY <1>0, <1>12, <1>13, GoesOn
<1>15. /\ Goes(u8, u2, n, 2)
       /\ Leaves(u8, u2, {"h", "g", "f", "e", "d", "c", "b", "a"}, i, n)
       /\ Val(u2, "h", i) = Val(u8, "g", i) /\ Val(u2, "g", i) = Val(u8, "f", i)
       /\ Val(u2, "f", i) = Val(u8, "e", i)
       /\ Val(u2, "e", i) = Sum(Val(u8, "d", i), Val(u8, "temp1", i))
       /\ Val(u2, "d", i) = Val(u8, "c", i) /\ Val(u2, "c", i) = Val(u8, "b", i)
       /\ Val(u2, "b", i) = Val(u8, "a", i)
       /\ Val(u2, "a", i) = Sum(Val(u8, "temp1", i), Val(u8, "temp2", i))
  <2>1. Sound(u8, n) /\ u8.rand + 2 <= TapeWords
    BY <1>0, <1>14, Sizes DEF Goes
  <2> QED
    BY <1>1, <2>1, RotationEvaluates
<1>16. Goes(u, u2, n, 9)
  BY <1>0, <1>14, <1>15, GoesOn
<1>17. u2.w = u.w
  BY <1>4, <1>5, <1>7, <1>9, <1>11, <1>13, <1>15 DEF Leaves
<1>18. Val(u4, "t1", i) = Sum(Sum(P("h"), S1), CC) /\ Val(u4, "w", i) = P("w")
  <2>1. \A v \in {"e", "f", "g", "h", "w"} : Val(u3, v, i) = P(v)
    BY <1>2, <1>3, <1>4 DEF Leaves
  <2>2. Val(u4, "w", i) = Val(u3, "w", i)
    BY <1>3, <1>5 DEF Leaves
  <2> HIDE DEF P, S1
  <2> QED
    BY <1>4, <1>5, <2>1, <2>2
<1>19. Val(u6, "temp1", i) = T1
  <2>1. Val(u5, "w", i) = P("w")
    BY <1>3, <1>7, <1>18 DEF Leaves
  <2> HIDE DEF P, S1, CC
  <2> QED
    BY <1>7, <1>9, <1>18, <2>1
<1>20. \A v \in {"a", "b", "c", "d", "e", "f", "g", "H0", "H1", "H2", "H3", "H4", "H5", "H6", "H7"} :
         Val(u6, v, i) = P(v) /\ Val(u8, v, i) = P(v)
  BY <1>2, <1>4, <1>5, <1>7, <1>9, <1>11, <1>13 DEF Leaves
<1>21. Val(u8, "temp1", i) = T1
  <2> HIDE DEF T1
  <2> QED
    BY <1>2, <1>11, <1>13, <1>19 DEF Leaves
<1>22. Val(u8, "temp2", i) = T2
  <2>1. \A v \in {"a", "b", "c"} : Val(u7, v, i) = P(v)
    BY <1>2, <1>11, <1>20 DEF Leaves
  <2>2. Val(u7, "s0", i) = S0
    <3> HIDE DEF P
    <3> QED
      BY <1>11, <1>20
  <2> HIDE DEF P, S0
  <2> QED
    BY <1>13, <2>1, <2>2
<1>23. /\ Val(u2, "a", i) = Sum(T1, T2) /\ Val(u2, "b", i) = P("a")
       /\ Val(u2, "c", i) = P("b") /\ Val(u2, "d", i) = P("c")
       /\ Val(u2, "e", i) = Sum(P("d"), T1) /\ Val(u2, "f", i) = P("e")
       /\ Val(u2, "g", i) = P("f") /\ Val(u2, "h", i) = P("g")
  <2> HIDE DEF P, T1, T2
  <2> QED
    BY <1>15, <1>20, <1>21, <1>22
<1>24. State8(u2) = <<Sum(T1, T2), P("a"), P("b"), P("c"), Sum(P("d"), T1), P("e"), P("f"),
                      P("g")>>
  <2> HIDE DEF P, T1, T2
  <2>1. State8(u2) = <<Val(u2, "a", i), Val(u2, "b", i), Val(u2, "c", i), Val(u2, "d", i),
                       Val(u2, "e", i), Val(u2, "f", i), Val(u2, "g", i), Val(u2, "h", i)>>
    BY <1>0, StateWords
  <2> QED
    BY <1>23, <2>1
<1>25. State8(u2) = RoundOf(State8(u), k[i], Recon(u.w[i]))
  <2> DEFINE s == State8(u)
  <2>1. s = <<P("a"), P("b"), P("c"), P("d"), P("e"), P("f"), P("g"), P("h")>>
    BY <1>0, StateWords
  <2>2. Recon(u.w[i]) = P("w")
    BY <1>0, ValPlaces
  <2> HIDE DEF s, P
  <2>3. /\ s[1] = P("a") /\ s[2] = P("b") /\ s[3] = P("c") /\ s[4] = P("d")
        /\ s[5] = P("e") /\ s[6] = P("f") /\ s[7] = P("g") /\ s[8] = P("h")
    BY <2>1
  <2>4. RoundOf(s, k[i], P("w")) =
          <<Sum(T1, T2), P("a"), P("b"), P("c"), Sum(P("d"), T1), P("e"), P("f"), P("g")>>
    BY <2>3 DEF RoundOf, Sum3
  <2> QED
    BY <1>24, <2>2, <2>4 DEF s
<1>26. ChainWords(u2) = ChainWords(u)
  <2>1. \A v \in {"H0", "H1", "H2", "H3", "H4", "H5", "H6", "H7"} :
          Val(u2, v, i) = P(v)
    BY <1>2, <1>15, <1>20 DEF Leaves
  <2> HIDE DEF P
  <2>2. ChainWords(u2) =
          <<Val(u2, "H0", i), Val(u2, "H1", i), Val(u2, "H2", i), Val(u2, "H3", i),
            Val(u2, "H4", i), Val(u2, "H5", i), Val(u2, "H6", i), Val(u2, "H7", i)>>
    BY <1>0, StateWords
  <2>3. ChainWords(u) =
          <<P("H0"), P("H1"), P("H2"), P("H3"), P("H4"), P("H5"), P("H6"), P("H7")>>
    BY <1>0, StateWords DEF P
  <2> QED
    BY <2>1, <2>2, <2>3
<1> QED
  BY <1>16, <1>17, <1>25, <1>26 DEF Compressed, n

(* Calls with different destinations, one after the other.                     *)
LEMMA SuccessiveCalls ==
  ASSUME NEW i, NEW n, NEW u, NEW g, NEW C, NEW program, Len(program) = 8,
         IsTrace(g, u, program, i), Evaluates(g, u, program, i, n, C),
         NEW D, \A p \in 1 .. 8 : program[p].dst = D[p] /\ D[p] \in Registers,
         \A p \in 1 .. 8, q \in 1 .. 8 : p # q => D[p] # D[q]
  PROVE  \A p \in 0 .. 8 :
           /\ \A q \in 1 .. p : Val(g[p], D[q], i) = PlainResult(g[q - 1], program[q], i)
           /\ \A v : Readable(v, i, n) /\ (\A q \in 1 .. p : v # D[q])
                       => Val(g[p], v, i) = Val(u, v, i)
           /\ g[p].w = u.w
<1> DEFINE After(p) ==
             /\ \A q \in 1 .. p : Val(g[p], D[q], i) = PlainResult(g[q - 1], program[q], i)
             /\ \A v : Readable(v, i, n) /\ (\A q \in 1 .. p : v # D[q])
                         => Val(g[p], v, i) = Val(u, v, i)
             /\ g[p].w = u.w
           T == {p \in Nat : p <= 8 => After(p)}
<1>1. 0 \in T
  BY DEF IsTrace
<1>2. ASSUME NEW p \in Nat, p \in T PROVE p + 1 \in T
  <2> SUFFICES ASSUME p + 1 <= 8 PROVE After(p + 1)
    OBVIOUS
  <2>1. p + 1 \in 1 .. 8 /\ (p + 1) - 1 = p /\ After(p)
    BY <1>2
  <2>2. Sets(g[p], g[p + 1], D[p + 1], PlainResult(g[p], program[p + 1], i), i, n)
    <3> DEFINE l == p + 1
    <3>1. Sets(g[l - 1], g[l], program[l].dst, PlainResult(g[l - 1], program[l], i), i, n)
      <4> HIDE DEF l
      <4>1. l \in 1 .. 8
        BY <2>1 DEF l
      <4> QED
        BY <4>1 DEF Evaluates
    <3> QED
      BY <2>1, <3>1
  <2>3. /\ \A q \in 1 .. p : D[q] # D[p + 1] /\ Readable(D[q], i, n)
        /\ D[p + 1] \in Registers
    <3>1. \A q \in 1 .. p : q \in 1 .. 8 /\ q # p + 1
      BY <2>1
    <3> QED
      BY <2>1, <3>1, RegisterNames
  <2>4. \A q \in 1 .. p + 1 : Val(g[p + 1], D[q], i) = PlainResult(g[q - 1], program[q], i)
    <3> TAKE q \in 1 .. p + 1
    <3>1. CASE q = p + 1
      BY <2>1, <2>2, <3>1 DEF Sets
    <3>2. CASE q \in 1 .. p
      <4>1. Val(g[p + 1], D[q], i) = Val(g[p], D[q], i)
        BY <2>2, <2>3, <3>2 DEF Sets
      <4> QED
        BY <2>1, <3>2, <4>1
    <3> QED
      BY <3>1, <3>2
  <2>5. ASSUME NEW v, Readable(v, i, n), \A q \in 1 .. p + 1 : v # D[q]
        PROVE  Val(g[p + 1], v, i) = Val(u, v, i)
    <3>1. v # D[p + 1] /\ \A q \in 1 .. p : v # D[q]
      BY <2>5
    <3>2. Val(g[p + 1], v, i) = Val(g[p], v, i)
      BY <2>2, <2>5, <3>1 DEF Sets
    <3> QED
      BY <2>1, <2>5, <3>1, <3>2
  <2>6. g[p + 1].w = u.w
    BY <2>1, <2>2, <2>3 DEF Sets
  <2> QED
    BY <2>4, <2>5, <2>6
<1> HIDE DEF After
<1>3. Nat \subseteq T
  <2> HIDE DEF T
  <2> QED
    BY <1>1, <1>2, SetInduction
<1>4. \A p \in 0 .. 8 : After(p)
  BY <1>3
<1> QED
  BY <1>4 DEF After

LEMMA EightNames ==
  /\ \A q \in 1 .. 8 : H8[q] \in Registers /\ Vars8[q] \in Registers
  /\ \A p \in 1 .. 8, q \in 1 .. 8 : H8[p] # Vars8[q]
  /\ \A p \in 1 .. 8, q \in 1 .. 8 : p # q => H8[p] # H8[q] /\ Vars8[p] # Vars8[q]
<1>1. \A q \in 1 .. 8 : /\ H8[q] \in {"H0", "H1", "H2", "H3", "H4", "H5", "H6", "H7"}
                        /\ Vars8[q] \in {"a", "b", "c", "d", "e", "f", "g", "h"}
  BY DEF H8, Vars8
<1>2. \A q \in 1 .. 8 : H8[q] \in Registers /\ Vars8[q] \in Registers
  BY <1>1, RegisterNames
<1>3. \A p \in 1 .. 8, q \in 1 .. 8 : H8[p] # Vars8[q]
  BY <1>1
<1>4. \A p \in 1 .. 8, q \in 1 .. 8 : p # q => H8[p] # H8[q]
  BY DEF H8
<1>5. \A p \in 1 .. 8, q \in 1 .. 8 : p # q => Vars8[p] # Vars8[q]
  BY DEF Vars8
<1> QED
  BY <1>2, <1>3, <1>4, <1>5

(* The copies before, and the additions after the rounds.                      *)
LEMMA LoadProgram ==
  ASSUME NEW i \in 0 .. 63, NEW n
  PROVE  /\ Len(Load) = 8 /\ \A p \in 1 .. 8 : Load[p] = COPY(H8[p], Vars8[p])
         /\ ProgramOK(Load, i, n) /\ \E C : Costs(C, Load) /\ C[8] = 0
<1> DEFINE C == [p \in 0 .. 8 |-> 0]
           program == Load
<1>1. Len(program) = 8 /\ \A p \in 1 .. 8 : program[p] = COPY(H8[p], Vars8[p])
  BY DEF Load
<1> HIDE DEF program
<1>2. ProgramOK(program, i, n)
  <2>1. \A p \in 1 .. 8 : CallOK(COPY(H8[p], Vars8[p]), i, n)
    BY EightNames, RegisterNames, CopyCall DEF Writable
  <2> QED
    BY <1>1, <2>1 DEF ProgramOK
<1>3. Costs(C, program)
  <2>1. \A p \in 1 .. 8 : Gates(COPY(H8[p], Vars8[p])) = 0
    BY CopyCall
  <2> QED
    BY <1>1, <2>1 DEF Costs
<1>4. C[8] = 0
  OBVIOUS
<1> QED
  BY <1>1, <1>2, <1>3, <1>4 DEF program

LEMMA LoadEvaluates ==
  ASSUME NEW u, Sound(u, 64), NEW u2, Through(u, u2, Load, 0)
  PROVE  /\ Goes(u, u2, 64, 0) /\ u2.w = u.w
         /\ State8(u2) = ChainWords(u) /\ ChainWords(u2) = ChainWords(u)
<1> DEFINE i == 0    n == 64    program == Load
<1>0. i \in 0 .. 63 /\ i \in Int /\ Sound(u, n)
  OBVIOUS
<1>1. Len(program) = 8 /\ \A p \in 1 .. 8 : program[p] = COPY(H8[p], Vars8[p])
  BY <1>0, LoadProgram
<1>2. PICK g : IsTrace(g, u, program, i) /\ u2 = g[8]
  <2> HIDE DEF program
  <2> QED
    BY <1>1 DEF Through, program
<1> HIDE DEF i, n, program
<1>3. ProgramOK(program, i, n)
  BY <1>0, LoadProgram DEF program
<1>4. PICK C : Costs(C, program) /\ C[8] = 0
  BY <1>0, LoadProgram DEF program
<1>5. C[8] = 0 /\ u.rand + 0 <= TapeWords
  BY <1>4, Sizes DEF Sound
<1>6. Evaluates(g, u, program, i, n, C)
  BY <1>0, <1>1, <1>2, <1>3, <1>4, <1>5, RunEvaluates
<1>7. Goes(u, u2, n, 0)
  BY <1>1, <1>2, <1>5, <1>6 DEF Evaluates
<1>8. \A p \in 0 .. 8 :
        /\ \A q \in 1 .. p : Val(g[p], Vars8[q], i) = PlainResult(g[q - 1], program[q], i)
        /\ \A v : Readable(v, i, n) /\ (\A q \in 1 .. p : v # Vars8[q])
                    => Val(g[p], v, i) = Val(u, v, i)
        /\ g[p].w = u.w
  <2>1. \A p \in 1 .. 8 : program[p].dst = Vars8[p] /\ Vars8[p] \in Registers
    BY <1>1, CopyCall, EightNames
  <2>2. \A p \in 1 .. 8, q \in 1 .. 8 : p # q => Vars8[p] # Vars8[q]
    BY EightNames
  <2> QED
    BY <1>1, <1>2, <1>6, <2>1, <2>2, SuccessiveCalls
<1>9. \A p \in 0 .. 8, q \in 1 .. 8 : Val(g[p], H8[q], i) = Val(u, H8[q], i)
  BY <1>8, EightNames, RegisterNames
<1>10. \A q \in 1 .. 8 : Val(u2, Vars8[q], i) = Val(u, H8[q], i)
  <2> TAKE q \in 1 .. 8
  <2>1. Val(u2, Vars8[q], i) = PlainResult(g[q - 1], program[q], i)
    BY <1>2, <1>8
  <2>2. PlainResult(g[q - 1], program[q], i) = Val(g[q - 1], H8[q], i)
    BY <1>1, CopyCall
  <2> QED
    BY <1>9, <2>1, <2>2
<1>11. \A q \in 1 .. 8 : Recon(u2.reg[Vars8[q]]) = Recon(u.reg[H8[q]])
                         /\ Recon(u2.reg[H8[q]]) = Recon(u.reg[H8[q]])
  <2>1. \A v \in Registers : Val(u, v, i) = Recon(u.reg[v]) /\ Val(u2, v, i) = Recon(u2.reg[v])
    BY <1>0, ValPlaces
  <2>2. \A q \in 1 .. 8 : Val(u2, H8[q], i) = Val(u, H8[q], i)
    BY <1>2, <1>9
  <2> QED
    BY <1>10, <2>1, <2>2, EightNames
<1> QED
  BY <1>2, <1>7, <1>8, <1>11 DEF State8, ChainWords, n

LEMMA FeedProgram ==
  ASSUME NEW i \in 0 .. 63, NEW n
  PROVE  /\ Len(Feed) = 8 /\ \A p \in 1 .. 8 : Feed[p] = ADD(H8[p], Vars8[p], H8[p])
         /\ ProgramOK(Feed, i, n) /\ \E C : Costs(C, Feed) /\ C[8] = 8
<1> DEFINE C == [p \in 0 .. 8 |-> p]
           program == Feed
<1>1. Len(program) = 8 /\ \A p \in 1 .. 8 : program[p] = ADD(H8[p], Vars8[p], H8[p])
  BY DEF Feed
<1> HIDE DEF program
<1>2. ProgramOK(program, i, n)
  <2>1. \A p \in 1 .. 8 : CallOK(ADD(H8[p], Vars8[p], H8[p]), i, n)
    BY EightNames, RegisterNames, AddCall DEF Writable
  <2> QED
    BY <1>1, <2>1 DEF ProgramOK
<1>3. Costs(C, program)
  <2>1. \A p \in 1 .. 8 : Gates(ADD(H8[p], Vars8[p], H8[p])) = 1
    BY AddCall
  <2> QED
    BY <1>1, <2>1 DEF Costs
<1>4. C[8] = 8
  OBVIOUS
<1> QED
  BY <1>1, <1>2, <1>3, <1>4 DEF program

LEMMA FeedEvaluates ==
  ASSUME NEW u, Sound(u, 64), u.rand + 8 <= TapeWords, NEW u2, Through(u, u2, Feed, 0)
  PROVE  /\ Goes(u, u2, 64, 8) /\ u2.w = u.w
         /\ ChainWords(u2) = [q \in 1 .. 8 |-> Sum(ChainWords(u)[q], State8(u)[q])]
<1> DEFINE i == 0    n == 64    program == Feed
<1>0. i \in 0 .. 63 /\ i \in Int /\ Sound(u, n)
  OBVIOUS
<1>1. Len(program) = 8 /\ \A p \in 1 .. 8 : program[p] = ADD(H8[p], Vars8[p], H8[p])
  BY <1>0, FeedProgram
<1>2. PICK g : IsTrace(g, u, program, i) /\ u2 = g[8]
  <2> HIDE DEF program
  <2> QED
    BY <1>1 DEF Through, program
<1> HIDE DEF i, n, program
<1>3. ProgramOK(program, i, n)
  BY <1>0, FeedProgram DEF program
<1>4. PICK C : Costs(C, program) /\ C[8] = 8
  BY <1>0, FeedProgram DEF program
<1>5. C[8] = 8
  BY <1>4
<1>6. Evaluates(g, u, program, i, n, C)
  BY <1>0, <1>1, <1>2, <1>3, <1>4, <1>5, RunEvaluates
<1>7. Goes(u, u2, n, 8)
  BY <1>1, <1>2, <1>5, <1>6 DEF Evaluates
<1>8. \A p \in 0 .. 8 :
        /\ \A q \in 1 .. p : Val(g[p], H8[q], i) = PlainResult(g[q - 1], program[q], i)
        /\ \A v : Readable(v, i, n) /\ (\A q \in 1 .. p : v # H8[q])
                    => Val(g[p], v, i) = Val(u, v, i)
        /\ g[p].w = u.w
  <2>1. \A p \in 1 .. 8 : program[p].dst = H8[p] /\ H8[p] \in Registers
    BY <1>1, AddCall, EightNames
  <2>2. \A p \in 1 .. 8, q \in 1 .. 8 : p # q => H8[p] # H8[q]
    BY EightNames
  <2> QED
    BY <1>1, <1>2, <1>6, <2>1, <2>2, SuccessiveCalls
<1>9. \A q \in 1 .. 8 : /\ Val(g[q - 1], H8[q], i) = Val(u, H8[q], i)
                        /\ Val(g[q - 1], Vars8[q], i) = Val(u, Vars8[q], i)
  <2> TAKE q \in 1 .. 8
  <2>1. q - 1 \in 0 .. 8 /\ \A p \in 1 .. q - 1 : p \in 1 .. 8 /\ p # q
    OBVIOUS
  <2>2. \A p \in 1 .. q - 1 : H8[q] # H8[p] /\ Vars8[q] # H8[p]
    BY <2>1, EightNames
  <2> QED
    BY <1>8, <2>1, <2>2, EightNames, RegisterNames
<1>10. \A q \in 1 .. 8 : Val(u2, H8[q], i) = Sum(Val(u, H8[q], i), Val(u, Vars8[q], i))
  <2> TAKE q \in 1 .. 8
  <2>1. Val(u2, H8[q], i) = PlainResult(g[q - 1], program[q], i)
    BY <1>2, <1>8
  <2>2. PlainResult(g[q - 1], program[q], i) =
          Sum(Val(g[q - 1], H8[q], i), Val(g[q - 1], Vars8[q], i))
    BY <1>1, AddCall
  <2> QED
    BY <1>9, <2>1, <2>2
<1>11. \A q \in 1 .. 8 :
         Recon(u2.reg[H8[q]]) = Sum(Recon(u.reg[H8[q]]), Recon(u.reg[Vars8[q]]))
  BY <1>0, <1>10, ValPlaces, EightNames
<1> QED
  BY <1>2, <1>7, <1>8, <1>11 DEF State8, ChainWords, n

-----------------------------------------------------------------------------
(* The loops of the prover.                                                   *)

(* After the iterations below i of the schedule.                              *)
Scheduled(u, u2, i) ==
  /\ Goes(u, u2, i, 3 * (i - 16))
  /\ \A j \in 0 .. 15 : u2.w[j] = u.w[j]
  /\ \A j \in 16 .. i - 1 :
       Recon(u2.w[j]) = ScheduleWord(Recon(u2.w[j - 2]), Recon(u2.w[j - 7]),
                                     Recon(u2.w[j - 15]), Recon(u2.w[j - 16]))
  /\ ChainWords(u2) = ChainWords(u)

LEMMA ExpandRun ==
  ASSUME NEW i \in 16 .. 63, NEW u, Sound(u, i), u.rand + 3 <= TapeWords
  PROVE  Expanded(u, Run(u, ProveExpand, i), i)
<1>1. Len(ProveExpand) \in Nat
  <2>1. IsList(ExpandSum)
    <3> DEFINE c1 == ADD("w-16", "s0", "t1")    c2 == ADD("w-7", "t1", "t1")
               c3 == ADD("t1", "s1", "w")
    <3>1. ExpandSum = <<c1, c2, c3>>
      BY DEF ExpandSum
    <3> HIDE DEF c1, c2, c3
    <3>2. <<c1, c2, c3>> \in Seq({c1, c2, c3})
      OBVIOUS
    <3> QED
      BY <3>1, <3>2 DEF IsList
  <2> DEFINE A == Sigma("w-15", 7, 18, SHR("w-15", 3, "t1"), "s0")
             B == Sigma("w-2", 17, 19, SHR("w-2", 10, "t1"), "s1")
  <2>2. IsList(A) /\ IsList(B)
    BY SigmaList
  <2>3. ProveExpand = (A \o B) \o ExpandSum
    BY DEF ProveExpand, ExpandSum
  <2> HIDE DEF A, B
  <2>4. IsList(A \o B)
    BY <2>2, ListComposed
  <2>5. Len((A \o B) \o ExpandSum) = Len(A \o B) + Len(ExpandSum)
        /\ Len(A \o B) \in Nat /\ Len(ExpandSum) \in Nat
    BY <2>1, <2>4, ListComposed
  <2> QED
    BY <2>3, <2>5
<1>2. PICK g : IsTrace(g, u, ProveExpand, i)
               /\ Run(u, ProveExpand, i) = g[Len(ProveExpand)]
  BY <1>1, RunTrace
<1> QED
  BY <1>2, ExpandEvaluates

LEMMA ExpandLoop ==
  ASSUME NEW u, Sound(u, 16), u.rand + 144 <= TapeWords, NEW h,
         IsLoop(h, u, ProveExpand, 16)
  PROVE  /\ \A i \in 16 .. 64 : Scheduled(u, h[i], i)
         /\ \A i \in 16 .. 63 : Goes(h[i], h[i + 1], i + 1, 3)
<1> DEFINE After(i) == /\ Scheduled(u, h[i], i)
                       /\ i > 16 => Goes(h[i - 1], h[i], i, 3)
           T == {p \in Nat : 16 + p <= 64 => After(16 + p)}
<1>1. 0 \in T
  <2>1. h[16] = u
    BY DEF IsLoop
  <2>2. Goes(u, u, 16, 0)
    BY Sizes DEF Goes, Keeps, Sound
  <2> QED
    BY <2>1, <2>2 DEF Scheduled
<1>2. ASSUME NEW p \in Nat, p \in T PROVE p + 1 \in T
  <2> SUFFICES ASSUME 16 + (p + 1) <= 64 PROVE After(16 + (p + 1))
    OBVIOUS
  <2> DEFINE i == 16 + p
  <2>1. i \in 16 .. 63 /\ 16 + (p + 1) = i + 1 /\ (i + 1) - 1 = i /\ After(i)
    BY <1>2
  <2> DEFINE u1 == h[i]    u2 == h[i + 1]
  <2>2. u2 = Run(u1, ProveExpand, i)
    BY <2>1 DEF IsLoop
  <2> HIDE DEF i
  <2>3. Scheduled(u, u1, i)
    BY <2>1
  <2>4. Sound(u1, i) /\ u1.rand + 3 <= TapeWords /\ u.rand \in Nat
    BY <2>1, <2>3, Sizes DEF Scheduled, Goes, Sound
  <2> HIDE DEF u1, u2
  <2>5. Expanded(u1, u2, i)
    BY <2>1, <2>2, <2>4, ExpandRun
  <2>6. Goes(u1, u2, i + 1, 3)
    BY <2>5 DEF Expanded
  <2>7. Goes(u, u2, i + 1, 3 * ((i + 1) - 16))
    <3> DEFINE c1 == 3 * (i - 16)    c2 == 3    n2 == i + 1    n1 == 16
    <3>1. /\ c1 \in Nat /\ 3 * ((i + 1) - 16) = c1 + c2 /\ c2 \in Nat /\ Sound(u, n1)
          /\ Goes(u, u1, i, c1) /\ Goes(u1, u2, n2, c2)
      BY <2>1, <2>3, <2>6 DEF Scheduled
    <3> HIDE DEF c1, c2, n1, n2
    <3>2. Goes(u, u2, n2, c1 + c2)
      BY <3>1, GoesOn
    <3> QED
      BY <3>1, <3>2 DEF n2
  <2>8. \A j \in 0 .. i - 1 : u2.w[j] = u1.w[j]
    BY <2>5 DEF Expanded
  <2>9. \A j \in 0 .. 15 : u2.w[j] = u.w[j]
    BY <2>1, <2>3, <2>8 DEF Scheduled
  <2>10. ASSUME NEW j \in 16 .. (i + 1) - 1
         PROVE  Recon(u2.w[j]) = ScheduleWord(Recon(u2.w[j - 2]), Recon(u2.w[j - 7]),
                                              Recon(u2.w[j - 15]), Recon(u2.w[j - 16]))
    <3>1. /\ u2.w[j - 2] = u1.w[j - 2] /\ u2.w[j - 7] = u1.w[j - 7]
          /\ u2.w[j - 15] = u1.w[j - 15] /\ u2.w[j - 16] = u1.w[j - 16]
      <4>1. /\ j - 2 \in 0 .. i - 1 /\ j - 7 \in 0 .. i - 1
            /\ j - 15 \in 0 .. i - 1 /\ j - 16 \in 0 .. i - 1
        BY <2>1
      <4> QED
        BY <2>8, <4>1
    <3>2. CASE j = i
      BY <2>5, <3>1, <3>2 DEF Expanded
    <3>3. CASE j # i
      <4>1. j \in 16 .. i - 1 /\ j \in 0 .. i - 1
        BY <2>1, <3>3
      <4> QED
        BY <2>3, <2>8, <3>1, <4>1 DEF Scheduled
    <3> QED
      BY <3>2, <3>3
  <2>11. ChainWords(u2) = ChainWords(u1)
    <3>1. \A q \in 1 .. 8 : H8[q] \in Registers \ {"t0", "t1", "s0", "s1"}
      <4>1. \A q \in 1 .. 8 : H8[q] \notin {"t0", "t1", "s0", "s1"}
        BY DEF H8
      <4> QED
        BY <4>1, EightNames
    <3> QED
      BY <2>5, <3>1 DEF Expanded, ChainWords
  <2>12. Scheduled(u, u2, i + 1)
    BY <2>3, <2>7, <2>9, <2>10, <2>11 DEF Scheduled
  <2> QED
    BY <2>1, <2>6, <2>12 DEF u1, u2
<1> HIDE DEF After
<1>3. Nat \subseteq T
  <2> HIDE DEF T
  <2> QED
    BY <1>1, <1>2, SetInduction
<1>4. ASSUME NEW i \in 16 .. 64 PROVE After(i)
  <2>1. i - 16 \in Nat /\ 16 + (i - 16) = i
    OBVIOUS
  <2>2. i - 16 \in T
    BY <1>3, <2>1
  <2> QED
    BY <2>1, <2>2
<1>5. ASSUME NEW i \in 16 .. 63 PROVE Goes(h[i], h[i + 1], i + 1, 3)
  <2>1. i + 1 \in 16 .. 64 /\ i + 1 > 16 /\ (i + 1) - 1 = i
    OBVIOUS
  <2>2. After(i + 1)
    BY <1>4, <2>1
  <2> QED
    BY <2>1, <2>2 DEF After
<1> QED
  BY <1>4, <1>5 DEF After

LEMMA CompressRun ==
  ASSUME NEW i \in 0 .. 63, NEW u, Sound(u, 64), u.rand + 9 <= TapeWords
  PROVE  Compressed(u, Run(u, ProveCompress, i), i)
<1>1. IsList(ProveCompress)
  <2> DEFINE P2 == SigmaE \o Choose    P3 == P2 \o AddKey      P4 == P3 \o AddWord
             P5 == P4 \o SigmaA        P6 == P5 \o Majority3   P7 == P6 \o Rotation
  <2>1. ProveCompress = P7
    BY DEF ProveCompress, Compress, SigmaE, Choose, AddKey, AddWord, SigmaA, Majority3
  <2>2. IsList(P2)
    BY PieceLists, ListComposed
  <2>3. IsList(P3)
    <3> HIDE DEF P2
    <3> QED
      BY <2>2, PieceLists, ListComposed
  <2>4. IsList(P4)
    <3> HIDE DEF P3
    <3> QED
      BY <2>3, PieceLists, ListComposed
  <2>5. IsList(P5)
    <3> HIDE DEF P4
    <3> QED
      BY <2>4, PieceLists, ListComposed
  <2>6. IsList(P6)
    <3> HIDE DEF P5
    <3> QED
      BY <2>5, PieceLists, ListComposed
  <2>7. IsList(P7)
    <3> HIDE DEF P6
    <3> QED
      BY <2>6, PieceLists, ListComposed
  <2> QED
    BY <2>1, <2>7
<1>2. Through(u, Run(u, ProveCompress, i), ProveCompress, i)
  BY <1>1, RunThrough
<1> QED
  BY <1>2, CompressEvaluates

LEMMA CompressLoop ==
  ASSUME NEW u, Sound(u, 64), u.rand + 576 <= TapeWords, NEW h,
         IsLoop(h, u, ProveCompress, 0)
  PROVE  /\ \A i \in 0 .. 64 : /\ Goes(u, h[i], 64, 9 * i) /\ h[i].w = u.w
                               /\ ChainWords(h[i]) = ChainWords(u)
         /\ \A i \in 0 .. 63 : Compressed(h[i], h[i + 1], i)
<1> DEFINE After(i) == /\ Goes(u, h[i], 64, 9 * i) /\ h[i].w = u.w
                       /\ ChainWords(h[i]) = ChainWords(u)
                       /\ i > 0 => Compressed(h[i - 1], h[i], i - 1)
           T == {p \in Nat : p <= 64 => After(p)}
<1>1. 0 \in T
  <2>1. h[0] = u
    BY DEF IsLoop
  <2>2. Goes(u, u, 64, 0)
    BY Sizes DEF Goes, Keeps, Sound
  <2> QED
    BY <2>1, <2>2
<1>2. ASSUME NEW i \in Nat, i \in T PROVE i + 1 \in T
  <2> SUFFICES ASSUME i + 1 <= 64 PROVE After(i + 1)
    OBVIOUS
  <2>1. i \in 0 .. 63 /\ (i + 1) - 1 = i /\ After(i)
    BY <1>2
  <2> DEFINE u1 == h[i]    u2 == h[i + 1]    c1 == 9 * i
  <2>2. u2 = Run(u1, ProveCompress, i)
    BY <2>1 DEF IsLoop
  <2>3. /\ Goes(u, u1, 64, c1) /\ u1.w = u.w /\ ChainWords(u1) = ChainWords(u)
        /\ c1 \in Nat /\ 9 * (i + 1) = c1 + 9 /\ c1 + 9 <= 576
    BY <2>1
  <2> HIDE DEF u1, u2, c1
  <2>4. Sound(u1, 64) /\ u1.rand + 9 <= TapeWords
    BY <2>3, Sizes DEF Goes, Sound
  <2>5. Compressed(u1, u2, i)
    BY <2>1, <2>2, <2>4, CompressRun
  <2>6. Goes(u, u2, 64, c1 + 9)
    <3> DEFINE n == 64
    <3>1. Goes(u, u1, n, c1) /\ Goes(u1, u2, n, 9) /\ Sound(u, n)
      BY <2>3, <2>5 DEF Compressed
    <3> HIDE DEF n
    <3>2. Goes(u, u2, n, c1 + 9)
      BY <2>3, <3>1, GoesOn
    <3> QED
      BY <3>2 DEF n
  <2>7. u2.w = u.w /\ ChainWords(u2) = ChainWords(u)
    BY <2>3, <2>5 DEF Compressed
  <2> QED
    BY <2>1, <2>3, <2>5, <2>6, <2>7 DEF u1, u2
<1> HIDE DEF After
<1>3. Nat \subseteq T
  <2> HIDE DEF T
  <2> QED
    BY <1>1, <1>2, SetInduction
<1>4. \A i \in 0 .. 64 : After(i)
  BY <1>3
<1>5. ASSUME NEW i \in 0 .. 63 PROVE Compressed(h[i], h[i + 1], i)
  <2>1. i + 1 \in 0 .. 64 /\ i + 1 > 0 /\ (i + 1) - 1 = i
    OBVIOUS
  <2>2. After(i + 1)
    BY <1>4, <2>1
  <2> QED
    BY <2>1, <2>2 DEF After
<1> QED
  BY <1>4, <1>5 DEF After


-----------------------------------------------------------------------------
(* The hash function of the standard.                                         *)

(* Lists given as functions.                                                  *)
LEMMA ListOf ==
  ASSUME NEW S, NEW n \in Nat, NEW f \in [1 .. n -> S]
  PROVE  f \in Seq(S) /\ Len(f) = n
OBVIOUS

Extended(f, n, v) == [j \in 1 .. n + 1 |-> IF j = n + 1 THEN v ELSE f[j]]

LEMMA AppendIs ==
  ASSUME NEW S, NEW n \in Nat, NEW f \in [1 .. n -> S], NEW v \in S
  PROVE  Append(f, v) = Extended(f, n, v)
<1> DEFINE r == [j \in 1 .. n + 1 |-> IF j = n + 1 THEN v ELSE f[j]]
<1>1. f \in Seq(S) /\ Len(f) = n
  BY ListOf
<1>2. /\ Append(f, v) \in Seq(S) /\ Len(Append(f, v)) = n + 1
      /\ \A j \in 1 .. n + 1 : Append(f, v)[j] = IF j = n + 1 THEN v ELSE f[j]
  BY <1>1
<1>3. Append(f, v) = [j \in 1 .. n + 1 |-> Append(f, v)[j]]
  <2> DEFINE g == Append(f, v)
  <2>1. g \in Seq(S) /\ Len(g) = n + 1
    BY <1>2
  <2> HIDE DEF g
  <2>2. g = [j \in 1 .. n + 1 |-> g[j]]
    BY <2>1
  <2> QED
    BY <2>2 DEF g
<1> QED
  BY <1>2, <1>3 DEF Extended

(* The schedule of a block: the words of the message, then sums of earlier ones. *)
MessageWord(r, b, j) == {q \in Bit : MessageBit(r, 512 * b + 32 * j + 31 - q)}

LEMMA ScheduleIs ==
  ASSUME NEW r, NEW n \in Nat
  PROVE  LET w == ScheduleOf(r, n) IN
           /\ \A j \in 0 .. 15 : w[j + 1] = MessageWord(r, n, j)
           /\ \A j \in 16 .. 63 :
                w[j + 1] = ScheduleWord(w[j - 1], w[j - 6], w[j - 14], w[j - 15])
<1> DEFINE base == [j \in 1 .. 16 |->
                      {b \in Bit : MessageBit(r, 512 * n + 32 * (j - 1) + 31 - b)}]
           Next1(w, t) == Append(w, ScheduleWord(w[t - 2], w[t - 7], w[t - 15], w[t - 16]))
           IsTab(h) == h = [t \in 16 .. 64 |-> IF t = 16 THEN base ELSE Next1(h[t - 1], t)]
           tab == CHOOSE h : IsTab(h)
           D == Seq(Word)
           F == [p \in Nat \X D |-> Next1(p[2], p[1] + 17)]
<1>1. ScheduleOf(r, n) = tab[64]
  BY DEF ScheduleOf, ScheduleWord
<1>2. /\ base \in D /\ Len(base) = 16
      /\ \A j \in 0 .. 15 : base[j + 1] = MessageWord(r, n, j)
  <2>1. base \in [1 .. 16 -> Word]
    BY DEF Word
  <2>2. \A j \in 0 .. 15 : j + 1 \in 1 .. 16 /\ (j + 1) - 1 = j
    OBVIOUS
  <2>3. \A j \in 0 .. 15 : base[j + 1] = MessageWord(r, n, j)
    BY <2>2 DEF MessageWord
  <2> HIDE DEF base
  <2>4. base \in Seq(Word) /\ Len(base) = 16
    BY <2>1, ListOf
  <2> QED
    BY <2>3, <2>4
<1> HIDE DEF base
<1>3. \A w \in D : \A t : Next1(w, t) \in D
  <2>1. \A w, t : ScheduleWord(w[t - 2], w[t - 7], w[t - 15], w[t - 16]) \in Word
    BY DEF ScheduleWord, Sum, Word
  <2> QED
    BY <2>1
<1> HIDE DEF D, Next1
<1>4. IsStep(F, D)
  BY <1>3 DEF IsStep
<1>5. \A p \in Nat, w \in D : F[<<p, w>>] = Next1(w, p + 17)
  OBVIOUS
<1> HIDE DEF F
<1>6. PICK g : Iterates(g, D, base, F)
  BY <1>2, <1>4, PrimitiveRecursion
<1>7. /\ g[0] = base
      /\ \A p \in Nat : g[p + 1] = Next1(g[p], p + 17)
  BY <1>5, <1>6 DEF Iterates
<1>8. IsTab([t \in 16 .. 64 |-> g[t - 16]])
  <2> DEFINE h == [t \in 16 .. 64 |-> g[t - 16]]
  <2>1. ASSUME NEW t \in 16 .. 64 PROVE h[t] = IF t = 16 THEN base ELSE Next1(h[t - 1], t)
    <3>1. CASE t = 16
      BY <1>7, <3>1
    <3>2. CASE t # 16
      <4>1. t - 17 \in Nat /\ (t - 17) + 1 = t - 16 /\ (t - 17) + 17 = t
            /\ t - 1 \in 16 .. 64 /\ (t - 1) - 16 = t - 17
        BY <3>2
      <4>2. g[t - 16] = Next1(g[t - 17], t)
        BY <1>7, <4>1
      <4>3. h[t] = g[t - 16] /\ h[t - 1] = g[t - 17]
        BY <4>1
      <4> QED
        BY <3>2, <4>2, <4>3
    <3> QED
      BY <3>1, <3>2
  <2>2. h = [t \in 16 .. 64 |-> h[t]]
    OBVIOUS
  <2> HIDE DEF h
  <2>3. [t \in 16 .. 64 |-> h[t]] =
          [t \in 16 .. 64 |-> IF t = 16 THEN base ELSE Next1(h[t - 1], t)]
    BY <2>1
  <2>4. IsTab(h)
    BY <2>2, <2>3
  <2> QED
    BY <2>4 DEF h
<1>9. IsTab(tab)
  <2> HIDE DEF IsTab
  <2> QED
    BY <1>8
<1> HIDE DEF tab
<1>10. tab[16] = base /\ \A t \in 17 .. 64 : tab[t] = Next1(tab[t - 1], t)
  BY <1>9
<1> DEFINE After(t) == LET w == tab[t] IN
             /\ w \in D /\ Len(w) = t
             /\ \A j \in 0 .. 15 : w[j + 1] = MessageWord(r, n, j)
             /\ \A j \in 16 .. t - 1 :
                  w[j + 1] = ScheduleWord(w[j - 1], w[j - 6], w[j - 14], w[j - 15])
           T == {p \in Nat : 16 + p <= 64 => After(16 + p)}
<1>11. 0 \in T
  BY <1>2, <1>10
<1>12. ASSUME NEW p \in Nat, p \in T PROVE p + 1 \in T
  <2> SUFFICES ASSUME 16 + (p + 1) <= 64 PROVE After(16 + (p + 1))
    OBVIOUS
  <2> DEFINE t == 16 + p    w == tab[t]    w2 == tab[t + 1]
             v == ScheduleWord(w[(t + 1) - 2], w[(t + 1) - 7], w[(t + 1) - 15],
                               w[(t + 1) - 16])
  <2>1. t \in 16 .. 63 /\ 16 + (p + 1) = t + 1 /\ t + 1 \in 17 .. 64 /\ (t + 1) - 1 = t
        /\ After(t)
    <3> HIDE DEF After
    <3>1. 16 + p <= 64
      OBVIOUS
    <3> QED
      BY <1>12, <3>1
  <2>2. w2 = Append(w, v)
    BY <1>10, <2>1 DEF Next1
  <2>3. w \in Seq(Word) /\ Len(w) = t
    BY <2>1 DEF D
  <2>4. v \in Word
    BY DEF ScheduleWord, Sum, Word
  <2>5. v = ScheduleWord(w[t - 1], w[t - 6], w[t - 14], w[t - 15])
    <3>1. (t + 1) - 2 = t - 1 /\ (t + 1) - 7 = t - 6 /\ (t + 1) - 15 = t - 14
          /\ (t + 1) - 16 = t - 15
      BY <2>1
    <3> QED
      BY <3>1
  <2>6. /\ \A j \in 0 .. 15 : w[j + 1] = MessageWord(r, n, j)
        /\ \A j \in 16 .. t - 1 :
             w[j + 1] = ScheduleWord(w[j - 1], w[j - 6], w[j - 14], w[j - 15])
    BY <2>1
  <2> HIDE DEF w, w2, v, t
  <2>7. /\ w2 \in Seq(Word) /\ Len(w2) = t + 1 /\ w2[t + 1] = v
        /\ \A j \in 1 .. t : w2[j] = w[j]
    <3>1. w2 = Append(w, v) /\ w \in Seq(Word) /\ Len(w) = t /\ v \in Word
      BY <2>2, <2>3, <2>4
    <3>2. Append(w, v) \in Seq(Word)
      BY <3>1
    <3> QED
      BY <3>1, <3>2, LastOfAppend
  <2>8. \A j \in 0 .. 15 : w2[j + 1] = MessageWord(r, n, j)
    <3>1. \A j \in 0 .. 15 : j + 1 \in 1 .. t
      BY <2>1
    <3> QED
      BY <2>6, <2>7, <3>1
  <2>9. ASSUME NEW j \in 16 .. (t + 1) - 1
        PROVE  w2[j + 1] = ScheduleWord(w2[j - 1], w2[j - 6], w2[j - 14], w2[j - 15])
    <3>1. /\ j - 1 \in 1 .. t /\ j - 6 \in 1 .. t /\ j - 14 \in 1 .. t /\ j - 15 \in 1 .. t
      BY <2>1
    <3>2. /\ w2[j - 1] = w[j - 1] /\ w2[j - 6] = w[j - 6]
          /\ w2[j - 14] = w[j - 14] /\ w2[j - 15] = w[j - 15]
      BY <2>7, <3>1
    <3>3. CASE j = t
      BY <2>5, <2>7, <3>2, <3>3
    <3>4. CASE j # t
      <4>1. j \in 16 .. t - 1 /\ j + 1 \in 1 .. t
        BY <2>1, <3>4
      <4> QED
        BY <2>6, <2>7, <3>2, <4>1
    <3> QED
      BY <3>3, <3>4
  <2>10. After(t + 1)
    BY <2>7, <2>8, <2>9 DEF w2, D
  <2> QED
    BY <2>1, <2>10
<1> HIDE DEF After
<1>13. Nat \subseteq T
  <2> HIDE DEF T
  <2> QED
    BY <1>11, <1>12, SetInduction
<1>14. After(64)
  <2>1. 48 \in Nat /\ 16 + 48 = 64
    OBVIOUS
  <2> QED
    BY <1>13, <2>1
<1> QED
  BY <1>1, <1>14 DEF After

(* The compression of a block: 64 rounds and the additions.                    *)
LEMMA CompressionIs ==
  ASSUME NEW v, NEW w, NEW s, s[0] = v,
         \A j \in 0 .. 63 : s[j + 1] = RoundOf(s[j], k[j], w[j + 1])
  PROVE  CompressionOf(v, w) = [q \in 1 .. 8 |-> Sum(v[q], s[64][q])]
<1> DEFINE Next1(l, t) == Append(l, RoundOf(l[t], k[t - 1], w[t]))
           IsTab(h) == h = [t \in 0 .. 64 |-> IF t = 0 THEN <<v>> ELSE Next1(h[t - 1], t)]
           tab == CHOOSE h : IsTab(h)
           S == {v} \cup {s[j] : j \in 0 .. 64}
           h0 == [t \in 0 .. 64 |-> [j \in 1 .. t + 1 |-> s[j - 1]]]
<1>1. CompressionOf(v, w) = [q \in 1 .. 8 |-> Sum(v[q], tab[64][65][q])]
  BY DEF CompressionOf, Table
<1>2. IsTab(h0)
  <2> DEFINE L(n) == [j \in 1 .. n |-> s[j - 1]]
  <2>0. \A t \in 0 .. 64 : h0[t] = L(t + 1)
    OBVIOUS
  <2>1. ASSUME NEW t \in 0 .. 64 PROVE h0[t] = IF t = 0 THEN <<v>> ELSE Next1(h0[t - 1], t)
    <3>1. CASE t = 0
      <4>1. L(1) = <<v>>
        OBVIOUS
      <4> HIDE DEF L, h0
      <4>2. h0[0] = L(1)
        BY <2>0
      <4> QED
        BY <3>1, <4>1, <4>2
    <3>2. CASE t # 0
      <4>1. t - 1 \in 0 .. 63 /\ (t - 1) + 1 = t /\ t \in 1 .. t
        BY <3>2
      <4>2. h0[t - 1] = L(t) /\ h0[t] = L(t + 1)
        <5> HIDE DEF L, h0
        <5> QED
          BY <2>0, <4>1
      <4>3. L(t)[t] = s[t - 1] /\ s[t] = RoundOf(s[t - 1], k[t - 1], w[t])
        <5>1. L(t)[t] = s[t - 1]
          BY <4>1
        <5>2. s[(t - 1) + 1] = RoundOf(s[t - 1], k[t - 1], w[(t - 1) + 1])
          BY <4>1
        <5> QED
          BY <4>1, <5>1, <5>2
      <4>4. Append(L(t), s[t]) = L(t + 1)
        <5>1. L(t) \in [1 .. t -> S]
          <6>1. \A j \in 1 .. t : j - 1 \in 0 .. 64
            OBVIOUS
          <6> QED
            BY <6>1
        <5>2. t \in Nat /\ s[t] \in S
          OBVIOUS
        <5> DEFINE f == L(t)    y == s[t]
        <5>3. ASSUME NEW j \in 1 .. t + 1 PROVE (IF j = t + 1 THEN y ELSE f[j]) = s[j - 1]
          <6>1. (t + 1) - 1 = t
            OBVIOUS
          <6>2. CASE j = t + 1
            BY <6>1, <6>2
          <6>3. CASE j # t + 1
            <7>1. j \in 1 .. t
              BY <6>3
            <7> QED
              BY <6>3, <7>1
          <6> QED
            BY <6>2, <6>3
        <5>5. f \in [1 .. t -> S] /\ t \in Nat /\ y \in S
          BY <5>1, <5>2
        <5> HIDE DEF f, y, S, L
        <5>4. Append(f, y) = [j \in 1 .. t + 1 |-> IF j = t + 1 THEN y ELSE f[j]]
          <6>1. Append(f, y) = Extended(f, t, y)
            BY <5>5, AppendIs
          <6> QED
            BY <6>1 DEF Extended
        <5> QED
          BY <5>3, <5>4 DEF f, y, L
      <4> HIDE DEF L, h0
      <4> QED
        BY <3>2, <4>2, <4>3, <4>4
    <3> QED
      BY <3>1, <3>2
  <2>2. h0 = [t \in 0 .. 64 |-> h0[t]]
    OBVIOUS
  <2> HIDE DEF h0, Next1
  <2>3. [t \in 0 .. 64 |-> h0[t]] =
          [t \in 0 .. 64 |-> IF t = 0 THEN <<v>> ELSE Next1(h0[t - 1], t)]
    BY <2>1
  <2> QED
    BY <2>2, <2>3
<1>3. IsTab(tab)
  <2> HIDE DEF IsTab
  <2> QED
    BY <1>2
<1> HIDE DEF tab
<1>4. tab[0] = <<v>> /\ \A t \in 1 .. 64 : tab[t] = Next1(tab[t - 1], t)
  <2> HIDE DEF Next1
  <2> QED
    BY <1>3
<1> DEFINE T == {t \in Nat : t <= 64 => tab[t] = h0[t]}
<1>5. Nat \subseteq T
  <2> HIDE DEF Next1, h0
  <2>1. h0[0] = <<v>> /\ \A t \in 1 .. 64 : h0[t] = Next1(h0[t - 1], t)
    BY <1>2
  <2>2. 0 \in T
    BY <1>4, <2>1
  <2>3. ASSUME NEW t \in Nat, t \in T PROVE t + 1 \in T
    <3> SUFFICES ASSUME t + 1 <= 64 PROVE tab[t + 1] = h0[t + 1]
      OBVIOUS
    <3>1. t + 1 \in 1 .. 64 /\ (t + 1) - 1 = t /\ tab[t] = h0[t]
      BY <2>3
    <3> QED
      BY <1>4, <2>1, <3>1
  <2> HIDE DEF T
  <2> QED
    BY <2>2, <2>3, SetInduction
<1>6. tab[64][65] = s[64]
  <2>1. tab[64] = h0[64]
    <3> HIDE DEF h0
    <3>1. 64 \in Nat /\ 64 <= 64
      OBVIOUS
    <3> QED
      BY <1>5, <3>1
  <2>2. h0[64][65] = s[64]
    OBVIOUS
  <2> QED
    BY <2>1, <2>2
<1> QED
  BY <1>1, <1>6

(* The hash is the last of the chaining values.                               *)
IsChain(s, r) ==
  /\ s[0] = hA
  /\ \A b \in 0 .. NumBlocks - 1 : s[b + 1] = CompressionOf(s[b], ScheduleOf(r, b))

LEMMA Sha256Is ==
  ASSUME NEW r, NEW s, IsChain(s, r)
  PROVE  SHA256(r) = s[NumBlocks]
<1> DEFINE N == NumBlocks
           Next1(v, b) == CompressionOf(v, ScheduleOf(r, b - 1))
           IsTab(h) == h = [b \in 0 .. N |-> IF b = 0 THEN hA ELSE Next1(h[b - 1], b)]
           tab == CHOOSE h : IsTab(h)
           h0 == [b \in 0 .. N |-> s[b]]
<1>0. N \in Nat
  BY Sizes
<1>1. SHA256(r) = tab[N]
  BY DEF SHA256
<1>2. IsTab(h0)
  <2>1. ASSUME NEW b \in 0 .. N PROVE s[b] = IF b = 0 THEN hA ELSE Next1(h0[b - 1], b)
    <3>1. CASE b = 0
      BY <3>1 DEF IsChain
    <3>2. CASE b # 0
      <4>1. b - 1 \in 0 .. N - 1 /\ (b - 1) + 1 = b /\ b - 1 \in 0 .. N
        BY <1>0, <3>2
      <4>2. h0[b - 1] = s[b - 1]
        BY <4>1
      <4>3. s[(b - 1) + 1] = CompressionOf(s[b - 1], ScheduleOf(r, b - 1))
        BY <4>1 DEF IsChain
      <4> QED
        BY <3>2, <4>1, <4>2, <4>3
    <3> QED
      BY <3>1, <3>2
  <2> HIDE DEF Next1
  <2> QED
    BY <2>1
<1>3. IsTab(tab)
  <2> HIDE DEF IsTab
  <2> QED
    BY <1>2
<1> HIDE DEF tab
<1>4. tab[0] = hA /\ \A b \in 1 .. N : tab[b] = Next1(tab[b - 1], b)
  <2> HIDE DEF Next1, N
  <2> QED
    BY <1>0, <1>3
<1> DEFINE T == {b \in Nat : b <= N => tab[b] = s[b]}
<1>5. 0 \in T
  BY <1>4 DEF IsChain
<1>6. ASSUME NEW b \in Nat, b \in T PROVE b + 1 \in T
  <2> SUFFICES ASSUME b + 1 <= N PROVE tab[b + 1] = s[b + 1]
    OBVIOUS
  <2>1. b + 1 \in 1 .. N /\ (b + 1) - 1 = b /\ b \in 0 .. N - 1 /\ tab[b] = s[b]
    BY <1>0, <1>6
  <2>2. tab[b + 1] = CompressionOf(tab[b], ScheduleOf(r, b))
    BY <1>4, <2>1
  <2> QED
    BY <2>1, <2>2 DEF IsChain
<1>7. Nat \subseteq T
  <2> HIDE DEF T
  <2> QED
    BY <1>5, <1>6, SetInduction
<1> QED
  BY <1>0, <1>1, <1>7

(* The padded message is longer than the share by more than its length field.  *)
LEMMA Padding ==
  /\ LBytes \in Nat /\ 512 * NumBlocks >= 8 * LBytes + 65 /\ PaddedLen = 64 * NumBlocks
<1>1. Width = 32 /\ LBits \in Nat
  BY Sha256Assumption
<1>2. LBytes \in Nat
  BY <1>1 DEF LBytes
<1> QED
  BY <1>2 DEF NumBlocks, PaddedLen

(* Loading a padded share's bytes big-endian gives its share of the words of the *)
(* padded message: within the opening the shares differ, beyond it they all have  *)
(* the bits of the padding, which three of them reconstruct.                     *)
LEMMA ChunkReconstructs ==
  ASSUME NEW b \in 0 .. NumBlocks - 1, NEW j \in 0 .. 15,
         NEW sh, NEW r, r = Recon(sh)
  PROVE  LET v == [p \in Party |-> ChunkWord(sh[p], b, j)] IN
           v \in Shares /\ Recon(v) = MessageWord(r, b, j)
<1> DEFINE v == [p \in Party |-> ChunkWord(sh[p], b, j)]
<1>1. v \in Shares
  BY DEF ChunkWord, Shares, Word
<1>2. b \in Nat /\ j \in Nat /\ NumBlocks \in Nat /\ Bit = 0 .. 31
  BY Sizes
<1>3. ASSUME NEW q \in Bit PROVE q \in Recon(v) <=> q \in MessageWord(r, b, j)
  <2> DEFINE P == 64 * b + 4 * j + (3 - (q \div 8))
             o == 8 * P + (q % 8)
             g == 512 * b + 32 * j + 31 - q
             last == 8 * (PaddedLen - 1 - P) + (q % 8)
  <2>1. /\ q \in 0 .. 31 /\ (q \div 8) \in 0 .. 3 /\ (q % 8) \in 0 .. 7
        /\ q = 8 * (q \div 8) + (q % 8)
    BY <1>2
  <2>2. P \in Nat /\ g \in Nat /\ g = 8 * P + (7 - (q % 8)) /\ g \div 8 = P /\ g % 8 = 7 - (q % 8)
    <3>1. P \in Nat /\ g = 8 * P + (7 - (q % 8))
      BY <1>2, <2>1
    <3> DEFINE t == 7 - (q % 8)
    <3>2. t \in 0 .. 7 /\ g = 8 * P + t
      BY <2>1, <3>1
    <3> HIDE DEF P, t, g
    <3>3. g \in Nat /\ g \div 8 = P /\ g % 8 = t
      BY <3>1, <3>2
    <3> QED
      BY <3>1, <3>3 DEF t
  <2>3. MessageBit(r, g) <=>
          \/ P < LBytes /\ o \in r
          \/ P = LBytes /\ (q % 8) = 7
          \/ P >= PaddedLen - 8 /\ last \in LengthBits
    <3>1. /\ g < 8 * LBytes <=> P < LBytes
          /\ g = 8 * LBytes <=> P = LBytes /\ (q % 8) = 7
          /\ g >= 512 * NumBlocks - 64 <=> P >= PaddedLen - 8
          /\ 8 * (g \div 8) + 7 - (g % 8) = o /\ 512 * NumBlocks - 1 - g = last
      <4> HIDE DEF P, g
      <4> QED
        BY <1>2, <2>1, <2>2, Padding
    <3> HIDE DEF P, g, o, last
    <3> QED
      BY <3>1 DEF MessageBit
  <2>4. ASSUME NEW s PROVE q \in ChunkWord(s, b, j) <=>
          \/ P < LBytes /\ o \in s
          \/ P = LBytes /\ (q % 8) = 7
          \/ P >= PaddedLen - 8 /\ last \in LengthBits
    BY <2>1 DEF ChunkWord, PaddedByte
  <2>5. ~(P < LBytes /\ P >= PaddedLen - 8)
    <3> HIDE DEF P
    <3> QED
      BY <1>2, <2>2, Padding
  <2>6. q \in MessageWord(r, b, j) <=> MessageBit(r, g)
    BY DEF MessageWord
  <2>7. q \in Recon(v) <=> ((q \in v[0]) # (q \in v[1])) # (q \in v[2])
    BY DEF Recon, Xor
  <2>8. o \in r <=> ((o \in sh[0]) # (o \in sh[1])) # (o \in sh[2])
    BY DEF Recon, Xor
  <2>9. \A p \in Party : q \in v[p] <=>
          \/ P < LBytes /\ o \in sh[p]
          \/ P = LBytes /\ (q % 8) = 7
          \/ P >= PaddedLen - 8 /\ last \in LengthBits
    BY <2>4
  <2>10. 0 \in Party /\ 1 \in Party /\ 2 \in Party
    BY DEF Party
  <2> DEFINE in0 == P < LBytes
             pad == (P = LBytes /\ (q % 8) = 7) \/ (P >= PaddedLen - 8 /\ last \in LengthBits)
  <2>11. in0 => ~pad
    <3> HIDE DEF P
    <3> QED
      BY <1>2, <2>2, <2>5, Padding
  <2>12. \A p \in {0, 1, 2} : q \in v[p] <=> (in0 /\ o \in sh[p]) \/ pad
    BY <2>9 DEF Party
  <2>13. MessageBit(r, g) <=> (in0 /\ o \in r) \/ pad
    BY <2>3
  <2> HIDE DEF in0, pad, P, o, g, last, v
  <2> QED
    BY <2>6, <2>7, <2>8, <2>11, <2>12, <2>13
<1>4. Recon(v) \subseteq Bit
  BY <1>1 DEF Recon, Xor, Shares, Word, Party
<1>5. MessageWord(r, b, j) \subseteq Bit
  BY DEF MessageWord
<1> HIDE DEF v
<1>6. Recon(v) = MessageWord(r, b, j)
  BY <1>3, <1>4, <1>5
<1> QED
  BY <1>1, <1>6 DEF v

-----------------------------------------------------------------------------
(* A block on the prover's machine.                                           *)

(* The machine with the words of block b in w.                                *)
Loaded(u, sh, b) ==
  [u EXCEPT !.w = [j \in 0 .. 63 |->
     IF j < 16 THEN [p \in Parties(u.e) |-> ChunkWord(sh[p], b, j)]
               ELSE Unassigned(u.e)]]

(* The iterations of a block, after its words are loaded.                      *)
Expansion(u, expand) == Loop(u, expand, 16)
Compression(u, compress) == Loop(Run(u, Load, 0), compress, 0)
Feeding(u) == Run(u, Feed, 0)

BlockOf(u, sh, b, expand, compress) ==
  Feeding(Compression(Expansion(Loaded(u, sh, b), expand), compress))

LEMMA LoadedSound ==
  ASSUME NEW u, Sound(u, 0), NEW b \in 0 .. NumBlocks - 1, NEW sh, NEW r, r = Recon(sh)
  PROVE  LET u2 == Loaded(u, sh, b) IN
           /\ Goes(u, u2, 16, 0) /\ ChainWords(u2) = ChainWords(u)
           /\ \A j \in 0 .. 15 : Recon(u2.w[j]) = MessageWord(r, b, j)
<1> DEFINE u2 == Loaded(u, sh, b)
           rows == [j \in 0 .. 63 |->
                      IF j < 16 THEN [p \in Parties(u.e) |-> ChunkWord(sh[p], b, j)]
                                ELSE Unassigned(u.e)]
<1>1. Parties(u.e) = Party
  BY DEF Sound, Parties
<1>2. ASSUME NEW j \in 0 .. 15
      PROVE  rows[j] \in Shares /\ Recon(rows[j]) = MessageWord(r, b, j)
  <2> DEFINE v == [p \in Party |-> ChunkWord(sh[p], b, j)]
  <2>1. v \in Shares /\ Recon(v) = MessageWord(r, b, j)
    BY ChunkReconstructs
  <2>2. rows[j] = v
    BY <1>1
  <2> QED
    BY <2>1, <2>2
<1>3. DOMAIN rows = 0 .. 63
  OBVIOUS
<1>4. u2 = [u EXCEPT !.w = rows]
  BY DEF Loaded
<1> HIDE DEF rows, u2
<1>5. /\ DOMAIN u2 = Fields /\ u2.w = rows
      /\ u2.e = u.e /\ u2.key = u.key /\ u2.rand = u.rand /\ u2.county = u.county
      /\ u2.views = u.views /\ u2.ok = u.ok /\ u2.reg = u.reg
  BY <1>4 DEF Sound, Fields
<1>6. Sound(u2, 16)
  <2> DEFINE n == 16
  <2>1. \A j \in 0 .. n - 1 : rows[j] \in Shares
    BY <1>2
  <2> HIDE DEF n
  <2>2. Sound(u2, n)
    BY <1>3, <1>5, <2>1 DEF Sound
  <2> QED
    BY <2>2 DEF n
<1>7. Goes(u, u2, 16, 0)
  <2>1. u.rand \in Nat /\ u.county \in Nat
    BY DEF Sound
  <2> QED
    BY <1>5, <1>6, <2>1 DEF Goes, Keeps
<1>8. ChainWords(u2) = ChainWords(u)
  BY <1>5 DEF ChainWords
<1> QED
  BY <1>2, <1>5, <1>7, <1>8 DEF u2

LEMMA BlockLists == IsList(Load) /\ IsList(Feed)
<1>1. ASSUME NEW f, f \in [1 .. 8 -> {f[q] : q \in 1 .. 8}] PROVE IsList(f)
  <2> DEFINE n == 8    S == {f[q] : q \in 1 .. 8}
  <2>1. n \in Nat /\ f \in [1 .. n -> S]
    BY <1>1
  <2> HIDE DEF n, S
  <2>2. f \in Seq(S)
    BY <2>1, ListOf
  <2> QED
    BY <2>2 DEF IsList
<1>2. Load \in [1 .. 8 -> {Load[q] : q \in 1 .. 8}]
  BY DEF Load
<1>3. Feed \in [1 .. 8 -> {Feed[q] : q \in 1 .. 8}]
  BY DEF Feed
<1> QED
  BY <1>1, <1>2, <1>3

(* The loop of the schedule computes the schedule of the standard.            *)
LEMMA ScheduleComputed ==
  ASSUME NEW u, NEW u2, Scheduled(u, u2, 64), NEW r, NEW b \in Nat,
         \A j \in 0 .. 15 : Recon(u.w[j]) = MessageWord(r, b, j)
  PROVE  \A j \in 0 .. 63 : Recon(u2.w[j]) = ScheduleOf(r, b)[j + 1]
<1> DEFINE w == ScheduleOf(r, b)
           After(p) == \A j \in 0 .. p : j <= 63 => Recon(u2.w[j]) = w[j + 1]
           T == {p \in Nat : After(p)}
<1>1. /\ \A j \in 0 .. 15 : w[j + 1] = MessageWord(r, b, j)
      /\ \A j \in 16 .. 63 :
           w[j + 1] = ScheduleWord(w[j - 1], w[j - 6], w[j - 14], w[j - 15])
  BY ScheduleIs
<1> HIDE DEF w
<1>2. \A j \in 0 .. 15 : Recon(u2.w[j]) = w[j + 1]
  <2>1. \A j \in 0 .. 15 : u2.w[j] = u.w[j]
    BY DEF Scheduled
  <2> QED
    BY <1>1, <2>1
<1>3. \A j \in 16 .. 63 :
        Recon(u2.w[j]) = ScheduleWord(Recon(u2.w[j - 2]), Recon(u2.w[j - 7]),
                                      Recon(u2.w[j - 15]), Recon(u2.w[j - 16]))
  BY DEF Scheduled
<1>4. 0 \in T
  BY <1>2
<1>5. ASSUME NEW p \in Nat, p \in T PROVE p + 1 \in T
  <2> SUFFICES ASSUME NEW j \in 0 .. p + 1, j <= 63 PROVE Recon(u2.w[j]) = w[j + 1]
    OBVIOUS
  <2>1. After(p)
    BY <1>5
  <2>2. CASE j < 16
    BY <1>2, <2>2
  <2>3. CASE j >= 16
    <3>1. /\ j \in 16 .. 63
          /\ j - 2 \in 0 .. p /\ j - 7 \in 0 .. p /\ j - 15 \in 0 .. p /\ j - 16 \in 0 .. p
          /\ j - 2 <= 63 /\ j - 7 <= 63 /\ j - 15 <= 63 /\ j - 16 <= 63
          /\ (j - 2) + 1 = j - 1 /\ (j - 7) + 1 = j - 6 /\ (j - 15) + 1 = j - 14
          /\ (j - 16) + 1 = j - 15
      BY <2>3
    <3>2. /\ Recon(u2.w[j - 2]) = w[j - 1] /\ Recon(u2.w[j - 7]) = w[j - 6]
          /\ Recon(u2.w[j - 15]) = w[j - 14] /\ Recon(u2.w[j - 16]) = w[j - 15]
      BY <2>1, <3>1
    <3> QED
      BY <1>1, <1>3, <3>1, <3>2
  <2> QED
    BY <2>2, <2>3
<1>6. Nat \subseteq T
  <2> HIDE DEF T
  <2> QED
    BY <1>4, <1>5, SetInduction
<1>7. After(63)
  <2> HIDE DEF After
  <2>1. 63 \in Nat
    OBVIOUS
  <2> QED
    BY <1>6, <2>1
<1>8. \A j \in 0 .. 63 : j <= 63
  OBVIOUS
<1> QED
  BY <1>7, <1>8 DEF w

(* A block takes 728 words of the tapes, and compresses its words into the chain. *)
LEMMA BlockEvaluates ==
  ASSUME NEW u, Sound(u, 0), NEW b \in 0 .. NumBlocks - 1, u.rand = 728 * b,
         NEW sh, NEW r, r = Recon(sh)
  PROVE  LET u1 == Loaded(u, sh, b)
             u2 == Expansion(u1, ProveExpand)
             u3 == Compression(u2, ProveCompress)
             u4 == Feeding(u3)
         IN  /\ Goes(u, u1, 16, 0) /\ Goes(u1, u2, 64, 144) /\ Goes(u2, u3, 64, 576)
             /\ Goes(u3, u4, 64, 8)
             /\ ChainWords(u4) = CompressionOf(ChainWords(u), ScheduleOf(r, b))
<1> DEFINE u1 == Loaded(u, sh, b)
           u2 == Expansion(u1, ProveExpand)
           u3 == Run(u2, Load, 0)
           u4 == Compression(u2, ProveCompress)
           u5 == Feeding(u4)
<1>0. /\ TapeWords \in Nat /\ b \in Nat /\ 728 * b + 728 <= TapeWords
  BY Sizes
<1>1. /\ Goes(u, u1, 16, 0) /\ ChainWords(u1) = ChainWords(u)
      /\ \A j \in 0 .. 15 : Recon(u1.w[j]) = MessageWord(r, b, j)
  BY LoadedSound
<1> HIDE DEF u1
<1>2. Sound(u1, 16) /\ u1.rand = 728 * b
  BY <1>0, <1>1 DEF Goes
<1>3. PICK h : IsLoop(h, u1, ProveExpand, 16) /\ u2 = h[64]
  <2> DEFINE n == 16
  <2>1. n \in 0 .. 64
    OBVIOUS
  <2> HIDE DEF n
  <2>2. \E h : IsLoop(h, u1, ProveExpand, n) /\ Loop(u1, ProveExpand, n) = h[64]
    BY <2>1, LoopTrace
  <2> QED
    BY <2>2 DEF n, Expansion
<1> HIDE DEF u2
<1>4. Scheduled(u1, u2, 64)
  <2>1. \A i \in 16 .. 64 : Scheduled(u1, h[i], i)
    BY <1>0, <1>2, <1>3, ExpandLoop
  <2>2. 64 \in 16 .. 64
    OBVIOUS
  <2> QED
    BY <1>3, <2>1, <2>2
<1>5. Goes(u1, u2, 64, 144) /\ ChainWords(u2) = ChainWords(u1)
  <2>1. 3 * (64 - 16) = 144
    OBVIOUS
  <2> QED
    BY <1>4, <2>1 DEF Scheduled
<1>6. Sound(u2, 64) /\ u2.rand = 728 * b + 144
  BY <1>2, <1>5 DEF Goes
<1>7. Through(u2, u3, Load, 0)
  BY BlockLists, RunThrough
<1> HIDE DEF u3
<1>8. /\ Goes(u2, u3, 64, 0) /\ u3.w = u2.w
      /\ State8(u3) = ChainWords(u2) /\ ChainWords(u3) = ChainWords(u2)
  BY <1>6, <1>7, LoadEvaluates
<1>9. Sound(u3, 64) /\ u3.rand = 728 * b + 144
  BY <1>0, <1>6, <1>8 DEF Goes
<1>10. PICK h2 : IsLoop(h2, u3, ProveCompress, 0) /\ u4 = h2[64]
  <2> DEFINE n == 0
  <2>1. n \in 0 .. 64
    OBVIOUS
  <2> HIDE DEF n
  <2>2. \E h2 : IsLoop(h2, u3, ProveCompress, n) /\ Loop(u3, ProveCompress, n) = h2[64]
    BY <2>1, LoopTrace
  <2> QED
    BY <2>2 DEF n, u3, Compression
<1> HIDE DEF u4
<1>11. /\ \A i \in 0 .. 64 : /\ Goes(u3, h2[i], 64, 9 * i) /\ h2[i].w = u3.w
                             /\ ChainWords(h2[i]) = ChainWords(u3)
       /\ \A i \in 0 .. 63 : Compressed(h2[i], h2[i + 1], i)
  BY <1>0, <1>9, <1>10, CompressLoop
<1>12. Goes(u3, u4, 64, 576) /\ ChainWords(u4) = ChainWords(u3)
  <2>1. 64 \in 0 .. 64 /\ 9 * 64 = 576
    OBVIOUS
  <2> QED
    BY <1>10, <1>11, <2>1
<1>13. Goes(u2, u4, 64, 576)
  <2> DEFINE n == 64    c1 == 0    c2 == 576
  <2>1. Goes(u2, u3, n, c1) /\ Goes(u3, u4, n, c2) /\ Sound(u2, n) /\ c1 \in Nat /\ c2 \in Nat
    BY <1>6, <1>8, <1>12
  <2> HIDE DEF n, c1, c2
  <2>2. Goes(u2, u4, n, c1 + c2)
    BY <2>1, GoesOn
  <2>3. c1 + c2 = 576
    BY DEF c1, c2
  <2> QED
    BY <2>2, <2>3 DEF n
<1>14. Sound(u4, 64) /\ u4.rand = 728 * b + 720
  BY <1>6, <1>13 DEF Goes
<1>15. Through(u4, u5, Feed, 0)
  BY BlockLists, RunThrough DEF Feeding
<1> HIDE DEF u5
<1>16. /\ Goes(u4, u5, 64, 8)
       /\ ChainWords(u5) = [q \in 1 .. 8 |-> Sum(ChainWords(u4)[q], State8(u4)[q])]
  BY <1>0, <1>14, <1>15, FeedEvaluates
<1> DEFINE s == [i \in 0 .. 64 |-> State8(h2[i])]
           w == ScheduleOf(r, b)
           v == ChainWords(u)
<1>17. \A j \in 0 .. 63 : Recon(u2.w[j]) = w[j + 1]
  <2> HIDE DEF w
  <2> QED
    BY <1>0, <1>1, <1>4, ScheduleComputed DEF w
<1>18. s[0] = v
  BY <1>1, <1>5, <1>8, <1>10 DEF IsLoop
<1>19. \A i \in 0 .. 63 : s[i + 1] = RoundOf(s[i], k[i], w[i + 1])
  <2> SUFFICES ASSUME NEW i \in 0 .. 63
               PROVE  s[i + 1] = RoundOf(s[i], k[i], w[i + 1])
    OBVIOUS
  <2>1. i \in 0 .. 64 /\ i + 1 \in 0 .. 64 /\ i + 1 \in 1 .. 64 /\ (i + 1) - 1 = i
    OBVIOUS
  <2>2. State8(h2[i + 1]) = RoundOf(State8(h2[i]), k[i], Recon(h2[i].w[i]))
    BY <1>11 DEF Compressed
  <2>3. h2[i].w = u2.w
    BY <1>8, <1>11, <2>1
  <2>4. w[i + 1] = Recon(u2.w[i])
    BY <1>17
  <2> HIDE DEF w
  <2> QED
    BY <2>1, <2>2, <2>3, <2>4
<1>20. CompressionOf(v, w) = [q \in 1 .. 8 |-> Sum(v[q], s[64][q])]
  <2> HIDE DEF s, v, w
  <2> QED
    BY <1>18, <1>19, CompressionIs
<1>21. s[64] = State8(u4)
  BY <1>10
<1>22. ChainWords(u5) = CompressionOf(v, w)
  <2>1. ChainWords(u4) = v
    BY <1>1, <1>5, <1>8, <1>12
  <2> HIDE DEF s, v, w
  <2> QED
    BY <1>16, <1>20, <1>21, <2>1
<1> QED
  BY <1>1, <1>5, <1>13, <1>16, <1>22 DEF u1, u2, u4, u5

-----------------------------------------------------------------------------
(* The prover's evaluation, block by block.                                   *)

ProverStart == Machine(Prover, [j \in Party |-> j], [row \in Rows |-> Stale])

(* g[b] is the prover's machine before block b of the shares sh.               *)
IsEvaluation(g, sh, n) ==
  /\ g[0] = ProverStart
  /\ \A b \in 0 .. n - 1 : g[b + 1] = BlockOf(g[b], sh, b, ProveExpand, ProveCompress)

LEMMA StartSound ==
  Sound(ProverStart, 0) /\ ProverStart.rand = 0 /\ ChainWords(ProverStart) = hA
<1> DEFINE u == ProverStart
           regs == [v \in Registers |->
             [j \in Party |->
               IF v \in Range(H8) THEN hA[CHOOSE q \in 1 .. 8 : H8[q] = v] ELSE {}]]
           rows == [j \in 0 .. 63 |-> Unassigned(Prover)]
<1>1. Parties(Prover) = Party
  BY DEF Parties
<1>2. u = [e |-> Prover, key |-> [j \in Party |-> j], rand |-> 0, county |-> 0,
           views |-> [row \in Rows |-> Stale], ok |-> TRUE, w |-> rows, reg |-> regs]
  BY <1>1 DEF ProverStart, Machine
<1>3. \A v \in Range(H8) : hA[CHOOSE q \in 1 .. 8 : H8[q] = v] \in Word
  <2>1. \A v \in Range(H8) : \E q \in 1 .. 8 : H8[q] = v
    BY DEF H8, Range
  <2>2. \A v \in Range(H8) : (CHOOSE q \in 1 .. 8 : H8[q] = v) \in 1 .. 8
    BY <2>1
  <2> QED
    BY <2>2, Constants
<1>4. regs \in [Registers -> Shares]
  <2>1. {} \in Word
    BY DEF Word
  <2> QED
    BY <1>3, <2>1 DEF Shares
<1>5. \A q \in 1 .. 8 : regs[H8[q]] = [j \in Party |-> hA[q]]
  <2> SUFFICES ASSUME NEW q \in 1 .. 8 PROVE regs[H8[q]] = [j \in Party |-> hA[q]]
    OBVIOUS
  <2>1. H8[q] \in Registers /\ \A p \in 1 .. 8 : p # q => H8[p] # H8[q]
    BY EightNames
  <2>2. H8[q] \in Range(H8)
    BY DEF Range, H8
  <2>3. (CHOOSE p \in 1 .. 8 : H8[p] = H8[q]) = q
    BY <2>1
  <2> QED
    BY <2>1, <2>2, <2>3
<1> HIDE DEF regs, rows, u
<1>6. Sound(u, 0)
  <2>1. DOMAIN rows = 0 .. 63
    BY DEF rows
  <2>2. TapeWords \in Nat
    BY Sizes
  <2>3. /\ DOMAIN u = Fields /\ u.e = Prover /\ u.ok = TRUE /\ u.key = [j \in Party |-> j]
        /\ u.reg = regs /\ u.w = rows /\ u.rand = 0 /\ u.county = 0
        /\ DOMAIN u.views = Rows
    BY <1>2 DEF Fields
  <2>4. \A row \in Rows : ~(row < 0)
    BY DEF Rows
  <2> DEFINE n == 0
  <2>5. \A j \in 0 .. n - 1 : rows[j] \in Shares
    OBVIOUS
  <2> HIDE DEF n
  <2>6. Sound(u, n)
    BY <1>4, <2>1, <2>2, <2>3, <2>4, <2>5 DEF Sound
  <2> QED
    BY <2>6 DEF n
<1>7. ChainWords(u) = hA
  <2>1. \A w \in Word : Recon([j \in Party |-> w]) = w
    BY DEF Recon, Xor, Party
  <2>2. u.reg = regs
    BY <1>2
  <2>3. \A q \in 1 .. 8 : Recon(u.reg[H8[q]]) = hA[q]
    BY <1>5, <2>1, <2>2, Constants
  <2>4. hA = [q \in 1 .. 8 |-> hA[q]]
    BY DEF hA
  <2> QED
    BY <2>3, <2>4 DEF ChainWords
<1> QED
  BY <1>2, <1>6, <1>7 DEF u

(* What is known of an evaluation: every machine is sound, its budget is exact,  *)
(* and the chaining values are those of the standard.                          *)
LEMMA EvaluationIs ==
  ASSUME NEW g, NEW sh, NEW r, r = Recon(sh), NEW n \in 0 .. NumBlocks,
         IsEvaluation(g, sh, n)
  PROVE  /\ \A b \in 0 .. n : Sound(g[b], 0) /\ g[b].rand = 728 * b
         /\ ChainWords(g[0]) = hA
         /\ \A b \in 0 .. n - 1 :
              /\ Goes(g[b], g[b + 1], 64, 728)
              /\ ChainWords(g[b + 1]) = CompressionOf(ChainWords(g[b]), ScheduleOf(r, b))
<1> DEFINE After(b) == Sound(g[b], 0) /\ g[b].rand = 728 * b
           T == {b \in Nat : b <= n => After(b)}
<1>0. NumBlocks \in Nat /\ n \in Nat
  BY Sizes
<1>1. 0 \in T /\ ChainWords(g[0]) = hA
  BY StartSound DEF IsEvaluation
<1>2. ASSUME NEW b \in 0 .. n - 1, After(b)
      PROVE  /\ Goes(g[b], g[b + 1], 64, 728)
             /\ ChainWords(g[b + 1]) = CompressionOf(ChainWords(g[b]), ScheduleOf(r, b))
  <2> DEFINE u == g[b]
             u1 == Loaded(u, sh, b)
             u2 == Expansion(u1, ProveExpand)
             u3 == Compression(u2, ProveCompress)
             u4 == Feeding(u3)
  <2>1. b \in 0 .. NumBlocks - 1
    BY <1>0
  <2>2. Sound(u, 0) /\ u.rand = 728 * b
    BY <1>2
  <2>3. /\ Goes(u, u1, 16, 0) /\ Goes(u1, u2, 64, 144) /\ Goes(u2, u3, 64, 576)
        /\ Goes(u3, u4, 64, 8)
        /\ ChainWords(u4) = CompressionOf(ChainWords(u), ScheduleOf(r, b))
    <3> HIDE DEF u
    <3> QED
      BY <2>1, <2>2, BlockEvaluates
  <2>4. g[b + 1] = u4
    BY DEF IsEvaluation, BlockOf
  <2> HIDE DEF u, u1, u2, u3, u4
  <2>5. Goes(u, u4, 64, 728)
    <3> DEFINE n0 == 0 n1 == 16 n2 == 64 c0 == 0 c1 == 144 c2 == 576 c3 == 8
    <3>1. /\ Goes(u, u1, n1, c0) /\ Goes(u1, u2, n2, c1) /\ Goes(u2, u3, n2, c2)
          /\ Goes(u3, u4, n2, c3) /\ Sound(u, n0)
          /\ c0 \in Nat /\ c1 \in Nat /\ c2 \in Nat /\ c3 \in Nat
      BY <2>2, <2>3
    <3>2. c0 + c1 \in Nat /\ (c0 + c1) + c2 \in Nat /\ ((c0 + c1) + c2) + c3 = 728
      OBVIOUS
    <3> HIDE DEF n0, n1, n2, c0, c1, c2, c3
    <3>3. Goes(u, u2, n2, c0 + c1)
      BY <3>1, GoesOn
    <3> DEFINE d1 == c0 + c1
    <3>4. Goes(u, u2, n2, d1) /\ d1 \in Nat
      BY <3>2, <3>3
    <3> HIDE DEF d1
    <3>5. Goes(u, u3, n2, d1 + c2)
      BY <3>1, <3>4, GoesOn
    <3> DEFINE d2 == d1 + c2
    <3>6. Goes(u, u3, n2, d2) /\ d2 \in Nat
      BY <3>2, <3>5 DEF d1
    <3> HIDE DEF d2
    <3>7. Goes(u, u4, n2, d2 + c3)
      BY <3>1, <3>6, GoesOn
    <3>8. d2 + c3 = 728
      BY <3>2 DEF d1, d2
    <3> QED
      BY <3>7, <3>8 DEF n2
  <2> QED
    BY <2>3, <2>4, <2>5 DEF u
<1>3. ASSUME NEW b \in Nat, b \in T PROVE b + 1 \in T
  <2> SUFFICES ASSUME b + 1 <= n PROVE After(b + 1)
    OBVIOUS
  <2>1. b \in 0 .. n - 1 /\ After(b)
    BY <1>0, <1>3
  <2>2. Goes(g[b], g[b + 1], 64, 728)
    BY <1>2, <2>1
  <2>3. g[b + 1].rand = 728 * (b + 1)
    BY <2>1, <2>2 DEF Goes
  <2>4. Sound(g[b + 1], 0)
    <3> DEFINE u == g[b + 1]    n0 == 0   n2 == 64
    <3>1. Sound(u, n2) /\ \A j \in 0 .. n0 - 1 : u.w[j] \in Shares
      BY <2>2 DEF Goes
    <3> HIDE DEF u, n0, n2
    <3>2. Sound(u, n0)
      BY <3>1 DEF Sound
    <3> QED
      BY <3>2 DEF u, n0
  <2> QED
    BY <2>3, <2>4
<1>4. Nat \subseteq T
  <2> HIDE DEF T
  <2> QED
    BY <1>1, <1>3, SetInduction
<1>5. \A b \in 0 .. n : After(b)
  BY <1>0, <1>4
<1>6. \A b \in 0 .. n - 1 : b \in 0 .. n
  BY <1>0
<1> QED
  BY <1>1, <1>2, <1>5, <1>6

(* The evaluation computes SHA-256 of the opening that is shared.              *)
LEMMA EvaluationHashes ==
  ASSUME NEW g, NEW sh, IsEvaluation(g, sh, NumBlocks)
  PROVE  ChainWords(g[NumBlocks]) = SHA256(Recon(sh))
<1> DEFINE s == [b \in 0 .. NumBlocks |-> ChainWords(g[b])]
           r == Recon(sh)
<1>1. NumBlocks \in Nat /\ NumBlocks \in 0 .. NumBlocks
  BY Sizes
<1>2. /\ ChainWords(g[0]) = hA
      /\ \A b \in 0 .. NumBlocks - 1 :
           ChainWords(g[b + 1]) = CompressionOf(ChainWords(g[b]), ScheduleOf(r, b))
  BY <1>1, EvaluationIs
<1>3. IsChain(s, r)
  <2> HIDE DEF r
  <2> QED
    BY <1>1, <1>2 DEF IsChain
<1>4. s[NumBlocks] = ChainWords(g[NumBlocks])
  BY <1>1
<1> HIDE DEF s
<1> QED
  BY <1>3, <1>4, Sha256Is

(***************************************************************************)
(* The prover's round.                                                     *)
(***************************************************************************)
(* The parity of an exclusive or.                                             *)
LEMMA XorParity ==
  ASSUME NEW S, IsFiniteSet(S), NEW T, IsFiniteSet(T)
  PROVE  /\ IsFiniteSet(Xor(S, T)) /\ Parity(S) \in {0, 1} /\ Parity(T) \in {0, 1}
         /\ Parity(Xor(S, T)) = (Parity(S) + Parity(T)) % 2
<1> DEFINE A == S \ T    B == T \ S    C == S \cap T
<1>1. IsFiniteSet(A) /\ IsFiniteSet(B) /\ IsFiniteSet(C)
  BY FS_Subset
<1>2. /\ A \cap B = {} /\ A \cap C = {} /\ B \cap C = {}
      /\ S = A \cup C /\ T = B \cup C /\ Xor(S, T) = A \cup B
  BY DEF Xor
<1> HIDE DEF A, B, C
<1>3. /\ Cardinality(A) \in Nat /\ Cardinality(B) \in Nat /\ Cardinality(C) \in Nat
  BY <1>1, FS_CardinalityType
<1>4. \A X, Y : IsFiniteSet(X) /\ IsFiniteSet(Y) /\ X \cap Y = {}
        => Cardinality(X \cup Y) = Cardinality(X) + Cardinality(Y)
  <2> SUFFICES ASSUME NEW X, NEW Y, IsFiniteSet(X), IsFiniteSet(Y), X \cap Y = {}
               PROVE  Cardinality(X \cup Y) = Cardinality(X) + Cardinality(Y)
    OBVIOUS
  <2>1. Cardinality(X \cup Y) = Cardinality(X) + Cardinality(Y) - Cardinality(X \cap Y)
    BY FS_Union
  <2>2. Cardinality(X \cap Y) = 0
    BY FS_EmptySet
  <2>3. Cardinality(X) \in Nat /\ Cardinality(Y) \in Nat
    BY FS_CardinalityType
  <2> QED
    BY <2>1, <2>2, <2>3
<1>5. /\ Cardinality(S) = Cardinality(A) + Cardinality(C)
      /\ Cardinality(T) = Cardinality(B) + Cardinality(C)
      /\ Cardinality(Xor(S, T)) = Cardinality(A) + Cardinality(B)
  BY <1>1, <1>2, <1>4
<1>6. IsFiniteSet(Xor(S, T))
  <2>1. IsFiniteSet(A \cup B)
    BY <1>1, FS_Union
  <2> QED
    BY <1>2, <2>1
<1> QED
  BY <1>3, <1>5, <1>6 DEF Parity

(* The shares of the coins' secrets.                                          *)
Sharing(sh, bits, coins) ==
  /\ sh \in [Party -> SUBSET (0 .. LBits - 1)] /\ Recon(sh) = coins.r
  /\ bits \in [Party -> {0, 1}] /\ (bits[0] + bits[1] + bits[2]) % 2 = coins.m

(* The product shares reconstruct the masked bit, though each is rounded to a bit. *)
LEMMA ProductOfShares ==
  ASSUME NEW sh, NEW bits, NEW coins, Sharing(sh, bits, coins)
  PROVE  /\ \A j \in Party : ProductShare(sh[j], bits[j]) \in {0, 1}
         /\ (ProductShare(sh[0], bits[0]) + ProductShare(sh[1], bits[1])
               + ProductShare(sh[2], bits[2])) % 2
              = (Parity(HashA \cap coins.r) + coins.m) % 2
<1> DEFINE p(j) == Parity(HashA \cap sh[j])
           P(j) == HashA \cap sh[j]
<1>1. Party = {0, 1, 2} /\ LBits \in Nat
  BY Sha256Assumption DEF Party
<1>2. \A j \in Party : IsFiniteSet(P(j)) /\ Normalize(sh[j]) = sh[j]
  <2>1. IsFiniteSet(0 .. LBits - 1)
    BY <1>1, FS_Interval
  <2>2. \A j \in Party : P(j) \subseteq 0 .. LBits - 1 /\ Normalize(sh[j]) = sh[j]
    BY DEF Sharing, Normalize
  <2> QED
    BY <2>1, <2>2, FS_Subset
<1>3. HashA \cap coins.r = Xor(Xor(P(0), P(1)), P(2))
  BY DEF Sharing, Recon, Xor
<1>4. /\ IsFiniteSet(Xor(P(0), P(1))) /\ p(0) \in {0, 1} /\ p(1) \in {0, 1}
      /\ Parity(Xor(P(0), P(1))) = (p(0) + p(1)) % 2
  BY <1>1, <1>2, XorParity
<1>5. p(2) \in {0, 1} /\ Parity(Xor(Xor(P(0), P(1)), P(2))) = (Parity(Xor(P(0), P(1))) + p(2)) % 2
  BY <1>1, <1>2, <1>4, XorParity
<1>6. \A j \in Party : ProductShare(sh[j], bits[j]) = (p(j) + bits[j]) % 2
  BY <1>2 DEF ProductShare
<1>7. /\ bits[0] \in {0, 1} /\ bits[1] \in {0, 1} /\ bits[2] \in {0, 1}
      /\ coins.m = (bits[0] + bits[1] + bits[2]) % 2
  BY <1>1 DEF Sharing
<1> HIDE DEF P, p
<1>8. Parity(HashA \cap coins.r) = (((p(0) + p(1)) % 2) + p(2)) % 2
  BY <1>3, <1>4, <1>5
<1> DEFINE b0 == bits[0]  b1 == bits[1]  b2 == bits[2]   p0 == p(0) p1 == p(1) p2 == p(2)
<1>9. /\ b0 \in {0, 1} /\ b1 \in {0, 1} /\ b2 \in {0, 1} /\ p0 \in {0, 1} /\ p1 \in {0, 1}
      /\ p2 \in {0, 1}
  BY <1>4, <1>5, <1>7
<1>10. /\ ProductShare(sh[0], bits[0]) = (p0 + b0) % 2
       /\ ProductShare(sh[1], bits[1]) = (p1 + b1) % 2
       /\ ProductShare(sh[2], bits[2]) = (p2 + b2) % 2
  BY <1>1, <1>6
<1> HIDE DEF b0, b1, b2, p0, p1, p2
<1>11. (((p0 + b0) % 2) + ((p1 + b1) % 2) + ((p2 + b2) % 2)) % 2
         = (((((p0 + p1) % 2) + p2) % 2) + ((b0 + b1 + b2) % 2)) % 2
  BY <1>9
<1>12. /\ (p0 + b0) % 2 \in {0, 1} /\ (p1 + b1) % 2 \in {0, 1} /\ (p2 + b2) % 2 \in {0, 1}
  BY <1>9
<1>13. (Parity(HashA \cap coins.r) + coins.m) % 2
         = (((((p0 + p1) % 2) + p2) % 2) + ((b0 + b1 + b2) % 2)) % 2
  BY <1>7, <1>8 DEF b0, b1, b2, p0, p1, p2
<1> QED
  BY <1>1, <1>10, <1>11, <1>12, <1>13

LEMMA SharesOfSecrets ==
  ASSUME NEW coins \in Inputs
  PROVE  Sharing([j \in Party |->
                    CASE j = 0 -> Normalize(coins.x0) [] j = 1 -> Normalize(coins.x1)
                      [] j = 2 -> Normalize(Xor(coins.r, Xor(Normalize(coins.x0),
                                                            Normalize(coins.x1))))],
                 [j \in Party |->
                    CASE j = 0 -> coins.m0 [] j = 1 -> coins.m1
                      [] j = 2 -> (coins.m + coins.m0 + coins.m1) % 2], coins)
<1> DEFINE R == 0 .. LBits - 1    x0 == Normalize(coins.x0)    x1 == Normalize(coins.x1)
           x2 == Normalize(Xor(coins.r, Xor(x0, x1)))
           sh == [j \in Party |-> CASE j = 0 -> x0 [] j = 1 -> x1 [] j = 2 -> x2]
           b0 == coins.m0    b1 == coins.m1    b2 == (coins.m + b0 + b1) % 2
           bits == [j \in Party |-> CASE j = 0 -> b0 [] j = 1 -> b1 [] j = 2 -> b2]
<1>1. /\ coins.r \subseteq R /\ coins.m \in {0, 1} /\ b0 \in {0, 1} /\ b1 \in {0, 1}
  BY RoundAssumption
<1>2. x0 \subseteq R /\ x1 \subseteq R /\ x2 \subseteq R
  BY DEF Normalize
<1>3. Xor(Xor(x0, x1), x2) = coins.r
  <2>1. x2 = Xor(coins.r, Xor(x0, x1)) \cap R
    BY DEF Normalize
  <2> HIDE DEF x0, x1, x2, R
  <2> QED
    BY <1>1, <1>2, <2>1 DEF Xor
<1> HIDE DEF x0, x1, x2, R
<1>4. /\ sh \in [Party -> SUBSET R] /\ sh[0] = x0 /\ sh[1] = x1 /\ sh[2] = x2
  BY <1>2 DEF Party
<1>5. b2 \in {0, 1} /\ (b0 + b1 + b2) % 2 = coins.m
  BY <1>1
<1> HIDE DEF b0, b1, b2
<1>6. bits \in [Party -> {0, 1}] /\ bits[0] = b0 /\ bits[1] = b1 /\ bits[2] = b2
  BY <1>1, <1>5 DEF Party, b0, b1
<1> HIDE DEF sh, bits
<1>7. Sharing(sh, bits, coins)
  BY <1>3, <1>4, <1>5, <1>6 DEF Sharing, Recon, R
<1> QED
  BY <1>7 DEF sh, bits, x0, x1, x2, b0, b1, b2

-----------------------------------------------------------------------------
(* Where the prover is, by the history of its evaluation.                     *)

Stages == {"load", "expand", "compress", "feed"}

ProverPlaces == Stages \cup
  {"hash", "share", "setup", "views", "query", "draw", "open", "written", "aborted"}

(* The machine at a place in block b, when it was u before the block.          *)
StageOf(p, u, sh, b) ==
  CASE p = "load"     -> u
    [] p = "expand"   -> Loaded(u, sh, b)
    [] p = "compress" -> Expansion(Loaded(u, sh, b), ProveExpand)
    [] p = "feed"     -> Compression(Expansion(Loaded(u, sh, b), ProveExpand), ProveCompress)

Placed == role \in {"prover", "verifier"} /\ (role = "prover" => pc \in ProverPlaces)

Counted == /\ blk \in 0 .. NumBlocks
           /\ pc \in Stages \ {"load"} => blk < NumBlocks

Committed ==
  (role = "prover" /\ pc # "hash") =>
     /\ c.y = SHA256(in.r) /\ LowBit(c.b) = (Parity(HashA \cap in.r) + in.m) % 2

Shared == pc \notin {"hash", "share"} => Sharing(x, msg, in)

Proving ==
  (role = "prover" /\ pc \in Stages) =>
     \E g : IsEvaluation(g, x, blk) /\ m = StageOf(pc, g[blk], x, blk)

(* What the prover records of its evaluation.                                 *)
OutputsOf(g) == [j \in 0 .. 1 |-> [q \in 1 .. 8 |-> g[NumBlocks].reg[H8[q]][j]]]
ProductsOf == [j \in Party |-> ProductShare(x[j], msg[j])]
ViewsOf(g) == [j \in Party |-> [x |-> x[j], msg |-> msg[j],
                                y |-> [row \in Rows |-> g[NumBlocks].views[row][j]]]]

Recorded ==
  pc = "views" =>
    /\ role = "prover"
    /\ \E g : /\ IsEvaluation(g, x, NumBlocks) /\ m = g[NumBlocks]
              /\ a = [yp |-> OutputsOf(g), y2p |-> ProductsOf, h |-> None]
              /\ views = ViewsOf(g)

(* Inductive: all but the last part says where the shares and machines come from. *)
ProverInv ==
  /\ in \in Inputs /\ Placed /\ Counted /\ Committed /\ Shared /\ Proving /\ Recorded

(* One more block.                                                            *)
LEMMA EvaluationGrows ==
  ASSUME NEW g, NEW sh, NEW b \in Nat, IsEvaluation(g, sh, b)
  PROVE  \E g2 : /\ IsEvaluation(g2, sh, b + 1)
                 /\ g2[b + 1] = BlockOf(g[b], sh, b, ProveExpand, ProveCompress)
<1> DEFINE u == BlockOf(g[b], sh, b, ProveExpand, ProveCompress)
           g2 == [q \in 0 .. b + 1 |-> IF q = b + 1 THEN u ELSE g[q]]
<1>1. g2[0] = ProverStart /\ g2[b + 1] = u /\ \A q \in 0 .. b : g2[q] = g[q]
  BY DEF IsEvaluation
<1>2. ASSUME NEW q \in 0 .. (b + 1) - 1
      PROVE  g2[q + 1] = BlockOf(g2[q], sh, q, ProveExpand, ProveCompress)
  <2> HIDE DEF g2
  <2>1. q \in 0 .. b
    OBVIOUS
  <2>2. CASE q = b
    BY <1>1, <2>1, <2>2
  <2>3. CASE q # b
    <3>1. q \in 0 .. b - 1 /\ q + 1 \in 0 .. b
      BY <2>1, <2>3
    <3> QED
      BY <1>1, <2>1, <3>1 DEF IsEvaluation
  <2> QED
    BY <2>2, <2>3
<1> HIDE DEF g2
<1> QED
  BY <1>1, <1>2 DEF IsEvaluation

(* The machine as a block begins.                                              *)
LEMMA BlockStartSound ==
  ASSUME NEW g, NEW sh, NEW b \in 0 .. NumBlocks, IsEvaluation(g, sh, b)
  PROVE  Sound(g[b], 0) /\ g[b].rand = 728 * b
<1> DEFINE r == Recon(sh)
<1>1. r = Recon(sh)
  OBVIOUS
<1> HIDE DEF r
<1>2. \A q \in 0 .. b : Sound(g[q], 0) /\ g[q].rand = 728 * q
  BY <1>1, EvaluationIs
<1>3. b \in 0 .. b
  OBVIOUS
<1> QED
  BY <1>2, <1>3

(* The machine passes every stage of a block.                                 *)
LEMMA StagesSound ==
  ASSUME NEW g, NEW sh, NEW b \in 0 .. NumBlocks, IsEvaluation(g, sh, b)
  PROVE  /\ Sound(g[b], 0) /\ g[b].rand = 728 * b
         /\ b < NumBlocks =>
              /\ \A p \in Stages : LET u == StageOf(p, g[b], sh, b) IN
                   Sound(u, 0) /\ u.rand <= TapeWords
              /\ StageOf("feed", g[b], sh, b).ok = TRUE
              /\ Feeding(StageOf("feed", g[b], sh, b)).ok = TRUE
<1>1. Sound(g[b], 0) /\ g[b].rand = 728 * b
  BY BlockStartSound
<1>2. ASSUME NEW u, NEW n \in Nat, Sound(u, n)
      PROVE  Sound(u, 0) /\ u.rand <= TapeWords /\ u.ok = TRUE
  <2> DEFINE n0 == 0
  <2>1. \A j \in 0 .. n0 - 1 : u.w[j] \in Shares
    OBVIOUS
  <2> HIDE DEF n0
  <2>2. Sound(u, n0)
    BY <1>2, <2>1 DEF Sound
  <2>3. TapeWords \in Nat
    BY Sizes
  <2> QED
    BY <1>2, <2>2, <2>3 DEF n0, Sound
<1>3. ASSUME b < NumBlocks
      PROVE  LET u1 == Loaded(g[b], sh, b)
                 u2 == Expansion(u1, ProveExpand)
                 u3 == Compression(u2, ProveCompress)
                 u4 == Feeding(u3)
             IN  Sound(u1, 16) /\ Sound(u2, 64) /\ Sound(u3, 64) /\ Sound(u4, 64)
  <2> DEFINE r == Recon(sh)  u == g[b]
  <2>1. r = Recon(sh) /\ b \in 0 .. NumBlocks - 1 /\ Sound(u, 0) /\ u.rand = 728 * b
    BY <1>1, <1>3, Sizes
  <2> HIDE DEF r, u
  <2>2. LET u1 == Loaded(u, sh, b)
            u2 == Expansion(u1, ProveExpand)
            u3 == Compression(u2, ProveCompress)
            u4 == Feeding(u3)
        IN  Goes(u, u1, 16, 0) /\ Goes(u1, u2, 64, 144) /\ Goes(u2, u3, 64, 576)
            /\ Goes(u3, u4, 64, 8)
    BY <2>1, BlockEvaluates
  <2> QED
    BY <2>2 DEF Goes, u
<1>4. 16 \in Nat /\ 64 \in Nat /\ 0 \in Nat
  OBVIOUS
<1>5. ASSUME b < NumBlocks, NEW p \in Stages
      PROVE  Sound(StageOf(p, g[b], sh, b), 0) /\ StageOf(p, g[b], sh, b).rand <= TapeWords
  <2>1. CASE p = "load"
    <3>1. StageOf(p, g[b], sh, b) = g[b]
      BY <2>1 DEF StageOf
    <3> QED
      BY <1>1, <1>2, <1>4, <3>1
  <2>2. CASE p = "expand"
    <3>1. StageOf(p, g[b], sh, b) = Loaded(g[b], sh, b)
      BY <2>2 DEF StageOf
    <3> QED
      BY <1>2, <1>3, <1>4, <1>5, <3>1
  <2>3. CASE p = "compress"
    <3>1. StageOf(p, g[b], sh, b) = Expansion(Loaded(g[b], sh, b), ProveExpand)
      BY <2>3 DEF StageOf
    <3> QED
      BY <1>2, <1>3, <1>4, <1>5, <3>1
  <2>4. CASE p = "feed"
    <3>1. StageOf(p, g[b], sh, b) =
            Compression(Expansion(Loaded(g[b], sh, b), ProveExpand), ProveCompress)
      BY <2>4 DEF StageOf
    <3> QED
      BY <1>2, <1>3, <1>4, <1>5, <3>1
  <2> QED
    BY <2>1, <2>2, <2>3, <2>4 DEF Stages
<1>6. ASSUME b < NumBlocks
      PROVE  /\ StageOf("feed", g[b], sh, b).ok = TRUE
             /\ Feeding(StageOf("feed", g[b], sh, b)).ok = TRUE
  <2>1. StageOf("feed", g[b], sh, b) =
          Compression(Expansion(Loaded(g[b], sh, b), ProveExpand), ProveCompress)
    BY DEF StageOf
  <2> QED
    BY <1>3, <1>6, <2>1 DEF Sound
<1> QED
  BY <1>1, <1>5, <1>6

(* Every stage of the prover is the next stage of the block.                  *)
LEMMA StageSteps ==
  ASSUME role = "prover"
  PROVE  \A u : /\ m = StageOf("load", u, x, blk) /\ LoadBlock
                     => m' = StageOf("expand", u, x, blk)
                /\ m = StageOf("expand", u, x, blk) /\ ExpandWords
                     => m' = StageOf("compress", u, x, blk)
                /\ m = StageOf("compress", u, x, blk) /\ CompressBlock
                     => m' = StageOf("feed", u, x, blk)
                /\ m = StageOf("feed", u, x, blk) /\ FeedForward
                     => m' = BlockOf(u, x, blk, ProveExpand, ProveCompress)
<1> SUFFICES ASSUME NEW u
             PROVE  /\ m = StageOf("load", u, x, blk) /\ LoadBlock
                         => m' = StageOf("expand", u, x, blk)
                    /\ m = StageOf("expand", u, x, blk) /\ ExpandWords
                         => m' = StageOf("compress", u, x, blk)
                    /\ m = StageOf("compress", u, x, blk) /\ CompressBlock
                         => m' = StageOf("feed", u, x, blk)
                    /\ m = StageOf("feed", u, x, blk) /\ FeedForward
                         => m' = BlockOf(u, x, blk, ProveExpand, ProveCompress)
  OBVIOUS
<1>1. ASSUME m = StageOf("load", u, x, blk), LoadBlock PROVE m' = StageOf("expand", u, x, blk)
  <2>1. m' = Loaded(m, x, blk)
    BY <1>1 DEF LoadBlock, Evaluate, Loaded, InputShare
  <2> QED
    BY <1>1, <2>1 DEF StageOf
<1>2. ASSUME m = StageOf("expand", u, x, blk), ExpandWords
      PROVE  m' = StageOf("compress", u, x, blk)
  <2>1. m' = Expansion(m, ProveExpand)
    BY <1>2 DEF ExpandWords, Evaluate, Expansion, Program
  <2> QED
    BY <1>2, <2>1 DEF StageOf
<1>3. ASSUME m = StageOf("compress", u, x, blk), CompressBlock
      PROVE  m' = StageOf("feed", u, x, blk)
  <2>1. m' = Compression(m, ProveCompress)
    BY <1>3 DEF CompressBlock, Evaluate, Compression, Program
  <2> QED
    BY <1>3, <2>1 DEF StageOf
<1>4. ASSUME m = StageOf("feed", u, x, blk), FeedForward
      PROVE  m' = BlockOf(u, x, blk, ProveExpand, ProveCompress)
  <2>1. m' = Feeding(m)
    BY <1>4 DEF FeedForward, Evaluate, Feeding
  <2> QED
    BY <1>4, <2>1 DEF StageOf, BlockOf
<1> QED
  BY <1>1, <1>2, <1>3, <1>4

-----------------------------------------------------------------------------
(* The steps of the round keep the prover's invariant.                        *)

LEMMA ProverInvInit == Init => ProverInv
<1> SUFFICES ASSUME Init PROVE ProverInv
  OBVIOUS
<1>1. 0 \in 0 .. NumBlocks
  BY Sizes
<1> QED
  BY <1>1 DEF Init, ProverInv, Placed, ProverPlaces, Counted, Committed, Shared, Proving,
             Recorded, Stages

(* A step that leaves the shares, the machine and the block alone.             *)
LEMMA ProverInvKept ==
  ASSUME ProverInv, UNCHANGED <<in, x, msg, m, blk, role>>, pc' # "views",
         pc' \notin Stages, pc \notin {"hash", "share"}, Placed',
         role = "prover" => UNCHANGED c
  PROVE  ProverInv'
<1>1. in' \in Inputs /\ Counted' /\ Proving' /\ Recorded'
  BY DEF ProverInv, Counted, Proving, Recorded
<1>2. Shared'
  BY DEF ProverInv, Shared
<1>3. Committed'
  <2> SUFFICES ASSUME role' = "prover", pc' # "hash"
               PROVE  /\ c'.y = SHA256(in'.r)
                      /\ LowBit(c'.b) = (Parity(HashA \cap in'.r) + in'.m) % 2
    BY DEF Committed
  <2>1. role = "prover" /\ c' = c /\ in' = in
    OBVIOUS
  <2>2. c.y = SHA256(in.r) /\ LowBit(c.b) = (Parity(HashA \cap in.r) + in.m) % 2
    BY <2>1 DEF ProverInv, Committed
  <2> QED
    BY <2>1, <2>2
<1> QED
  BY <1>1, <1>2, <1>3 DEF ProverInv

LEMMA CommitmentWritten ==
  ASSUME ProverInv, WriteCommitment
  PROVE  ProverInv'
<1>1. /\ in' = in /\ pc = "hash" /\ pc' = "share" /\ UNCHANGED <<role, x, msg, m, blk>>
  BY DEF WriteCommitment, inputVars, shareVars, loopVars
<1>2. in' \in Inputs /\ Placed' /\ Counted' /\ Shared' /\ Proving' /\ Recorded'
  BY <1>1 DEF ProverInv, Placed, ProverPlaces, Stages, Counted, Shared, Proving, Recorded
<1>3. PICK junk \in Junk :
        c' = [b |-> junk \cup {i \in {0} : (Parity(HashA \cap in.r) + in.m) % 2 = 1},
              y |-> SHA256(in.r)]
  BY DEF WriteCommitment
<1>4. Parity(HashA \cap in.r) \in {0, 1} /\ in.m \in {0, 1}
  <2>1. in.r \subseteq 0 .. LBits - 1 /\ in.m \in {0, 1} /\ LBits \in Nat
    BY RoundAssumption, Sha256Assumption DEF ProverInv
  <2>2. IsFiniteSet(HashA \cap in.r)
    <3>1. IsFiniteSet(0 .. LBits - 1) /\ HashA \cap in.r \subseteq 0 .. LBits - 1
      BY <2>1, FS_Interval
    <3> QED
      BY <3>1, FS_Subset
  <2>3. Parity(HashA \cap in.r) \in {0, 1}
    BY <2>2, XorParity
  <2> QED
    BY <2>1, <2>3
<1>5. LowBit(c'.b) = (Parity(HashA \cap in.r) + in.m) % 2
  <2> DEFINE v == (Parity(HashA \cap in.r) + in.m) % 2
  <2>1. v \in {0, 1}
    BY <1>4
  <2>2. junk \cap {0} = {}
    BY RoundAssumption
  <2>3. c'.b = junk \cup {i \in {0} : v = 1}
    BY <1>3
  <2> HIDE DEF v
  <2>4. c'.b \cap {0} = IF v = 1 THEN {0} ELSE {}
    BY <2>2, <2>3
  <2>5. Cardinality({0}) = 1 /\ Cardinality({}) = 0
    BY FS_Singleton, FS_EmptySet
  <2> QED
    BY <2>1, <2>4, <2>5 DEF LowBit, v
<1>6. Committed'
  BY <1>1, <1>3, <1>5 DEF Committed
<1> QED
  BY <1>2, <1>6 DEF ProverInv

LEMMA SecretsShared ==
  ASSUME ProverInv, ShareSecrets
  PROVE  ProverInv'
<1>1. /\ pc = "share" /\ pc' = "setup" /\ UNCHANGED <<role, in, c, m, blk>>
  BY DEF ShareSecrets, inputVars, loopVars
<1>2. in' \in Inputs /\ Placed' /\ Counted' /\ Committed' /\ Proving' /\ Recorded'
  BY <1>1 DEF ProverInv, Placed, ProverPlaces, Stages, Counted, Committed, Proving, Recorded
<1>3. Sharing(x', msg', in)
  <2>1. in \in Inputs
    BY DEF ProverInv
  <2> QED
    BY <2>1, SharesOfSecrets DEF ShareSecrets
<1> QED
  BY <1>1, <1>2, <1>3 DEF ProverInv, Shared

LEMMA ProverSetUp ==
  ASSUME ProverInv, SetupProver
  PROVE  ProverInv'
<1>1. /\ pc = "setup" /\ pc' = "load" /\ role = "prover" /\ UNCHANGED <<role, in, c, x, msg>>
      /\ m' = ProverStart /\ blk' = 0
  BY DEF SetupProver, inputVars, shareVars, ProverStart
<1>2. in' \in Inputs /\ Placed' /\ Committed' /\ Shared' /\ Recorded'
  BY <1>1 DEF ProverInv, Placed, ProverPlaces, Stages, Committed, Shared, Recorded
<1>3. Counted'
  BY <1>1, Sizes DEF Counted
<1>4. Proving'
  <2> DEFINE g == [b \in {0} |-> ProverStart]
  <2>1. IsEvaluation(g, x, 0)
    BY DEF IsEvaluation
  <2>2. g[0] = ProverStart
    OBVIOUS
  <2> HIDE DEF g
  <2>3. StageOf("load", g[0], x, 0) = ProverStart
    BY <2>2 DEF StageOf
  <2> QED
    BY <1>1, <2>1, <2>3 DEF Proving
<1> QED
  BY <1>2, <1>3, <1>4 DEF ProverInv

(* The stages of a block.                                                     *)
LEMMA BlockStep ==
  ASSUME ProverInv, LoadBlock \/ ExpandWords \/ CompressBlock \/ FeedForward
  PROVE  ProverInv'
<1>1. /\ UNCHANGED <<role, in, c, x, msg>> /\ pc' # "views" /\ pc \in Stages
      /\ pc' \in Stages \cup {"rejected"}
  BY DEF LoadBlock, ExpandWords, CompressBlock, FeedForward, Evaluate, inputVars, shareVars,
         Stages
<1>2. NumBlocks \in Nat /\ blk \in 0 .. NumBlocks /\ (pc # "load" => blk < NumBlocks)
  BY <1>1, Sizes DEF ProverInv, Counted
<1>3. blk < NumBlocks
  BY <1>2 DEF LoadBlock, ExpandWords, CompressBlock, FeedForward
<1>4. Counted'
  <2>1. CASE FeedForward
    BY <1>2, <1>3, <2>1 DEF Counted, FeedForward, Evaluate, Stages
  <2>2. CASE LoadBlock \/ ExpandWords \/ CompressBlock
    <3>1. blk' = blk
      BY <2>2 DEF LoadBlock, ExpandWords, CompressBlock
    <3> QED
      BY <1>2, <1>3, <3>1 DEF Counted
  <2> QED
    BY <2>1, <2>2
<1>5. role = "prover" => Proving' /\ pc' \in Stages
  <2> SUFFICES ASSUME role = "prover" PROVE Proving' /\ pc' \in Stages
    OBVIOUS
  <2>1. PICK g : IsEvaluation(g, x, blk) /\ m = StageOf(pc, g[blk], x, blk)
    BY <1>1 DEF ProverInv, Proving
  <2> DEFINE u == g[blk]
  <2>2. /\ Sound(StageOf("expand", u, x, blk), 0) /\ Sound(StageOf("compress", u, x, blk), 0)
        /\ Sound(StageOf("feed", u, x, blk), 0)
        /\ Feeding(StageOf("feed", u, x, blk)).ok = TRUE
    <3>1. IsEvaluation(g, x, blk) /\ blk \in 0 .. NumBlocks
      BY <1>2, <2>1
    <3> HIDE DEF u
    <3>2. \A p \in Stages : Sound(StageOf(p, g[blk], x, blk), 0)
      BY <1>3, <3>1, StagesSound
    <3>3. Feeding(StageOf("feed", g[blk], x, blk)).ok = TRUE
      BY <1>3, <3>1, StagesSound
    <3> QED
      BY <3>2, <3>3 DEF Stages, u
  <2>3. /\ StageOf("expand", u, x, blk).ok = TRUE /\ StageOf("compress", u, x, blk).ok = TRUE
        /\ StageOf("feed", u, x, blk).ok = TRUE
        /\ BlockOf(u, x, blk, ProveExpand, ProveCompress).ok = TRUE
    <3>1. BlockOf(u, x, blk, ProveExpand, ProveCompress) = Feeding(StageOf("feed", u, x, blk))
      BY DEF BlockOf, StageOf
    <3> HIDE DEF u
    <3> QED
      BY <2>2, <3>1 DEF Sound
  <2>4. m = StageOf(pc, u, x, blk) /\ IsEvaluation(g, x, blk)
    BY <2>1
  <2> HIDE DEF u
  <2>5. CASE LoadBlock
    <3>1. pc = "load" /\ blk' = blk /\ m' = StageOf("expand", u, x, blk)
      BY <2>4, <2>5, StageSteps DEF LoadBlock
    <3>2. pc' = "expand"
      BY <2>3, <2>5, <3>1 DEF LoadBlock, Evaluate
    <3> QED
      BY <1>1, <2>4, <3>1, <3>2 DEF Proving, Stages, u
  <2>6. CASE ExpandWords
    <3>1. pc = "expand" /\ blk' = blk /\ m' = StageOf("compress", u, x, blk)
      BY <2>4, <2>6, StageSteps DEF ExpandWords
    <3>2. pc' = "compress"
      BY <2>3, <2>6, <3>1 DEF ExpandWords, Evaluate
    <3> QED
      BY <1>1, <2>4, <3>1, <3>2 DEF Proving, Stages, u
  <2>7. CASE CompressBlock
    <3>1. pc = "compress" /\ blk' = blk /\ m' = StageOf("feed", u, x, blk)
      BY <2>4, <2>7, StageSteps DEF CompressBlock
    <3>2. pc' = "feed"
      BY <2>3, <2>7, <3>1 DEF CompressBlock, Evaluate
    <3> QED
      BY <1>1, <2>4, <3>1, <3>2 DEF Proving, Stages, u
  <2>8. CASE FeedForward
    <3>1. /\ pc = "feed" /\ blk' = blk + 1
          /\ m' = BlockOf(u, x, blk, ProveExpand, ProveCompress)
      BY <2>4, <2>8, StageSteps DEF FeedForward
    <3>2. pc' = "load"
      BY <2>3, <2>8, <3>1 DEF FeedForward, Evaluate
    <3>3. blk \in Nat
      BY <1>2
    <3>4. \E g2 : /\ IsEvaluation(g2, x, blk + 1)
                  /\ g2[blk + 1] = BlockOf(g[blk], x, blk, ProveExpand, ProveCompress)
      BY <2>4, <3>3, EvaluationGrows
    <3>5. PICK g2 : IsEvaluation(g2, x, blk') /\ g2[blk'] = m'
      BY <3>1, <3>4 DEF u
    <3>6. m' = StageOf("load", g2[blk'], x, blk')
      BY <3>5 DEF StageOf
    <3> QED
      BY <1>1, <3>2, <3>5, <3>6 DEF Proving, Stages
  <2> QED
    BY <2>5, <2>6, <2>7, <2>8
<1>6. Placed' /\ Proving'
  BY <1>1, <1>5 DEF ProverInv, Placed, ProverPlaces, Proving
<1>7. in' \in Inputs /\ Committed' /\ Shared' /\ Recorded'
  BY <1>1 DEF ProverInv, Committed, Shared, Recorded, Stages
<1> QED
  BY <1>4, <1>6, <1>7 DEF ProverInv

LEMMA ProductProved ==
  ASSUME ProverInv, ProveProduct
  PROVE  ProverInv'
<1>1. /\ pc = "load" /\ blk = NumBlocks /\ role = "prover" /\ pc' = "views"
      /\ UNCHANGED <<role, in, c, x, msg, m, blk>>
  BY DEF ProveProduct, Hashed, inputVars, loopVars
<1>2. in' \in Inputs /\ Placed' /\ Counted' /\ Committed' /\ Shared' /\ Proving'
  BY <1>1 DEF ProverInv, Placed, ProverPlaces, Counted, Committed, Shared, Proving, Stages
<1>3. PICK g : IsEvaluation(g, x, NumBlocks) /\ m = StageOf("load", g[NumBlocks], x, NumBlocks)
  BY <1>1 DEF ProverInv, Proving, Stages
<1>4. m = g[NumBlocks]
  BY <1>3 DEF StageOf
<1>5. a' = [yp |-> OutputsOf(g), y2p |-> ProductsOf, h |-> None] /\ views' = ViewsOf(g)
  BY <1>4 DEF ProveProduct, OutputsOf, ProductsOf, ViewsOf
<1>6. ViewsOf(g)' = ViewsOf(g) /\ ProductsOf' = ProductsOf /\ OutputsOf(g)' = OutputsOf(g)
  BY <1>1 DEF ViewsOf, ProductsOf, OutputsOf
<1>7. Recorded'
  BY <1>1, <1>3, <1>4, <1>5, <1>6 DEF Recorded
<1> QED
  BY <1>2, <1>7 DEF ProverInv

LEMMA ProverInvNext == ProverInv /\ [Next]_vars => ProverInv'
<1> SUFFICES ASSUME ProverInv, [Next]_vars PROVE ProverInv'
  OBVIOUS
<1>1. CASE WriteCommitment
  BY <1>1, CommitmentWritten
<1>2. CASE ShareSecrets
  BY <1>2, SecretsShared
<1>3. CASE SetupProver
  BY <1>3, ProverSetUp
<1>4. CASE LoadBlock \/ ExpandWords \/ CompressBlock \/ FeedForward
  BY <1>4, BlockStep
<1>5. CASE ProveProduct
  BY <1>5, ProductProved
<1>6. CASE Crash \/ AskOracle \/ NewHash \/ DrawPair \/ Open
  <2>1. /\ UNCHANGED <<in, x, msg, m, blk, role, c>> /\ pc \notin {"hash", "share"}
        /\ pc' # "views" /\ pc' \notin Stages
    BY <1>6 DEF Crash, AskOracle, NewHash, DrawPair, Open, inputVars, shareVars, loopVars,
                Stages, Program
  <2>2. role = "prover" => pc' \in ProverPlaces
    BY <1>6 DEF Crash, AskOracle, NewHash, DrawPair, Open, Program, ProverPlaces, ProverInv,
                Placed
  <2>3. Placed'
    BY <2>1, <2>2 DEF ProverInv, Placed
  <2> QED
    BY <2>1, <2>3, ProverInvKept
<1>7. CASE HashViews
  <2>1. /\ pc = "views" /\ pc' = "query" /\ role = "prover"
        /\ UNCHANGED <<in, x, msg, blk, role, c>>
    BY <1>7 DEF HashViews, inputVars, shareVars, ProverInv, Recorded
  <2> QED
    BY <2>1 DEF ProverInv, Placed, ProverPlaces, Stages, Counted, Committed, Shared, Proving,
                Recorded
<1>8. CASE ReadRound
  <2>1. /\ pc = "written" /\ pc' = "query" /\ role' = "verifier"
        /\ UNCHANGED <<in, x, msg, m, blk>>
    BY <1>8 DEF ReadRound, loopVars
  <2> QED
    BY <2>1 DEF ProverInv, Placed, ProverPlaces, Stages, Counted, Committed, Shared, Proving,
                Recorded
<1>9. CASE SetupVerifier
  <2>1. /\ pc = "setup" /\ pc' = "load" /\ role = "verifier" /\ blk' = 0
        /\ UNCHANGED <<in, x, msg, role, c>>
    BY <1>9 DEF SetupVerifier, inputVars, shareVars
  <2> QED
    BY <2>1, Sizes DEF ProverInv, Placed, Stages, Counted, Committed, Shared, Proving,
                Recorded
<1>10. CASE VerifyCommit \/ SetupVerifierFails \/ CompareOutput \/ VerifyProduct
  <2>1. /\ UNCHANGED <<in, x, msg, m, blk, role, c>> /\ pc \notin {"hash", "share"}
        /\ pc' # "views" /\ pc' \in {"setup", "product", "accepted", "rejected"}
    BY <1>10 DEF VerifyCommit, SetupVerifierFails, CompareOutput, VerifyProduct, Goto,
                 inputVars, shareVars, loopVars, Hashed
  <2>2. role = "prover" => pc' \in ProverPlaces
    BY <1>10 DEF VerifyCommit, SetupVerifierFails, CompareOutput, VerifyProduct, Goto,
                 ProverPlaces, ProverInv, Placed, Stages, Hashed
  <2>3. Placed'
    BY <2>1, <2>2 DEF ProverInv, Placed
  <2> QED
    BY <2>1, <2>3, ProverInvKept DEF Stages
<1>11. CASE UNCHANGED vars
  <2>1. UNCHANGED <<pc, role, in, c, x, msg, views, m, blk, a>>
    BY <1>11 DEF vars, inputVars, shareVars, loopVars, recordVars
  <2> QED
    BY <2>1 DEF ProverInv, Placed, Counted, Committed, Shared, Proving, Recorded, ViewsOf,
                ProductsOf, OutputsOf
<1> QED
  BY <1>1, <1>2, <1>3, <1>4, <1>5, <1>6, <1>7, <1>8, <1>9, <1>10, <1>11
     DEF Next, Step, Finished

THEOREM ProverInvariant == Spec => []ProverInv
<1> QED
  BY ProverInvInit, ProverInvNext, PTL DEF Spec

LEMMA ReconstructsWhenRecorded == ProverInv => SharesReconstruct
<1> SUFFICES ASSUME ProverInv, pc = "views"
             PROVE  /\ \A q \in 1 .. 8 :
                         /\ Recon([j \in Party |-> m.reg[H8[q]][j]]) = c.y[q]
                         /\ OutputShare(2, q) = m.reg[H8[q]][2]
                    /\ (a.y2p[0] + a.y2p[1] + a.y2p[2]) % 2 = LowBit(c.b)
  BY DEF SharesReconstruct
<1>1. role = "prover" /\ c.y = SHA256(in.r) /\ Sharing(x, msg, in)
      /\ LowBit(c.b) = (Parity(HashA \cap in.r) + in.m) % 2
  BY DEF ProverInv, Recorded, Committed, Shared
<1>2. PICK g : /\ IsEvaluation(g, x, NumBlocks) /\ m = g[NumBlocks]
               /\ a = [yp |-> OutputsOf(g), y2p |-> ProductsOf, h |-> None]
  BY DEF ProverInv, Recorded
<1>3. ChainWords(m) = c.y
  <2>1. ChainWords(g[NumBlocks]) = SHA256(Recon(x))
    BY <1>2, EvaluationHashes
  <2> QED
    BY <1>1, <1>2, <2>1 DEF Sharing
<1>4. 0 \in Party /\ 1 \in Party /\ 2 \in Party
  BY DEF Party
<1>5. ASSUME NEW q \in 1 .. 8
      PROVE  /\ Recon([j \in Party |-> m.reg[H8[q]][j]]) = c.y[q]
             /\ OutputShare(2, q) = m.reg[H8[q]][2]
  <2> DEFINE s == m.reg[H8[q]]
  <2>1. Recon(s) = c.y[q]
    BY <1>3 DEF ChainWords
  <2>2. Recon([j \in Party |-> s[j]]) = Recon(s)
    BY <1>4 DEF Recon
  <2>3. a.yp[0][q] = s[0] /\ a.yp[1][q] = s[1]
    BY <1>2 DEF OutputsOf
  <2> HIDE DEF s
  <2>4. OutputShare(2, q) = Xor(c.y[q], Xor(s[0], s[1]))
    BY <2>3 DEF OutputShare
  <2>5. s[2] \in Word
    <3>1. Sound(g[NumBlocks], 0)
      <4> DEFINE b == NumBlocks
      <4>1. b \in 0 .. NumBlocks /\ IsEvaluation(g, x, b)
        BY <1>2, Sizes
      <4> HIDE DEF b
      <4>2. Sound(g[b], 0)
        BY <4>1, BlockStartSound
      <4> QED
        BY <4>2 DEF b
    <3> QED
      BY <1>2, <1>4, <3>1, EightNames DEF Sound, Shares, s
  <2>6. \A w0, w1, w2 : Xor(Xor(Xor(w0, w1), w2), Xor(w0, w1)) = w2
    BY DEF Xor
  <2> QED
    BY <2>1, <2>2, <2>4, <2>6 DEF Recon, s
<1>6. (a.y2p[0] + a.y2p[1] + a.y2p[2]) % 2 = LowBit(c.b)
  <2>1. /\ a.y2p[0] = ProductShare(x[0], msg[0]) /\ a.y2p[1] = ProductShare(x[1], msg[1])
        /\ a.y2p[2] = ProductShare(x[2], msg[2])
    BY <1>2, <1>4 DEF ProductsOf
  <2> QED
    BY <1>1, <2>1, ProductOfShares
<1> QED
  BY <1>5, <1>6

(* When the prover records its shares, the output shares reconstruct SHA-256 of   *)
(* the opening, of any length, and the product shares the committed bit: the two   *)
(* evaluations of mpc_sha256_prove and mpc_inner_prod_prove, which never hold a value,  *)
(* compute what hm_bit_commit commits to.                                          *)
THEOREM SharesReconstructCommitment == Spec => []SharesReconstruct
<1> QED
  BY ProverInvariant, ReconstructsWhenRecorded, PTL

(***************************************************************************)
(* The verifier follows the prover.                                        *)
(***************************************************************************)
(* What the parties that challenge d opens hold of a shared word.              *)
Part(d, s) == [j \in Parties(d) |-> s[j]]

(* With the final views F of the prover at hand, the machine v of the verifier   *)
(* has what the machine u of the prover has, for the opened parties, but for the  *)
(* registers S and the words from n on.                                        *)
Follows(v, u, F, d, S, n) ==
  /\ DOMAIN v = Fields /\ v.e = d /\ v.ok = TRUE
  /\ v.key = [j \in Parties(d) |-> j]
  /\ v.rand = u.rand /\ v.county = u.county
  /\ v.views = [row \in Rows |-> Part(d, F[row])]
  /\ DOMAIN v.reg = Registers /\ \A q \in Registers \ S : v.reg[q] = Part(d, u.reg[q])
  /\ DOMAIN v.w = 0 .. 63 /\ \A j \in 0 .. n - 1 : v.w[j] = Part(d, u.w[j])

LEMMA OpenedParties ==
  ASSUME NEW d \in Party
  PROVE  /\ Parties(d) = {d, Next3(d)} /\ Parties(d) \subseteq Party /\ d # Prover
         /\ d \in Parties(d) /\ Next3(d) \in Parties(d)
BY NextParty DEF Parties, Prover, Party

LEMMA PartOf ==
  ASSUME NEW d \in Party, NEW s, DOMAIN s = Party, NEW t, DOMAIN t = Party
  PROVE  /\ XorShares(Part(d, s), Part(d, t)) = Part(d, XorShares(s, t))
         /\ Stored(Part(d, s)) = Part(d, Stored(s))
         /\ DOMAIN XorShares(s, t) = Party /\ DOMAIN Stored(s) = Party
         /\ Part(d, s)[d] = s[d] /\ Part(d, s)[Next3(d)] = s[Next3(d)]
<1>1. Parties(d) \subseteq Party /\ d \in Parties(d) /\ Next3(d) \in Parties(d)
  BY OpenedParties
<1>2. XorShares(Part(d, s), Part(d, t)) = Part(d, XorShares(s, t))
  BY <1>1 DEF XorShares, Part
<1>3. Stored(Part(d, s)) = Part(d, Stored(s))
  BY <1>1 DEF Stored, Part
<1> QED
  BY <1>1, <1>2, <1>3 DEF XorShares, Stored, Part

(* A word written by both.                                                    *)
LEMMA PutsFollows ==
  ASSUME NEW d \in Party, NEW n, NEW u, Sound(u, n), NEW v, NEW F, NEW S,
         Follows(v, u, F, d, S, n),
         NEW i, NEW dst, dst \in Registers \/ (dst = "w" /\ i = n /\ n \in 0 .. 63),
         NEW val, NEW u2, Puts(u, u2, dst, val, i), NEW v2, Puts(v, v2, dst, Part(d, val), i),
         v2.ok = TRUE, v2.rand = u2.rand, v2.county = u2.county, v2.views = v.views
  PROVE  Follows(v2, u2, F, d, S \ {dst}, n) /\ (dst = "w" => Follows(v2, u2, F, d, S \ {dst}, n + 1))
<1>1. DOMAIN u.reg = Registers /\ DOMAIN u.w = 0 .. 63
  BY DEF Sound
<1>2. /\ DOMAIN v2 = Fields /\ v2.e = d /\ v2.key = [j \in Parties(d) |-> j]
      /\ v2.views = [row \in Rows |-> Part(d, F[row])]
  BY DEF Follows, Puts
<1>3. CASE dst \in Registers
  <2>1. dst # "w"
    BY <1>3, Places
  <2>2. /\ u2.reg = [u.reg EXCEPT ![dst] = val] /\ u2.w = u.w
        /\ v2.reg = [v.reg EXCEPT ![dst] = Part(d, val)] /\ v2.w = v.w
    BY <1>3 DEF Puts
  <2>3. /\ DOMAIN v2.reg = Registers
        /\ \A q \in Registers \ (S \ {dst}) : v2.reg[q] = Part(d, u2.reg[q])
    <3> SUFFICES ASSUME NEW q \in Registers \ (S \ {dst})
                 PROVE  v2.reg[q] = Part(d, u2.reg[q])
      BY <2>2 DEF Follows
    <3>1. CASE q = dst
      BY <1>1, <2>2, <3>1 DEF Follows
    <3>2. CASE q # dst
      <4>1. v2.reg[q] = v.reg[q] /\ u2.reg[q] = u.reg[q] /\ q \in Registers \ S
        BY <1>1, <2>2, <3>2 DEF Follows
      <4> QED
        BY <4>1 DEF Follows
    <3> QED
      BY <3>1, <3>2
  <2> QED
    BY <1>2, <2>1, <2>2, <2>3 DEF Follows
<1>4. CASE dst = "w"
  <2>1. i = n /\ n \in 0 .. 63 /\ dst \notin Registers
    BY <1>4, Places
  <2>2. /\ u2.reg = u.reg /\ u2.w = [u.w EXCEPT ![n] = val]
        /\ v2.reg = v.reg /\ v2.w = [v.w EXCEPT ![n] = Part(d, val)]
    BY <1>4, <2>1 DEF Puts
  <2>3. /\ DOMAIN v2.reg = Registers
        /\ \A q \in Registers \ (S \ {dst}) : v2.reg[q] = Part(d, u2.reg[q])
    BY <2>1, <2>2 DEF Follows
  <2>4. DOMAIN v2.w = 0 .. 63 /\ \A j \in 0 .. (n + 1) - 1 : v2.w[j] = Part(d, u2.w[j])
    <3> SUFFICES ASSUME NEW j \in 0 .. (n + 1) - 1 PROVE v2.w[j] = Part(d, u2.w[j])
      BY <2>2 DEF Follows
    <3>1. CASE j = n
      BY <1>1, <2>1, <2>2, <3>1 DEF Follows
    <3>2. CASE j # n
      <4>1. j \in 0 .. n - 1
        BY <2>1, <3>2
      <4>2. v2.w[j] = v.w[j] /\ u2.w[j] = u.w[j]
        BY <1>1, <2>1, <2>2, <3>2, <4>1 DEF Follows
      <4> QED
        BY <4>1, <4>2 DEF Follows
    <3> QED
      BY <3>1, <3>2
  <2>5. \A j \in 0 .. n - 1 : j \in 0 .. (n + 1) - 1
    BY <2>1
  <2> QED
    BY <1>2, <2>3, <2>4, <2>5 DEF Follows
<1> QED
  BY <1>3, <1>4

(* Words that both read.                                                      *)
LEMMA ReadFollows ==
  ASSUME NEW d, NEW n, NEW u, NEW v, NEW F, NEW S, Follows(v, u, F, d, S, n),
         NEW q, NEW i, Readable(q, i, n), q \notin S
  PROVE  Read(v, q, i) = Part(d, Read(u, q, i))
<1>1. CASE q \in Registers
  <2>1. q \notin DOMAIN Back
    BY <1>1, Places
  <2> QED
    BY <1>1, <2>1 DEF Read, Follows
<1>2. CASE q \in DOMAIN Back /\ i - Back[q] \in 0 .. n - 1
  BY <1>2 DEF Read, Follows
<1> QED
  BY <1>1, <1>2 DEF Readable

(* mpc_AND_verify and its like: the recomputed opening of the first party is the  *)
(* recorded one.                                                              *)
LEMMA OpeningAgrees ==
  ASSUME NEW d \in Party, NEW op \in {"ADD", "CH", "MAJ"},
         NEW s1 \in Shares, NEW s2 \in Shares, NEW s3 \in Shares, NEW r \in Shares
  PROVE  LET t == Opening(op, s1, s2, s3, r)
             f == Factors(op, Part(d, s1), Part(d, s2), Part(d, s3))
         IN  /\ op = "ADD" => \A b \in 0 .. Width - 2 :
                  b + 1 \in Part(d, t)[d] <=>
                    CarryOut(Part(d, s1), Part(d, s2), Part(d, t), Part(d, r), d, b)
             /\ op # "ADD" => \A b \in Bit :
                  b \in Part(d, t)[d] <=> b \in AndShare(f[1], f[2], Part(d, r), d)
<1> DEFINE t == Opening(op, s1, s2, s3, r)
           f == Factors(op, Part(d, s1), Part(d, s2), Part(d, s3))
           h == Factors(op, s1, s2, s3)
<1>0. DOMAIN s1 = Party /\ DOMAIN s2 = Party /\ DOMAIN s3 = Party /\ DOMAIN r = Party
  BY DEF Shares
<1>1. ASSUME NEW s, DOMAIN s = Party
      PROVE  Part(d, s)[d] = s[d] /\ Part(d, s)[Next3(d)] = s[Next3(d)]
  BY <1>1, PartOf
<1>2. CASE op = "ADD"
  <2>1. t = Carries(s1, s2, r)
    BY <1>2 DEF Opening
  <2>2. t \in Shares /\ CarriesUpTo(t, s1, s2, r, Width - 1)
    BY <2>1, CarriesAre
  <2> HIDE DEF t
  <2>3. ASSUME NEW b \in 0 .. Width - 2
        PROVE  b + 1 \in Part(d, t)[d] <=>
                 CarryOut(Part(d, s1), Part(d, s2), Part(d, t), Part(d, r), d, b)
    <3>1. b + 1 \in Bit /\ b + 1 \in 1 .. Width - 1 /\ (b + 1) - 1 = b
      BY Sizes
    <3>2. b + 1 \in t[d] <=> CarryOut(s1, s2, t, r, d, b)
      BY <2>2, <3>1 DEF CarriesUpTo
    <3>3. DOMAIN t = Party
      BY <2>2 DEF Shares
    <3>4. CarryOut(Part(d, s1), Part(d, s2), Part(d, t), Part(d, r), d, b)
            = CarryOut(s1, s2, t, r, d, b)
      BY <1>0, <1>1, <3>3 DEF CarryOut
    <3> QED
      BY <1>1, <3>2, <3>3, <3>4
  <2> QED
    BY <1>2, <2>3 DEF t
<1>3. CASE op # "ADD"
  <2>1. t = [j \in Party |-> AndShare(h[1], h[2], r, j)]
    BY <1>3 DEF Opening
  <2>2. f[1] = Part(d, h[1]) /\ f[2] = Part(d, h[2]) /\ DOMAIN h[1] = Party /\ DOMAIN h[2] = Party
    <3>1. /\ XorShares(Part(d, s1), Part(d, s2)) = Part(d, XorShares(s1, s2))
          /\ XorShares(Part(d, s1), Part(d, s3)) = Part(d, XorShares(s1, s3))
          /\ XorShares(Part(d, s2), Part(d, s3)) = Part(d, XorShares(s2, s3))
          /\ DOMAIN XorShares(s1, s2) = Party /\ DOMAIN XorShares(s1, s3) = Party
          /\ DOMAIN XorShares(s2, s3) = Party
      BY <1>0, PartOf
    <3> QED
      BY <1>0, <1>3, <3>1 DEF Factors
  <2> HIDE DEF f, h
  <2>3. AndShare(f[1], f[2], Part(d, r), d) = AndShare(h[1], h[2], r, d)
    <3>1. /\ f[1][d] = h[1][d] /\ f[1][Next3(d)] = h[1][Next3(d)]
          /\ f[2][d] = h[2][d] /\ f[2][Next3(d)] = h[2][Next3(d)]
          /\ Part(d, r)[d] = r[d] /\ Part(d, r)[Next3(d)] = r[Next3(d)]
      BY <1>0, <1>1, <2>2
    <3> QED
      BY <3>1 DEF AndShare
  <2>4. Part(d, t)[d] = AndShare(h[1], h[2], r, d)
    <3>1. DOMAIN t = Party /\ t[d] = AndShare(h[1], h[2], r, d)
      BY <2>1
    <3> HIDE DEF t
    <3> QED
      BY <1>1, <3>1
  <2> QED
    BY <1>3, <2>3, <2>4 DEF f, t
<1> QED
  BY <1>2, <1>3

(* The same after both have written dst.                                       *)
FollowsOn(v, u, F, d, S, dst, n) ==
  /\ Follows(v, u, F, d, S \ {dst}, n)
  /\ dst = "w" => Follows(v, u, F, d, S \ {dst}, n + 1)

(* A gate of the verifier computes what the prover's gate does.               *)
LEMMA GateFollows ==
  ASSUME NEW d \in Party, NEW n, NEW u, Sound(u, n), u.rand \in Rows, NEW v, NEW F, NEW S,
         Follows(v, u, F, d, S, n), NEW op \in {"ADD", "CH", "MAJ"},
         NEW s1 \in Shares, NEW s2 \in Shares, NEW s3 \in Shares,
         NEW i \in Int, NEW dst, dst \in Registers \/ (dst = "w" /\ i = n /\ n \in 0 .. 63),
         F[u.county] = Gate(u, op, <<s1, s2, s3>>, dst, i).views[u.county]
  PROVE  LET u2 == Gate(u, op, <<s1, s2, s3>>, dst, i)
             v2 == Gate(v, op, <<Part(d, s1), Part(d, s2), Part(d, s3)>>, dst, i)
         IN  FollowsOn(v2, u2, F, d, S, dst, n)
<1> DEFINE r == TapeWord(u.rand)
           t == Opening(op, s1, s2, s3, r)
           val == GateValue(op, s1, s2, s3, t)
           u2 == Gate(u, op, <<s1, s2, s3>>, dst, i)
           y == <<Part(d, s1), Part(d, s2), Part(d, s3)>>
           v2 == Gate(v, op, y, dst, i)
           p == Part(d, t)
           f == Factors(op, y[1], y[2], y[3])
           val2 == IF op = "ADD" THEN XorShares(XorShares(y[1], y[2]), p)
                                 ELSE Result(op, p, y[1], y[3])
           agrees == IF op = "ADD" THEN \A b \in 0 .. Width - 2 :
                             b + 1 \in p[v.e] <=> CarryOut(y[1], y[2], p, Part(d, r), v.e, b)
                     ELSE \A b \in Bit : b \in p[v.e] <=> b \in AndShare(f[1], f[2], Part(d, r), v.e)
<1>0. dst \in Registers \cup {"w"}
  OBVIOUS
<1>1. Records(u, u2, dst, Stored(val), t, i)
  BY <1>0, ProverGate
<1>2. y[1] = Part(d, s1) /\ y[2] = Part(d, s2) /\ y[3] = Part(d, s3)
  OBVIOUS
<1>3. r \in Shares
  BY Sizes DEF TapeWord, Shares
<1>4. t \in Shares /\ val \in Shares
  BY <1>3, GatesReconstruct
<1>5. F[u.county] = t
  <2>1. u.county \in Rows /\ DOMAIN u.views = Rows
    BY DEF Sound
  <2>2. u2.views = [u.views EXCEPT ![u.county] = t]
    BY <1>1 DEF Records
  <2> QED
    BY <2>1, <2>2
<1>6. /\ v.e = d /\ d # Prover /\ v.ok = TRUE /\ v.key = [j \in Parties(d) |-> j]
      /\ v.rand = u.rand /\ v.county = u.county /\ DOMAIN v = Fields
      /\ v.views = [row \in Rows |-> Part(d, F[row])] /\ u.county \in Rows
  BY OpenedParties DEF Follows, Sound
<1>7. Draw(v, v.rand) = Part(d, r)
  <2>1. \A j \in Parties(d) : v.key[j] = j /\ r[j] = Tape[j][u.rand]
    BY <1>6, OpenedParties DEF TapeWord
  <2> QED
    BY <1>6, <2>1 DEF Draw, Table, Part
<1>8. [j \in Parties(v.e) |-> v.views[v.county][j]] = p
  <2>1. v.views[v.county] = Part(d, t)
    BY <1>5, <1>6
  <2> HIDE DEF t
  <2> QED
    BY <1>6, <2>1 DEF Part
<1>9. val2 = Part(d, val)
  <2>0. DOMAIN s1 = Party /\ DOMAIN s2 = Party /\ DOMAIN s3 = Party /\ DOMAIN t = Party
    BY <1>4 DEF Shares
  <2> HIDE DEF t, y
  <2>1. CASE op = "ADD"
    <3>1. /\ XorShares(Part(d, s1), Part(d, s2)) = Part(d, XorShares(s1, s2))
          /\ DOMAIN XorShares(s1, s2) = Party
      BY <2>0, PartOf
    <3>2. XorShares(Part(d, XorShares(s1, s2)), Part(d, t))
            = Part(d, XorShares(XorShares(s1, s2), t))
      BY <2>0, <3>1, PartOf
    <3> QED
      BY <1>2, <2>1, <3>1, <3>2 DEF GateValue
  <2>2. CASE op # "ADD"
    <3>1. /\ XorShares(Part(d, t), Part(d, s1)) = Part(d, XorShares(t, s1))
          /\ XorShares(Part(d, t), Part(d, s3)) = Part(d, XorShares(t, s3))
      BY <2>0, PartOf
    <3> QED
      BY <1>2, <2>2, <3>1 DEF GateValue, Result
  <2> QED
    BY <2>1, <2>2
<1> HIDE DEF val
<1>10. agrees
  <2> HIDE DEF r, t, y
  <2>1. /\ op = "ADD" => \A b \in 0 .. Width - 2 :
                b + 1 \in p[d] <=>
                  CarryOut(Part(d, s1), Part(d, s2), p, Part(d, r), d, b)
        /\ op # "ADD" => \A b \in Bit :
                b \in p[d] <=> b \in AndShare(Factors(op, Part(d, s1), Part(d, s2), Part(d, s3))[1],
                                      Factors(op, Part(d, s1), Part(d, s2), Part(d, s3))[2],
                                      Part(d, r), d)
    BY <1>3, OpeningAgrees DEF t
  <2> HIDE DEF p
  <2>2. CASE op = "ADD"
    BY <1>2, <1>6, <2>1, <2>2
  <2>3. CASE op # "ADD"
    BY <1>2, <1>6, <2>1, <2>3
  <2> QED
    BY <2>2, <2>3
<1> DEFINE v1 == Write(v, dst, val2, i)
<1>11. v2 = [v1 EXCEPT !.rand = @ + 1, !.county = @ + 1]
  <2>1. v2 = CheckGate(v, op, y, dst, i)
    BY <1>6 DEF Gate
  <2> HIDE DEF y, v2
  <2> QED
    BY <1>7, <1>8, <1>10, <2>1 DEF CheckGate
<1>12. /\ Puts(v, v1, dst, Stored(val2), i) /\ v1.ok = v.ok
       /\ v1.rand = v.rand /\ v1.county = v.county /\ v1.views = v.views
  <2> HIDE DEF val2
  <2> QED
    BY <1>0, <1>6, WritePuts
<1> HIDE DEF v1, v2, val2, y, t, agrees, u2
<1>13. /\ Puts(v, v2, dst, Stored(val2), i)
       /\ v2.ok = TRUE /\ v2.rand = v.rand + 1 /\ v2.county = v.county + 1 /\ v2.views = v.views
  BY <1>6, <1>11, <1>12 DEF Puts, Fields
<1>14. Stored(val2) = Part(d, Stored(val))
  <2>1. DOMAIN val = Party
    BY <1>4 DEF Shares
  <2> QED
    BY <1>9, <2>1, PartOf
<1>15. u2.rand = v2.rand /\ u2.county = v2.county /\ Puts(u, u2, dst, Stored(val), i)
  BY <1>1, <1>6, <1>13 DEF Records
<1>16. Follows(v2, u2, F, d, S \ {dst}, n) /\ (dst = "w" => Follows(v2, u2, F, d, S \ {dst}, n + 1))
  <2> DEFINE y1 == Stored(val)
  <2>1. Puts(v, v2, dst, Part(d, y1), i) /\ Puts(u, u2, dst, y1, i)
    BY <1>13, <1>14, <1>15
  <2> HIDE DEF y1
  <2> QED
    BY <1>13, <1>15, <2>1, PutsFollows
<1>17. FollowsOn(v2, u2, F, d, S, dst, n)
  BY <1>16 DEF FollowsOn
<1> QED
  BY <1>17 DEF v2, u2, y

(* A call of the verifier does what the prover's call does.                    *)
LEMMA CallFollows ==
  ASSUME NEW d \in Party, NEW i \in 0 .. 63, NEW n, NEW u, Sound(u, n), NEW v, NEW F, NEW S,
         Follows(v, u, F, d, S, n), NEW g, CallOK(g, i, n), g.op # "ADDK",
         \A p \in DOMAIN g.src : g.src[p] \notin S,
         g.op \in GateOps => /\ u.rand \in Rows
                             /\ F[u.county] = Exec(u, g, i).views[u.county]
  PROVE  LET u2 == Exec(u, g, i)
             v2 == Exec(v, g, i)
         IN  FollowsOn(v2, u2, F, d, S, g.dst, n)
<1> DEFINE u2 == Exec(u, g, i)
           v2 == Exec(v, g, i)
           dst == g.dst
           A(p) == Arg(u, g, i, p)
           B(p) == Arg(v, g, i, p)
<1>1. /\ DOMAIN g.src = 1 .. Arity(g.op) /\ i \in Int
      /\ dst \in Registers \/ (dst = "w" /\ i = n /\ n \in 0 .. 63)
      /\ dst \in Registers \cup {"w"}
  <2>1. DOMAIN g.src = 1 .. Arity(g.op)
    BY DEF CallOK
  <2>2. dst \in Registers \/ (dst = "w" /\ i = n /\ n \in 0 .. 63)
    BY DEF CallOK
  <2>3. i \in Int
    OBVIOUS
  <2>4. dst \in Registers \cup {"w"}
    <3> HIDE DEF dst
    <3> QED
      BY <2>2
  <2> QED
    BY <2>1, <2>2, <2>3, <2>4
<1>2. u.ok = TRUE /\ v.ok = TRUE /\ DOMAIN u = Fields /\ DOMAIN v = Fields
      /\ u.e = Prover /\ v.e = d /\ Parties(u.e) = Party
  BY DEF Sound, Follows, Parties
<1>3. ASSUME NEW p \in 1 .. Arity(g.op) PROVE A(p) \in Shares /\ B(p) = Part(d, A(p))
  <2> DEFINE q == g.src[p]
  <2>1. Readable(q, i, n) /\ q \notin S
    BY <1>1 DEF CallOK
  <2> HIDE DEF q
  <2>2. Read(u, q, i) \in Shares /\ Read(v, q, i) = Part(d, Read(u, q, i))
    BY <2>1, ReadKnown, ReadFollows
  <2> QED
    BY <2>2 DEF Arg, q
<1>4. ASSUME NEW val, DOMAIN val = Party, u2 = Write(u, dst, val, i),
             v2 = Write(v, dst, Part(d, val), i)
      PROVE  FollowsOn(v2, u2, F, d, S, dst, n)
  <2> DEFINE y == Stored(val)
  <2>1. /\ Puts(u, u2, dst, y, i) /\ u2.ok = u.ok
        /\ u2.rand = u.rand /\ u2.county = u.county /\ u2.views = u.views
    BY <1>1, <1>2, <1>4, WritePuts
  <2>2. /\ Puts(v, v2, dst, Stored(Part(d, val)), i) /\ v2.ok = v.ok
        /\ v2.rand = v.rand /\ v2.county = v.county /\ v2.views = v.views
    BY <1>1, <1>2, <1>4, WritePuts
  <2>3. Stored(Part(d, val)) = Part(d, y)
    BY <1>4, PartOf
  <2>4. v2.rand = u2.rand /\ v2.county = u2.county /\ Puts(v, v2, dst, Part(d, y), i)
    BY <2>1, <2>2, <2>3 DEF Follows
  <2> HIDE DEF y, u2, v2, dst
  <2>5. /\ Follows(v2, u2, F, d, S \ {dst}, n)
        /\ (dst = "w" => Follows(v2, u2, F, d, S \ {dst}, n + 1))
    BY <1>1, <1>2, <2>1, <2>2, <2>4, PutsFollows
  <2> QED
    BY <2>5 DEF FollowsOn
<1>5. ASSUME NEW op \in {"ADD", "CH", "MAJ"}, NEW s1 \in Shares, NEW s2 \in Shares, NEW s3 \in Shares,
             g.op \in GateOps,
             u2 = Gate(u, op, <<s1, s2, s3>>, dst, i),
             v2 = Gate(v, op, <<Part(d, s1), Part(d, s2), Part(d, s3)>>, dst, i)
      PROVE  FollowsOn(v2, u2, F, d, S, dst, n)
  <2>1. u.rand \in Rows /\ F[u.county] = Gate(u, op, <<s1, s2, s3>>, dst, i).views[u.county]
    BY <1>5
  <2>2. LET u3 == Gate(u, op, <<s1, s2, s3>>, dst, i)
            v3 == Gate(v, op, <<Part(d, s1), Part(d, s2), Part(d, s3)>>, dst, i)
        IN  FollowsOn(v3, u3, F, d, S, dst, n)
    <3> HIDE DEF dst
    <3> QED
      BY <1>1, <2>1, GateFollows
  <2> QED
    BY <1>5, <2>2
<1>6. Arity(g.op) = (IF g.op \in LocalOps \cup {"ADDK"} THEN 1
                     ELSE IF g.op \in {"XOR", "ADD"} THEN 2 ELSE 3)
  BY DEF Arity
<1>7. ASSUME g.op \in LocalOps
      PROVE  FollowsOn(v2, u2, F, d, S, dst, n)
  <2> DEFINE val == [j \in Party |-> Local(g, A(1)[j])]
  <2>1. B(1) = Part(d, A(1))
    BY <1>3, <1>6, <1>7
  <2>2. u2 = Write(u, dst, val, i)
    BY <1>1, <1>2, <1>7, ExecIs
  <2>3. v2 = Write(v, dst, [j \in Parties(d) |-> Local(g, B(1)[j])], i)
    BY <1>1, <1>2, <1>7, ExecIs
  <2>4. [j \in Parties(d) |-> Local(g, B(1)[j])] = Part(d, val)
    <3> HIDE DEF A, B
    <3> QED
      BY <2>1, OpenedParties DEF Part
  <2>5. DOMAIN val = Party
    OBVIOUS
  <2> HIDE DEF val, u2, v2
  <2> QED
    BY <1>4, <2>2, <2>3, <2>4, <2>5
<1>8. ASSUME g.op = "XOR"
      PROVE  FollowsOn(v2, u2, F, d, S, dst, n)
  <2> DEFINE val == XorShares(A(1), A(2))
  <2>1. B(1) = Part(d, A(1)) /\ B(2) = Part(d, A(2)) /\ A(1) \in Shares /\ A(2) \in Shares
    BY <1>3, <1>6, <1>8 DEF LocalOps
  <2>2. u2 = Write(u, dst, val, i) /\ v2 = Write(v, dst, XorShares(B(1), B(2)), i)
    BY <1>1, <1>2, <1>8, ExecIs
  <2> HIDE DEF A, B
  <2>3. DOMAIN A(1) = Party /\ DOMAIN A(2) = Party
    BY <2>1 DEF Shares
  <2>4. XorShares(B(1), B(2)) = Part(d, val) /\ DOMAIN val = Party
    BY <2>1, <2>3, PartOf
  <2> HIDE DEF val, u2, v2
  <2> QED
    BY <1>4, <2>2, <2>4
<1>9. ASSUME g.op = "ADD"
      PROVE  FollowsOn(v2, u2, F, d, S, dst, n)
  <2>1. B(1) = Part(d, A(1)) /\ B(2) = Part(d, A(2)) /\ A(1) \in Shares /\ A(2) \in Shares
    BY <1>3, <1>6, <1>9 DEF LocalOps
  <2>2. /\ u2 = Gate(u, "ADD", <<A(1), A(2), A(1)>>, dst, i)
        /\ v2 = Gate(v, "ADD", <<B(1), B(2), B(1)>>, dst, i)
    BY <1>1, <1>2, <1>9, ExecIs
  <2> HIDE DEF A, B, u2, v2, dst
  <2>3. g.op \in GateOps
    BY <1>9 DEF GateOps
  <2> QED
    BY <1>5, <2>1, <2>2, <2>3
<1>10. ASSUME g.op \in {"CH", "MAJ"}
      PROVE  FollowsOn(v2, u2, F, d, S, dst, n)
  <2>1. /\ B(1) = Part(d, A(1)) /\ B(2) = Part(d, A(2)) /\ B(3) = Part(d, A(3))
        /\ A(1) \in Shares /\ A(2) \in Shares /\ A(3) \in Shares
    BY <1>3, <1>6, <1>10 DEF LocalOps
  <2>2. /\ u2 = Gate(u, g.op, <<A(1), A(2), A(3)>>, dst, i)
        /\ v2 = Gate(v, g.op, <<B(1), B(2), B(3)>>, dst, i)
    BY <1>1, <1>2, <1>10, ExecIs
  <2> HIDE DEF A, B, u2, v2, dst
  <2>3. g.op \in GateOps
    BY <1>10 DEF GateOps
  <2> QED
    BY <1>5, <1>10, <2>1, <2>2, <2>3
<1>11. FollowsOn(v2, u2, F, d, S, dst, n)
  <2>1. g.op \in LocalOps \/ g.op \in {"XOR", "ADD", "CH", "MAJ"}
    BY DEF CallOK, GateOps
  <2> HIDE DEF u2, v2, dst
  <2> QED
    BY <2>1, <1>7, <1>8, <1>9, <1>10
<1> QED
  BY <1>11

(* What the machine u has recorded is in the final views.                      *)
Agrees(u, F) == \A row \in Rows : row < u.county => F[row] = u.views[row]

LEMMA AgreesBefore ==
  ASSUME NEW n1, NEW n2, NEW u, Sound(u, n1), NEW u2, Sound(u2, n2), Keeps(u, u2),
         NEW F, Agrees(u2, F)
  PROVE  Agrees(u, F)
<1>1. u.county \in Nat /\ u2.county \in Nat /\ \A row \in Rows : row \in Nat
  BY Sizes DEF Sound, Rows
<1> QED
  BY <1>1 DEF Agrees, Keeps

(* The calls of a program do not read the registers S before they write them;    *)
(* but for the first one, which may write one of them, they need not.            *)
Avoids(program, S) ==
  /\ Len(program) > 0
  /\ \A p \in 1 .. Len(program) :
       /\ program[p].op # "ADDK"
       /\ \A q \in DOMAIN program[p].src :
            program[p].src[q] \notin (IF p = 1 THEN S ELSE S \ {program[1].dst})

LEMMA FollowsLess ==
  ASSUME NEW v, NEW u, NEW F, NEW d, NEW S, NEW n, Follows(v, u, F, d, S, n),
         NEW S2, S \subseteq S2
  PROVE  Follows(v, u, F, d, S2, n)
BY DEF Follows

(* A program of the verifier does what the prover's does.                        *)
LEMMA RunFollows ==
  ASSUME NEW d \in Party, NEW i \in 0 .. 63, NEW n, NEW u, Sound(u, n),
         NEW program, ProgramOK(program, i, n), NEW C, Costs(C, program),
         u.rand + C[Len(program)] <= TapeWords,
         NEW v, NEW F, NEW S, Follows(v, u, F, d, S, n), Avoids(program, S),
         NEW u2, Through(u, u2, program, i), NEW v2, Through(v, v2, program, i),
         Agrees(u2, F)
  PROVE  FollowsOn(v2, u2, F, d, S \ {program[1].dst}, program[Len(program)].dst, n)
<1> DEFINE L == Len(program)
           D(p) == IF p = 0 THEN S ELSE S \ {program[1].dst}
<1>1. PICK g : IsTrace(g, u, program, i) /\ u2 = g[L]
  BY DEF Through
<1>2. PICK h : IsTrace(h, v, program, i) /\ v2 = h[L]
  BY DEF Through
<1>3. L \in Nat /\ L > 0
  BY DEF ProgramOK, Avoids
<1>4. \A p \in 0 .. L : Goes(u, g[p], n, C[p])
  BY <1>1, RunSound
<1>5. ASSUME NEW p \in 0 .. L - 1, Agrees(g[p + 1], F), Follows(h[p], g[p], F, d, D(p), n)
      PROVE  FollowsOn(h[p + 1], g[p + 1], F, d, D(p), program[p + 1].dst, n)
  <2> DEFINE u1 == g[p]    q == program[p + 1]    v1 == h[p]    S1 == D(p)
  <2>1. p + 1 \in 1 .. L /\ (p + 1) - 1 = p /\ p \in 0 .. L /\ p + 1 \in 0 .. L
    BY <1>3
  <2>2. g[p + 1] = Exec(u1, q, i) /\ h[p + 1] = Exec(v1, q, i)
    BY <1>1, <1>2, <2>1 DEF IsTrace
  <2>3. CallOK(q, i, n)
    BY <2>1 DEF ProgramOK
  <2>4. C[p + 1] = C[p] + Gates(q) /\ C[p] \in Nat /\ C[p + 1] \in Nat /\ C[p + 1] <= C[L]
    BY <2>1 DEF Costs
  <2>5. Sound(u1, n) /\ u1.rand = u.rand + C[p] /\ u.rand \in Nat
        /\ g[p + 1].rand = u.rand + C[p + 1] /\ Sound(g[p + 1], n)
    <3>1. Goes(u, g[p], n, C[p]) /\ Goes(u, g[p + 1], n, C[p + 1])
      BY <1>4, <2>1
    <3>2. u.rand \in Nat
      BY DEF Sound
    <3> QED
      BY <3>1, <3>2 DEF Goes
  <2>6. q.op \in GateOps => u1.rand \in Rows /\ u1.county = u1.rand
                            /\ g[p + 1].county = u1.county + 1
    <3>1. TapeWords \in Nat /\ C[L] \in Nat
      <4>1. L \in 0 .. L
        BY <1>3
      <4> QED
        BY <4>1, Sizes DEF Costs
    <3>2. u1.county = u1.rand /\ g[p + 1].county = g[p + 1].rand
      BY <2>5 DEF Sound
    <3>3. q.op \in GateOps => C[p + 1] = C[p] + 1
      BY <2>4 DEF Gates
    <3>4. u.rand + C[L] <= TapeWords
      OBVIOUS
    <3> SUFFICES ASSUME q.op \in GateOps
                 PROVE  u1.rand \in 0 .. TapeWords - 1 /\ g[p + 1].rand = u1.rand + 1
      BY <3>2 DEF Rows
    <3> DEFINE r0 == u.rand    r1 == u1.rand    r2 == g[p + 1].rand
               cl == C[L]      c1 == C[p]       c2 == C[p + 1]
    <3>5. c2 = c1 + 1 /\ c1 \in Nat /\ c2 <= cl /\ r0 \in Nat /\ r1 = r0 + c1 /\ r2 = r0 + c2
      BY <2>4, <2>5, <3>3
    <3>6. cl \in Nat /\ r0 + cl <= TapeWords
      BY <3>1, <3>4
    <3>7. r1 \in 0 .. TapeWords - 1 /\ r2 = r1 + 1
      <4> HIDE DEF r0, r1, r2, cl, c1, c2
      <4> QED
        BY <3>1, <3>5, <3>6
    <3> QED
      BY <3>7
  <2>7. q.op # "ADDK" /\ \A s \in DOMAIN q.src : q.src[s] \notin S1
    <3>1. /\ q.op # "ADDK"
          /\ \A s \in DOMAIN q.src :
               q.src[s] \notin (IF p + 1 = 1 THEN S ELSE S \ {program[1].dst})
      BY <2>1 DEF Avoids
    <3>2. p + 1 = 1 <=> p = 0
      OBVIOUS
    <3> QED
      BY <3>1, <3>2
  <2> HIDE DEF u1, q, v1, S1, D
  <2>8. q.op \in GateOps => F[u1.county] = Exec(u1, q, i).views[u1.county]
    <3>1. q.op \in GateOps => u1.county \in Rows /\ u1.county < g[p + 1].county
      BY <2>6 DEF Rows
    <3> QED
      BY <1>5, <2>2, <3>1 DEF Agrees
  <2>9. Follows(v1, u1, F, d, S1, n)
    BY <1>5 DEF u1, v1, S1
  <2>10. LET u3 == Exec(u1, q, i)
             v3 == Exec(v1, q, i)
         IN  FollowsOn(v3, u3, F, d, S1, q.dst, n)
    BY <2>3, <2>5, <2>6, <2>7, <2>8, <2>9, CallFollows
  <2> QED
    BY <2>2, <2>10 DEF q, S1
<1>6. ASSUME NEW p \in 0 .. L - 1, Agrees(g[p + 1], F) PROVE Agrees(g[p], F)
  <2> DEFINE u1 == g[p]    q == program[p + 1]    u3 == g[p + 1]
  <2>1. p + 1 \in 1 .. L /\ (p + 1) - 1 = p /\ p \in 0 .. L /\ p + 1 \in 0 .. L
    BY <1>3
  <2>2. Goes(u, u1, n, C[p]) /\ Goes(u, u3, n, C[p + 1])
    BY <1>4, <2>1
  <2>3. Computes(u1, u3, q, i) /\ Keeps(u1, u3)
    BY <1>1, <2>1, RunSound
  <2> HIDE DEF u1, u3
  <2>4. Sound(u1, n) /\ Sound(u3, n)
    BY <2>2 DEF Goes
  <2>5. Agrees(u3, F)
    BY <1>6 DEF u3
  <2>6. Agrees(u1, F)
    BY <2>3, <2>4, <2>5, AgreesBefore
  <2> QED
    BY <2>6 DEF u1
<1> DEFINE T1 == {p \in Nat : p <= L => Agrees(g[L - p], F)}
           T2 == {p \in Nat : p <= L => Follows(h[p], g[p], F, d, D(p), n)}
<1>7. \A p \in 0 .. L : Agrees(g[p], F)
  <2>1. 0 \in T1
    BY <1>1, <1>3
  <2>2. ASSUME NEW p \in Nat, p \in T1 PROVE p + 1 \in T1
    <3> SUFFICES ASSUME p + 1 <= L PROVE Agrees(g[L - (p + 1)], F)
      OBVIOUS
    <3>1. L - (p + 1) \in 0 .. L - 1 /\ (L - (p + 1)) + 1 = L - p /\ p <= L
      BY <1>3
    <3>2. Agrees(g[(L - (p + 1)) + 1], F)
      BY <2>2, <3>1
    <3> QED
      BY <1>6, <3>1, <3>2
  <2>3. Nat \subseteq T1
    <3> HIDE DEF T1
    <3> QED
      BY <2>1, <2>2, SetInduction
  <2>4. ASSUME NEW p \in 0 .. L PROVE Agrees(g[p], F)
    <3>1. L - p \in Nat /\ L - p <= L /\ L - (L - p) = p
      BY <1>3
    <3> QED
      BY <2>3, <3>1
  <2> QED
    BY <2>4
<1>8. ASSUME NEW p \in 0 .. L - 1, Follows(h[p], g[p], F, d, D(p), n)
      PROVE  FollowsOn(h[p + 1], g[p + 1], F, d, D(p), program[p + 1].dst, n)
  <2>1. p + 1 \in 0 .. L
    BY <1>3
  <2> QED
    BY <1>5, <1>7, <1>8, <2>1
<1>9. Nat \subseteq T2
  <2>1. 0 \in T2
    BY <1>1, <1>2 DEF IsTrace
  <2>2. ASSUME NEW p \in Nat, p \in T2 PROVE p + 1 \in T2
    <3> SUFFICES ASSUME p + 1 <= L PROVE Follows(h[p + 1], g[p + 1], F, d, D(p + 1), n)
      OBVIOUS
    <3>1. p \in 0 .. L - 1 /\ p <= L /\ p + 1 # 0
      BY <1>3
    <3>2. Follows(h[p + 1], g[p + 1], F, d, D(p) \ {program[p + 1].dst}, n)
      BY <1>8, <2>2, <3>1 DEF FollowsOn
    <3>3. D(p) \ {program[p + 1].dst} \subseteq D(p + 1)
      <4>1. CASE p = 0
        BY <4>1
      <4>2. CASE p # 0
        BY <3>1, <4>2
      <4> QED
        BY <4>1, <4>2
    <3> HIDE DEF D
    <3> QED
      BY <3>2, <3>3, FollowsLess
  <2> HIDE DEF T2
  <2> QED
    BY <2>1, <2>2, SetInduction
<1>10. FollowsOn(v2, u2, F, d, D(L - 1), program[L].dst, n)
  <2>1. L - 1 \in 0 .. L - 1 /\ (L - 1) + 1 = L /\ L - 1 <= L /\ L - 1 \in Nat
    BY <1>3
  <2>2. Follows(h[L - 1], g[L - 1], F, d, D(L - 1), n)
    BY <1>9, <2>1
  <2> HIDE DEF D
  <2> QED
    BY <1>1, <1>2, <1>8, <2>1, <2>2
<1>11. D(L - 1) \ {program[L].dst} = (S \ {program[1].dst}) \ {program[L].dst}
  <2>1. CASE L = 1
    BY <2>1
  <2>2. CASE L # 1
    BY <1>3, <2>2
  <2> QED
    BY <2>1, <2>2
<1> QED
  BY <1>10, <1>11 DEF FollowsOn

(* Wherever the prover's program takes u, and the verifier's a machine that      *)
(* follows u, it follows still: at first but for the registers S and the words    *)
(* from n on, then but for S2 and from n2 on.                                  *)
Tracks(prove, check, i, S, n, S2, n2, cost) ==
  \A u, u2 : Sound(u, n) /\ u.rand + cost <= TapeWords /\ Through(u, u2, prove, i) =>
    /\ Goes(u, u2, n2, cost)
    /\ \A d \in Party : \A v, v2, F :
         Through(v, v2, check, i) /\ Agrees(u2, F) /\ Follows(v, u, F, d, S, n)
           => Follows(v2, u2, F, d, S2, n2)

LEMMA TracksBoth ==
  ASSUME NEW i, NEW p1, IsList(p1), NEW p2, IsList(p2), NEW q1, IsList(q1), NEW q2, IsList(q2),
         NEW S, NEW n, NEW S2, NEW n2, NEW S3, NEW n3, NEW c1 \in Nat, NEW c2 \in Nat,
         Tracks(p1, q1, i, S, n, S2, n2, c1), Tracks(p2, q2, i, S2, n2, S3, n3, c2)
  PROVE  Tracks(p1 \o p2, q1 \o q2, i, S, n, S3, n3, c1 + c2)
<1> DEFINE p == p1 \o p2    q == q1 \o q2    cost == c1 + c2
<1>1. ASSUME NEW u, NEW u2, Sound(u, n), u.rand + cost <= TapeWords, Through(u, u2, p, i)
      PROVE  /\ Goes(u, u2, n3, cost)
             /\ \A d \in Party : \A v, v2, F :
                  Through(v, v2, q, i) /\ Agrees(u2, F) /\ Follows(v, u, F, d, S, n)
                    => Follows(v2, u2, F, d, S3, n3)
  <2>1. PICK u1 : Through(u, u1, p1, i) /\ Through(u1, u2, p2, i)
    BY <1>1, ThroughBoth
  <2>2. u.rand \in Nat /\ TapeWords \in Nat
    BY <1>1, Sizes DEF Sound
  <2>3. u.rand + c1 <= TapeWords
    BY <1>1, <2>2
  <2>4. Goes(u, u1, n2, c1)
    BY <1>1, <2>1, <2>3 DEF Tracks
  <2>5. Sound(u1, n2) /\ u1.rand + c2 <= TapeWords
    BY <1>1, <2>2, <2>4 DEF Goes
  <2>6. Goes(u1, u2, n3, c2)
    BY <2>1, <2>5 DEF Tracks
  <2>7. Goes(u, u2, n3, cost)
    BY <1>1, <2>4, <2>6, GoesOn
  <2>8. ASSUME NEW d \in Party, NEW v, NEW v2, NEW F,
               Through(v, v2, q, i), Agrees(u2, F), Follows(v, u, F, d, S, n)
        PROVE  Follows(v2, u2, F, d, S3, n3)
    <3>1. PICK v1 : Through(v, v1, q1, i) /\ Through(v1, v2, q2, i)
      BY <2>8, ThroughBoth
    <3>2. Agrees(u1, F)
      <4>1. Sound(u2, n3) /\ Keeps(u1, u2)
        BY <2>6 DEF Goes
      <4> QED
        BY <2>5, <2>8, <4>1, AgreesBefore
    <3>3. Follows(v1, u1, F, d, S2, n2)
      BY <1>1, <2>1, <2>3, <2>8, <3>1, <3>2 DEF Tracks
    <3> QED
      BY <2>1, <2>5, <2>8, <3>1, <3>3 DEF Tracks
  <2> QED
    BY <2>7, <2>8
<1> HIDE DEF p, q, cost
<1>2. Tracks(p, q, i, S, n, S3, n3, cost)
  BY <1>1 DEF Tracks
<1> QED
  BY <1>2 DEF p, q, cost

(* A program that both sides make.                                            *)
LEMMA SameTracks ==
  ASSUME NEW i \in 0 .. 63, NEW n, NEW program, ProgramOK(program, i, n),
         NEW C, Costs(C, program), NEW cost, C[Len(program)] = cost,
         NEW S, Avoids(program, S), NEW S2, S \ {program[1].dst} \subseteq S2,
         NEW n2, n2 = n \/ (n2 = n + 1 /\ program[Len(program)].dst = "w")
  PROVE  Tracks(program, program, i, S, n, S2, n2, cost)
<1> DEFINE L == Len(program)
<1>1. ASSUME NEW u, NEW u2, Sound(u, n), u.rand + cost <= TapeWords, Through(u, u2, program, i)
      PROVE  /\ Goes(u, u2, n2, cost)
             /\ \A d \in Party : \A v, v2, F :
                  Through(v, v2, program, i) /\ Agrees(u2, F) /\ Follows(v, u, F, d, S, n)
                    => Follows(v2, u2, F, d, S2, n2)
  <2>1. PICK g : IsTrace(g, u, program, i) /\ u2 = g[L]
    BY <1>1 DEF Through
  <2>2. L \in 1 .. L /\ L \in 0 .. L
    BY DEF ProgramOK, Avoids
  <2>3. /\ Goes(u, g[L], n, C[L])
        /\ program[L].dst = "w" => Sound(g[L], n + 1)
    BY <1>1, <2>1, <2>2, RunSound
  <2>4. Goes(u, u2, n2, cost)
    BY <2>1, <2>3 DEF Goes
  <2>5. ASSUME NEW d \in Party, NEW v, NEW v2, NEW F,
               Through(v, v2, program, i), Agrees(u2, F), Follows(v, u, F, d, S, n)
        PROVE  Follows(v2, u2, F, d, S2, n2)
    <3>1. FollowsOn(v2, u2, F, d, S \ {program[1].dst}, program[L].dst, n)
      BY <1>1, <2>5, RunFollows
    <3> DEFINE S1 == (S \ {program[1].dst}) \ {program[L].dst}
    <3>2. Follows(v2, u2, F, d, S1, n2)
      BY <3>1 DEF FollowsOn
    <3>3. S1 \subseteq S2
      OBVIOUS
    <3> HIDE DEF S1
    <3> QED
      BY <3>2, <3>3, FollowsLess
  <2> QED
    BY <2>4, <2>5
<1> QED
  BY <1>1 DEF Tracks

(* No call but one adds a constant, and what the calls read.                     *)
LEMMA CallNames ==
  /\ \A v1, v2, s : ADD(v1, v2, s).op = "ADD" /\ XOR(v1, v2, s).op = "XOR"
                    /\ ADD(v1, v2, s).src = <<v1, v2>> /\ XOR(v1, v2, s).src = <<v1, v2>>
  /\ \A v1, v2, v3, s : CH(v1, v2, v3, s).op = "CH" /\ MAJ(v1, v2, v3, s).op = "MAJ"
  /\ \A v1, q, s : ROT(v1, q, s).op = "ROT" /\ SHR(v1, q, s).op = "SHR"
                   /\ ROT(v1, q, s).src = <<v1>> /\ SHR(v1, q, s).src = <<v1>>
  /\ \A v1, s : COPY(v1, s).op = "COPY"
BY DEF ADD, XOR, CH, MAJ, ROT, SHR, COPY, Call

(* A program whose calls read nothing that is not followed.                      *)
LEMMA CleanTracks ==
  ASSUME NEW i \in 0 .. 63, NEW n, NEW program, ProgramOK(program, i, n),
         Len(program) > 0, \A p \in 1 .. Len(program) : program[p].op # "ADDK",
         NEW C, Costs(C, program), NEW cost, C[Len(program)] = cost
  PROVE  Tracks(program, program, i, {}, n, {}, n, cost)
<1> DEFINE S == {}
<1>1. Avoids(program, S) /\ S \ {program[1].dst} \subseteq S
  BY DEF Avoids
<1> HIDE DEF S
<1>2. Tracks(program, program, i, S, n, S, n, cost)
  BY <1>1, SameTracks
<1> QED
  BY <1>2 DEF S

LEMMA PieceTracks ==
  ASSUME NEW i \in 0 .. 63, NEW n
  PROVE  /\ Tracks(Choose, Choose, i, {}, n, {}, n, 3)
         /\ Tracks(Majority3, Majority3, i, {}, n, {}, n, 2)
         /\ Tracks(Rotation, Rotation, i, {}, n, {}, n, 2)
         /\ Tracks(Load, Load, i, {}, n, {}, n, 0)
         /\ Tracks(Feed, Feed, i, {}, n, {}, n, 8)
<1>1. Tracks(Choose, Choose, i, {}, n, {}, n, 3)
  <2> DEFINE program == Choose    cost == 3
  <2>1. /\ Len(program) = cost /\ ProgramOK(program, i, n)
        /\ \E C : Costs(C, program) /\ C[Len(program)] = cost
        /\ program[1] = ADD("h", "s1", "t0") /\ program[2] = CH("e", "f", "g", "t1")
        /\ program[3] = ADD("t0", "t1", "t1")
    BY ChooseProgram
  <2> HIDE DEF program
  <2>2. \A p \in 1 .. Len(program) : program[p].op # "ADDK"
    BY <2>1, CallNames
  <2>3. Len(program) > 0
    BY <2>1
  <2> HIDE DEF cost
  <2>4. Tracks(program, program, i, {}, n, {}, n, cost)
    BY <2>1, <2>2, <2>3, CleanTracks
  <2> QED
    BY <2>4 DEF program, cost
<1>2. Tracks(Majority3, Majority3, i, {}, n, {}, n, 2)
  <2> DEFINE program == Majority3    cost == 2
  <2>1. /\ Len(program) = cost /\ ProgramOK(program, i, n)
        /\ \E C : Costs(C, program) /\ C[Len(program)] = cost
        /\ program[1] = MAJ("a", "b", "c", "maj") /\ program[2] = ADD("s0", "maj", "temp2")
    BY Majority3Program
  <2> HIDE DEF program
  <2>2. \A p \in 1 .. Len(program) : program[p].op # "ADDK"
    BY <2>1, CallNames
  <2>3. Len(program) > 0
    BY <2>1
  <2> HIDE DEF cost
  <2>4. Tracks(program, program, i, {}, n, {}, n, cost)
    BY <2>1, <2>2, <2>3, CleanTracks
  <2> QED
    BY <2>4 DEF program, cost
<1>3. Tracks(Rotation, Rotation, i, {}, n, {}, n, 2)
  <2> DEFINE program == Rotation    cost == 2
  <2>1. /\ Len(program) = 8 /\ ProgramOK(program, i, n)
        /\ \E C : Costs(C, program) /\ C[Len(program)] = cost
        /\ program[1] = COPY("g", "h") /\ program[2] = COPY("f", "g")
        /\ program[3] = COPY("e", "f") /\ program[4] = ADD("d", "temp1", "e")
        /\ program[5] = COPY("c", "d") /\ program[6] = COPY("b", "c")
        /\ program[7] = COPY("a", "b") /\ program[8] = ADD("temp1", "temp2", "a")
    BY RotationProgram
  <2> HIDE DEF program
  <2>2. \A p \in 1 .. Len(program) : program[p].op # "ADDK"
    BY <2>1, CallNames
  <2>3. Len(program) > 0
    BY <2>1
  <2> HIDE DEF cost
  <2>4. Tracks(program, program, i, {}, n, {}, n, cost)
    BY <2>1, <2>2, <2>3, CleanTracks
  <2> QED
    BY <2>4 DEF program, cost
<1>4. Tracks(Load, Load, i, {}, n, {}, n, 0)
  <2> DEFINE program == Load    cost == 0
  <2>1. /\ Len(program) = 8 /\ ProgramOK(program, i, n)
        /\ \E C : Costs(C, program) /\ C[Len(program)] = cost
        /\ \A p \in 1 .. 8 : program[p] = COPY(H8[p], Vars8[p])
    BY LoadProgram
  <2> HIDE DEF program
  <2>2. \A p \in 1 .. Len(program) : program[p].op # "ADDK"
    BY <2>1, CallNames
  <2>3. Len(program) > 0
    BY <2>1
  <2> HIDE DEF cost
  <2>4. Tracks(program, program, i, {}, n, {}, n, cost)
    BY <2>1, <2>2, <2>3, CleanTracks
  <2> QED
    BY <2>4 DEF program, cost
<1>5. Tracks(Feed, Feed, i, {}, n, {}, n, 8)
  <2> DEFINE program == Feed    cost == 8
  <2>1. /\ Len(program) = 8 /\ ProgramOK(program, i, n)
        /\ \E C : Costs(C, program) /\ C[Len(program)] = cost
        /\ \A p \in 1 .. 8 : program[p] = ADD(H8[p], Vars8[p], H8[p])
    BY FeedProgram
  <2> HIDE DEF program
  <2>2. \A p \in 1 .. Len(program) : program[p].op # "ADDK"
    BY <2>1, CallNames
  <2>3. Len(program) > 0
    BY <2>1
  <2> HIDE DEF cost
  <2>4. Tracks(program, program, i, {}, n, {}, n, cost)
    BY <2>1, <2>2, <2>3, CleanTracks
  <2> QED
    BY <2>4 DEF program, cost
<1> QED
  BY <1>1, <1>2, <1>3, <1>4, <1>5

(* The sigmas write t0 before they read it.                                    *)
LEMMA SigmaTracks ==
  ASSUME NEW i \in 0 .. 63, NEW n, NEW v, Readable(v, i, n),
         v \notin {"t0", "t1"}, NEW q1 \in 0 .. 31, NEW q2 \in 0 .. 31,
         NEW third, IsThird(third, v), NEW s \in {"s0", "s1"},
         NEW S, S \subseteq {"t0"}
  PROVE  Tracks(Sigma(v, q1, q2, third, s), Sigma(v, q1, q2, third, s), i, S, n, {}, n, 0)
<1> DEFINE program == Sigma(v, q1, q2, third, s)    S2 == {}    cost == 0
<1>1. SigmaCalls(program, v, q1, q2, third, s, i, n)
  BY SigmaProgram, Zenon
<1> HIDE DEF program
<1>2. /\ Len(program) = 5 /\ ProgramOK(program, i, n)
      /\ \E C : Costs(C, program) /\ C[Len(program)] = cost
  BY <1>1 DEF SigmaCalls
<1>3. Avoids(program, S)
  <2>1. /\ program[1] = ROT(v, q1, "t0") /\ program[2] = ROT(v, q2, "t1")
        /\ program[3] = XOR("t0", "t1", "t0") /\ program[4] = third
        /\ program[5] = XOR("t0", "t1", s)
    BY <1>1 DEF SigmaCalls
  <2>2. \A p \in 1 .. 5 : program[p].op # "ADDK"
    BY <2>1, CallNames DEF IsThird
  <2>3. program[1].dst = "t0" /\ program[1].src = <<v>>
    BY <2>1, CallNames, RotCall
  <2>4. v \notin S /\ S \ {"t0"} = {}
    OBVIOUS
  <2>5. \A q \in DOMAIN program[1].src : program[1].src[q] \notin S
    BY <2>3, <2>4
  <2>6. \A p \in 1 .. 5 : \A q \in DOMAIN program[p].src :
          program[p].src[q] \notin (IF p = 1 THEN S ELSE S \ {program[1].dst})
    BY <2>3, <2>4, <2>5
  <2> QED
    BY <1>2, <2>2, <2>6 DEF Avoids
<1>4. S \ {program[1].dst} \subseteq S2
  <2>1. program[1].dst = "t0"
    BY <1>1, RotCall DEF SigmaCalls
  <2> QED
    BY <2>1
<1> HIDE DEF S2, cost
<1>5. Tracks(program, program, i, S, n, S2, n, cost)
  BY <1>2, <1>3, <1>4, SameTracks
<1> QED
  BY <1>5 DEF program, S2, cost

LEMMA AddWordTracks ==
  ASSUME NEW i \in 0 .. 63, NEW n \in Nat, i < n
  PROVE  Tracks(AddWord, AddWord, i, {"t0"}, n, {"t0"}, n, 1)
<1> DEFINE program == AddWord    S == {"t0"}    cost == 1
<1>1. /\ Len(program) = 1 /\ ProgramOK(program, i, n)
      /\ \E C : Costs(C, program) /\ C[Len(program)] = cost
      /\ program[1] = ADD("t1", "w", "temp1")
  BY AddWordProgram
<1> HIDE DEF program
<1>2. Avoids(program, S)
  <2>1. program[1].op # "ADDK" /\ program[1].src = <<"t1", "w">>
    BY <1>1, CallNames
  <2>2. \A q \in DOMAIN program[1].src : program[1].src[q] \notin S
    BY <2>1
  <2> QED
    BY <1>1, <2>1, <2>2 DEF Avoids
<1>3. S \ {program[1].dst} \subseteq S
  OBVIOUS
<1> HIDE DEF S, cost
<1>4. Tracks(program, program, i, S, n, S, n, cost)
  BY <1>1, <1>2, <1>3, SameTracks
<1> QED
  BY <1>4 DEF program, S, cost

(* The last addition of the schedule writes the next word.                      *)
LEMMA ExpandSumTracks ==
  ASSUME NEW i \in 16 .. 63
  PROVE  Tracks(ExpandSum, ExpandSum, i, {}, i, {}, i + 1, 3)
<1> DEFINE program == ExpandSum    S == {}    cost == 3    n2 == i + 1
<1>0. i \in 0 .. 63
  OBVIOUS
<1>1. /\ Len(program) = 3 /\ ProgramOK(program, i, i)
      /\ \E C : Costs(C, program) /\ C[Len(program)] = cost
      /\ program[1] = ADD("w-16", "s0", "t1") /\ program[2] = ADD("w-7", "t1", "t1")
      /\ program[3] = ADD("t1", "s1", "w")
  BY ExpandSumProgram
<1> HIDE DEF program
<1>2. Avoids(program, S) /\ program[3].dst = "w"
  <2>1. \A p \in 1 .. 3 : program[p].op # "ADDK"
    BY <1>1, CallNames
  <2>2. program[3].dst = "w"
    BY <1>1, AddCall
  <2> QED
    BY <1>1, <2>1, <2>2 DEF Avoids
<1>3. S \ {program[1].dst} \subseteq S /\ n2 = i + 1 /\ program[Len(program)].dst = "w"
  BY <1>1, <1>2
<1> HIDE DEF S, cost, n2
<1>4. Tracks(program, program, i, S, i, S, n2, cost)
  BY <1>0, <1>1, <1>2, <1>3, SameTracks
<1> QED
  BY <1>4 DEF program, S, cost, n2

(* The constant of the round: the verifier goes by t0.                           *)
CheckKey == <<Call("K", <<>>, "t0", 0), ADD("t1", "t0", "t1")>>

LEMMA KeyCalls ==
  /\ Len(AddKey) = 1 /\ AddKey[1] = ADDK("t1", "t1") /\ IsList(CheckKey) /\ Len(CheckKey) = 2
  /\ CheckKey[1] = Call("K", <<>>, "t0", 0) /\ CheckKey[2] = ADD("t1", "t0", "t1")
  /\ ProveCompress = Compress(AddKey) /\ CheckCompress = Compress(CheckKey)
<1> DEFINE c1 == Call("K", <<>>, "t0", 0)    c2 == ADD("t1", "t0", "t1")    c3 == ADDK("t1", "t1")
<1>1. CheckKey = <<c1, c2>> /\ AddKey = <<c3>>
  BY DEF CheckKey, AddKey
<1>2. ProveCompress = Compress(AddKey) /\ CheckCompress = Compress(CheckKey)
  BY DEF ProveCompress, CheckCompress, AddKey, CheckKey
<1> HIDE DEF c1, c2, c3
<1>3. <<c1, c2>> \in Seq({c1, c2})
  OBVIOUS
<1>4. /\ Len(AddKey) = 1 /\ AddKey[1] = c3 /\ IsList(CheckKey) /\ Len(CheckKey) = 2
      /\ CheckKey[1] = c1 /\ CheckKey[2] = c2
  BY <1>1, <1>3 DEF IsList
<1> QED
  BY <1>2, <1>4 DEF c1, c2, c3

LEMMA AddKeyTracks ==
  ASSUME NEW i \in 0 .. 63, NEW n
  PROVE  Tracks(AddKey, CheckKey, i, {}, n, {"t0"}, n, 1)
<1>1. ASSUME NEW u, NEW u2, Sound(u, n), u.rand + 1 <= TapeWords, Through(u, u2, AddKey, i)
      PROVE  /\ Goes(u, u2, n, 1)
             /\ \A d \in Party : \A v, v2, F :
                  Through(v, v2, CheckKey, i) /\ Agrees(u2, F) /\ Follows(v, u, F, d, {}, n)
                    => Follows(v2, u2, F, d, {"t0"}, n)
  <2>1. Goes(u, u2, n, 1)
    BY <1>1, AddKeyEvaluates
  <2> DEFINE s1 == Read(u, "t1", i)    s2 == [j \in Party |-> k[i]]
  <2>2. /\ {"t0", "t1"} \subseteq Registers /\ Readable("t0", i, n) /\ Readable("t1", i, n)
        /\ "t0" \notin DOMAIN Back /\ "t1" \notin DOMAIN Back /\ i \in Int
    BY RegisterNames, Places
  <2>3. s1 \in Shares /\ s2 \in Shares
    BY <1>1, <2>2, ReadKnown, Constants DEF Shares
  <2>4. /\ u.rand \in Rows /\ u.county = u.rand /\ u2.county = u.county + 1
        /\ u.ok = TRUE /\ Parties(u.e) = Party /\ DOMAIN u = Fields
    <3>1. u.rand \in Nat /\ u.county = u.rand /\ u2.county = u2.rand /\ u2.rand = u.rand + 1
      BY <1>1, <2>1 DEF Goes, Sound
    <3>2. u.rand \in Rows
      BY <1>1, <3>1, Sizes DEF Rows
    <3> QED
      BY <1>1, <3>1, <3>2 DEF Sound, Parties
  <2>5. u2 = Gate(u, "ADD", <<s1, s2, s1>>, "t1", i)
    <3> DEFINE g == ADDK("t1", "t1")
    <3>1. g.op = "ADDK" /\ g.src = <<"t1">> /\ g.dst = "t1" /\ Arity("ADDK") = 1
      BY DEF ADDK, Call, Arity
    <3>2. u2 = Exec(u, g, i)
      BY <1>1, KeyCalls DEF Through, IsTrace
    <3> HIDE DEF g
    <3>3. DOMAIN g.src = 1 .. Arity(g.op) /\ Arg(u, g, i, 1) = s1
      BY <3>1 DEF Arg
    <3>4. Exec(u, g, i) =
            Gate(u, "ADD", <<Arg(u, g, i, 1), Constant(u, i), Arg(u, g, i, 1)>>, g.dst, i)
      BY <2>4, <3>1, <3>3, ExecIs
    <3>5. Constant(u, i) = s2
      BY <2>4 DEF Constant
    <3> QED
      BY <3>1, <3>2, <3>3, <3>4, <3>5
  <2>6. ASSUME NEW d \in Party, NEW v, NEW v2, NEW F,
               Through(v, v2, CheckKey, i), Agrees(u2, F), Follows(v, u, F, d, {}, n)
        PROVE  Follows(v2, u2, F, d, {"t0"}, n)
    <3> DEFINE g == ADD("t1", "t0", "t1")    y == Part(d, s2)
    <3>1. PICK h : IsTrace(h, v, CheckKey, i) /\ v2 = h[2]
      BY <2>6, KeyCalls DEF Through
    <3> DEFINE v1 == h[1]
    <3>2. v1 = Exec(v, Call("K", <<>>, "t0", 0), i) /\ v2 = Exec(v1, g, i)
      <4>1. h[0] = v /\ h[1] = Exec(h[1 - 1], CheckKey[1], i) /\ h[2] = Exec(h[2 - 1], CheckKey[2], i)
        BY <3>1, KeyCalls DEF IsTrace
      <4> QED
        BY <3>1, <4>1, KeyCalls
    <3>3. v.e = d /\ v.ok = TRUE /\ DOMAIN v = Fields /\ DOMAIN v.reg = Registers
      BY <2>6 DEF Follows
    <3>4. v1 = Write(v, "t0", y, i)
      <4>1. Constant(v, i) = y
        BY <3>3, OpenedParties DEF Constant, Part
      <4>2. Exec(v, Call("K", <<>>, "t0", 0), i) = Write(v, "t0", Constant(v, i), i)
        BY <3>3 DEF Exec, Call
      <4> HIDE DEF v1, y
      <4> QED
        BY <3>2, <4>1, <4>2
    <3>5. Stored(y) = y
      <4>1. DOMAIN s2 = Party /\ Stored(s2) = s2
        BY <2>3, StoredWords DEF Shares
      <4> HIDE DEF s2
      <4> QED
        BY <4>1, PartOf
    <3> HIDE DEF v1, y, g
    <3>6. /\ Puts(v, v1, "t0", y, i) /\ v1.ok = TRUE
          /\ v1.rand = v.rand /\ v1.county = v.county /\ v1.views = v.views
      BY <2>2, <3>3, <3>4, <3>5, WritePuts
    <3>7. v1.reg = [v.reg EXCEPT !["t0"] = y] /\ v1.w = v.w
      BY <2>2, <3>6 DEF Puts
    <3>8. Follows(v1, u, F, d, {"t0"}, n)
      BY <2>6, <3>6, <3>7 DEF Follows, Puts
    <3>9. Read(v1, "t0", i) = y /\ Read(v1, "t1", i) = Part(d, s1)
      <4>1. Read(v1, "t0", i) = y
        BY <2>2, <3>3, <3>7 DEF Read
      <4>2. "t1" \notin {"t0"}
        OBVIOUS
      <4> QED
        BY <2>2, <3>8, <4>1, <4>2, ReadFollows
    <3>10. v2 = Gate(v1, "ADD", <<Part(d, s1), y, Part(d, s1)>>, "t1", i)
      <4>1. /\ g.op = "ADD" /\ g.src = <<"t1", "t0">> /\ g.dst = "t1" /\ Arity("ADD") = 2
        BY DEF g, ADD, Call, Arity, LocalOps
      <4>2. /\ DOMAIN g.src = 1 .. Arity(g.op)
            /\ Arg(v1, g, i, 1) = Part(d, s1) /\ Arg(v1, g, i, 2) = y
        BY <3>9, <4>1 DEF Arg
      <4>3. Exec(v1, g, i) =
              Gate(v1, "ADD", <<Arg(v1, g, i, 1), Arg(v1, g, i, 2), Arg(v1, g, i, 1)>>, g.dst, i)
        BY <3>6, <4>1, <4>2, ExecIs
      <4> QED
        BY <3>2, <4>1, <4>2, <4>3
    <3>11. F[u.county] = Gate(u, "ADD", <<s1, s2, s1>>, "t1", i).views[u.county]
      <4>1. u.county \in Rows /\ u.county < u2.county
        BY <2>4 DEF Rows
      <4>2. F[u.county] = u2.views[u.county]
        BY <2>6, <4>1 DEF Agrees
      <4> HIDE DEF s1, s2
      <4> QED
        BY <2>5, <4>2
    <3> DEFINE S == {"t0"}    op == "ADD"    dst == "t1"
    <3>12. /\ op \in {"ADD", "CH", "MAJ"} /\ dst \in Registers /\ Follows(v1, u, F, d, S, n)
           /\ F[u.county] = Gate(u, op, <<s1, s2, s1>>, dst, i).views[u.county]
           /\ u2 = Gate(u, op, <<s1, s2, s1>>, dst, i)
           /\ v2 = Gate(v1, op, <<Part(d, s1), Part(d, s2), Part(d, s1)>>, dst, i)
      BY <2>2, <2>5, <3>8, <3>10, <3>11 DEF y
    <3> HIDE DEF S, op, dst, s1, s2
    <3>13. LET u3 == Gate(u, op, <<s1, s2, s1>>, dst, i)
               v3 == Gate(v1, op, <<Part(d, s1), Part(d, s2), Part(d, s1)>>, dst, i)
           IN  FollowsOn(v3, u3, F, d, S, dst, n)
      BY <1>1, <2>2, <2>3, <2>4, <3>12, GateFollows
    <3>14. FollowsOn(v2, u2, F, d, S, dst, n)
      BY <3>12, <3>13
    <3>15. S \ {dst} \subseteq S
      OBVIOUS
    <3>16. Follows(v2, u2, F, d, S, n)
      BY <3>14, <3>15, FollowsLess DEF FollowsOn
    <3> QED
      BY <3>16 DEF S
  <2> QED
    BY <2>1, <2>6
<1> QED
  BY <1>1 DEF Tracks

LEMMA CompressTracks ==
  ASSUME NEW i \in 0 .. 63
  PROVE  /\ Tracks(ProveCompress, CheckCompress, i, {}, 64, {}, 64, 9)
         /\ IsList(ProveCompress) /\ IsList(CheckCompress)
<1> DEFINE n == 64    E == {}    T == {"t0"}    c0 == 0    c1 == 1    c2 == 2    c3 == 3
<1>1. /\ Tracks(Choose, Choose, i, E, n, E, n, c3)
      /\ Tracks(Majority3, Majority3, i, E, n, E, n, c2)
      /\ Tracks(Rotation, Rotation, i, E, n, E, n, c2)
  <2> HIDE DEF n
  <2> QED
    BY PieceTracks
<1>2. Tracks(AddKey, CheckKey, i, E, n, T, n, c1)
  <2> HIDE DEF n
  <2> QED
    BY AddKeyTracks
<1>3. Tracks(AddWord, AddWord, i, T, n, T, n, c1)
  <2>1. n \in Nat /\ i < n
    OBVIOUS
  <2> HIDE DEF n
  <2> QED
    BY <2>1, AddWordTracks
<1>4. Tracks(SigmaE, SigmaE, i, E, n, E, n, c0) /\ Tracks(SigmaA, SigmaA, i, T, n, E, n, c0)
  <2> DEFINE q1 == 6    q2 == 11    q3 == ROT("e", 25, "t1")
             r1 == 2    r2 == 13    r3 == ROT("a", 22, "t1")
  <2>1. /\ q1 \in 0 .. 31 /\ q2 \in 0 .. 31 /\ IsThird(q3, "e")
        /\ r1 \in 0 .. 31 /\ r2 \in 0 .. 31 /\ IsThird(r3, "a")
        /\ SigmaE = Sigma("e", q1, q2, q3, "s1") /\ SigmaA = Sigma("a", r1, r2, r3, "s0")
        /\ E \subseteq {"t0"} /\ T \subseteq {"t0"}
    BY DEF IsThird, SigmaE, SigmaA
  <2> HIDE DEF n, q1, q2, q3, r1, r2, r3, T
  <2>2. Readable("e", i, n) /\ Readable("a", i, n)
    BY RegisterNames
  <2>3. Tracks(Sigma("e", q1, q2, q3, "s1"), Sigma("e", q1, q2, q3, "s1"), i, E, n, E, n, 0)
    BY <2>1, <2>2, SigmaTracks
  <2>4. Tracks(Sigma("a", r1, r2, r3, "s0"), Sigma("a", r1, r2, r3, "s0"), i, T, n, E, n, 0)
    BY <2>1, <2>2, SigmaTracks
  <2> QED
    BY <2>1, <2>3, <2>4
<1>5. c0 \in Nat /\ c1 \in Nat /\ c2 \in Nat /\ c3 \in Nat
  OBVIOUS
<1> DEFINE d3 == c0 + c3    d4 == d3 + c1    d5 == d4 + c1    d6 == d5 + c0    d7 == d6 + c2
           d8 == d7 + c2
<1>6. /\ d3 \in Nat /\ d4 \in Nat /\ d5 \in Nat /\ d6 \in Nat /\ d7 \in Nat /\ d8 = 9
  OBVIOUS
<1> DEFINE P3 == SigmaE \o Choose    P4 == P3 \o AddKey      Q4 == P3 \o CheckKey
           P5 == P4 \o AddWord       Q5 == Q4 \o AddWord
           P6 == P5 \o SigmaA        Q6 == Q5 \o SigmaA
           P7 == P6 \o Majority3     Q7 == Q6 \o Majority3
           P8 == P7 \o Rotation      Q8 == Q7 \o Rotation
<1>7. ProveCompress = P8 /\ CheckCompress = Q8
  BY KeyCalls DEF Compress, SigmaE, Choose, AddWord, SigmaA, Majority3
<1> HIDE DEF n, E, T, c0, c1, c2, c3
<1>8. IsList(P3) /\ Tracks(P3, P3, i, E, n, E, n, d3)
  BY <1>1, <1>4, <1>5, PieceLists, ListComposed, TracksBoth
<1> HIDE DEF P3, d3
<1>9. IsList(P4) /\ IsList(Q4) /\ Tracks(P4, Q4, i, E, n, T, n, d4)
  BY <1>2, <1>5, <1>6, <1>8, KeyCalls, PieceLists, ListComposed, TracksBoth
<1> HIDE DEF P4, Q4, d4
<1>10. IsList(P5) /\ IsList(Q5) /\ Tracks(P5, Q5, i, E, n, T, n, d5)
  BY <1>3, <1>5, <1>6, <1>9, PieceLists, ListComposed, TracksBoth
<1> HIDE DEF P5, Q5, d5
<1>11. IsList(P6) /\ IsList(Q6) /\ Tracks(P6, Q6, i, E, n, E, n, d6)
  BY <1>4, <1>5, <1>6, <1>10, PieceLists, ListComposed, TracksBoth
<1> HIDE DEF P6, Q6, d6
<1>12. IsList(P7) /\ IsList(Q7) /\ Tracks(P7, Q7, i, E, n, E, n, d7)
  BY <1>1, <1>5, <1>6, <1>11, PieceLists, ListComposed, TracksBoth
<1> HIDE DEF P7, Q7, d7
<1>13. IsList(P8) /\ IsList(Q8) /\ Tracks(P8, Q8, i, E, n, E, n, d8)
  BY <1>1, <1>5, <1>6, <1>12, PieceLists, ListComposed, TracksBoth
<1> HIDE DEF P8, Q8, d8
<1> QED
  BY <1>6, <1>7, <1>13 DEF n, E

LEMMA ExpandTracks ==
  ASSUME NEW i \in 16 .. 63
  PROVE  /\ Tracks(ProveExpand, CheckExpand, i, {}, i, {}, i + 1, 3)
         /\ IsList(ProveExpand) /\ IsList(CheckExpand)
<1> DEFINE E == {}    c0 == 0    c3 == 3    n == i    n2 == i + 1
           q1 == 7     q2 == 18    q3 == SHR("w-15", 3, "t1")
           r1 == 17    r2 == 19    r3 == SHR("w-2", 10, "t1")
           A == Sigma("w-15", q1, q2, q3, "s0")    B == Sigma("w-2", r1, r2, r3, "s1")
           P2 == A \o B    P3 == P2 \o ExpandSum    d2 == c0 + c0    d3 == d2 + c3
<1>1. ProveExpand = P3 /\ CheckExpand = P3 /\ d3 = 3
  BY DEF ProveExpand, CheckExpand, ExpandSum
<1>2. /\ q1 \in 0 .. 31 /\ q2 \in 0 .. 31 /\ IsThird(q3, "w-15")
      /\ r1 \in 0 .. 31 /\ r2 \in 0 .. 31 /\ IsThird(r3, "w-2")
      /\ E \subseteq {"t0"} /\ c0 \in Nat /\ c3 \in Nat /\ d2 \in Nat /\ i \in 0 .. 63
  BY DEF IsThird
<1>3. Readable("w-15", i, n) /\ Readable("w-2", i, n)
  <2>1. Back["w-15"] = 15 /\ Back["w-2"] = 2
    BY DEF Back
  <2> QED
    BY <2>1, Places DEF Readable
<1>4. IsList(ExpandSum)
  <2> DEFINE g1 == ADD("w-16", "s0", "t1")    g2 == ADD("w-7", "t1", "t1")
             g3 == ADD("t1", "s1", "w")
  <2>1. ExpandSum = <<g1, g2, g3>>
    BY DEF ExpandSum
  <2> HIDE DEF g1, g2, g3
  <2>2. <<g1, g2, g3>> \in Seq({g1, g2, g3})
    OBVIOUS
  <2> QED
    BY <2>1, <2>2 DEF IsList
<1>5. IsList(A) /\ IsList(B)
  BY SigmaList
<1>6. Tracks(ExpandSum, ExpandSum, i, E, n, E, n2, c3)
  BY ExpandSumTracks
<1> HIDE DEF n, n2, q1, q2, q3, r1, r2, r3
<1>7. Tracks(A, A, i, E, n, E, n, c0) /\ Tracks(B, B, i, E, n, E, n, c0)
  BY <1>2, <1>3, SigmaTracks
<1> HIDE DEF A, B, c0, c3, E
<1>8. IsList(P2) /\ Tracks(P2, P2, i, E, n, E, n, d2)
  BY <1>2, <1>5, <1>7, ListComposed, TracksBoth
<1> HIDE DEF P2, d2
<1>9. IsList(P3) /\ Tracks(P3, P3, i, E, n, E, n2, d3)
  BY <1>2, <1>4, <1>6, <1>8, ListComposed, TracksBoth
<1> HIDE DEF P3, d3
<1> QED
  BY <1>1, <1>9 DEF E, n, n2

(* The verifier's machine has all that the prover's has of the opened parties.   *)
Mirrors(v, u, F, d, n) == Follows(v, u, F, d, {}, n)

LEMMA StepMirrors ==
  ASSUME NEW prove, IsList(prove), NEW check, IsList(check), NEW i, NEW n, NEW n2, NEW cost,
         NEW E, E = {}, Tracks(prove, check, i, E, n, E, n2, cost),
         NEW u, Sound(u, n), u.rand + cost <= TapeWords
  PROVE  /\ Goes(u, Run(u, prove, i), n2, cost)
         /\ \A F : Agrees(Run(u, prove, i), F) =>
              /\ Agrees(u, F)
              /\ \A d \in Party : \A v : Mirrors(v, u, F, d, n)
                   => Mirrors(Run(v, check, i), Run(u, prove, i), F, d, n2)
<1> DEFINE u2 == Run(u, prove, i)
<1>1. Through(u, u2, prove, i)
  BY RunThrough
<1>2. \A v : Through(v, Run(v, check, i), check, i)
  BY RunThrough
<1> HIDE DEF u2
<1>3. Goes(u, u2, n2, cost)
  BY <1>1 DEF Tracks
<1>4. Sound(u2, n2) /\ Keeps(u, u2)
  BY <1>3 DEF Goes
<1>5. ASSUME NEW F, Agrees(u2, F)
      PROVE  /\ Agrees(u, F)
             /\ \A d \in Party : \A v : Mirrors(v, u, F, d, n)
                  => Mirrors(Run(v, check, i), u2, F, d, n2)
  <2>1. Agrees(u, F)
    BY <1>4, <1>5, AgreesBefore
  <2>2. ASSUME NEW d \in Party, NEW v, Mirrors(v, u, F, d, n)
        PROVE  Mirrors(Run(v, check, i), u2, F, d, n2)
    <3> DEFINE v2 == Run(v, check, i)
    <3>1. Through(v, v2, check, i) /\ Follows(v, u, F, d, E, n)
      BY <1>2, <2>2 DEF Mirrors
    <3> HIDE DEF v2
    <3>2. Follows(v2, u2, F, d, E, n2)
      BY <1>1, <1>5, <3>1 DEF Tracks
    <3> QED
      BY <3>2 DEF v2, Mirrors
  <2> QED
    BY <2>1, <2>2
<1> QED
  BY <1>3, <1>5 DEF u2

(* A loop of the verifier does what the prover's does; N[i] words are followed    *)
(* before iteration i, and there is a budget for the iteration.                *)
LoopTracks(prove, check, first, N, cost) ==
  \A i \in first .. 63 : Tracks(prove, check, i, {}, N[i], {}, N[i + 1], cost)

LoopAfford(h, first, N, cost) ==
  \A i \in first .. 63 : Sound(h[i], N[i]) /\ h[i].rand + cost <= TapeWords

LEMMA LoopMirrors ==
  ASSUME NEW prove, IsList(prove), NEW check, IsList(check), NEW first \in 0 .. 63, NEW N,
         NEW cost, LoopTracks(prove, check, first, N, cost),
         NEW u, NEW h, IsLoop(h, u, prove, first), LoopAfford(h, first, N, cost),
         NEW F, Agrees(h[64], F), NEW d \in Party, NEW v, Mirrors(v, u, F, d, N[first]),
         NEW h2, IsLoop(h2, v, check, first)
  PROVE  Agrees(u, F) /\ Mirrors(h2[64], h[64], F, d, N[64])
<1>1. ASSUME NEW i \in first .. 63, Agrees(h[i + 1], F)
      PROVE  /\ Agrees(h[i], F)
             /\ Mirrors(h2[i], h[i], F, d, N[i]) => Mirrors(h2[i + 1], h[i + 1], F, d, N[i + 1])
  <2> DEFINE u1 == h[i]    v1 == h2[i]    n == N[i]    n2 == N[i + 1]    E == {}
  <2>1. h[i + 1] = Run(u1, prove, i) /\ h2[i + 1] = Run(v1, check, i)
    BY DEF IsLoop
  <2>2. Tracks(prove, check, i, E, n, E, n2, cost) /\ Sound(u1, n) /\ u1.rand + cost <= TapeWords
    BY DEF LoopTracks, LoopAfford
  <2>3. Agrees(Run(u1, prove, i), F)
    BY <1>1, <2>1
  <2> HIDE DEF u1, v1, n, n2
  <2>4. /\ Agrees(u1, F)
        /\ Mirrors(v1, u1, F, d, n) => Mirrors(Run(v1, check, i), Run(u1, prove, i), F, d, n2)
    BY <2>2, <2>3, StepMirrors
  <2> QED
    BY <2>1, <2>4 DEF u1, v1, n, n2
<1> DEFINE T1 == {p \in Nat : p <= 64 - first => Agrees(h[64 - p], F)}
           T2 == {p \in Nat : p <= 64 - first
                    => Mirrors(h2[first + p], h[first + p], F, d, N[first + p])}
<1>2. \A i \in first .. 64 : Agrees(h[i], F)
  <2>1. 0 \in T1
    OBVIOUS
  <2>2. ASSUME NEW p \in Nat, p \in T1 PROVE p + 1 \in T1
    <3> SUFFICES ASSUME p + 1 <= 64 - first PROVE Agrees(h[64 - (p + 1)], F)
      OBVIOUS
    <3>1. 64 - (p + 1) \in first .. 63 /\ (64 - (p + 1)) + 1 = 64 - p /\ p <= 64 - first
      OBVIOUS
    <3>2. Agrees(h[(64 - (p + 1)) + 1], F)
      BY <2>2, <3>1
    <3> QED
      BY <1>1, <3>1, <3>2
  <2>3. Nat \subseteq T1
    <3> HIDE DEF T1
    <3> QED
      BY <2>1, <2>2, SetInduction
  <2>4. ASSUME NEW i \in first .. 64 PROVE Agrees(h[i], F)
    <3>1. 64 - i \in Nat /\ 64 - i <= 64 - first /\ 64 - (64 - i) = i
      OBVIOUS
    <3> QED
      BY <2>3, <3>1
  <2> QED
    BY <2>4
<1>3. Nat \subseteq T2
  <2>1. 0 \in T2
    <3>1. first + 0 = first /\ h[first] = u /\ h2[first] = v
      BY DEF IsLoop
    <3> QED
      BY <3>1
  <2>2. ASSUME NEW p \in Nat, p \in T2 PROVE p + 1 \in T2
    <3> SUFFICES ASSUME p + 1 <= 64 - first
                 PROVE  Mirrors(h2[first + (p + 1)], h[first + (p + 1)], F, d, N[first + (p + 1)])
      OBVIOUS
    <3> DEFINE i == first + p
    <3>1. i \in first .. 63 /\ i + 1 \in first .. 64 /\ first + (p + 1) = i + 1 /\ p <= 64 - first
      OBVIOUS
    <3>2. Mirrors(h2[i], h[i], F, d, N[i])
      BY <2>2, <3>1
    <3> HIDE DEF i
    <3> QED
      BY <1>1, <1>2, <3>1, <3>2
  <2> HIDE DEF T2
  <2> QED
    BY <2>1, <2>2, SetInduction
<1>4. first \in first .. 64 /\ 64 - first \in Nat /\ first + (64 - first) = 64
  OBVIOUS
<1>5. Agrees(u, F)
  BY <1>2, <1>4 DEF IsLoop
<1>6. Mirrors(h2[64], h[64], F, d, N[64])
  <2>1. 64 - first \in T2
    BY <1>3, <1>4
  <2> QED
    BY <1>4, <2>1
<1> QED
  BY <1>5, <1>6

-----------------------------------------------------------------------------
(* The stages of a block on the verifier's machine.                           *)

LEMMA LoadedMirrors ==
  ASSUME NEW u, Sound(u, 0), NEW F, NEW d \in Party, NEW v, Mirrors(v, u, F, d, 0),
         NEW sh, NEW sh2, \A p \in Parties(d) : sh2[p] = sh[p], NEW b
  PROVE  Mirrors(Loaded(v, sh2, b), Loaded(u, sh, b), F, d, 16)
<1> DEFINE rows == [j \in 0 .. 63 |->
                      IF j < 16 THEN [p \in Party |-> ChunkWord(sh[p], b, j)]
                                ELSE Unassigned(Prover)]
           rows2 == [j \in 0 .. 63 |->
                       IF j < 16 THEN [p \in Parties(d) |-> ChunkWord(sh2[p], b, j)]
                                 ELSE Unassigned(d)]
           u2 == Loaded(u, sh, b)    v2 == Loaded(v, sh2, b)    E == {}
<1>1. Parties(u.e) = Party /\ v.e = d /\ u.e = Prover
  BY DEF Sound, Parties, Mirrors, Follows
<1>2. u2 = [u EXCEPT !.w = rows] /\ v2 = [v EXCEPT !.w = rows2]
  BY <1>1 DEF Loaded
<1>3. \A j \in 0 .. 15 : rows2[j] = Part(d, rows[j])
  <2> SUFFICES ASSUME NEW j \in 0 .. 15 PROVE rows2[j] = Part(d, rows[j])
    OBVIOUS
  <2>1. /\ rows2[j] = [p \in Parties(d) |-> ChunkWord(sh2[p], b, j)]
        /\ rows[j] = [p \in Party |-> ChunkWord(sh[p], b, j)]
    OBVIOUS
  <2> HIDE DEF rows, rows2
  <2>2. Parties(d) \subseteq Party
    BY OpenedParties
  <2> QED
    BY <2>1, <2>2 DEF Part
<1>4. DOMAIN rows2 = 0 .. 63
  OBVIOUS
<1> HIDE DEF rows, rows2, u2, v2
<1>5. /\ DOMAIN u = Fields /\ DOMAIN v = Fields
  BY DEF Sound, Mirrors, Follows
<1>6. /\ u2.w = rows /\ u2.rand = u.rand /\ u2.county = u.county /\ u2.reg = u.reg
      /\ v2.w = rows2 /\ v2.rand = v.rand /\ v2.county = v.county /\ v2.reg = v.reg
      /\ v2.e = v.e /\ v2.ok = v.ok /\ v2.key = v.key /\ v2.views = v.views
      /\ DOMAIN v2 = Fields
  BY <1>2, <1>5 DEF Fields
<1>7. \A j \in 0 .. 16 - 1 : v2.w[j] = Part(d, u2.w[j])
  BY <1>3, <1>6
<1> HIDE DEF E
<1>8. Follows(v, u, F, d, E, 0)
  BY DEF Mirrors, E
<1>9. Follows(v2, u2, F, d, E, 16)
  <2> DEFINE n == 16
  <2>1. \A j \in 0 .. n - 1 : v2.w[j] = Part(d, u2.w[j])
    BY <1>7
  <2> HIDE DEF n
  <2>2. Follows(v2, u2, F, d, E, n)
    BY <1>4, <1>6, <1>8, <2>1 DEF Follows
  <2> QED
    BY <2>2 DEF n
<1> QED
  BY <1>9 DEF u2, v2, E, Mirrors

LEMMA ExpansionMirrors ==
  ASSUME NEW u, Sound(u, 16), u.rand + 144 <= TapeWords, NEW F,
         Agrees(Expansion(u, ProveExpand), F)
  PROVE  /\ Agrees(u, F)
         /\ \A d \in Party : \A v : Mirrors(v, u, F, d, 16)
              => Mirrors(Expansion(v, CheckExpand), Expansion(u, ProveExpand), F, d, 64)
<1> DEFINE N == [i \in 16 .. 64 |-> i]    first == 16    cost == 3    E == {}
<1>1. PICK h : IsLoop(h, u, ProveExpand, first) /\ Expansion(u, ProveExpand) = h[64]
  <2>1. first \in 0 .. 64
    OBVIOUS
  <2> HIDE DEF first
  <2>2. \E h : IsLoop(h, u, ProveExpand, first) /\ Loop(u, ProveExpand, first) = h[64]
    BY <2>1, LoopTrace
  <2> QED
    BY <2>2 DEF first, Expansion
<1>2. \A i \in 16 .. 64 : Scheduled(u, h[i], i)
  BY <1>1, ExpandLoop
<1>3. ASSUME NEW i \in first .. 63
      PROVE  /\ Sound(h[i], N[i]) /\ h[i].rand + cost <= TapeWords
             /\ Tracks(ProveExpand, CheckExpand, i, E, N[i], E, N[i + 1], cost)
  <2>1. N[i] = i /\ N[i + 1] = i + 1 /\ i \in 16 .. 64 /\ i \in 16 .. 63
    OBVIOUS
  <2>2. Tracks(ProveExpand, CheckExpand, i, E, i, E, i + 1, cost)
    BY <2>1, ExpandTracks
  <2>3. Sound(h[i], i) /\ h[i].rand = u.rand + 3 * (i - 16)
    BY <1>2, <2>1 DEF Scheduled, Goes
  <2>4. u.rand \in Nat /\ TapeWords \in Nat
    BY Sizes DEF Sound
  <2> QED
    BY <2>1, <2>2, <2>3, <2>4
<1>4. IsList(ProveExpand) /\ IsList(CheckExpand) /\ first \in 0 .. 63
  <2>1. 16 \in 16 .. 63
    OBVIOUS
  <2> QED
    BY <2>1, ExpandTracks
<1>5. N[first] = 16 /\ N[64] = 64
  OBVIOUS
<1>6. \A d \in Party : \A v : \E h2 : IsLoop(h2, v, CheckExpand, first)
                                 /\ Expansion(v, CheckExpand) = h2[64]
  <2>1. first \in 0 .. 64 /\ \A v : Expansion(v, CheckExpand) = Loop(v, CheckExpand, first)
    BY DEF Expansion
  <2> HIDE DEF first
  <2> QED
    BY <2>1, LoopTrace
<1> HIDE DEF N, first, cost
<1>7. ASSUME NEW d \in Party, NEW v, Mirrors(v, u, F, d, N[first])
      PROVE  Mirrors(Expansion(v, CheckExpand), Expansion(u, ProveExpand), F, d, N[64])
  <2>1. PICK h2 : IsLoop(h2, v, CheckExpand, first) /\ Expansion(v, CheckExpand) = h2[64]
    BY <1>6
  <2>2. Agrees(h[64], F)
    BY <1>1
  <2>3. Mirrors(h2[64], h[64], F, d, N[64])
    <3>1. /\ LoopTracks(ProveExpand, CheckExpand, first, N, cost)
          /\ LoopAfford(h, first, N, cost)
      BY <1>3 DEF LoopTracks, LoopAfford
    <3>2. IsLoop(h, u, ProveExpand, first)
      BY <1>1
    <3>3. Mirrors(v, u, F, d, N[first])
      BY <1>7
    <3>4. IsList(ProveExpand)
      BY <1>4
    <3>5. IsList(CheckExpand)
      BY <1>4
    <3>6. first \in 0 .. 63
      BY <1>4
    <3>7. IsLoop(h2, v, CheckExpand, first)
      BY <2>1
    <3>8. d \in Party
      OBVIOUS
    <3> QED
      BY <2>2, <3>1, <3>2, <3>3, <3>4, <3>5, <3>6, <3>7, <3>8, LoopMirrors
  <2> QED
    BY <1>1, <2>1, <2>3
<1>8. Agrees(u, F)
  <2>1. Goes(u, h[64], 64, 3 * (64 - 16))
    <3>1. 64 \in 16 .. 64
      OBVIOUS
    <3> QED
      BY <1>2, <3>1 DEF Scheduled
  <2> QED
    BY <1>1, <2>1, AgreesBefore DEF Goes
<1> QED
  BY <1>5, <1>7, <1>8

LEMMA CompressionMirrors ==
  ASSUME NEW u, Sound(u, 64), u.rand + 576 <= TapeWords, NEW F,
         Agrees(Compression(u, ProveCompress), F)
  PROVE  /\ Agrees(u, F)
         /\ \A d \in Party : \A v : Mirrors(v, u, F, d, 64)
              => Mirrors(Compression(v, CheckCompress), Compression(u, ProveCompress), F, d, 64)
<1> DEFINE N == [i \in 0 .. 64 |-> 64]    first == 0    cost == 9    E == {}    n == 64    c0 == 0
           u1 == Run(u, Load, 0)
<1>0. u.rand \in Nat /\ TapeWords \in Nat
  BY Sizes DEF Sound
<1>1. /\ Goes(u, u1, n, c0)
      /\ \A G : Agrees(u1, G) =>
           /\ Agrees(u, G)
           /\ \A d \in Party : \A v : Mirrors(v, u, G, d, n) => Mirrors(Run(v, Load, 0), u1, G, d, n)
  <2> DEFINE i == 0
  <2>1. Sound(u, n) /\ u.rand + c0 <= TapeWords /\ IsList(Load) /\ i \in 0 .. 63
    BY <1>0, BlockLists
  <2>2. Tracks(Load, Load, i, E, n, E, n, c0)
    <3> HIDE DEF n, i
    <3> QED
      BY <2>1, PieceTracks
  <2> HIDE DEF n, i, c0
  <2> QED
    BY <2>1, <2>2, StepMirrors DEF i
<1> HIDE DEF u1
<1>2. PICK h : IsLoop(h, u1, ProveCompress, first) /\ Compression(u, ProveCompress) = h[64]
  <2>1. first \in 0 .. 64
    OBVIOUS
  <2> HIDE DEF first
  <2>2. \E h : IsLoop(h, u1, ProveCompress, first) /\ Loop(u1, ProveCompress, first) = h[64]
    BY <2>1, LoopTrace
  <2> QED
    BY <2>2 DEF first, u1, Compression
<1>3. Sound(u1, 64) /\ u1.rand = u.rand
  BY <1>0, <1>1 DEF Goes
<1>4. \A i \in 0 .. 64 : Goes(u1, h[i], 64, 9 * i)
  BY <1>2, <1>3, CompressLoop
<1>5. ASSUME NEW i \in first .. 63
      PROVE  /\ Sound(h[i], N[i]) /\ h[i].rand + cost <= TapeWords
             /\ Tracks(ProveCompress, CheckCompress, i, E, N[i], E, N[i + 1], cost)
  <2>1. N[i] = n /\ N[i + 1] = n /\ i \in 0 .. 64 /\ i \in 0 .. 63
    OBVIOUS
  <2>2. Tracks(ProveCompress, CheckCompress, i, E, n, E, n, cost)
    BY <2>1, CompressTracks
  <2>3. Sound(h[i], n) /\ h[i].rand = u.rand + 9 * i
    BY <1>3, <1>4, <2>1 DEF Goes
  <2> QED
    BY <1>0, <2>1, <2>2, <2>3
<1>6. IsList(ProveCompress) /\ IsList(CheckCompress) /\ first \in 0 .. 63
  <2>1. 0 \in 0 .. 63
    OBVIOUS
  <2> QED
    BY <2>1, CompressTracks
<1>7. N[first] = n /\ N[64] = n
  OBVIOUS
<1>8. ASSUME NEW v
      PROVE  \E h2 : /\ IsLoop(h2, Run(v, Load, 0), CheckCompress, first)
                     /\ Compression(v, CheckCompress) = h2[64]
  <2> DEFINE v1 == Run(v, Load, 0)
  <2>1. first \in 0 .. 64 /\ Compression(v, CheckCompress) = Loop(v1, CheckCompress, first)
    BY DEF Compression
  <2> HIDE DEF first, v1
  <2>2. \E h2 : IsLoop(h2, v1, CheckCompress, first) /\ Loop(v1, CheckCompress, first) = h2[64]
    BY <2>1, LoopTrace
  <2> QED
    BY <2>1, <2>2 DEF v1
<1> HIDE DEF N, first, cost
<1>9. Agrees(u1, F)
  <2>1. Goes(u1, h[64], 64, 9 * 64)
    <3>1. 64 \in 0 .. 64
      OBVIOUS
    <3> QED
      BY <1>4, <3>1
  <2> QED
    BY <1>2, <1>3, <2>1, AgreesBefore DEF Goes
<1>10. ASSUME NEW d \in Party, NEW v, Mirrors(v, u, F, d, n)
       PROVE  Mirrors(Compression(v, CheckCompress), Compression(u, ProveCompress), F, d, n)
  <2>1. PICK h2 : /\ IsLoop(h2, Run(v, Load, 0), CheckCompress, first)
                  /\ Compression(v, CheckCompress) = h2[64]
    BY <1>8
  <2>2. Agrees(h[64], F)
    BY <1>2
  <2> DEFINE v1 == Run(v, Load, 0)
  <2>3. Mirrors(v1, u1, F, d, N[first])
    <3> HIDE DEF n
    <3> QED
      BY <1>1, <1>7, <1>9, <1>10
  <2>4. IsLoop(h2, v1, CheckCompress, first)
    BY <2>1
  <2> HIDE DEF v1
  <2>5. Mirrors(h2[64], h[64], F, d, N[64])
    <3>1. /\ LoopTracks(ProveCompress, CheckCompress, first, N, cost)
          /\ LoopAfford(h, first, N, cost)
      BY <1>5 DEF LoopTracks, LoopAfford
    <3>2. IsLoop(h, u1, ProveCompress, first)
      BY <1>2
    <3> QED
      BY <1>6, <2>2, <2>3, <2>4, <3>1, <3>2, LoopMirrors
  <2> QED
    BY <1>2, <1>7, <2>1, <2>5
<1> QED
  BY <1>1, <1>9, <1>10

LEMMA FeedingMirrors ==
  ASSUME NEW u, Sound(u, 64), u.rand + 8 <= TapeWords, NEW F, Agrees(Feeding(u), F)
  PROVE  /\ Agrees(u, F)
         /\ \A d \in Party : \A v : Mirrors(v, u, F, d, 64)
              => Mirrors(Feeding(v), Feeding(u), F, d, 64)
<1> DEFINE i == 0    n == 64    cost == 8    E == {}
<1>1. Sound(u, n) /\ u.rand + cost <= TapeWords /\ IsList(Feed) /\ i \in 0 .. 63
  BY BlockLists
<1>2. Tracks(Feed, Feed, i, E, n, E, n, cost)
  <2> HIDE DEF n, i
  <2> QED
    BY <1>1, PieceTracks
<1>3. Agrees(Run(u, Feed, i), F)
  BY DEF Feeding
<1> HIDE DEF n, i, cost
<1>4. /\ Agrees(u, F)
      /\ \A d \in Party : \A v : Mirrors(v, u, F, d, n)
           => Mirrors(Run(v, Feed, i), Run(u, Feed, i), F, d, n)
  BY <1>1, <1>2, <1>3, StepMirrors
<1> QED
  BY <1>4 DEF Feeding, i, n

LEMMA MirrorsFewer ==
  ASSUME NEW v, NEW u, NEW F, NEW d, NEW n2 \in Nat, NEW n \in 0 .. n2, Mirrors(v, u, F, d, n2)
  PROVE  Mirrors(v, u, F, d, n)
<1> DEFINE E == {}
<1>1. Follows(v, u, F, d, E, n2)
  BY DEF Mirrors
<1>2. \A j \in 0 .. n - 1 : j \in 0 .. n2 - 1
  OBVIOUS
<1> HIDE DEF E
<1>3. Follows(v, u, F, d, E, n)
  BY <1>1, <1>2 DEF Follows
<1> QED
  BY <1>3 DEF Mirrors, E

(* The views of the whole evaluation hold what each block has written.          *)
LEMMA EvaluationAgrees ==
  ASSUME NEW g, NEW sh, IsEvaluation(g, sh, NumBlocks)
  PROVE  \A b \in 0 .. NumBlocks : Agrees(g[b], g[NumBlocks].views)
<1> DEFINE F == g[NumBlocks].views
           T == {p \in Nat : p <= NumBlocks => Agrees(g[NumBlocks - p], F)}
           r == Recon(sh)
<1>0. NumBlocks \in Nat /\ NumBlocks \in 0 .. NumBlocks /\ r = Recon(sh)
  BY Sizes
<1>1. /\ \A b \in 0 .. NumBlocks : Sound(g[b], 0)
      /\ \A b \in 0 .. NumBlocks - 1 : Goes(g[b], g[b + 1], 64, 728)
  <2> DEFINE n == NumBlocks
  <2>1. n \in 0 .. NumBlocks /\ IsEvaluation(g, sh, n)
    BY <1>0
  <2> HIDE DEF n, r
  <2>2. /\ \A b \in 0 .. n : Sound(g[b], 0) /\ g[b].rand = 728 * b
        /\ \A b \in 0 .. n - 1 :
             /\ Goes(g[b], g[b + 1], 64, 728)
             /\ ChainWords(g[b + 1]) = CompressionOf(ChainWords(g[b]), ScheduleOf(r, b))
    BY <1>0, <2>1, EvaluationIs
  <2> QED
    BY <2>2 DEF n
<1>2. 0 \in T
  <2>1. NumBlocks - 0 = NumBlocks
    BY <1>0
  <2> QED
    BY <2>1 DEF Agrees
<1>3. ASSUME NEW p \in Nat, p \in T PROVE p + 1 \in T
  <2> SUFFICES ASSUME p + 1 <= NumBlocks PROVE Agrees(g[NumBlocks - (p + 1)], F)
    OBVIOUS
  <2> DEFINE b == NumBlocks - (p + 1)
  <2>1. b \in 0 .. NumBlocks - 1 /\ b + 1 = NumBlocks - p /\ p <= NumBlocks
        /\ b \in 0 .. NumBlocks
    BY <1>0
  <2>2. Agrees(g[b + 1], F)
    BY <1>3, <2>1
  <2>3. Sound(g[b], 0) /\ Goes(g[b], g[b + 1], 64, 728)
    BY <1>1, <2>1
  <2> DEFINE u == g[b]    u2 == g[b + 1]    n1 == 0    n2 == 64
  <2>4. Sound(u, n1) /\ Sound(u2, n2) /\ Keeps(u, u2) /\ Agrees(u2, F)
    BY <2>2, <2>3 DEF Goes
  <2> HIDE DEF u, u2, n1, n2, F
  <2>5. Agrees(u, F)
    BY <2>4, AgreesBefore
  <2> QED
    BY <2>5 DEF u
<1>4. Nat \subseteq T
  <2> HIDE DEF T
  <2> QED
    BY <1>2, <1>3, SetInduction
<1>5. ASSUME NEW b \in 0 .. NumBlocks PROVE Agrees(g[b], F)
  <2>1. NumBlocks - b \in Nat /\ NumBlocks - b <= NumBlocks /\ NumBlocks - (NumBlocks - b) = b
    BY <1>0
  <2> QED
    BY <1>4, <2>1
<1> QED
  BY <1>5

(* How many words of the schedule are known at a place.                         *)
Known(p) == CASE p = "load" -> 0 [] p = "expand" -> 16 [] p = "compress" -> 64
              [] p = "feed" -> 64

(* The verifier's machine at a place in block b mirrors what the prover's was there. *)
Repeats(v, p, g, sh, b, d) ==
  Mirrors(v, StageOf(p, g[b], sh, b), g[NumBlocks].views, d, Known(p))

LEMMA StartMirrors ==
  ASSUME NEW F, NEW d \in Party
  PROVE  Mirrors(Machine(d, [j \in Parties(d) |-> j], [row \in Rows |-> Part(d, F[row])]),
                 ProverStart, F, d, 0)
<1> DEFINE rows == [row \in Rows |-> Part(d, F[row])]
           v == Machine(d, [j \in Parties(d) |-> j], rows)
           word(q) == IF q \in Range(H8) THEN hA[CHOOSE p \in 1 .. 8 : H8[p] = q] ELSE {}
           regs == [q \in Registers |-> [j \in Party |-> word(q)]]
           regs2 == [q \in Registers |-> [j \in Parties(d) |-> word(q)]]
           w2 == [j \in 0 .. 63 |-> Unassigned(d)]
           u == ProverStart    E == {}    n == 0
<1>1. Parties(Prover) = Party /\ Parties(d) \subseteq Party
  BY OpenedParties DEF Parties
<1>2. u.rand = 0 /\ u.county = 0 /\ u.reg = regs
  BY <1>1 DEF ProverStart, Machine
<1>3. v = [e |-> d, key |-> [j \in Parties(d) |-> j], rand |-> 0, county |-> 0,
           views |-> rows, ok |-> TRUE, w |-> w2, reg |-> regs2]
  BY DEF Machine
<1>4. \A q \in Registers : regs2[q] = Part(d, regs[q])
  BY <1>1 DEF Part
<1>5. DOMAIN regs2 = Registers /\ DOMAIN w2 = 0 .. 63
  OBVIOUS
<1> HIDE DEF regs, regs2, w2, rows, v, u
<1>6. /\ DOMAIN v = Fields /\ v.e = d /\ v.ok = TRUE /\ v.key = [j \in Parties(d) |-> j]
      /\ v.rand = 0 /\ v.county = 0 /\ v.views = rows /\ v.w = w2 /\ v.reg = regs2
  BY <1>3 DEF Fields
<1>7. \A j \in 0 .. n - 1 : v.w[j] = Part(d, u.w[j])
  OBVIOUS
<1> HIDE DEF n, E
<1>8. Follows(v, u, F, d, E, n)
  BY <1>2, <1>4, <1>5, <1>6, <1>7 DEF Follows, rows
<1> QED
  BY <1>8 DEF Mirrors, v, u, E, n, rows

LEMMA StagesRepeat ==
  ASSUME NEW g, NEW sh, IsEvaluation(g, sh, NumBlocks), NEW b \in 0 .. NumBlocks - 1,
         NEW d \in Party, NEW sh2, \A p \in Parties(d) : sh2[p] = sh[p], NEW v
  PROVE  /\ Repeats(v, "load", g, sh, b, d)
              => Repeats(Loaded(v, sh2, b), "expand", g, sh, b, d)
         /\ Repeats(v, "expand", g, sh, b, d)
              => Repeats(Expansion(v, CheckExpand), "compress", g, sh, b, d)
         /\ Repeats(v, "compress", g, sh, b, d)
              => Repeats(Compression(v, CheckCompress), "feed", g, sh, b, d)
         /\ Repeats(v, "feed", g, sh, b, d) => Repeats(Feeding(v), "load", g, sh, b + 1, d)
<1> DEFINE F == g[NumBlocks].views
           u == g[b]
           u1 == Loaded(u, sh, b)
           u2 == Expansion(u1, ProveExpand)
           u3 == Compression(u2, ProveCompress)
           u4 == Feeding(u3)
           r == Recon(sh)
<1>0. /\ NumBlocks \in Nat /\ TapeWords \in Nat /\ b \in Nat /\ 728 * b + 728 <= TapeWords
      /\ r = Recon(sh)
  BY Sizes
<1>1. Sound(u, 0) /\ u.rand = 728 * b
  <2> DEFINE n == NumBlocks
  <2>1. n \in 0 .. NumBlocks /\ IsEvaluation(g, sh, n) /\ b \in 0 .. n
    BY <1>0
  <2> HIDE DEF n, r, u
  <2>2. \A q \in 0 .. n : Sound(g[q], 0) /\ g[q].rand = 728 * q
    BY <1>0, <2>1, EvaluationIs
  <2> QED
    BY <2>1, <2>2 DEF u
<1>2. /\ Goes(u, u1, 16, 0) /\ Goes(u1, u2, 64, 144) /\ Goes(u2, u3, 64, 576)
      /\ Goes(u3, u4, 64, 8)
  <2> HIDE DEF u, r
  <2> QED
    BY <1>0, <1>1, BlockEvaluates
<1>3. u4 = g[b + 1] /\ Agrees(u4, F)
  <2>1. u4 = g[b + 1]
    BY DEF IsEvaluation, BlockOf
  <2>2. b + 1 \in 0 .. NumBlocks
    BY <1>0
  <2>3. Agrees(g[b + 1], F)
    BY <2>2, EvaluationAgrees
  <2> QED
    BY <2>1, <2>3
<1>4. /\ StageOf("load", u, sh, b) = u /\ StageOf("expand", u, sh, b) = u1
      /\ StageOf("compress", u, sh, b) = u2 /\ StageOf("feed", u, sh, b) = u3
      /\ StageOf("load", g[b + 1], sh, b + 1) = g[b + 1]
  BY DEF StageOf
<1>5. Known("load") = 0 /\ Known("expand") = 16 /\ Known("compress") = 64 /\ Known("feed") = 64
  BY DEF Known
<1>6. /\ Sound(u1, 16) /\ u1.rand + 144 <= TapeWords
      /\ Sound(u2, 64) /\ u2.rand + 576 <= TapeWords
      /\ Sound(u3, 64) /\ u3.rand + 8 <= TapeWords
  <2> HIDE DEF u, u1, u2, u3, u4
  <2>1. /\ u1.rand = u.rand + 0 /\ u2.rand = u1.rand + 144 /\ u3.rand = u2.rand + 576
        /\ Sound(u1, 16) /\ Sound(u2, 64) /\ Sound(u3, 64)
    BY <1>2 DEF Goes
  <2> QED
    BY <1>0, <1>1, <2>1
<1> HIDE DEF r
<1>7. ASSUME Mirrors(v, u, F, d, 0) PROVE Mirrors(Loaded(v, sh2, b), u1, F, d, 16)
  <2> HIDE DEF u, F
  <2> QED
    BY <1>1, <1>7, LoadedMirrors
<1> HIDE DEF u1
<1>8. /\ Agrees(u3, F)
      /\ Mirrors(v, u3, F, d, 64) => Mirrors(Feeding(v), u4, F, d, 64)
  <2> HIDE DEF u3, F
  <2> QED
    BY <1>3, <1>6, FeedingMirrors
<1>9. /\ Agrees(u2, F)
      /\ Mirrors(v, u2, F, d, 64) => Mirrors(Compression(v, CheckCompress), u3, F, d, 64)
  <2> HIDE DEF u2, F
  <2> QED
    BY <1>6, <1>8, CompressionMirrors
<1>10. Mirrors(v, u1, F, d, 16) => Mirrors(Expansion(v, CheckExpand), u2, F, d, 64)
  <2> HIDE DEF F
  <2> QED
    BY <1>6, <1>9, ExpansionMirrors
<1>11. Mirrors(Feeding(v), u4, F, d, 64) => Mirrors(Feeding(v), u4, F, d, 0)
  <2> DEFINE n2 == 64    n == 0    v4 == Feeding(v)
  <2>1. n2 \in Nat /\ n \in 0 .. n2
    OBVIOUS
  <2> HIDE DEF n2, n, v4, u4, F
  <2>2. Mirrors(v4, u4, F, d, n2) => Mirrors(v4, u4, F, d, n)
    BY <2>1, MirrorsFewer
  <2> QED
    BY <2>2 DEF n2, n, v4
<1> HIDE DEF u, u2, u3, u4, F
<1>12. /\ \A w : Repeats(w, "load", g, sh, b, d) <=> Mirrors(w, u, F, d, 0)
       /\ \A w : Repeats(w, "expand", g, sh, b, d) <=> Mirrors(w, u1, F, d, 16)
       /\ \A w : Repeats(w, "compress", g, sh, b, d) <=> Mirrors(w, u2, F, d, 64)
       /\ \A w : Repeats(w, "feed", g, sh, b, d) <=> Mirrors(w, u3, F, d, 64)
       /\ \A w : Repeats(w, "load", g, sh, b + 1, d) <=> Mirrors(w, u4, F, d, 0)
  BY <1>3, <1>4, <1>5 DEF Repeats, u, F
<1> QED
  BY <1>7, <1>8, <1>9, <1>10, <1>11, <1>12

(***************************************************************************)
(* The whole round.                                                        *)
(***************************************************************************)
VerifierPlaces == Stages \cup
  {"query", "draw", "check", "setup", "product", "accepted", "rejected"}

Scalars ==
  /\ role = "verifier" => pc \in VerifierPlaces
  /\ given \in {"own", "bit", "digest"} /\ e \in Party /\ faulted \in BOOLEAN
  /\ hash \in SUBSET (0 .. HashBits - 1)
  /\ bitTracker \in 0 .. HashBits /\ (bitTracker % 2) = 0

-----------------------------------------------------------------------------
(* The draw of the challenge.                                                 *)

(* What H3 takes from the pair at t of the digest h.                           *)
PairOf(h, t) == IF t \in h THEN 2 ELSE IF t + 1 \in h THEN 1 ELSE 0

(* The pair at t of h is skipped, or h is used up, and the walk goes on in W.   *)
WalksOn(W, h, t) ==
  \/ t < HashBits /\ t \in h /\ t + 1 \in h /\ <<h, t + 2>> \in W
  \/ t >= HashBits /\ <<Rehash[h], 0>> \in W

(* The walk from the digest first passes the positions W, up to the present one.  *)
Walking(W, first) ==
  /\ <<first, 0>> \in W
  /\ \A h, t : <<h, t>> \in W => <<h, t>> = <<hash, bitTracker>> \/ WalksOn(W, h, t)

(* All walks that pass W end with the challenge d.                              *)
EndsWith(W, d) ==
  \A h, t : <<h, t>> \in W =>
    \/ WalksOn(W, h, t)
    \/ t < HashBits /\ ~(t \in h /\ t + 1 \in h) /\ d = PairOf(h, t)

LeadsTo(first, d) == \E W : <<first, 0>> \in W /\ EndsWith(W, d)

(* The prover's digest leads to the prover's challenge; for the same query the    *)
(* verifier walks the same way.                                               *)
Drawn ==
  /\ role = "prover" /\ pc = "draw" => \E W : Walking(W, asked.digest)
  /\ pc = "open" => LeadsTo(asked.digest, e)
  /\ role = "verifier" \/ pc = "written" => LeadsTo(asked.digest, z.ke)
  /\ role = "verifier" /\ given = "own" /\ pc = "draw" =>
       \E W : EndsWith(W, z.ke) /\ <<hash, bitTracker>> \in W
  /\ role = "verifier" /\ given = "own" /\ pc \notin {"query", "draw"} => e = z.ke

(* What the verifier is given, in terms of what was committed to.                *)
Masked == (Parity(HashA \cap in.r) + in.m) % 2

Related ==
  /\ role = "prover" /\ pc # "hash" => c = [b |-> c.b, y |-> c.y]
  /\ role = "prover" /\ pc \in {"draw", "open", "written"} => asked.query = Query
  /\ role = "verifier" =>
       /\ given = "own"    => Query = asked.query /\ c.y = SHA256(in.r) /\ LowBit(c.b) = Masked
       /\ given = "bit"    => LowBit(c.b) = 1 - Masked
       /\ given = "digest" => /\ c.y = [SHA256(in.r) EXCEPT ![1] = Xor(@, {0})]
                              /\ LowBit(c.b) = Masked

LEMMA ScalarsInit == Init => Scalars
<1>1. HashBits \in Nat \ {0}
  BY RoundAssumption
<1>2. 0 \in 0 .. HashBits /\ (0 % 2) = 0 /\ 0 \in Party
  BY <1>1 DEF Party
<1> QED
  BY <1>2 DEF Init, Scalars

LEMMA ScalarsNext == ProverInv /\ Scalars /\ [Next]_vars => Scalars'
<1> SUFFICES ASSUME Scalars, [Next]_vars, ProverInv PROVE Scalars'
  OBVIOUS
<1>1. HashBits \in Nat \ {0} /\ (HashBits % 2) = 0
  BY RoundAssumption
<1>2. role \in {"prover", "verifier"} /\ (role = "prover" => pc \in ProverPlaces)
  BY DEF ProverInv, Placed
<1>3. CASE \/ WriteCommitment \/ ShareSecrets \/ SetupProver \/ Crash \/ ProveProduct \/ HashViews
           \/ Open \/ ReadRound
  <2>1. /\ UNCHANGED <<e, hash, bitTracker, faulted>> /\ given' \in {"own", "bit", "digest"}
    BY <1>3 DEF Scalars, WriteCommitment, ShareSecrets, SetupProver, Crash, ProveProduct,
                HashViews, Open, ReadRound, inputVars, oracleVars
  <2>2. role' = "verifier" => pc' \in VerifierPlaces
    BY <1>2, <1>3 DEF Scalars, WriteCommitment, ShareSecrets, SetupProver, Crash, ProveProduct,
                HashViews, Open, ReadRound, Hashed, VerifierPlaces, Stages
  <2> QED
    BY <2>1, <2>2 DEF Scalars
<1>4. CASE LoadBlock \/ ExpandWords \/ CompressBlock \/ FeedForward
  <2>1. /\ UNCHANGED <<given, e, hash, bitTracker, faulted, role>>
        /\ pc' \in Stages \cup {"rejected"}
    BY <1>4 DEF LoadBlock, ExpandWords, CompressBlock, FeedForward, Evaluate, inputVars,
                oracleVars, Stages
  <2> QED
    BY <2>1 DEF Scalars, VerifierPlaces
<1>5. CASE VerifyCommit \/ SetupVerifier \/ SetupVerifierFails \/ CompareOutput \/ VerifyProduct
  <2>1. /\ UNCHANGED <<given, e, hash, bitTracker, role>> /\ faulted' \in BOOLEAN
        /\ pc' \in VerifierPlaces
    BY <1>5 DEF Scalars, VerifyCommit, SetupVerifier, SetupVerifierFails, CompareOutput,
                VerifyProduct, Goto, inputVars, oracleVars, VerifierPlaces, Stages
  <2> QED
    BY <2>1 DEF Scalars
<1>6. CASE AskOracle
  <2>1. /\ UNCHANGED <<given, e, faulted, role>> /\ bitTracker' = 0 /\ hash' \in Digests
        /\ pc' = "draw"
    BY <1>6 DEF AskOracle, inputVars
  <2>2. 0 \in 0 .. HashBits /\ (0 % 2) = 0 /\ Digests \subseteq SUBSET (0 .. HashBits - 1)
    BY <1>1, RoundAssumption
  <2> QED
    BY <2>1, <2>2 DEF Scalars, VerifierPlaces
<1>7. CASE NewHash
  <2>1. /\ UNCHANGED <<given, e, faulted, role, pc>> /\ bitTracker' = 0 /\ hash' = Rehash[hash]
    BY <1>7 DEF NewHash, inputVars
  <2>2. 0 \in 0 .. HashBits /\ (0 % 2) = 0
        /\ Rehash \in [SUBSET (0 .. HashBits - 1) -> SUBSET (0 .. HashBits - 1)]
    BY <1>1, RoundAssumption
  <2> QED
    BY <2>1, <2>2 DEF Scalars
<1>8. CASE DrawPair
  <2>1. /\ UNCHANGED <<given, faulted, role, hash>> /\ bitTracker' = bitTracker + 2
        /\ e' = e \/ e' = 2 \/ e' = 1 \/ e' = 0
        /\ pc = "draw" /\ bitTracker < HashBits
    BY <1>8 DEF DrawPair, inputVars
  <2>2. bitTracker + 2 \in 0 .. HashBits /\ ((bitTracker + 2) % 2) = 0
    BY <1>1, <2>1 DEF Scalars
  <2>3. role = "verifier" => pc' \in {"draw", "check"}
    BY <1>8 DEF DrawPair, Program
  <2> QED
    BY <2>1, <2>2, <2>3 DEF Scalars, Party, VerifierPlaces
<1>9. CASE UNCHANGED vars
  BY <1>9 DEF vars, inputVars, oracleVars, Scalars
<1> QED
  BY <1>3, <1>4, <1>5, <1>6, <1>7, <1>8, <1>9 DEF Next, Step, Finished

LEMMA DrawnInit == Init => Drawn /\ Related
BY DEF Init, Drawn, Related

(* One step of the walk, and its end.                                         *)
LEMMA WalkStep ==
  ASSUME NEW W, NEW first, Walking(W, first), NewHash \/ DrawPair, pc' = "draw"
  PROVE  \E W2 : Walking(W2, first)'
<1> DEFINE next == <<hash', bitTracker'>>    W2 == W \cup {next}
<1>1. WalksOn(W2, hash, bitTracker)
  <2>1. CASE NewHash
    BY <2>1 DEF NewHash, WalksOn
  <2>2. CASE DrawPair
    <3>1. /\ bitTracker < HashBits /\ hash' = hash /\ bitTracker' = bitTracker + 2
          /\ bitTracker \in hash /\ bitTracker + 1 \in hash
      BY <2>2 DEF DrawPair, Program
    <3> QED
      BY <3>1 DEF WalksOn
  <2> QED
    BY <2>1, <2>2
<1>2. \A h, t : WalksOn(W, h, t) => WalksOn(W2, h, t)
  BY DEF WalksOn
<1>3. \A h, t : <<h, t>> \in W2 => <<h, t>> = next \/ WalksOn(W2, h, t)
  <2> SUFFICES ASSUME NEW h, NEW t, <<h, t>> \in W PROVE WalksOn(W2, h, t)
    OBVIOUS
  <2>1. CASE <<h, t>> = <<hash, bitTracker>>
    BY <1>1, <2>1
  <2>2. CASE <<h, t>> # <<hash, bitTracker>>
    BY <1>2, <2>2 DEF Walking
  <2> QED
    BY <2>1, <2>2
<1>4. <<first, 0>> \in W2
  BY DEF Walking
<1>5. PICK W3 : W3 = W2
  OBVIOUS
<1> HIDE DEF W2
<1>6. Walking(W3, first)'
  BY <1>3, <1>4, <1>5 DEF Walking
<1> QED
  BY <1>6

LEMMA WalkEnds ==
  ASSUME NEW W, NEW first, Walking(W, first), DrawPair, pc' # "draw"
  PROVE  LeadsTo(first, e')
<1>1. /\ bitTracker < HashBits /\ ~(bitTracker \in hash /\ bitTracker + 1 \in hash)
      /\ e' = PairOf(hash, bitTracker)
  BY DEF DrawPair, PairOf
<1>2. EndsWith(W, e')
  <2> SUFFICES ASSUME NEW h, NEW t, <<h, t>> \in W, ~WalksOn(W, h, t)
               PROVE  t < HashBits /\ ~(t \in h /\ t + 1 \in h) /\ e' = PairOf(h, t)
    BY DEF EndsWith
  <2>1. h = hash /\ t = bitTracker
    BY DEF Walking
  <2> QED
    BY <1>1, <2>1
<1>3. <<first, 0>> \in W
  BY DEF Walking
<1> QED
  BY <1>2, <1>3 DEF LeadsTo

LEMMA WalkRepeated ==
  ASSUME NEW W, NEW d, EndsWith(W, d), <<hash, bitTracker>> \in W, NewHash \/ DrawPair,
         HashBits \in Nat, bitTracker \in Nat
  PROVE  /\ pc' = "draw" => <<hash, bitTracker>>' \in W
         /\ pc' # "draw" => e' = d
<1>1. WalksOn(W, hash, bitTracker)
      \/ (bitTracker < HashBits /\ ~(bitTracker \in hash /\ bitTracker + 1 \in hash)
          /\ d = PairOf(hash, bitTracker))
  BY DEF EndsWith
<1>2. CASE NewHash
  <2>1. ~(bitTracker < HashBits) /\ pc' = "draw" /\ hash' = Rehash[hash] /\ bitTracker' = 0
    BY <1>2 DEF NewHash
  <2> QED
    BY <1>1, <2>1 DEF WalksOn
<1>3. CASE DrawPair
  <2>1. /\ bitTracker < HashBits /\ ~(bitTracker >= HashBits)
        /\ hash' = hash /\ bitTracker' = bitTracker + 2
    BY <1>3 DEF DrawPair
  <2>2. CASE bitTracker \in hash /\ bitTracker + 1 \in hash
    <3>1. pc' = "draw"
      BY <1>3, <2>2 DEF DrawPair
    <3> QED
      BY <1>1, <2>1, <2>2, <3>1 DEF WalksOn
  <2>3. CASE ~(bitTracker \in hash /\ bitTracker + 1 \in hash)
    <3>1. pc' # "draw" /\ e' = PairOf(hash, bitTracker)
      BY <1>3, <2>3 DEF DrawPair, PairOf, Program
    <3> QED
      BY <1>1, <2>1, <2>3, <3>1 DEF WalksOn
  <2> QED
    BY <2>2, <2>3
<1> QED
  BY <1>2, <1>3

LEMMA DrawnNext == ProverInv /\ Scalars /\ Related /\ Drawn /\ [Next]_vars => Drawn'
<1> SUFFICES ASSUME ProverInv, Scalars, Related, Drawn, [Next]_vars PROVE Drawn'
  OBVIOUS
<1>1. /\ role \in {"prover", "verifier"} /\ (role = "prover" => pc \in ProverPlaces)
      /\ (role = "verifier" => pc \in VerifierPlaces) /\ (pc = "views" => role = "prover")
  BY DEF ProverInv, Placed, Scalars, Recorded
<1>2. HashBits \in Nat /\ bitTracker \in Nat
  BY RoundAssumption DEF Scalars
<1>3. ASSUME UNCHANGED <<asked, z, e, given, role>>, pc' \notin {"draw", "open", "written"},
             role = "verifier" => pc \notin {"query", "draw"}
      PROVE  Drawn'
  <2>1. role = "prover" => pc' # "draw" /\ pc' # "open" /\ pc' # "written"
    BY <1>3
  <2>2. role = "verifier" => LeadsTo(asked'.digest, z'.ke)
    BY <1>3 DEF Drawn
  <2>3. role = "verifier" /\ given = "own" => e' = z'.ke
    BY <1>3 DEF Drawn
  <2> QED
    BY <1>1, <1>3, <2>1, <2>2, <2>3 DEF Drawn
<1>4. CASE WriteCommitment \/ ShareSecrets \/ SetupProver \/ Crash
  <2>1. /\ UNCHANGED <<asked, z, e, given, role>> /\ pc' \notin {"draw", "open", "written"}
        /\ role = "verifier" => pc \notin {"query", "draw"}
    BY <1>4 DEF WriteCommitment, ShareSecrets, SetupProver, Crash, inputVars, recordVars,
                oracleVars
  <2> QED
    BY <1>3, <2>1
<1>5. CASE LoadBlock \/ ExpandWords \/ CompressBlock \/ FeedForward
  <2>1. /\ UNCHANGED <<asked, z, e, given, role>> /\ pc' \in Stages \cup {"rejected"}
        /\ pc \in Stages
    BY <1>5 DEF LoadBlock, ExpandWords, CompressBlock, FeedForward, Evaluate, inputVars,
                recordVars, oracleVars, Stages
  <2> QED
    BY <1>3, <2>1 DEF Stages
<1>6. CASE ProveProduct \/ HashViews
  <2>1. /\ UNCHANGED <<asked, z, e, given, role>> /\ pc' \notin {"draw", "open", "written"}
        /\ role = "verifier" => pc \notin {"query", "draw"}
    BY <1>6 DEF ProveProduct, HashViews, Hashed, inputVars, oracleVars
  <2> QED
    BY <1>3, <2>1
<1>7. CASE VerifyCommit \/ SetupVerifier \/ SetupVerifierFails \/ CompareOutput \/ VerifyProduct
  <2>1. /\ UNCHANGED <<asked, z, e, given, role>> /\ pc' \notin {"draw", "open", "written"}
        /\ pc \notin {"query", "draw"}
    BY <1>7 DEF VerifyCommit, SetupVerifier, SetupVerifierFails, CompareOutput, VerifyProduct,
                Goto, Hashed, inputVars, recordVars, oracleVars
  <2> QED
    BY <1>3, <2>1
<1>8. CASE AskOracle
  <2>1. PICK d \in Digests :
          /\ (role = "verifier" /\ Query = asked.query) => d = asked.digest
          /\ hash' = d
          /\ asked' = IF role = "prover" THEN [query |-> Query, digest |-> d] ELSE asked
    BY <1>8 DEF AskOracle
  <2>2. pc' = "draw" /\ bitTracker' = 0 /\ UNCHANGED <<role, given, z, e>>
    BY <1>8 DEF AskOracle, inputVars, recordVars
  <2>3. CASE role = "prover"
    <3>1. asked'.digest = d
      BY <2>1, <2>3
    <3>2. \E W : Walking(W, asked.digest)'
      <4> DEFINE W == {<<d, 0>>}
      <4>1. Walking(W, asked.digest)'
        BY <2>1, <2>2, <3>1 DEF Walking
      <4> QED
        BY <4>1
    <3> QED
      BY <2>2, <2>3, <3>2 DEF Drawn
  <2>4. CASE role = "verifier"
    <3>1. asked' = asked /\ LeadsTo(asked'.digest, z'.ke)
      BY <2>1, <2>2, <2>4 DEF Drawn
    <3>2. ASSUME given = "own" PROVE \E W : EndsWith(W, z'.ke) /\ <<hash', bitTracker'>> \in W
      <4>1. hash' = asked.digest
        BY <2>1, <2>4, <3>2 DEF Related
      <4>2. PICK W : <<asked.digest, 0>> \in W /\ EndsWith(W, z'.ke)
        BY <3>1 DEF LeadsTo
      <4> QED
        BY <2>2, <4>1, <4>2
    <3> QED
      BY <2>2, <2>4, <3>1, <3>2 DEF Drawn
  <2> QED
    BY <1>1, <2>3, <2>4
<1>9. CASE NewHash \/ DrawPair
  <2>1. /\ pc = "draw" /\ UNCHANGED <<role, given, z, asked>>
    BY <1>9 DEF NewHash, DrawPair, inputVars, recordVars
  <2>2. CASE role = "prover"
    <3>1. PICK W : Walking(W, asked.digest)
      BY <2>1, <2>2 DEF Drawn
    <3>2. pc' \in {"draw", "open"}
      BY <1>9, <2>2 DEF NewHash, DrawPair, Program
    <3>3. PICK d : d = asked.digest
      OBVIOUS
    <3>4. Walking(W, d)
      BY <3>1, <3>3
    <3>5. CASE pc' = "draw"
      <4>1. PICK W2 : Walking(W2, d)'
        BY <1>9, <3>4, <3>5, WalkStep
      <4>2. Walking(W2, asked.digest)'
        BY <2>1, <3>3, <4>1 DEF Walking
      <4> QED
        BY <2>1, <2>2, <3>5, <4>2 DEF Drawn
    <3>6. CASE pc' = "open"
      <4>1. DrawPair
        BY <1>9, <2>1, <3>6 DEF NewHash
      <4>2. LeadsTo(d, e')
        BY <3>4, <3>6, <4>1, WalkEnds
      <4> QED
        BY <2>1, <2>2, <3>3, <3>6, <4>2 DEF Drawn
    <3> QED
      BY <3>2, <3>5, <3>6
  <2>3. CASE role = "verifier"
    <3>1. LeadsTo(asked'.digest, z'.ke) /\ pc' \in {"draw", "check"}
      BY <1>9, <2>1, <2>3 DEF Drawn, NewHash, DrawPair, Program
    <3>2. ASSUME given = "own"
          PROVE  /\ pc' = "draw" => \E W : EndsWith(W, z'.ke) /\ <<hash, bitTracker>>' \in W
                 /\ pc' # "draw" => e' = z'.ke
      <4>1. PICK W : EndsWith(W, z.ke) /\ <<hash, bitTracker>> \in W
        BY <2>1, <2>3, <3>2 DEF Drawn
      <4>2. PICK d : d = z.ke
        OBVIOUS
      <4>3. /\ pc' = "draw" => <<hash, bitTracker>>' \in W
            /\ pc' # "draw" => e' = d
        BY <1>2, <1>9, <4>1, <4>2, WalkRepeated
      <4> QED
        BY <2>1, <4>1, <4>2, <4>3
    <3> QED
      BY <2>1, <2>3, <3>1, <3>2 DEF Drawn
  <2> QED
    BY <1>1, <2>2, <2>3
<1>10. CASE Open
  <2>1. /\ pc' = "written" /\ z'.ke = e /\ UNCHANGED <<role, given, asked, e>> /\ pc = "open"
    BY <1>10 DEF Open, inputVars, oracleVars
  <2>2. LeadsTo(asked'.digest, z'.ke) /\ role = "prover"
    BY <1>1, <2>1 DEF Drawn, VerifierPlaces, Stages
  <2> QED
    BY <2>1, <2>2 DEF Drawn
<1>11. CASE ReadRound
  <2>1. pc = "written" /\ pc' = "query" /\ UNCHANGED <<z, asked>>
    BY <1>11 DEF ReadRound, recordVars, oracleVars
  <2>2. LeadsTo(asked'.digest, z'.ke)
    BY <2>1 DEF Drawn
  <2> QED
    BY <2>1, <2>2 DEF Drawn
<1>12. CASE UNCHANGED vars
  <2>1. UNCHANGED <<pc, role, given, z, asked, hash, bitTracker, e>>
    BY <1>12 DEF vars, inputVars, recordVars, oracleVars
  <2> QED
    BY <2>1 DEF Drawn, Walking
<1> QED
  BY <1>4, <1>5, <1>6, <1>7, <1>8, <1>9, <1>10, <1>11, <1>12 DEF Next, Step, Finished

LEMMA FlippedBit == \A s : LowBit(s) \in {0, 1} /\ LowBit(Xor(s, {0})) = 1 - LowBit(s)
<1> SUFFICES ASSUME NEW s PROVE LowBit(s) \in {0, 1} /\ LowBit(Xor(s, {0})) = 1 - LowBit(s)
  OBVIOUS
<1>1. Cardinality({0}) = 1 /\ Cardinality({}) = 0
  BY FS_Singleton, FS_EmptySet
<1>2. CASE 0 \in s
  <2>1. s \cap {0} = {0} /\ Xor(s, {0}) \cap {0} = {}
    BY <1>2 DEF Xor
  <2> QED
    BY <1>1, <2>1 DEF LowBit
<1>3. CASE 0 \notin s
  <2>1. s \cap {0} = {} /\ Xor(s, {0}) \cap {0} = {0}
    BY <1>3 DEF Xor
  <2> QED
    BY <1>1, <2>1 DEF LowBit
<1> QED
  BY <1>2, <1>3

LEMMA RelatedNext == ProverInv /\ Scalars /\ Related /\ [Next]_vars => Related'
<1> SUFFICES ASSUME ProverInv, Scalars, Related, [Next]_vars PROVE Related'
  OBVIOUS
<1>1. /\ role \in {"prover", "verifier"} /\ (role = "prover" => pc \in ProverPlaces)
      /\ (role = "verifier" => pc \in VerifierPlaces) /\ (pc = "views" => role = "prover")
  BY DEF ProverInv, Placed, Scalars, Recorded
<1>2. ASSUME UNCHANGED <<in, c, given, asked, role>>,
             role = "prover" => pc # "hash"
                                /\ (pc' \in {"draw", "open", "written"}
                                      => pc \in {"draw", "open", "written"})
      PROVE  Related'
  <2>1. Query' = Query /\ Masked' = Masked
    BY <1>2 DEF Query, Masked
  <2>2. role = "prover" => c' = [b |-> c'.b, y |-> c'.y]
    BY <1>2 DEF Related
  <2>3. role = "prover" /\ pc' \in {"draw", "open", "written"} => asked'.query = Query'
    BY <1>2, <2>1 DEF Related
  <2>4. role = "verifier" =>
         /\ given = "own"    => Query = asked.query /\ c.y = SHA256(in.r) /\ LowBit(c.b) = Masked
         /\ given = "bit"    => LowBit(c.b) = 1 - Masked
         /\ given = "digest" => /\ c.y = [SHA256(in.r) EXCEPT ![1] = Xor(@, {0})]
                                /\ LowBit(c.b) = Masked
    BY DEF Related
  <2> QED
    BY <1>2, <2>1, <2>2, <2>3, <2>4 DEF Related
<1>3. CASE WriteCommitment
  <2>1. pc = "hash" /\ pc' = "share" /\ role' = role /\ c' = [b |-> c'.b, y |-> c'.y]
    BY <1>3 DEF WriteCommitment
  <2>2. role = "prover"
    BY <1>1, <2>1 DEF VerifierPlaces, Stages
  <2> QED
    BY <2>1, <2>2 DEF Related
<1>4. CASE ShareSecrets \/ SetupProver \/ Crash \/ ProveProduct \/ HashViews
  <2>1. /\ UNCHANGED <<in, c, given, asked, role>> /\ pc # "hash"
        /\ pc' \notin {"draw", "open", "written"}
    BY <1>4 DEF ShareSecrets, SetupProver, Crash, ProveProduct, HashViews, Hashed, inputVars,
                oracleVars
  <2> QED
    BY <1>2, <2>1
<1>5. CASE LoadBlock \/ ExpandWords \/ CompressBlock \/ FeedForward
  <2>1. /\ UNCHANGED <<in, c, given, asked, role>> /\ pc' \in Stages \cup {"rejected"}
        /\ pc \in Stages
    BY <1>5 DEF LoadBlock, ExpandWords, CompressBlock, FeedForward, Evaluate, inputVars,
                oracleVars, Stages
  <2> QED
    BY <1>2, <2>1 DEF Stages
<1>6. CASE VerifyCommit \/ SetupVerifier \/ SetupVerifierFails \/ CompareOutput \/ VerifyProduct
  <2>1. /\ UNCHANGED <<in, c, given, asked, role>> /\ pc' \notin {"draw", "open", "written"}
        /\ pc # "hash"
    BY <1>6 DEF VerifyCommit, SetupVerifier, SetupVerifierFails, CompareOutput, VerifyProduct,
                Goto, Hashed, inputVars, oracleVars
  <2> QED
    BY <1>2, <2>1
<1>7. CASE AskOracle
  <2>1. /\ UNCHANGED <<in, c, given, role>> /\ pc' = "draw" /\ pc = "query"
        /\ asked' = asked \/ asked'.query = Query
        /\ role = "prover" => asked'.query = Query
        /\ role = "verifier" => asked' = asked
    BY <1>7 DEF AskOracle, inputVars
  <2>2. Query' = Query /\ Masked' = Masked
    BY <2>1 DEF Query, Masked
  <2>3. CASE role = "prover"
    BY <2>1, <2>2, <2>3 DEF Related
  <2>4. CASE role = "verifier"
    BY <1>2, <2>1, <2>4
  <2> QED
    BY <1>1, <2>3, <2>4
<1>8. CASE NewHash \/ DrawPair \/ Open
  <2>1. /\ UNCHANGED <<in, c, given, asked, role>> /\ pc \in {"draw", "open"}
    BY <1>8 DEF NewHash, DrawPair, Open, inputVars, oracleVars
  <2> QED
    BY <1>2, <2>1
<1>9. CASE ReadRound
  <2>1. pc = "written" /\ role' = "verifier" /\ UNCHANGED <<in, asked>>
    BY <1>9 DEF ReadRound, oracleVars
  <2>2. role = "prover"
    BY <1>1, <2>1 DEF VerifierPlaces, Stages
  <2>3. /\ c = [b |-> c.b, y |-> c.y] /\ asked.query = Query /\ c.y = SHA256(in.r)
        /\ LowBit(c.b) = Masked /\ LowBit(c.b) \in {0, 1}
    BY <2>1, <2>2, FlippedBit DEF ProverInv, Committed, Related, Masked
  <2>4. Masked' = Masked
    BY <2>1 DEF Masked
  <2>5. CASE given' = "own"
    <3>1. c' = c
      BY <1>9, <2>5 DEF ReadRound
    <3>2. Query' = Query
      BY <3>1 DEF Query
    <3> QED
      BY <2>1, <2>3, <2>4, <2>5, <3>1, <3>2 DEF Related
  <2>6. CASE given' = "bit"
    <3>1. c' = [c EXCEPT !.b = Xor(@, {0})]
      BY <1>9, <2>6 DEF ReadRound
    <3>2. c'.b = Xor(c.b, {0})
      BY <2>3, <3>1
    <3> QED
      BY <2>1, <2>3, <2>4, <2>6, <3>2, FlippedBit DEF Related
  <2>7. CASE given' = "digest"
    <3>1. c' = [c EXCEPT !.y[1] = Xor(@, {0})]
      BY <1>9, <2>7 DEF ReadRound
    <3>2. c'.b = c.b /\ c'.y = [c.y EXCEPT ![1] = Xor(@, {0})]
      BY <2>3, <3>1
    <3> QED
      BY <2>1, <2>3, <2>4, <2>7, <3>2 DEF Related
  <2>8. given' \in {"own", "bit", "digest"}
    BY <1>9 DEF ReadRound
  <2> QED
    BY <2>5, <2>6, <2>7, <2>8
<1>10. CASE UNCHANGED vars
  <2>1. UNCHANGED <<pc, role, in, c, given, asked>>
    BY <1>10 DEF vars, inputVars, oracleVars
  <2>2. Query' = Query /\ Masked' = Masked
    BY <2>1 DEF Query, Masked
  <2> QED
    BY <2>1, <2>2 DEF Related
<1> QED
  BY <1>3, <1>4, <1>5, <1>6, <1>7, <1>8, <1>9, <1>10 DEF Next, Step, Finished

-----------------------------------------------------------------------------
(* The record and the verifier's evaluation.                                  *)

RecordOf(g) == [yp |-> OutputsOf(g), y2p |-> ProductsOf,
                h |-> [j \in Party |-> ViewDigest(j, ViewsOf(g)[j], j)]]

OpeningOf(g, d) == [ke |-> d, ke1 |-> Next3(d), ve |-> ViewsOf(g)[d],
                    ve1 |-> ViewsOf(g)[Next3(d)], re |-> d, re1 |-> Next3(d)]

(* What the prover's evaluation g has left in the record, and where the verifier's  *)
(* machine is in the same evaluation.                                          *)
PublishedBy(g) ==
  /\ IsEvaluation(g, x, NumBlocks) /\ a = RecordOf(g)
  /\ role = "prover" => views = ViewsOf(g)
  /\ role = "verifier" \/ pc = "written" => z.ke \in Party /\ z = OpeningOf(g, z.ke)
  /\ role = "verifier" /\ pc \in Stages \cup {"setup", "product"} => e = z.ke
  /\ role = "verifier" /\ pc \in Stages => Repeats(m, pc, g, x, blk, e)
  /\ pc = "product" => Repeats(m, "load", g, x, NumBlocks, e)

Published ==
  role = "verifier" \/ pc \in {"query", "draw", "open", "written"} => \E g : PublishedBy(g)

MachineFits(v) ==
  /\ v.e \in {Prover} \cup Party /\ v.ok \in BOOLEAN
  /\ v.rand \in 0 .. TapeWords /\ v.county \in 0 .. TapeWords
  /\ DOMAIN v.w = 0 .. 63 /\ DOMAIN v.reg = Registers

Machined == m # None => MachineFits(m)

Judged ==
  /\ pc = "product" /\ given = "digest" => e = 0
  /\ pc = "accepted" => given = "own" \/ (given = "digest" /\ e = 0)
  /\ pc = "rejected" =>
       faulted \/ given = "bit" \/ (given = "digest" /\ (e # 0 \/ e # z.ke))

(* Inductive.                                                                 *)
RoundInv ==
  /\ ProverInv /\ Scalars /\ Related /\ Drawn /\ Published /\ Machined /\ Judged

(* The machine of the prover at a place of a block.                             *)
LEMMA StageSound ==
  ASSUME NEW g, NEW sh, NEW b \in 0 .. NumBlocks, IsEvaluation(g, sh, b), NEW p \in Stages,
         p = "load" \/ b < NumBlocks
  PROVE  Sound(StageOf(p, g[b], sh, b), 0)
<1> DEFINE n == 0    u == StageOf(p, g[b], sh, b)
<1>1. CASE p = "load"
  <2>1. u = g[b]
    BY <1>1 DEF StageOf
  <2>2. Sound(g[b], 0)
    <3> HIDE DEF u, n
    <3> QED
      BY BlockStartSound
  <2> QED
    BY <2>1, <2>2
<1>2. CASE b < NumBlocks
  <2>1. \A q \in Stages : Sound(StageOf(q, g[b], sh, b), 0)
    <3> HIDE DEF u, n
    <3> QED
      BY <1>2, StagesSound
  <2> QED
    BY <2>1
<1> QED
  BY <1>1, <1>2

LEMMA EvaluationStarts ==
  ASSUME NEW g, NEW sh, IsEvaluation(g, sh, NumBlocks), NEW b \in 0 .. NumBlocks
  PROVE  IsEvaluation(g, sh, b)
BY Sizes DEF IsEvaluation

LEMMA RepeatsIs ==
  ASSUME NEW v, NEW p, NEW g, NEW sh, NEW b, NEW d \in Party, Repeats(v, p, g, sh, b, d)
  PROVE  /\ v.ok = TRUE /\ v.e = d /\ DOMAIN v.w = 0 .. 63 /\ DOMAIN v.reg = Registers
         /\ v.rand = StageOf(p, g[b], sh, b).rand /\ v.county = StageOf(p, g[b], sh, b).county
         /\ \A q \in Registers : v.reg[q] = Part(d, StageOf(p, g[b], sh, b).reg[q])
<1> DEFINE u == StageOf(p, g[b], sh, b)    E == {}    n == Known(p)    F == g[NumBlocks].views
<1>1. Follows(v, u, F, d, E, n)
  BY DEF Repeats, Mirrors
<1>2. Registers \ E = Registers
  OBVIOUS
<1> HIDE DEF u, E, n, F
<1>3. /\ v.ok = TRUE /\ v.e = d /\ DOMAIN v.w = 0 .. 63 /\ DOMAIN v.reg = Registers
      /\ v.rand = u.rand /\ v.county = u.county
      /\ \A q \in Registers : v.reg[q] = Part(d, u.reg[q])
  BY <1>1, <1>2 DEF Follows
<1> QED
  BY <1>3 DEF u

(* The counters stay below the size of a tape.                                 *)
LEMMA StageFits ==
  ASSUME NEW g, NEW sh, NEW b \in 0 .. NumBlocks, IsEvaluation(g, sh, b), NEW p \in Stages,
         p = "load" \/ b < NumBlocks
  PROVE  /\ MachineFits(StageOf(p, g[b], sh, b))
         /\ \A d \in Party : \A v : Repeats(v, p, g, sh, b, d) => MachineFits(v)
<1> DEFINE u == StageOf(p, g[b], sh, b)    n == 0
<1>1. Sound(u, n)
  <2> HIDE DEF u
  <2> QED
    BY StageSound DEF u
<1> HIDE DEF u, n
<1>2. /\ u.e = Prover /\ u.ok = TRUE /\ u.rand \in 0 .. TapeWords /\ u.county \in 0 .. TapeWords
      /\ DOMAIN u.w = 0 .. 63 /\ DOMAIN u.reg = Registers
  BY <1>1 DEF Sound
<1>3. ASSUME NEW v, NEW d \in Party, Repeats(v, p, g, sh, b, d) PROVE MachineFits(v)
  <2> DEFINE E == {}    l == Known(p)    F == g[NumBlocks].views
  <2>1. Follows(v, u, F, d, E, l)
    BY <1>3 DEF Repeats, Mirrors, u
  <2> HIDE DEF E, l, F
  <2>2. /\ v.ok = TRUE /\ v.e = d /\ DOMAIN v.w = 0 .. 63 /\ DOMAIN v.reg = Registers
        /\ v.rand = u.rand /\ v.county = u.county
    BY <2>1 DEF Follows
  <2> QED
    BY <1>2, <2>2 DEF MachineFits
<1> QED
  BY <1>2, <1>3 DEF MachineFits, u

(* The two opened views are the prover's.                                      *)
LEMMA OpenedViews ==
  ASSUME NEW g, e \in Party, z = OpeningOf(g, e)
  PROVE  /\ z.ke = e /\ z.ke1 = Next3(e)
         /\ \A j \in Parties(e) :
              /\ j \in Party /\ (IF j = e THEN z.ke ELSE z.ke1) = j
              /\ OpenedView(j).x = x[j] /\ OpenedView(j).msg = msg[j]
              /\ \A row \in Rows : OpenedView(j).y[row] = g[NumBlocks].views[row][j]
<1>1. /\ z.ke = e /\ z.ke1 = Next3(e) /\ z.ve = ViewsOf(g)[e] /\ z.ve1 = ViewsOf(g)[Next3(e)]
  BY DEF OpeningOf
<1>2. Parties(e) = {e, Next3(e)} /\ Parties(e) \subseteq Party
  BY OpenedParties
<1>3. \A j \in Parties(e) : OpenedView(j) = ViewsOf(g)[j] /\ (IF j = e THEN z.ke ELSE z.ke1) = j
  BY <1>1, <1>2 DEF OpenedView
<1>4. \A j \in Party : /\ ViewsOf(g)[j].x = x[j] /\ ViewsOf(g)[j].msg = msg[j]
                       /\ \A row \in Rows : ViewsOf(g)[j].y[row] = g[NumBlocks].views[row][j]
  BY DEF ViewsOf
<1> QED
  BY <1>1, <1>2, <1>3, <1>4

(* The verifier's evaluation begins where the prover's did.                     *)
LEMMA VerifierSetUp ==
  ASSUME NEW g, PublishedBy(g), SetupVerifier, e \in Party
  PROVE  Repeats(m', "load", g, x, 0, e)
<1> DEFINE F == g[NumBlocks].views
           rows == [row \in Rows |-> [j \in Parties(e) |-> OpenedView(j).y[row]]]
           keys == [j \in Parties(e) |-> IF j = e THEN z.ke ELSE z.ke1]
           rows2 == [row \in Rows |-> Part(e, F[row])]
           keys2 == [j \in Parties(e) |-> j]
<1>1. m' = Machine(e, keys, rows)
  BY DEF SetupVerifier
<1>2. z = OpeningOf(g, e)
  BY DEF PublishedBy, SetupVerifier
<1>3. \A j \in Parties(e) :
        /\ (IF j = e THEN z.ke ELSE z.ke1) = j
        /\ \A row \in Rows : OpenedView(j).y[row] = F[row][j]
  BY <1>2, OpenedViews
<1> HIDE DEF F
<1>4. keys = keys2
  BY <1>3
<1>5. rows = rows2
  <2> SUFFICES ASSUME NEW row \in Rows
               PROVE  [j \in Parties(e) |-> OpenedView(j).y[row]] = Part(e, F[row])
    BY Zenon
  <2> QED
    BY <1>3 DEF Part
<1>6. Mirrors(Machine(e, keys2, rows2), ProverStart, F, e, 0)
  <2>1. PICK d \in Party : d = e
    OBVIOUS
  <2>2. Mirrors(Machine(d, [j \in Parties(d) |-> j], [row \in Rows |-> Part(d, F[row])]),
                ProverStart, F, d, 0)
    BY StartMirrors
  <2> QED
    BY <2>1, <2>2
<1>7. StageOf("load", g[0], x, 0) = ProverStart /\ Known("load") = 0
  BY DEF StageOf, Known, PublishedBy, IsEvaluation
<1> HIDE DEF keys, rows, keys2, rows2
<1> QED
  BY <1>1, <1>4, <1>5, <1>6, <1>7 DEF Repeats, F

(* A stage of the verifier repeats the prover's, so that no check fails.         *)
LEMMA VerifierSteps ==
  ASSUME ProverInv, e \in Party, role = "verifier", NEW g, PublishedBy(g),
         LoadBlock \/ ExpandWords \/ CompressBlock \/ FeedForward
  PROVE  pc' \in Stages /\ Repeats(m', pc', g, x, blk', e)
<1>1. pc \in Stages /\ NumBlocks \in Nat
  BY Sizes DEF LoadBlock, ExpandWords, CompressBlock, FeedForward, Stages
<1>2. blk \in 0 .. NumBlocks - 1
  BY <1>1, Sizes DEF ProverInv, Counted, LoadBlock, ExpandWords, CompressBlock, FeedForward
<1>3. Repeats(m, pc, g, x, blk, e) /\ z = OpeningOf(g, e) /\ IsEvaluation(g, x, NumBlocks)
  BY <1>1 DEF PublishedBy
<1>4. m.e = e /\ \A j \in Parties(e) : InputShare(j) = x[j]
  <2>1. m.e = e
    BY <1>3, RepeatsIs
  <2>2. \A j \in Parties(e) : OpenedView(j).x = x[j]
    BY <1>3, OpenedViews
  <2> QED
    BY <2>1, <2>2 DEF InputShare
<1>5. /\ Repeats(m, "load", g, x, blk, e) => Repeats(Loaded(m, x, blk), "expand", g, x, blk, e)
      /\ Repeats(m, "expand", g, x, blk, e)
           => Repeats(Expansion(m, CheckExpand), "compress", g, x, blk, e)
      /\ Repeats(m, "compress", g, x, blk, e)
           => Repeats(Compression(m, CheckCompress), "feed", g, x, blk, e)
      /\ Repeats(m, "feed", g, x, blk, e) => Repeats(Feeding(m), "load", g, x, blk + 1, e)
  <2>1. PICK d \in Party : d = e
    OBVIOUS
  <2>2. PICK b \in 0 .. NumBlocks - 1 : b = blk
    BY <1>2
  <2>3. PICK sh, v : sh = x /\ v = m
    OBVIOUS
  <2>4. IsEvaluation(g, sh, NumBlocks)
    BY <1>3, <2>3
  <2>5. /\ Repeats(v, "load", g, sh, b, d) => Repeats(Loaded(v, sh, b), "expand", g, sh, b, d)
        /\ Repeats(v, "expand", g, sh, b, d)
             => Repeats(Expansion(v, CheckExpand), "compress", g, sh, b, d)
        /\ Repeats(v, "compress", g, sh, b, d)
             => Repeats(Compression(v, CheckCompress), "feed", g, sh, b, d)
        /\ Repeats(v, "feed", g, sh, b, d) => Repeats(Feeding(v), "load", g, sh, b + 1, d)
    BY <2>4, StagesRepeat
  <2> QED
    BY <2>1, <2>2, <2>3, <2>5
<1>6. \A p, b : Repeats(m', p, g, x, b, e) => m'.ok = TRUE
  <2>1. PICK d \in Party : d = e
    OBVIOUS
  <2>2. PICK v, sh : v = m' /\ sh = x
    OBVIOUS
  <2>3. \A p, b : Repeats(v, p, g, sh, b, d) => v.ok = TRUE
    BY RepeatsIs
  <2> QED
    BY <2>1, <2>2, <2>3
<1>7. CASE LoadBlock
  <2>1. m' = Loaded(m, x, blk)
    <3> DEFINE w1 == [j \in 0 .. 63 |->
                 IF j < 16 THEN [p \in Parties(m.e) |-> ChunkWord(InputShare(p), blk, j)]
                           ELSE Unassigned(m.e)]
               w2 == [j \in 0 .. 63 |->
                 IF j < 16 THEN [p \in Parties(m.e) |-> ChunkWord(x[p], blk, j)]
                           ELSE Unassigned(m.e)]
    <3>1. \A j : [p \in Parties(m.e) |-> ChunkWord(InputShare(p), blk, j)]
                   = [p \in Parties(m.e) |-> ChunkWord(x[p], blk, j)]
      BY <1>4
    <3>2. w1 = w2
      BY <3>1
    <3>3. m' = [m EXCEPT !.w = w1] /\ Loaded(m, x, blk) = [m EXCEPT !.w = w2]
      BY <1>7 DEF LoadBlock, Evaluate, Loaded
    <3> HIDE DEF w1, w2
    <3> QED
      BY <3>2, <3>3
  <2>2. Repeats(m', "expand", g, x, blk, e)
    BY <1>3, <1>5, <1>7, <2>1 DEF LoadBlock
  <2>3. blk' = blk /\ pc' = "expand"
    BY <1>6, <1>7, <2>2 DEF LoadBlock, Evaluate
  <2> QED
    BY <2>2, <2>3 DEF Stages
<1>8. CASE ExpandWords
  <2>1. m' = Expansion(m, CheckExpand) /\ pc = "expand"
    BY <1>8 DEF ExpandWords, Evaluate, Expansion, Program
  <2>2. Repeats(m', "compress", g, x, blk, e)
    BY <1>3, <1>5, <2>1
  <2>3. blk' = blk /\ pc' = "compress"
    BY <1>6, <1>8, <2>2 DEF ExpandWords, Evaluate
  <2> QED
    BY <2>2, <2>3 DEF Stages
<1>9. CASE CompressBlock
  <2>1. m' = Compression(m, CheckCompress) /\ pc = "compress"
    BY <1>9 DEF CompressBlock, Evaluate, Compression, Program
  <2>2. Repeats(m', "feed", g, x, blk, e)
    BY <1>3, <1>5, <2>1
  <2>3. blk' = blk /\ pc' = "feed"
    BY <1>6, <1>9, <2>2 DEF CompressBlock, Evaluate
  <2> QED
    BY <2>2, <2>3 DEF Stages
<1>10. CASE FeedForward
  <2>1. m' = Feeding(m) /\ pc = "feed"
    BY <1>10 DEF FeedForward, Evaluate, Feeding
  <2>2. Repeats(m', "load", g, x, blk + 1, e)
    BY <1>3, <1>5, <2>1
  <2>3. blk' = blk + 1 /\ pc' = "load"
    BY <1>6, <1>10, <2>2 DEF FeedForward, Evaluate
  <2> QED
    BY <2>2, <2>3 DEF Stages
<1> QED
  BY <1>7, <1>8, <1>9, <1>10

(* What the record and the opening still owe to the evaluation after a step.     *)
LEMMA PublishedKept ==
  ASSUME NEW g, IsEvaluation(g, x, NumBlocks), a' = RecordOf(g), UNCHANGED <<x, msg>>,
         role' = "prover" => views' = ViewsOf(g),
         role' = "verifier" \/ pc' = "written" => z'.ke \in Party /\ z' = OpeningOf(g, z'.ke),
         role' = "verifier" /\ pc' \in Stages \cup {"setup", "product"} => e' = z'.ke,
         role' = "verifier" /\ pc' \in Stages => Repeats(m', pc', g, x, blk', e'),
         pc' = "product" => Repeats(m', "load", g, x, NumBlocks, e')
  PROVE  Published'
<1>1. RecordOf(g)' = RecordOf(g) /\ ViewsOf(g)' = ViewsOf(g)
  BY DEF RecordOf, ProductsOf, ViewsOf
<1>2. \A d : [ke |-> d, ke1 |-> Next3(d), ve |-> ViewsOf(g)[d],
              ve1 |-> ViewsOf(g)[Next3(d)], re |-> d, re1 |-> Next3(d)] = OpeningOf(g, d)
  BY DEF OpeningOf
<1>3. OpeningOf(g, z.ke)' = OpeningOf(g, z'.ke)
  BY <1>1, <1>2 DEF OpeningOf
<1>4. PublishedBy(g)'
  BY <1>1, <1>3 DEF PublishedBy
<1> QED
  BY <1>4 DEF Published

(* The challenge that the opened key answers is the verifier's own.              *)
LEMMA CommitVerified ==
  ASSUME NEW g, PublishedBy(g), VerifyCommit, e \in Party, role = "verifier"
  PROVE  /\ pc' = "setup" => e = z.ke
         /\ pc' = "setup" \/ (pc' = "rejected" /\ e # z.ke)
<1>1. /\ a.h = [j \in Party |-> ViewDigest(j, ViewsOf(g)[j], j)] /\ z = OpeningOf(g, z.ke)
      /\ z.ke \in Party
  BY DEF PublishedBy, RecordOf
<1>2. pc' = IF /\ a.h[e] = ViewDigest(z.ke, z.ve, z.re)
               /\ a.h[Next3(e)] = ViewDigest(z.ke1, z.ve1, z.re1)
            THEN "setup" ELSE "rejected"
  BY DEF VerifyCommit, Goto
<1>3. Next3(e) \in Party
  BY OpenedParties
<1>4. a.h[e] = ViewDigest(e, ViewsOf(g)[e], e)
      /\ a.h[Next3(e)] = ViewDigest(Next3(e), ViewsOf(g)[Next3(e)], Next3(e))
  BY <1>1, <1>3
<1>5. ASSUME a.h[e] = ViewDigest(z.ke, z.ve, z.re) PROVE e = z.ke
  BY <1>4, <1>5 DEF ViewDigest
<1>6. ASSUME e = z.ke
      PROVE  /\ z.ke = e /\ z.ve = ViewsOf(g)[e] /\ z.re = e
             /\ z.ke1 = Next3(e) /\ z.ve1 = ViewsOf(g)[Next3(e)] /\ z.re1 = Next3(e)
  <2>1. z = OpeningOf(g, e)
    BY <1>1, <1>6
  <2> QED
    BY <1>6, <2>1 DEF OpeningOf
<1>7. CASE e = z.ke
  <2>1. pc' = "setup"
    BY <1>2, <1>4, <1>6, <1>7
  <2> QED
    BY <1>7, <2>1
<1>8. CASE e # z.ke
  <2>1. pc' = "rejected"
    BY <1>2, <1>5, <1>8
  <2> QED
    BY <1>8, <2>1
<1> QED
  BY <1>7, <1>8

LEMMA PublishedNext ==
  ProverInv /\ Scalars /\ Published /\ [Next]_vars => Published'
<1> SUFFICES ASSUME ProverInv, Scalars, Published, [Next]_vars PROVE Published'
  OBVIOUS
<1>1. /\ role \in {"prover", "verifier"} /\ (role = "prover" => pc \in ProverPlaces)
      /\ (role = "verifier" => pc \in VerifierPlaces) /\ (pc = "views" => role = "prover")
      /\ e \in Party
  BY DEF ProverInv, Placed, Scalars, Recorded
<1>2. "setup" \notin Stages /\ "product" \notin Stages /\ "written" \notin Stages
  BY DEF Stages
<1>3. CASE WriteCommitment \/ ShareSecrets \/ SetupProver \/ Crash \/ ProveProduct
  <2>1. /\ role = "prover" /\ role' = role
        /\ pc' \in {"share", "setup", "load", "aborted", "views"}
    BY <1>1, <1>3 DEF WriteCommitment, ShareSecrets, SetupProver, Crash, ProveProduct,
                      VerifierPlaces, Stages
  <2> QED
    BY <2>1 DEF Published
<1>4. CASE HashViews
  <2>1. /\ pc = "views" /\ pc' = "query" /\ role = "prover"
        /\ UNCHANGED <<role, x, msg, views>>
        /\ a' = [a EXCEPT !.h = [j \in Party |-> ViewDigest(j, views[j], j)]]
    BY <1>1, <1>4 DEF HashViews, shareVars
  <2>2. PICK g : /\ IsEvaluation(g, x, NumBlocks)
                 /\ a = [yp |-> OutputsOf(g), y2p |-> ProductsOf, h |-> None]
                 /\ views = ViewsOf(g)
    BY <2>1 DEF ProverInv, Recorded
  <2>3. a' = RecordOf(g)
    <3>1. a' = [yp |-> OutputsOf(g), y2p |-> ProductsOf,
                h |-> [j \in Party |-> ViewDigest(j, views[j], j)]]
      BY <2>1, <2>2
    <3> QED
      BY <2>2, <3>1 DEF RecordOf
  <2> QED
    BY <1>2, <2>1, <2>2, <2>3, PublishedKept DEF Stages
<1>5. CASE AskOracle \/ NewHash \/ DrawPair
  <2>1. /\ pc \in {"query", "draw"} /\ UNCHANGED <<role, x, msg, views, a, z>>
        /\ pc' \in {"draw", "open", "check"}
    BY <1>5 DEF AskOracle, NewHash, DrawPair, shareVars, recordVars, Program
  <2>2. PICK g : PublishedBy(g)
    BY <2>1 DEF Published
  <2> QED
    BY <1>2, <2>1, <2>2, PublishedKept DEF PublishedBy, Stages
<1>6. CASE Open
  <2>1. /\ pc = "open" /\ pc' = "written" /\ role = "prover"
        /\ UNCHANGED <<role, x, msg, views, a>>
        /\ z' = [ke |-> e, ke1 |-> Next3(e), ve |-> views[e], ve1 |-> views[Next3(e)],
                 re |-> e, re1 |-> Next3(e)]
    BY <1>1, <1>6 DEF Open, shareVars, VerifierPlaces, Stages
  <2>2. PICK g : PublishedBy(g)
    BY <2>1 DEF Published
  <2>3. IsEvaluation(g, x, NumBlocks) /\ a = RecordOf(g) /\ views = ViewsOf(g)
    BY <2>1, <2>2 DEF PublishedBy
  <2>4. z' = OpeningOf(g, e) /\ z'.ke = e
    BY <2>1, <2>3 DEF OpeningOf
  <2> QED
    BY <1>1, <1>2, <2>1, <2>3, <2>4, PublishedKept DEF Stages
<1>7. CASE ReadRound
  <2>1. /\ pc = "written" /\ pc' = "query" /\ role' = "verifier"
        /\ UNCHANGED <<x, msg, a, z>>
    BY <1>7 DEF ReadRound, recordVars
  <2>2. PICK g : PublishedBy(g)
    BY <2>1 DEF Published
  <2> QED
    BY <2>1, <2>2, PublishedKept DEF PublishedBy, Stages
<1>8. CASE VerifyCommit
  <2>1. /\ pc = "check" /\ UNCHANGED <<role, x, msg, views, a, z, e>> /\ role = "verifier"
    BY <1>1, <1>8 DEF VerifyCommit, shareVars, recordVars, oracleVars, ProverPlaces, Stages
  <2>2. PICK g : PublishedBy(g)
    BY <2>1 DEF Published
  <2>3. pc' \in {"setup", "rejected"} /\ (pc' = "setup" => e = z.ke)
    BY <1>1, <1>8, <2>1, <2>2, CommitVerified
  <2> QED
    BY <2>1, <2>2, <2>3, PublishedKept DEF PublishedBy, Stages
<1>9. CASE SetupVerifier
  <2>1. /\ pc = "setup" /\ pc' = "load" /\ UNCHANGED <<role, x, msg, views, a, z, e>>
        /\ role = "verifier" /\ blk' = 0
    BY <1>9 DEF SetupVerifier, shareVars, recordVars, oracleVars
  <2>2. PICK g : PublishedBy(g)
    BY <2>1 DEF Published
  <2>3. Repeats(m', "load", g, x, 0, e)
    BY <1>1, <1>9, <2>2, VerifierSetUp
  <2>4. Repeats(m', pc', g, x, blk', e')
    BY <2>1, <2>3
  <2> QED
    BY <2>1, <2>2, <2>4, PublishedKept DEF PublishedBy, Stages
<1>10. CASE LoadBlock \/ ExpandWords \/ CompressBlock \/ FeedForward
  <2>1. /\ UNCHANGED <<role, x, msg, views, a, z, e>> /\ pc \in Stages
        /\ pc' \in Stages \cup {"rejected"}
    BY <1>10 DEF LoadBlock, ExpandWords, CompressBlock, FeedForward, Evaluate, shareVars,
                 recordVars, oracleVars, Stages
  <2>2. CASE role = "prover"
    BY <2>1, <2>2 DEF Published, Stages
  <2>3. CASE role = "verifier"
    <3>1. PICK g : PublishedBy(g)
      BY <2>3 DEF Published
    <3>2. pc' \in Stages /\ Repeats(m', pc', g, x, blk', e)
      BY <1>1, <1>10, <2>3, <3>1, VerifierSteps
    <3>3. e = z.ke
      BY <2>1, <2>3, <3>1 DEF PublishedBy
    <3> QED
      BY <1>2, <2>1, <2>3, <3>1, <3>2, <3>3, PublishedKept DEF PublishedBy
  <2> QED
    BY <1>1, <2>2, <2>3
<1>11. CASE CompareOutput
  <2>1. /\ pc = "load" /\ blk = NumBlocks /\ role = "verifier"
        /\ UNCHANGED <<role, x, msg, views, a, z, e, m>> /\ pc' \in {"product", "rejected"}
    BY <1>11 DEF CompareOutput, Hashed, Goto, shareVars, recordVars, oracleVars, loopVars
  <2>2. PICK g : PublishedBy(g)
    BY <2>1 DEF Published
  <2>3. Repeats(m, "load", g, x, NumBlocks, e) /\ e = z.ke
    BY <2>1, <2>2 DEF PublishedBy, Stages
  <2> QED
    BY <2>1, <2>2, <2>3, PublishedKept DEF PublishedBy, Stages
<1>12. CASE SetupVerifierFails \/ VerifyProduct
  <2>1. /\ pc \in {"setup", "product"} /\ UNCHANGED <<role, x, msg, views, a, z>>
        /\ pc' \in {"accepted", "rejected"} /\ role = "verifier"
    BY <1>1, <1>12 DEF SetupVerifierFails, VerifyProduct, Goto, shareVars, recordVars,
                       ProverPlaces, Stages
  <2>2. PICK g : PublishedBy(g)
    BY <2>1 DEF Published
  <2> QED
    BY <2>1, <2>2, PublishedKept DEF PublishedBy, Stages
<1>13. CASE UNCHANGED vars
  <2>1. UNCHANGED <<pc, role, x, msg, views, a, z, e, m, blk>>
    BY <1>13 DEF vars, shareVars, recordVars, oracleVars, loopVars
  <2>2. CASE role = "verifier" \/ pc \in {"query", "draw", "open", "written"}
    <3>1. PICK g : PublishedBy(g)
      BY <2>2 DEF Published
    <3> QED
      BY <2>1, <3>1, PublishedKept DEF PublishedBy
  <2>3. CASE ~(role = "verifier" \/ pc \in {"query", "draw", "open", "written"})
    BY <2>1, <2>3 DEF Published
  <2> QED
    BY <2>2, <2>3
<1> QED
  BY <1>3, <1>4, <1>5, <1>6, <1>7, <1>8, <1>9, <1>10, <1>11, <1>12, <1>13
     DEF Next, Step, Finished

LEMMA MachinedNext ==
  ProverInv /\ ProverInv' /\ Scalars /\ Scalars' /\ Published /\ Published' /\ Machined
    /\ [Next]_vars => Machined'
<1> SUFFICES ASSUME ProverInv, ProverInv', Scalars, Scalars', Published, Published', Machined,
                    [Next]_vars
             PROVE  Machined'
  OBVIOUS
<1>1. ASSUME pc' \in Stages PROVE MachineFits(m')
  <2>1. PICK b \in 0 .. NumBlocks : b = blk'
    BY DEF ProverInv, Counted
  <2>2. PICK p \in Stages : p = pc'
    BY <1>1
  <2>3. PICK sh : sh = x'
    OBVIOUS
  <2>4. NumBlocks \in Nat /\ (p = "load" \/ b < NumBlocks)
    BY <2>1, <2>2, Sizes DEF ProverInv, Counted
  <2>5. CASE role' = "prover"
    <3>1. PICK g : IsEvaluation(g, sh, b) /\ m' = StageOf(p, g[b], sh, b)
      BY <1>1, <2>1, <2>2, <2>3, <2>5 DEF ProverInv, Proving
    <3>2. MachineFits(StageOf(p, g[b], sh, b))
      BY <2>4, <3>1, StageFits
    <3> QED
      BY <3>1, <3>2
  <2>6. CASE role' = "verifier"
    <3>1. PICK g : IsEvaluation(g, sh, NumBlocks) /\ Repeats(m', p, g, sh, b, e')
      BY <1>1, <2>1, <2>2, <2>3, <2>6 DEF Published, PublishedBy
    <3>2. PICK d \in Party : d = e'
      BY DEF Scalars
    <3>3. IsEvaluation(g, sh, b)
      BY <3>1, EvaluationStarts
    <3>4. \A v : Repeats(v, p, g, sh, b, d) => MachineFits(v)
      BY <2>4, <3>3, StageFits
    <3> QED
      BY <3>1, <3>2, <3>4
  <2>7. role' \in {"prover", "verifier"}
    BY DEF ProverInv, Placed
  <2> QED
    BY <2>5, <2>6, <2>7
<1>2. ASSUME m' = m \/ m' = None PROVE Machined'
  <2>1. m' # None => MachineFits(m')
    BY <1>2 DEF Machined
  <2> QED
    BY <2>1 DEF Machined, MachineFits
<1>3. ASSUME pc' \in Stages PROVE Machined'
  BY <1>1, <1>3 DEF Machined, MachineFits
<1>4. CASE SetupProver \/ SetupVerifier
  BY <1>3, <1>4 DEF SetupProver, SetupVerifier, Stages
<1>5. CASE LoadBlock \/ ExpandWords \/ CompressBlock \/ FeedForward
  <2>1. CASE role = "prover"
    <3>1. role' = "prover" /\ pc' \in Stages \cup {"rejected"}
      BY <1>5, <2>1 DEF LoadBlock, ExpandWords, CompressBlock, FeedForward, Evaluate, Stages
    <3>2. pc' \in Stages
      BY <3>1 DEF ProverInv, Placed, ProverPlaces
    <3> QED
      BY <1>3, <3>2
  <2>2. CASE role = "verifier"
    <3>1. PICK g : PublishedBy(g)
      BY <2>2 DEF Published
    <3>2. pc' \in Stages
      BY <1>5, <2>2, <3>1, VerifierSteps DEF Scalars
    <3> QED
      BY <1>3, <3>2
  <2>3. role \in {"prover", "verifier"}
    BY DEF ProverInv, Placed
  <2> QED
    BY <2>1, <2>2, <2>3
<1>6. CASE \/ WriteCommitment \/ ShareSecrets \/ Crash \/ ProveProduct \/ HashViews \/ AskOracle
           \/ NewHash \/ DrawPair \/ Open \/ ReadRound \/ VerifyCommit \/ SetupVerifierFails
           \/ CompareOutput \/ VerifyProduct
  <2>1. m' = m \/ m' = None
    BY <1>6 DEF WriteCommitment, ShareSecrets, Crash, ProveProduct, HashViews, AskOracle, NewHash,
                DrawPair, Open, ReadRound, VerifyCommit, SetupVerifierFails, CompareOutput,
                VerifyProduct, loopVars
  <2> QED
    BY <1>2, <2>1
<1>7. CASE UNCHANGED vars
  BY <1>2, <1>7 DEF vars, loopVars
<1> QED
  BY <1>4, <1>5, <1>6, <1>7 DEF Next, Step, Finished

(* The verifier's output registers hold the output shares of the prover.          *)
LEMMA OutputsRepeated ==
  ASSUME NEW g, PublishedBy(g), Repeats(m, "load", g, x, NumBlocks, e), e \in Party
  PROVE  \A j \in Parties(e), q \in 1 .. 8 :
           m.reg[H8[q]][j] = g[NumBlocks].reg[H8[q]][j]
<1> DEFINE u == g[NumBlocks]    E == {}    l == 0    F == g[NumBlocks].views
<1>1. StageOf("load", g[NumBlocks], x, NumBlocks) = u /\ Known("load") = l
  BY DEF StageOf, Known
<1>2. Follows(m, u, F, e, E, l)
  BY <1>1 DEF Repeats, Mirrors
<1>3. \A q \in Registers \ E : m.reg[q] = Part(e, u.reg[q])
  <2> HIDE DEF u, E, l, F
  <2> QED
    BY <1>2 DEF Follows
<1>4. \A q \in 1 .. 8 : m.reg[H8[q]] = Part(e, u.reg[H8[q]])
  BY <1>3, EightNames
<1> HIDE DEF u
<1>5. \A j \in Parties(e), q \in 1 .. 8 : m.reg[H8[q]][j] = u.reg[H8[q]][j]
  BY <1>4 DEF Part
<1> QED
  BY <1>5 DEF u

(* The output shares that the verifier compares with: of the parties in the      *)
(* record always, of party 2 where the digest is the committed one.             *)
LEMMA OutputShares ==
  ASSUME ProverInv, NEW g, PublishedBy(g), pc \notin {"hash", "share"}
  PROVE  /\ \A q \in 1 .. 8 :
              /\ OutputShare(0, q) = g[NumBlocks].reg[H8[q]][0]
              /\ OutputShare(1, q) = g[NumBlocks].reg[H8[q]][1]
              /\ OutputShare(2, q) = g[NumBlocks].reg[H8[q]][2] <=> c.y[q] = SHA256(in.r)[q]
         /\ DOMAIN SHA256(in.r) = 1 .. 8
<1>1. IsEvaluation(g, x, NumBlocks) /\ a.yp = OutputsOf(g) /\ Recon(x) = in.r
  BY DEF PublishedBy, RecordOf, ProverInv, Shared, Sharing
<1>2. ChainWords(g[NumBlocks]) = SHA256(in.r)
  BY <1>1, EvaluationHashes
<1>3. ASSUME NEW q \in 1 .. 8
      PROVE  /\ OutputShare(0, q) = g[NumBlocks].reg[H8[q]][0]
             /\ OutputShare(1, q) = g[NumBlocks].reg[H8[q]][1]
             /\ OutputShare(2, q) = g[NumBlocks].reg[H8[q]][2] <=> c.y[q] = SHA256(in.r)[q]
  <2> DEFINE s == g[NumBlocks].reg[H8[q]]
  <2>1. a.yp[0][q] = s[0] /\ a.yp[1][q] = s[1]
    BY <1>1 DEF OutputsOf
  <2>2. SHA256(in.r)[q] = Recon(s)
    BY <1>2 DEF ChainWords
  <2> HIDE DEF s
  <2>3. /\ OutputShare(0, q) = s[0] /\ OutputShare(1, q) = s[1]
        /\ OutputShare(2, q) = Xor(c.y[q], Xor(s[0], s[1]))
    BY <2>1 DEF OutputShare
  <2>4. \A w0, w1, w2, y : Xor(y, Xor(w0, w1)) = w2 <=> y = Xor(Xor(w0, w1), w2)
    <3> SUFFICES ASSUME NEW w0, NEW w1, NEW w2, NEW y
                 PROVE  Xor(y, Xor(w0, w1)) = w2 <=> y = Xor(Xor(w0, w1), w2)
      OBVIOUS
    <3>1. ASSUME Xor(y, Xor(w0, w1)) = w2 PROVE y = Xor(Xor(w0, w1), w2)
      BY <3>1 DEF Xor
    <3>2. ASSUME y = Xor(Xor(w0, w1), w2) PROVE Xor(y, Xor(w0, w1)) = w2
      BY <3>2 DEF Xor
    <3> QED
      BY <3>1, <3>2
  <2>5. OutputShare(2, q) = s[2] <=> c.y[q] = SHA256(in.r)[q]
    BY <2>2, <2>3, <2>4 DEF Recon
  <2> QED
    BY <2>3, <2>5 DEF s
<1>4. DOMAIN SHA256(in.r) = 1 .. 8
  BY <1>2 DEF ChainWords
<1> QED
  BY <1>3, <1>4

LEMMA OutputsCompared ==
  ASSUME ProverInv, Scalars, Related, Published, CompareOutput
  PROVE  /\ pc' \in {"product", "rejected"}
         /\ given = "own" => pc' = "product"
         /\ given = "digest" => pc' = IF e = 0 THEN "product" ELSE "rejected"
<1>1. /\ pc = "load" /\ blk = NumBlocks /\ role = "verifier" /\ e \in Party
      /\ pc' = IF \A j \in Parties(e), q \in 1 .. 8 : m.reg[H8[q]][j] = OutputShare(j, q)
               THEN "product" ELSE "rejected"
  BY DEF CompareOutput, Hashed, Goto, Scalars
<1>2. PICK g : PublishedBy(g)
  BY <1>1 DEF Published
<1>3. Repeats(m, "load", g, x, NumBlocks, e)
  BY <1>1, <1>2 DEF PublishedBy, Stages
<1>4. \A j \in Parties(e), q \in 1 .. 8 : m.reg[H8[q]][j] = g[NumBlocks].reg[H8[q]][j]
  BY <1>1, <1>2, <1>3, OutputsRepeated
<1>5. /\ \A q \in 1 .. 8 :
           /\ OutputShare(0, q) = g[NumBlocks].reg[H8[q]][0]
           /\ OutputShare(1, q) = g[NumBlocks].reg[H8[q]][1]
           /\ OutputShare(2, q) = g[NumBlocks].reg[H8[q]][2] <=> c.y[q] = SHA256(in.r)[q]
      /\ DOMAIN SHA256(in.r) = 1 .. 8
  BY <1>1, <1>2, OutputShares
<1>6. Parties(e) \subseteq {0, 1, 2}
  BY <1>1, OpenedParties DEF Party
<1>7. ASSUME given = "own" PROVE pc' = "product"
  <2>1. c.y = SHA256(in.r)
    BY <1>1, <1>7 DEF Related
  <2>2. \A j \in Parties(e), q \in 1 .. 8 : m.reg[H8[q]][j] = OutputShare(j, q)
    <3> SUFFICES ASSUME NEW j \in Parties(e), NEW q \in 1 .. 8
                 PROVE  m.reg[H8[q]][j] = OutputShare(j, q)
      OBVIOUS
    <3>1. m.reg[H8[q]][j] = g[NumBlocks].reg[H8[q]][j]
      BY <1>4
    <3>2. c.y[q] = SHA256(in.r)[q]
      BY <2>1
    <3>3. /\ OutputShare(0, q) = g[NumBlocks].reg[H8[q]][0]
          /\ OutputShare(1, q) = g[NumBlocks].reg[H8[q]][1]
          /\ OutputShare(2, q) = g[NumBlocks].reg[H8[q]][2]
      BY <1>5, <3>2
    <3>4. j = 0 \/ j = 1 \/ j = 2
      BY <1>6
    <3> QED
      BY <3>1, <3>3, <3>4
  <2> QED
    BY <1>1, <2>2
<1>8. CASE e = 0
  <2>1. Parties(e) = {0, 1}
    BY <1>1, <1>8, OpenedParties DEF Next3
  <2>2. \A j \in Parties(e), q \in 1 .. 8 : m.reg[H8[q]][j] = OutputShare(j, q)
    <3> SUFFICES ASSUME NEW j \in Parties(e), NEW q \in 1 .. 8
                 PROVE  m.reg[H8[q]][j] = OutputShare(j, q)
      OBVIOUS
    <3>1. m.reg[H8[q]][j] = g[NumBlocks].reg[H8[q]][j]
      BY <1>4
    <3>2. /\ OutputShare(0, q) = g[NumBlocks].reg[H8[q]][0]
          /\ OutputShare(1, q) = g[NumBlocks].reg[H8[q]][1]
      BY <1>5
    <3>3. j = 0 \/ j = 1
      BY <2>1
    <3> QED
      BY <3>1, <3>2, <3>3
  <2>3. pc' = "product"
    BY <1>1, <2>2
  <2> QED
    BY <1>8, <2>3
<1>9. CASE e # 0
  <2>1. 2 \in Parties(e)
    <3>1. Parties(e) = {e, Next3(e)}
      BY <1>1, OpenedParties
    <3>2. e = 1 \/ e = 2
      BY <1>1, <1>9 DEF Party
    <3> QED
      BY <3>1, <3>2 DEF Next3
  <2>2. ASSUME given = "digest" PROVE pc' = "rejected"
    <3>1. c.y = [SHA256(in.r) EXCEPT ![1] = Xor(@, {0})]
      BY <1>1, <2>2 DEF Related
    <3>2. c.y[1] = Xor(SHA256(in.r)[1], {0})
      BY <1>5, <3>1
    <3>3. c.y[1] # SHA256(in.r)[1]
      BY <3>2 DEF Xor
    <3>4. m.reg[H8[1]][2] # OutputShare(2, 1)
      BY <1>4, <1>5, <2>1, <3>3
    <3> QED
      BY <1>1, <2>1, <3>4
  <2> QED
    BY <1>1, <1>7, <1>9, <2>2
<1> QED
  BY <1>1, <1>7, <1>8, <1>9

(* The product is accepted exactly when the commitment's bit is the masked one.   *)
LEMMA ProductVerified ==
  ASSUME ProverInv, Scalars, Published, VerifyProduct
  PROVE  pc' = IF LowBit(c.b) = Masked THEN "accepted" ELSE "rejected"
<1> DEFINE share(j) == ProductShare(x[j], msg[j])
           rec == [j \in Parties(e) |-> ProductShare(OpenedView(j).x, OpenedView(j).msg)]
           third == Next3(Next3(e))
<1>1. /\ pc = "product" /\ e \in Party
      /\ pc' = IF /\ \A j \in Parties(e) : a.y2p[j] = rec[j]
                  /\ (rec[e] + rec[Next3(e)] + a.y2p[third]) % 2 = LowBit(c.b)
               THEN "accepted" ELSE "rejected"
  BY DEF VerifyProduct, Goto, Scalars
<1>2. role = "verifier"
  BY <1>1 DEF ProverInv, Placed, ProverPlaces, Stages
<1>3. PICK g : PublishedBy(g)
  BY <1>2 DEF Published
<1>4. z = OpeningOf(g, e) /\ a.y2p = [j \in Party |-> share(j)]
  BY <1>1, <1>2, <1>3 DEF PublishedBy, RecordOf, ProductsOf
<1>5. Parties(e) = {e, Next3(e)} /\ Next3(e) \in Party /\ third \in Party
      /\ {e, Next3(e), third} = {0, 1, 2} /\ Parties(e) \subseteq Party
  <2>1. Parties(e) = {e, Next3(e)} /\ Parties(e) \subseteq Party
    BY <1>1, OpenedParties
  <2>2. e = 0 \/ e = 1 \/ e = 2
    BY <1>1 DEF Party
  <2> QED
    BY <2>1, <2>2 DEF Next3, Party
<1>6. \A j \in Parties(e) : rec[j] = share(j)
  BY <1>1, <1>4, OpenedViews
<1>7. \A j \in Party : a.y2p[j] = share(j)
  BY <1>4
<1>8. Sharing(x, msg, in)
  BY <1>1 DEF ProverInv, Shared
<1>9. \A j \in Party : share(j) \in {0, 1}
  BY <1>8, ProductOfShares
<1>10. (share(0) + share(1) + share(2)) % 2 = Masked
  BY <1>8, ProductOfShares DEF Masked
<1> HIDE DEF share, rec
<1>11. (share(e) + share(Next3(e)) + share(third)) % 2 = Masked
  <2>1. \/ e = 0 /\ Next3(e) = 1 /\ third = 2
        \/ e = 1 /\ Next3(e) = 2 /\ third = 0
        \/ e = 2 /\ Next3(e) = 0 /\ third = 1
    BY <1>1 DEF Party, Next3
  <2>2. share(0) \in {0, 1} /\ share(1) \in {0, 1} /\ share(2) \in {0, 1}
    BY <1>9 DEF Party
  <2>3. CASE e = 0 /\ Next3(e) = 1 /\ third = 2
    BY <1>10, <2>3
  <2>4. CASE e = 1 /\ Next3(e) = 2 /\ third = 0
    <3>1. share(1) + share(2) + share(0) = share(0) + share(1) + share(2)
      BY <2>2
    <3> QED
      BY <1>10, <2>4, <3>1
  <2>5. CASE e = 2 /\ Next3(e) = 0 /\ third = 1
    <3>1. share(2) + share(0) + share(1) = share(0) + share(1) + share(2)
      BY <2>2
    <3> QED
      BY <1>10, <2>5, <3>1
  <2> QED
    BY <2>1, <2>3, <2>4, <2>5
<1>12. (rec[e] + rec[Next3(e)] + a.y2p[third]) % 2 = Masked
  BY <1>5, <1>6, <1>7, <1>11
<1>13. \A j \in Parties(e) : a.y2p[j] = rec[j]
  BY <1>5, <1>6, <1>7
<1>14. Masked = LowBit(c.b) <=> LowBit(c.b) = Masked
  OBVIOUS
<1> QED
  BY <1>1, <1>12, <1>13, <1>14

LEMMA JudgedNext ==
  ProverInv /\ ProverInv' /\ Scalars /\ Related /\ Drawn /\ Published /\ Judged /\ [Next]_vars
    => Judged'
<1> SUFFICES ASSUME ProverInv, ProverInv', Scalars, Related, Drawn, Published, Judged,
                    [Next]_vars
             PROVE  Judged'
  OBVIOUS
<1>1. role \in {"prover", "verifier"} /\ (role = "prover" => pc \in ProverPlaces) /\ e \in Party
      /\ given \in {"own", "bit", "digest"}
  BY DEF ProverInv, Placed, Scalars
<1>2. ASSUME pc' \notin {"product", "accepted", "rejected"} PROVE Judged'
  BY <1>2 DEF Judged
<1>3. CASE \/ WriteCommitment \/ ShareSecrets \/ SetupProver \/ Crash \/ ProveProduct \/ HashViews
           \/ AskOracle \/ NewHash \/ DrawPair \/ Open \/ ReadRound \/ SetupVerifier
  <2>1. pc' \notin {"product", "accepted", "rejected"}
    BY <1>3 DEF WriteCommitment, ShareSecrets, SetupProver, Crash, ProveProduct, HashViews,
                AskOracle, NewHash, DrawPair, Open, ReadRound, SetupVerifier, Program
  <2> QED
    BY <1>2, <2>1
<1>4. CASE LoadBlock \/ ExpandWords \/ CompressBlock \/ FeedForward
  <2>1. CASE role = "prover"
    <3>1. role' = "prover" /\ pc' \in Stages \cup {"rejected"}
      BY <1>4, <2>1 DEF LoadBlock, ExpandWords, CompressBlock, FeedForward, Evaluate, Stages
    <3>2. pc' \in Stages
      BY <3>1 DEF ProverInv, Placed, ProverPlaces
    <3> QED
      BY <1>2, <3>2 DEF Stages
  <2>2. CASE role = "verifier"
    <3>1. PICK g : PublishedBy(g)
      BY <2>2 DEF Published
    <3>2. pc' \in Stages
      BY <1>1, <1>4, <2>2, <3>1, VerifierSteps
    <3> QED
      BY <1>2, <3>2 DEF Stages
  <2> QED
    BY <1>1, <2>1, <2>2
<1>5. CASE VerifyCommit
  <2>1. /\ pc = "check" /\ UNCHANGED <<given, e, z, role, faulted>> /\ role = "verifier"
    BY <1>1, <1>5 DEF VerifyCommit, inputVars, recordVars, oracleVars, ProverPlaces, Stages
  <2>2. PICK g : PublishedBy(g)
    BY <2>1 DEF Published
  <2>3. pc' = "setup" \/ (pc' = "rejected" /\ e # z.ke)
    BY <1>1, <1>5, <2>1, <2>2, CommitVerified
  <2>4. given = "own" => e = z.ke
    BY <2>1 DEF Drawn
  <2> QED
    BY <1>1, <2>1, <2>3, <2>4 DEF Judged
<1>6. CASE SetupVerifierFails
  <2>1. pc' = "rejected" /\ faulted' = TRUE
    BY <1>6 DEF SetupVerifierFails
  <2> QED
    BY <2>1 DEF Judged
<1>7. CASE CompareOutput
  <2>1. UNCHANGED <<given, e, z, faulted>>
    BY <1>7 DEF CompareOutput, inputVars, recordVars, oracleVars
  <2>2. /\ pc' \in {"product", "rejected"}
        /\ given = "own" => pc' = "product"
        /\ given = "digest" => pc' = IF e = 0 THEN "product" ELSE "rejected"
    BY <1>7, OutputsCompared
  <2> QED
    BY <1>1, <2>1, <2>2 DEF Judged
<1>8. CASE VerifyProduct
  <2>1. UNCHANGED <<given, e, z, faulted>> /\ pc = "product"
    BY <1>8 DEF VerifyProduct, inputVars, recordVars, oracleVars
  <2>2. role = "verifier"
    BY <1>1, <2>1 DEF ProverPlaces, Stages
  <2>3. pc' = IF LowBit(c.b) = Masked THEN "accepted" ELSE "rejected"
    BY <1>8, ProductVerified
  <2>4. LowBit(c.b) \in {0, 1}
    BY FlippedBit
  <2>5. CASE given = "own"
    <3>1. pc' = "accepted"
      BY <2>2, <2>3, <2>5 DEF Related
    <3> QED
      BY <2>1, <2>5, <3>1 DEF Judged
  <2>6. CASE given = "bit"
    <3>1. LowBit(c.b) = 1 - Masked
      BY <2>2, <2>6 DEF Related
    <3>2. LowBit(c.b) # Masked
      <4>1. PICK w : w = Masked
        OBVIOUS
      <4>2. w \in Int
        BY <4>1 DEF Masked
      <4> QED
        BY <2>4, <3>1, <4>1, <4>2
    <3> QED
      BY <2>1, <2>3, <2>6, <3>2 DEF Judged
  <2>7. CASE given = "digest"
    <3>1. pc' = "accepted" /\ e = 0
      BY <2>1, <2>2, <2>3, <2>7 DEF Related, Judged
    <3> QED
      BY <2>1, <2>7, <3>1 DEF Judged
  <2> QED
    BY <1>1, <2>5, <2>6, <2>7
<1>9. CASE UNCHANGED vars
  <2>1. UNCHANGED <<pc, given, e, z, faulted>>
    BY <1>9 DEF vars, inputVars, recordVars, oracleVars
  <2> QED
    BY <2>1 DEF Judged
<1> QED
  BY <1>3, <1>4, <1>5, <1>6, <1>7, <1>8, <1>9 DEF Next, Step, Finished

LEMMA RoundInvInit == Init => RoundInv
<1> SUFFICES ASSUME Init PROVE RoundInv
  OBVIOUS
<1>1. ProverInv /\ Scalars /\ Drawn /\ Related
  BY ProverInvInit, ScalarsInit, DrawnInit
<1>2. Published /\ Machined /\ Judged
  BY DEF Init, Published, Machined, Judged
<1> QED
  BY <1>1, <1>2 DEF RoundInv

LEMMA RoundInvNext == RoundInv /\ [Next]_vars => RoundInv'
<1> SUFFICES ASSUME RoundInv, [Next]_vars PROVE RoundInv'
  OBVIOUS
<1>1. ProverInv /\ Scalars /\ Drawn /\ Related /\ Published /\ Machined /\ Judged
  BY DEF RoundInv
<1>2. ProverInv' /\ Scalars'
  BY <1>1, ProverInvNext, ScalarsNext
<1>3. Related' /\ Drawn' /\ Published'
  BY <1>1, RelatedNext, DrawnNext, PublishedNext
<1>4. Machined' /\ Judged'
  BY <1>1, <1>2, <1>3, MachinedNext, JudgedNext
<1> QED
  BY <1>2, <1>3, <1>4 DEF RoundInv

(* Where every machine, record and challenge of a round comes from, at each place  *)
(* of hm_bit_commit and of hm_bit_verify.                                      *)
THEOREM RoundInvariant == Spec => []RoundInv
<1> QED
  BY RoundInvInit, RoundInvNext, PTL DEF Spec

LEMMA RoundTyped == RoundInv => TypeOK
<1> SUFFICES ASSUME RoundInv PROVE TypeOK
  OBVIOUS
<1>1. /\ role \in {"prover", "verifier"} /\ (role = "prover" => pc \in ProverPlaces)
      /\ (role = "verifier" => pc \in VerifierPlaces) /\ in \in Inputs
      /\ blk \in 0 .. NumBlocks
  BY DEF RoundInv, ProverInv, Placed, Scalars, Counted
<1>2. pc \in ProverPlaces \cup VerifierPlaces
  BY <1>1
<1>3. pc \in {"hash", "share", "setup", "load", "expand", "compress", "feed", "views",
              "query", "draw", "open", "written", "check", "product", "accepted", "rejected",
              "aborted"}
  BY <1>2 DEF ProverPlaces, VerifierPlaces, Stages
<1>4. /\ given \in {"own", "bit", "digest"} /\ e \in Party /\ faulted \in BOOLEAN
      /\ hash \in SUBSET (0 .. HashBits - 1) /\ bitTracker \in 0 .. HashBits
  BY DEF RoundInv, Scalars
<1>5. m # None => MachineOK
  BY DEF RoundInv, Machined, MachineFits, MachineOK
<1> QED
  BY <1>1, <1>3, <1>4, <1>5 DEF TypeOK

(* Variables stay in their types in every round of hm_bit_commit and hm_bit_verify,  *)
(* and the counters of both machines within the tapes and views.                 *)
THEOREM RoundTypeCorrect == Spec => []TypeOK
<1> QED
  BY RoundInvariant, RoundTyped, PTL

(* The two counters where a block begins.                                     *)
LEMMA CountersAt ==
  ASSUME NEW g, NEW sh, NEW b \in 0 .. NumBlocks, IsEvaluation(g, sh, b)
  PROVE  /\ g[b].rand = 728 * b /\ g[b].county = 728 * b
         /\ \A row \in Rows : row < 728 * b => g[b].views[row] \in Shares
         /\ \A v, d : d \in Party /\ Repeats(v, "load", g, sh, b, d)
              => v.rand = 728 * b /\ v.county = 728 * b
<1>1. Sound(g[b], 0) /\ g[b].rand = 728 * b
  <2> DEFINE l == 0    r == Recon(sh)
  <2>1. r = Recon(sh) /\ b \in 0 .. b
    OBVIOUS
  <2> HIDE DEF l, r
  <2>2. \A q \in 0 .. b : Sound(g[q], l) /\ g[q].rand = 728 * q
    BY <2>1, EvaluationIs DEF l
  <2> QED
    BY <2>1, <2>2 DEF l
<1>2. /\ g[b].county = 728 * b
      /\ \A row \in Rows : row < 728 * b => g[b].views[row] \in Shares
  <2> DEFINE u == g[b]    l == 0
  <2>1. Sound(u, l) /\ u.rand = 728 * b
    BY <1>1
  <2> HIDE DEF u, l
  <2> QED
    BY <2>1 DEF Sound, u
<1>3. ASSUME NEW v, NEW d \in Party, Repeats(v, "load", g, sh, b, d)
      PROVE  v.rand = 728 * b /\ v.county = 728 * b
  <2> DEFINE u == g[b]    E == {}    l == Known("load")    F == g[NumBlocks].views
  <2>1. StageOf("load", g[b], sh, b) = u
    BY DEF StageOf
  <2>2. Follows(v, u, F, d, E, l)
    BY <1>3, <2>1 DEF Repeats, Mirrors
  <2>3. u.rand = 728 * b /\ u.county = 728 * b
    BY <1>1, <1>2
  <2> HIDE DEF u, E, l, F
  <2> QED
    BY <2>2, <2>3 DEF Follows
<1> QED
  BY <1>1, <1>2, <1>3

LEMMA RoundBudget == RoundInv => BudgetExact
<1> SUFFICES ASSUME RoundInv PROVE BudgetExact
  OBVIOUS
<1>1. /\ ProverInv /\ Published /\ e \in Party /\ role \in {"prover", "verifier"}
  BY DEF RoundInv, Scalars, ProverInv, Placed
<1>2. NumBlocks \in Nat /\ TapeWords = 728 * NumBlocks
  BY Sizes
<1>3. ASSUME pc = "load" PROVE m.rand = 728 * blk /\ m.county = 728 * blk
  <2>1. PICK b \in 0 .. NumBlocks : b = blk
    BY <1>1 DEF ProverInv, Counted
  <2>2. PICK sh, d : sh = x /\ d = e
    OBVIOUS
  <2>3. CASE role = "prover"
    <3>1. PICK g : IsEvaluation(g, sh, b) /\ m = StageOf("load", g[b], sh, b)
      BY <1>1, <1>3, <2>1, <2>2, <2>3 DEF ProverInv, Proving, Stages
    <3>2. m = g[b]
      BY <3>1 DEF StageOf
    <3>3. g[b].rand = 728 * b /\ g[b].county = 728 * b
      BY <3>1, CountersAt
    <3> QED
      BY <2>1, <3>2, <3>3
  <2>4. CASE role = "verifier"
    <3>1. PICK g : IsEvaluation(g, sh, NumBlocks) /\ Repeats(m, "load", g, sh, b, d)
      BY <1>1, <1>3, <2>1, <2>2, <2>4 DEF Published, PublishedBy, Stages
    <3>2. IsEvaluation(g, sh, b) /\ d \in Party
      BY <1>1, <2>2, <3>1, EvaluationStarts
    <3>3. m.rand = 728 * b /\ m.county = 728 * b
      BY <3>1, <3>2, CountersAt
    <3> QED
      BY <2>1, <3>3
  <2> QED
    BY <1>1, <2>3, <2>4
<1>4. PICK n \in 0 .. NumBlocks : n = NumBlocks
  BY <1>2
<1>5. ASSUME pc = "views"
      PROVE  m.rand = TapeWords /\ \A row \in Rows : m.views[row] # Stale
  <2>1. PICK sh : sh = x
    OBVIOUS
  <2>2. PICK g : IsEvaluation(g, sh, n) /\ m = g[n]
    BY <1>1, <1>4, <1>5, <2>1 DEF ProverInv, Recorded
  <2>3. /\ g[n].rand = 728 * n
        /\ \A row \in Rows : row < 728 * n => g[n].views[row] \in Shares
    BY <2>2, CountersAt
  <2>4. Stale \notin Shares
    <3>1. 0 \in Party /\ Parties(Prover) = Party
      BY DEF Party, Parties
    <3>2. Stale[0] = {Width}
      BY <3>1 DEF Stale, Unassigned
    <3>3. {Width} \notin Word
      BY Sizes DEF Word
    <3> QED
      BY <3>1, <3>2, <3>3 DEF Shares
  <2>5. \A row \in Rows : row < 728 * n
    BY <1>2, <1>4 DEF Rows
  <2> QED
    BY <1>2, <1>4, <2>2, <2>3, <2>4, <2>5
<1>6. ASSUME pc = "product" PROVE m.rand = TapeWords
  <2>1. PICK sh, d : sh = x /\ d = e
    OBVIOUS
  <2>2. PICK g : IsEvaluation(g, sh, n) /\ Repeats(m, "load", g, sh, n, d)
    <3>1. role = "verifier"
      BY <1>1, <1>6 DEF ProverInv, Placed, ProverPlaces, Stages
    <3> QED
      BY <1>1, <1>4, <1>6, <2>1, <3>1 DEF Published, PublishedBy
  <2>3. d \in Party
    BY <1>1, <2>1
  <2>4. m.rand = 728 * n
    BY <2>2, <2>3, CountersAt
  <2> QED
    BY <1>2, <1>4, <2>4
<1> QED
  BY <1>3, <1>5, <1>6 DEF BudgetExact

(* A block takes the 728 words that RAND_BYTES and ySize reserve for it, in            *)
(* mpc_sha256_prove and in mpc_sha256_verify and for an opening of any length, and     *)
(* the views are hashed without a word of an earlier round.                         *)
THEOREM BudgetIsExact == Spec => []BudgetExact
<1> QED
  BY RoundInvariant, RoundBudget, PTL

(* hm_bit_verify accepts a round that hm_bit_commit made exactly when it was made for   *)
(* the commitment at hand, whatever the inputs, tapes, digests and uninitialised bits:  *)
(* its evaluation of two views repeats the prover's call by call, so none of its checks *)
(* fails; with the bit flipped the product refuses, with the digest changed the output  *)
(* shares do unless parties 0 and 1 are opened.                                     *)
THEOREM RoundIsExact == Spec => []RoundExact
<1>1. RoundInv => RoundExact
  BY DEF RoundInv, Judged, RoundExact
<1> QED
  BY <1>1, RoundInvariant, PTL
==============================================================================
