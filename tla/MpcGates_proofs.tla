--------------------------- MODULE MpcGates_proofs ---------------------------
(* What the gates compute on words that are shared, for every width, and the  *)
(* induction over positions and loops that the modules of the MPC need.       *)
EXTENDS MpcGates, FiniteSetTheorems, TLAPS

(***************************************************************************)
(* Induction.                                                              *)
(***************************************************************************)
(* Induction over the natural numbers for a set: were n missing, i |-> i + 1    *)
(* would map the members up to n one to one into the same set without 0.        *)
LEMMA SetInduction ==
  ASSUME NEW T, 0 \in T, \A i \in Nat : i \in T => i + 1 \in T
  PROVE  Nat \subseteq T
<1> SUFFICES ASSUME NEW n \in Nat, n \notin T PROVE FALSE
  OBVIOUS
<1> DEFINE S == {i \in 0 .. n : i \in T}
           f == [i \in S |-> i + 1]
<1>1. IsFiniteSet(S) /\ 0 \in S
  <2>1. IsFiniteSet(0 .. n)
    BY FS_Interval
  <2> QED
    BY <2>1, FS_Subset
<1>2. /\ IsFiniteSet(S \ {0})
      /\ Cardinality(S \ {0}) = Cardinality(S) - 1 /\ Cardinality(S) \in Nat
  <2> HIDE DEF S
  <2> QED
    BY <1>1, FS_RemoveElement, FS_CardinalityType
<1>3. f \in Injection(S, S \ {0})
  BY DEF Injection, IsInjective
<1> HIDE DEF S, f
<1> QED
  BY <1>2, <1>3, FS_Injection

(* g is the function with values in D that begins with base and goes on by F.   *)
IsStep(F, D) == F \in [Nat \X D -> D]

Iterates(g, D, base, F) ==
  g \in [Nat -> D] /\ g[0] = base /\ \A k \in Nat : g[k + 1] = F[<<k, g[k]>>]

(* A function over the natural numbers may be defined by its value at 0 and     *)
(* a step: a prefix of it exists up to every number.                            *)
LEMMA PrimitiveRecursion ==
  ASSUME NEW D, NEW base \in D, NEW F, IsStep(F, D)
  PROVE  \E g : Iterates(g, D, base, F)
<1> USE DEF IsStep
<1> DEFINE IsPrefix(h, n) ==
             /\ h \in [0 .. n -> D] /\ h[0] = base
             /\ \A k \in 0 .. n - 1 : h[k + 1] = F[<<k, h[k]>>]
           T == {n \in Nat : \E h : IsPrefix(h, n)}
<1>1. Nat \subseteq T
  <2>1. IsPrefix([k \in 0 .. 0 |-> base], 0)
    OBVIOUS
  <2>2. ASSUME NEW n \in Nat, n \in T PROVE n + 1 \in T
    <3>1. PICK h : IsPrefix(h, n)
      BY <2>2
    <3> DEFINE h2 == [k \in 0 .. n + 1 |-> IF k = n + 1 THEN F[<<n, h[n]>>] ELSE h[k]]
    <3>2. F[<<n, h[n]>>] \in D
      BY <3>1
    <3>3. h2 \in [0 .. n + 1 -> D] /\ h2[0] = base
      BY <3>1, <3>2
    <3>4. ASSUME NEW k \in 0 .. n PROVE h2[k + 1] = F[<<k, h2[k]>>]
      <4>1. h2[k] = h[k]
        OBVIOUS
      <4>2. CASE k = n
        <5>1. k + 1 = n + 1 /\ k + 1 \in 0 .. n + 1
          BY <4>2
        <5>2. h2[k + 1] = F[<<n, h[n]>>]
          BY <5>1
        <5> QED
          BY <4>1, <4>2, <5>2
      <4>3. CASE k # n
        <5>1. k \in 0 .. n - 1 /\ k + 1 \in 0 .. n + 1 /\ k + 1 # n + 1
          BY <4>3
        <5>2. h2[k + 1] = h[k + 1] /\ h[k + 1] = F[<<k, h[k]>>]
          BY <3>1, <5>1
        <5> QED
          BY <4>1, <5>2
      <4> QED
        BY <4>2, <4>3
    <3>5. IsPrefix(h2, n + 1)
      <4> HIDE DEF h2
      <4> QED
        BY <3>3, <3>4
    <3> HIDE DEF IsPrefix
    <3> QED
      BY <3>5
  <2>3. 0 \in T
    BY <2>1
  <2> HIDE DEF T
  <2> QED
    BY <2>2, <2>3, SetInduction
<1>2. ASSUME NEW n \in Nat, NEW m \in Nat, NEW h1, NEW h2,
             IsPrefix(h1, n), IsPrefix(h2, m)
      PROVE  \A k \in Nat : k <= n /\ k <= m => h1[k] = h2[k]
  <2> DEFINE U == {k \in Nat : k <= n /\ k <= m => h1[k] = h2[k]}
  <2>1. 0 \in U
    BY <1>2
  <2>2. ASSUME NEW k \in Nat, k \in U PROVE k + 1 \in U
    <3> SUFFICES ASSUME k + 1 <= n, k + 1 <= m PROVE h1[k + 1] = h2[k + 1]
      OBVIOUS
    <3>1. h1[k] = h2[k]
      BY <2>2
    <3>2. h1[k + 1] = F[<<k, h1[k]>>] /\ h2[k + 1] = F[<<k, h2[k]>>]
      BY <1>2
    <3> QED
      BY <3>1, <3>2
  <2> HIDE DEF U
  <2>3. Nat \subseteq U
    BY <2>1, <2>2, SetInduction
  <2> QED
    BY <2>3 DEF U
<1> DEFINE p(n) == CHOOSE h : IsPrefix(h, n)
           g == [n \in Nat |-> p(n)[n]]
<1>3. \A n \in Nat : IsPrefix(p(n), n)
  BY <1>1
<1> HIDE DEF p
<1>4. g \in [Nat -> D] /\ g[0] = base
  BY <1>3
<1>5. ASSUME NEW k \in Nat PROVE g[k + 1] = F[<<k, g[k]>>]
  <2>1. p(k + 1)[k] = p(k)[k]
    <3> HIDE DEF IsPrefix
    <3>1. IsPrefix(p(k), k) /\ IsPrefix(p(k + 1), k + 1)
      BY <1>3
    <3> QED
      BY <1>2, <3>1
  <2>2. p(k + 1)[k + 1] = F[<<k, p(k + 1)[k]>>]
    BY <1>3
  <2> QED
    BY <2>1, <2>2
<1> HIDE DEF g
<1> QED
  BY <1>4, <1>5 DEF Iterates

(***************************************************************************)
(* The formulas of the gates.                                              *)
(***************************************************************************)
LEMMA XorElement ==
  ASSUME NEW x, NEW y, NEW b
  PROVE  b \in Xor(x, y) <=> ~(b \in x <=> b \in y)
  BY DEF Xor

LEMMA NextParty ==
  ASSUME NEW j \in Party
  PROVE  Next3(j) \in Party /\ Next3(j) # j
  BY DEF Party, Next3

(* mpc_AND: the cross terms of the three parties cover the product once, and *)
(* the random words cancel.                                                  *)
LEMMA ProductReconstructs ==
  ASSUME NEW x \in Shares, NEW y \in Shares, NEW r \in Shares
  PROVE  Recon([j \in Party |-> AndShare(x, y, r, j)]) = Recon(x) \cap Recon(y)
  BY DEF Recon, Xor, AndShare, Next3, Party

(* One position of mpc_ADD: the three carries stand for the carry.           *)
LEMMA CarryReconstructs ==
  ASSUME NEW x \in Shares, NEW y \in Shares, NEW d \in Shares, NEW r \in Shares,
         NEW b \in Bit
  PROVE  ((CarryOut(x, y, d, r, 0, b) # CarryOut(x, y, d, r, 1, b))
           # CarryOut(x, y, d, r, 2, b))
         <=> Majority(b \in Recon(x), b \in Recon(y), b \in Recon(d))
  BY DEF CarryOut, Majority, Recon, Xor, Next3

(* mpc_AND, mpc_MAJ and mpc_CH on what the shares stand for.                 *)
LEMMA GateReconstructs ==
  ASSUME NEW op \in ProductOps, NEW a \in Shares, NEW y \in Shares,
         NEW w \in Shares, NEW r \in Shares, NEW t,
         t = [j \in Party |-> AndShare(Factors(op, a, y, w)[1],
                                       Factors(op, a, y, w)[2], r, j)]
  PROVE  Recon(Result(op, t, a, w)) = PlainProduct(op, Recon(a), Recon(y), Recon(w))
<1> USE DEF Shares
<1>1. CASE op = "AND"
  <2>1. t = [j \in Party |-> AndShare(a, y, r, j)]
    BY <1>1 DEF Factors
  <2> QED
    BY <1>1, <2>1, ProductReconstructs DEF Result, PlainProduct
<1>2. CASE op = "MAJ"
  <2> DEFINE ay == XorShares(a, y)
             aw == XorShares(a, w)
  <2>1. t = [j \in Party |-> AndShare(ay, aw, r, j)]
    BY <1>2 DEF Factors
  <2>2. ay \in Shares /\ aw \in Shares
    BY DEF XorShares, Xor, Word
  <2>3. Recon(t) = Recon(ay) \cap Recon(aw)
    BY <2>1, <2>2, ProductReconstructs
  <2>4. /\ Recon(ay) = Xor(Recon(a), Recon(y))
        /\ Recon(aw) = Xor(Recon(a), Recon(w))
    BY DEF XorShares, Recon, Xor, Party
  <2>5. Recon(XorShares(t, a)) = Xor(Recon(t), Recon(a))
    BY <2>1 DEF XorShares, Recon, Xor, Party
  <2>6. Xor(Xor(Recon(a), Recon(y)) \cap Xor(Recon(a), Recon(w)), Recon(a))
          = PlainProduct(op, Recon(a), Recon(y), Recon(w))
    BY <1>2 DEF PlainProduct, Xor
  <2> QED
    BY <1>2, <2>3, <2>4, <2>5, <2>6 DEF Result
<1>3. CASE op = "CH"
  <2> DEFINE yw == XorShares(y, w)
  <2>1. t = [j \in Party |-> AndShare(a, yw, r, j)]
    BY <1>3 DEF Factors
  <2>2. yw \in Shares
    BY DEF XorShares, Xor, Word
  <2>3. Recon(t) = Recon(a) \cap Recon(yw)
    BY <2>1, <2>2, ProductReconstructs
  <2>4. Recon(yw) = Xor(Recon(y), Recon(w))
    BY DEF XorShares, Recon, Xor, Party
  <2>5. Recon(XorShares(t, w)) = Xor(Recon(t), Recon(w))
    BY <2>1 DEF XorShares, Recon, Xor, Party
  <2>6. Xor(Recon(a) \cap Xor(Recon(y), Recon(w)), Recon(w))
          = PlainProduct(op, Recon(a), Recon(y), Recon(w))
    BY <1>3 DEF PlainProduct, Xor
  <2> QED
    BY <1>3, <2>3, <2>4, <2>5, <2>6 DEF Result
<1> QED
  BY <1>1, <1>2, <1>3 DEF ProductOps

(* Gates keep words words.                                                   *)
LEMMA GateTypes ==
  ASSUME NEW op \in ProductOps, NEW D, NEW a \in [D -> Word], NEW y \in [D -> Word],
         NEW w \in [D -> Word], NEW t \in [D -> Word]
  PROVE  /\ Factors(op, a, y, w)[1] \in [D -> Word]
         /\ Factors(op, a, y, w)[2] \in [D -> Word]
         /\ Result(op, t, a, w) \in [D -> Word]
<1>1. /\ XorShares(a, y) \in [D -> Word] /\ XorShares(a, w) \in [D -> Word]
      /\ XorShares(y, w) \in [D -> Word] /\ XorShares(t, a) \in [D -> Word]
      /\ XorShares(t, w) \in [D -> Word]
  BY DEF XorShares, Xor, Word
<1> QED
  BY <1>1 DEF Factors, Result, ProductOps

(* What an iteration of mpc_ADD reads of the carries is position b.          *)
LEMMA CarryLocal ==
  ASSUME NEW x, NEW y, NEW r, NEW d, NEW d2, NEW j \in Party, NEW b,
         \A k \in Party : b \in d[k] <=> b \in d2[k]
  PROVE  CarryOut(x, y, d, r, j, b) <=> CarryOut(x, y, d2, r, j, b)
  BY NextParty DEF CarryOut, Xor

(* An iteration computes one position and disturbs none.                     *)
LEMMA CarryExtends ==
  ASSUME NEW x \in Shares, NEW y \in Shares, NEW r \in Shares, NEW d \in Shares,
         Width \in Nat, NEW n \in Nat, n < Width - 1, CarriesUpTo(d, x, y, r, n), NEW d2,
         d2 = [j \in Party |-> IF CarryOut(x, y, d, r, j, n)
                               THEN d[j] \cup {n + 1} ELSE d[j] \ {n + 1}]
  PROVE  d2 \in Shares /\ CarriesUpTo(d2, x, y, r, n + 1)
<1>0. Width \in Nat
  OBVIOUS
<1>1. d2 \in Shares
  BY <1>0 DEF Shares, Word, Bit
<1>2. \A j \in Party, b \in Bit : b # n + 1 => (b \in d2[j] <=> b \in d[j])
  OBVIOUS
<1>3. ASSUME NEW j \in Party, NEW b \in Bit
      PROVE  b \in d2[j] <=> b \in 1 .. n + 1 /\ CarryOut(x, y, d2, r, j, b - 1)
  <2>0. b \in Nat
    BY <1>0 DEF Bit
  <2>1. CASE b = n + 1
    <3>1. n \in Bit /\ n # n + 1
      BY <1>0 DEF Bit
    <3>2. CarryOut(x, y, d, r, j, n) <=> CarryOut(x, y, d2, r, j, n)
      BY <1>2, <3>1, CarryLocal
    <3>3. n + 1 \in d2[j] <=> CarryOut(x, y, d, r, j, n)
      OBVIOUS
    <3> QED
      BY <2>1, <3>2, <3>3
  <2>2. CASE b # n + 1 /\ b \in 1 .. n
    <3>1. b - 1 \in Bit /\ b - 1 # n + 1
      BY <1>0, <2>2 DEF Bit
    <3>2. CarryOut(x, y, d, r, j, b - 1) <=> CarryOut(x, y, d2, r, j, b - 1)
      BY <1>2, <3>1, CarryLocal
    <3>3. b \in d2[j] <=> b \in d[j]
      BY <1>2, <2>2
    <3>4. b \in d[j] <=> CarryOut(x, y, d, r, j, b - 1)
      BY <2>2 DEF CarriesUpTo
    <3>5. b \in 1 .. n + 1
      BY <2>2
    <3> QED
      BY <3>2, <3>3, <3>4, <3>5
  <2>3. CASE b # n + 1 /\ b \notin 1 .. n
    <3>1. b \notin d[j]
      BY <2>3 DEF CarriesUpTo
    <3>2. b \notin d2[j]
      BY <1>2, <2>3, <3>1
    <3>3. b \notin 1 .. n + 1
      BY <2>0, <2>3
    <3> QED
      BY <3>2, <3>3
  <2> QED
    BY <2>1, <2>2, <2>3
<1> QED
  BY <1>1, <1>3 DEF CarriesUpTo
-----------------------------------------------------------------------------
(* The carries of mpc_ADD, and the sum.                                       *)

(* The carries that the shares stand for are those of the addition.           *)
LEMMA CarriesReconstruct ==
  ASSUME Width \in Nat, NEW x \in Shares, NEW y \in Shares, NEW d \in Shares,
         NEW r \in Shares, NEW n \in Nat, CarriesUpTo(d, x, y, r, n), NEW b \in Bit
  PROVE  b \in Recon(d) <=>
           /\ b \in 1 .. n
           /\ Majority(b - 1 \in Recon(x), b - 1 \in Recon(y), b - 1 \in Recon(d))
<1>1. \A j \in Party :
        b \in d[j] <=> b \in 1 .. n /\ CarryOut(x, y, d, r, j, b - 1)
  BY DEF CarriesUpTo
<1>2. b \in Recon(d) <=> (((b \in d[0]) # (b \in d[1])) # (b \in d[2]))
  BY DEF Recon, Xor
<1>3. CASE b \in 1 .. n
  <2>1. b - 1 \in Bit
    BY <1>3 DEF Bit
  <2>2. ((CarryOut(x, y, d, r, 0, b - 1) # CarryOut(x, y, d, r, 1, b - 1))
           # CarryOut(x, y, d, r, 2, b - 1))
        <=> Majority(b - 1 \in Recon(x), b - 1 \in Recon(y), b - 1 \in Recon(d))
    BY <2>1, CarryReconstructs
  <2>3. /\ b \in d[0] <=> CarryOut(x, y, d, r, 0, b - 1)
        /\ b \in d[1] <=> CarryOut(x, y, d, r, 1, b - 1)
        /\ b \in d[2] <=> CarryOut(x, y, d, r, 2, b - 1)
    BY <1>1, <1>3 DEF Party
  <2>4. \A j : CarryOut(x, y, d, r, j, b - 1) \in BOOLEAN
    BY DEF CarryOut
  <2>5. ((b \in d[0]) # (b \in d[1])) # (b \in d[2])
        <=> Majority(b - 1 \in Recon(x), b - 1 \in Recon(y), b - 1 \in Recon(d))
    BY <2>2, <2>3, <2>4
  <2> QED
    BY <1>2, <1>3, <2>5
<1>4. CASE b \notin 1 .. n
  BY <1>1, <1>2, <1>4 DEF Party
<1> QED
  BY <1>3, <1>4

(* Weight doubles from a position to the next.                                *)
LEMMA WeightSteps ==
  /\ Weight[0] = 1
  /\ \A n \in Nat : Weight[n] \in Nat \ {0} /\ Weight[n + 1] = 2 * Weight[n]
<1> DEFINE D == Nat \ {0}
           F == [p \in Nat \X D |-> 2 * p[2]]
           IsWeight(g) == g = [n \in Nat |-> IF n = 0 THEN 1 ELSE 2 * g[n - 1]]
<1>1. IsStep(F, D) /\ 1 \in D
  BY DEF IsStep
<1>2. \A k \in Nat, t \in D : F[<<k, t>>] = 2 * t
  OBVIOUS
<1>3. \A t \in D : t \in Nat \ {0}
  OBVIOUS
<1> HIDE DEF F, D
<1>4. PICK g : Iterates(g, D, 1, F)
  BY <1>1, PrimitiveRecursion
<1>5. g \in [Nat -> D] /\ g[0] = 1 /\ \A k \in Nat : g[k + 1] = F[<<k, g[k]>>]
  BY <1>4 DEF Iterates
<1>6. IsWeight(g)
  <2>1. ASSUME NEW j \in Nat, j # 0 PROVE g[j] = 2 * g[j - 1]
    <3>1. j - 1 \in Nat /\ (j - 1) + 1 = j
      BY <2>1
    <3> QED
      BY <1>2, <1>5, <3>1
  <2> QED
    BY <1>5, <2>1
<1>7. Weight = CHOOSE h : IsWeight(h)
  BY DEF Weight
<1>8. IsWeight(Weight)
  BY <1>6, <1>7
<1> HIDE DEF IsWeight
<1>9. \A j \in Nat : Weight[j] = IF j = 0 THEN 1 ELSE 2 * Weight[j - 1]
  BY <1>8 DEF IsWeight
<1>10. ASSUME NEW k \in Nat PROVE Weight[k + 1] = 2 * Weight[k]
  <2>1. k + 1 \in Nat /\ k + 1 # 0 /\ (k + 1) - 1 = k
    OBVIOUS
  <2> QED
    BY <1>9, <2>1
<1>11. \A k \in Nat : Weight[k] \in Nat \ {0}
  <2> DEFINE T == {k \in Nat : Weight[k] \in Nat \ {0}}
  <2>1. 0 \in T
    BY <1>9
  <2>2. \A k \in Nat : k \in T => k + 1 \in T
    BY <1>10
  <2> HIDE DEF T
  <2>3. Nat \subseteq T
    BY <2>1, <2>2, SetInduction
  <2> QED
    BY <2>3 DEF T
<1> QED
  BY <1>9, <1>10, <1>11

(* The value of the positions below n, and the next one.                      *)
LEMMA ValueSteps ==
  ASSUME NEW x
  PROVE  /\ ValueBelow(x)[0] = 0
         /\ \A n \in Nat :
              /\ ValueBelow(x)[n] \in Nat
              /\ ValueBelow(x)[n + 1] =
                   ValueBelow(x)[n] + (IF n \in x THEN Weight[n] ELSE 0)
              /\ ValueBelow(x)[n] < Weight[n]
<1> DEFINE A(k) == IF k \in x THEN Weight[k] ELSE 0
           D == Nat
           F == [p \in Nat \X D |-> p[2] + A(p[1])]
           IsValue(g) ==
             g = [n \in Nat |-> IF n = 0 THEN 0 ELSE g[n - 1] + A(n - 1)]
<1>0. \A k \in Nat : A(k) \in Nat /\ A(k) <= Weight[k]
  BY WeightSteps
<1>d. IsValue(ValueBelow(x)) <=> IsValue(CHOOSE g : IsValue(g))
  BY DEF ValueBelow
<1>1. IsStep(F, D) /\ 0 \in D
  <2> HIDE DEF A
  <2> QED
    BY <1>0 DEF IsStep
<1>2. \A k \in Nat, t \in D : F[<<k, t>>] = t + A(k)
  <2> HIDE DEF A
  <2> QED
    OBVIOUS
<1> HIDE DEF F, D, A
<1>4. PICK g : Iterates(g, D, 0, F)
  BY <1>1, PrimitiveRecursion
<1>5. g \in [Nat -> D] /\ g[0] = 0 /\ \A k \in Nat : g[k + 1] = F[<<k, g[k]>>]
  BY <1>4 DEF Iterates
<1>6. IsValue(g)
  <2>1. ASSUME NEW j \in Nat, j # 0 PROVE g[j] = g[j - 1] + A(j - 1)
    <3>1. j - 1 \in Nat /\ (j - 1) + 1 = j
      BY <2>1
    <3> QED
      BY <1>2, <1>5, <3>1
  <2> QED
    BY <1>5, <2>1
<1>7. IsValue(ValueBelow(x))
  BY <1>6, <1>d
<1> DEFINE v == ValueBelow(x)
<1>8. IsValue(v)
  BY <1>7
<1> HIDE DEF IsValue, v
<1>9. \A j \in Nat : v[j] = IF j = 0 THEN 0 ELSE v[j - 1] + A(j - 1)
  BY <1>8 DEF IsValue
<1>10. ASSUME NEW k \in Nat PROVE v[k + 1] = v[k] + A(k)
  <2>1. k + 1 \in Nat /\ k + 1 # 0 /\ (k + 1) - 1 = k
    OBVIOUS
  <2> QED
    BY <1>9, <2>1
<1>11. \A k \in Nat : v[k] \in Nat /\ v[k] < Weight[k]
  <2> DEFINE T == {k \in Nat : v[k] \in Nat /\ v[k] < Weight[k]}
  <2>1. 0 \in T
    BY <1>9, WeightSteps
  <2>2. ASSUME NEW k \in Nat, k \in T PROVE k + 1 \in T
    <3>1. /\ v[k + 1] = v[k] + A(k) /\ A(k) \in Nat /\ A(k) <= Weight[k]
          /\ Weight[k + 1] = 2 * Weight[k] /\ Weight[k] \in Nat
          /\ v[k] \in Nat /\ v[k] < Weight[k]
      BY <1>0, <1>10, <2>2, WeightSteps
    <3> QED
      BY <3>1
  <2> HIDE DEF T
  <2>3. Nat \subseteq T
    BY <2>1, <2>2, SetInduction
  <2> QED
    BY <2>3 DEF T
<1> QED
  BY <1>9, <1>10, <1>11 DEF v, A

(* A sum with a carry, position by position: s is x XOR y XOR c, and the carry *)
(* that leaves the positions below n has their weight.                         *)
LEMMA RippleAddition ==
  ASSUME Width \in Nat \ {0}, NEW x, NEW y, NEW d, NEW s,
         \A b \in Bit : b \in s <=> (((b \in x) # (b \in y)) # (b \in d)),
         \A b \in Bit : b \in d <=>
           b \in 1 .. Width - 1 /\ Majority(b - 1 \in x, b - 1 \in y, b - 1 \in d)
  PROVE  Value(s) = ((Value(x) + Value(y)) % Weight[Width])
<1> DEFINE Carry(n) == n > 0 /\ Majority(n - 1 \in x, n - 1 \in y, n - 1 \in d)
           W(n) == Weight[n]
           vx(n) == ValueBelow(x)[n]    vy(n) == ValueBelow(y)[n]
           vs(n) == ValueBelow(s)[n]
           Holds(n) == n <= Width =>
             vs(n) + (IF Carry(n) THEN W(n) ELSE 0) = vx(n) + vy(n)
           T == {n \in Nat : Holds(n)}
<1>1. 0 \in T
  BY ValueSteps
<1>2. ASSUME NEW n \in Nat, n \in T PROVE n + 1 \in T
  <2> SUFFICES ASSUME n + 1 <= Width PROVE Holds(n + 1)
    OBVIOUS
  <2>1. n \in Bit /\ n <= Width
    BY DEF Bit
  <2>2. Carry(n) <=> n \in d
    BY <2>1
  <2>3. Carry(n + 1) <=> Majority(n \in x, n \in y, n \in d)
    OBVIOUS
  <2>4. n \in s <=> (((n \in x) # (n \in y)) # (n \in d))
    BY <2>1
  <2>5. /\ vx(n + 1) = vx(n) + (IF n \in x THEN W(n) ELSE 0)
        /\ vy(n + 1) = vy(n) + (IF n \in y THEN W(n) ELSE 0)
        /\ vs(n + 1) = vs(n) + (IF n \in s THEN W(n) ELSE 0)
        /\ vx(n) \in Nat /\ vy(n) \in Nat /\ vs(n) \in Nat
        /\ W(n) \in Nat /\ W(n + 1) = 2 * W(n)
    BY ValueSteps, WeightSteps
  <2>6. vs(n) + (IF n \in d THEN W(n) ELSE 0) = vx(n) + vy(n)
    BY <1>2, <2>1, <2>2
  <2> HIDE DEF W, vx, vy, vs, Carry
  <2> QED
    BY <2>3, <2>4, <2>5, <2>6 DEF Majority
<1>3. Holds(Width)
  <2> HIDE DEF T, Holds
  <2>1. Nat \subseteq T
    BY <1>1, <1>2, SetInduction
  <2> QED
    BY <2>1 DEF T
<1>4. /\ vs(Width) \in Nat /\ vs(Width) < W(Width) /\ W(Width) \in Nat \ {0}
      /\ vx(Width) \in Nat /\ vy(Width) \in Nat
  BY ValueSteps, WeightSteps
<1> HIDE DEF Carry, vx, vy, vs, W
<1>5. vs(Width) = ((vx(Width) + vy(Width)) % W(Width))
  <2>1. CASE Carry(Width)
    <3>1. vx(Width) + vy(Width) = vs(Width) + W(Width)
      BY <1>3, <2>1
    <3> QED
      BY <1>4, <3>1
  <2>2. CASE ~ Carry(Width)
    <3>1. vx(Width) + vy(Width) = vs(Width)
      BY <1>3, <1>4, <2>2
    <3> QED
      BY <1>4, <3>1
  <2> QED
    BY <2>1, <2>2
<1> QED
  BY <1>5 DEF Value, vx, vy, vs, W

(* mpc_ADD adds what its arguments stand for, modulo the weight of the carry  *)
(* out of the last position.                                                  *)
LEMMA SumReconstructs ==
  ASSUME Width \in Nat \ {0}, NEW x \in Shares, NEW y \in Shares, NEW d \in Shares,
         NEW r \in Shares, CarriesUpTo(d, x, y, r, Width - 1)
  PROVE  Value(Recon(XorShares(XorShares(x, y), d))) =
           ((Value(Recon(x)) + Value(Recon(y))) % Weight[Width])
<1> DEFINE s == Recon(XorShares(XorShares(x, y), d))
           X == Recon(x)    Y == Recon(y)    C == Recon(d)
<1>1. \A b \in Bit : b \in s <=> (((b \in X) # (b \in Y)) # (b \in C))
  BY DEF Recon, Xor, XorShares, Shares, Party
<1>2. \A b \in Bit : b \in C <=>
        b \in 1 .. Width - 1 /\ Majority(b - 1 \in X, b - 1 \in Y, b - 1 \in C)
  BY CarriesReconstruct
<1> HIDE DEF s, X, Y, C
<1>3. Value(s) = ((Value(X) + Value(Y)) % Weight[Width])
  BY <1>1, <1>2, RippleAddition
<1> QED
  BY <1>3 DEF s, X, Y, C
==============================================================================
