---------------------------- MODULE HmPlain_proofs ----------------------------
(* What the calls of a plain context write stays where it belongs, nothing    *)
(* leaks, and every verdict is the right one, for every length, message,      *)
(* matrix and number of contexts.                                             *)
EXTENDS HmPlain, HmPlainLayout_proofs, FiniteSetTheorems

-----------------------------------------------------------------------------
(* Induction.                                                                 *)

(* Induction over the natural numbers for a set: were n missing, i |-> i + 1    *)
(* would map the members up to n one to one into the same set without 0.        *)
LEMMA SetInduction ==
  ASSUME NEW T, 0 \in T, \A i \in Nat : i \in T => i + 1 \in T
  PROVE  Nat \subseteq T
<1> SUFFICES ASSUME NEW n \in Nat, n \notin T PROVE FALSE
  OBVIOUS
<1> DEFINE S == {i \in 0 .. n : i \in T}
           f == [i \in S |-> i + 1]
<1>1. IsFiniteSet(S) /\ 0 \in S
  <2>1. IsFiniteSet(0 .. n)
    BY FS_Interval
  <2> QED
    BY <2>1, FS_Subset
<1>2. /\ IsFiniteSet(S \ {0})
      /\ Cardinality(S \ {0}) = Cardinality(S) - 1 /\ Cardinality(S) \in Nat
  <2> HIDE DEF S
  <2> QED
    BY <1>1, FS_RemoveElement, FS_CardinalityType
<1>3. f \in Injection(S, S \ {0})
  BY DEF Injection, IsInjective
<1> HIDE DEF S, f
<1> QED
  BY <1>2, <1>3, FS_Injection

(* g is the function with values in D that begins with base and goes on by F.   *)
IsStep(F, D) == F \in [Nat \X D -> D]

Iterates(g, D, base, F) ==
  g \in [Nat -> D] /\ g[0] = base /\ \A k \in Nat : g[k + 1] = F[<<k, g[k]>>]

(* A function over the natural numbers may be defined by its value at 0 and     *)
(* a step: a prefix of it exists up to every number.                            *)
LEMMA PrimitiveRecursion ==
  ASSUME NEW D, NEW base \in D, NEW F, IsStep(F, D)
  PROVE  \E g : Iterates(g, D, base, F)
<1> USE DEF IsStep
<1> DEFINE IsPrefix(h, n) ==
             /\ h \in [0 .. n -> D] /\ h[0] = base
             /\ \A k \in 0 .. n - 1 : h[k + 1] = F[<<k, h[k]>>]
           T == {n \in Nat : \E h : IsPrefix(h, n)}
<1>1. Nat \subseteq T
  <2>1. IsPrefix([k \in 0 .. 0 |-> base], 0)
    OBVIOUS
  <2>2. ASSUME NEW n \in Nat, n \in T PROVE n + 1 \in T
    <3>1. PICK h : IsPrefix(h, n)
      BY <2>2
    <3> DEFINE h2 == [k \in 0 .. n + 1 |-> IF k = n + 1 THEN F[<<n, h[n]>>] ELSE h[k]]
    <3>2. F[<<n, h[n]>>] \in D
      BY <3>1
    <3>3. h2 \in [0 .. n + 1 -> D] /\ h2[0] = base
      BY <3>1, <3>2
    <3>4. ASSUME NEW k \in 0 .. n PROVE h2[k + 1] = F[<<k, h2[k]>>]
      <4>1. h2[k] = h[k]
        OBVIOUS
      <4>2. CASE k = n
        <5>1. k + 1 = n + 1 /\ k + 1 \in 0 .. n + 1
          BY <4>2
        <5>2. h2[k + 1] = F[<<n, h[n]>>]
          BY <5>1
        <5> QED
          BY <4>1, <4>2, <5>2
      <4>3. CASE k # n
        <5>1. k \in 0 .. n - 1 /\ k + 1 \in 0 .. n + 1 /\ k + 1 # n + 1
          BY <4>3
        <5>2. h2[k + 1] = h[k + 1] /\ h[k + 1] = F[<<k, h[k]>>]
          BY <3>1, <5>1
        <5> QED
          BY <4>1, <5>2
      <4> QED
        BY <4>2, <4>3
    <3>5. IsPrefix(h2, n + 1)
      <4> HIDE DEF h2
      <4> QED
        BY <3>3, <3>4
    <3> HIDE DEF IsPrefix
    <3> QED
      BY <3>5
  <2>3. 0 \in T
    BY <2>1
  <2> HIDE DEF T
  <2> QED
    BY <2>2, <2>3, SetInduction
<1>2. ASSUME NEW n \in Nat, NEW m \in Nat, NEW h1, NEW h2,
             IsPrefix(h1, n), IsPrefix(h2, m)
      PROVE  \A k \in Nat : k <= n /\ k <= m => h1[k] = h2[k]
  <2> DEFINE U == {k \in Nat : k <= n /\ k <= m => h1[k] = h2[k]}
  <2>1. 0 \in U
    BY <1>2
  <2>2. ASSUME NEW k \in Nat, k \in U PROVE k + 1 \in U
    <3> SUFFICES ASSUME k + 1 <= n, k + 1 <= m PROVE h1[k + 1] = h2[k + 1]
      OBVIOUS
    <3>1. h1[k] = h2[k]
      BY <2>2
    <3>2. h1[k + 1] = F[<<k, h1[k]>>] /\ h2[k + 1] = F[<<k, h2[k]>>]
      BY <1>2
    <3> QED
      BY <3>1, <3>2
  <2> HIDE DEF U
  <2>3. Nat \subseteq U
    BY <2>1, <2>2, SetInduction
  <2> QED
    BY <2>3 DEF U
<1> DEFINE p(n) == CHOOSE h : IsPrefix(h, n)
           g == [n \in Nat |-> p(n)[n]]
<1>3. \A n \in Nat : IsPrefix(p(n), n)
  BY <1>1
<1> HIDE DEF p
<1>4. g \in [Nat -> D] /\ g[0] = base
  BY <1>3
<1>5. ASSUME NEW k \in Nat PROVE g[k + 1] = F[<<k, g[k]>>]
  <2>1. p(k + 1)[k] = p(k)[k]
    <3> HIDE DEF IsPrefix
    <3>1. IsPrefix(p(k), k) /\ IsPrefix(p(k + 1), k + 1)
      BY <1>3
    <3> QED
      BY <1>2, <3>1
  <2>2. p(k + 1)[k + 1] = F[<<k, p(k + 1)[k]>>]
    BY <1>3
  <2> QED
    BY <2>1, <2>2
<1> HIDE DEF g
<1> QED
  BY <1>4, <1>5 DEF Iterates

(* The elements that are in one of two finite sets are odd in number if those  *)
(* of exactly one set are.                                                     *)
LEMMA SymDiffParity ==
  ASSUME NEW S, NEW T, IsFiniteSet(S), IsFiniteSet(T)
  PROVE  /\ IsFiniteSet(SymDiff(S, T))
         /\ (Cardinality(SymDiff(S, T)) % 2 = 1)
              <=> ((Cardinality(S) % 2 = 1) # (Cardinality(T) % 2 = 1))
<1> DEFINE P == S \ T
           Q == T \ S
           C == S \cap T
<1>1. IsFiniteSet(P) /\ IsFiniteSet(Q) /\ IsFiniteSet(C)
  BY FS_Subset
<1>2. /\ Cardinality(P) \in Nat /\ Cardinality(Q) \in Nat /\ Cardinality(C) \in Nat
      /\ Cardinality({}) = 0
  BY <1>1, FS_CardinalityType, FS_EmptySet
<1>3. P \cap Q = {} /\ P \cap C = {} /\ Q \cap C = {}
  OBVIOUS
<1>4. S = P \cup C /\ T = Q \cup C /\ SymDiff(S, T) = P \cup Q
  BY DEF SymDiff
<1> HIDE DEF P, Q, C
<1>5. /\ Cardinality(S) = Cardinality(P) + Cardinality(C)
      /\ Cardinality(T) = Cardinality(Q) + Cardinality(C)
      /\ Cardinality(SymDiff(S, T)) = Cardinality(P) + Cardinality(Q)
      /\ IsFiniteSet(SymDiff(S, T))
  <2>1. Cardinality(P \cup C) = Cardinality(P) + Cardinality(C) - Cardinality(P \cap C)
    BY <1>1, FS_Union
  <2>2. Cardinality(Q \cup C) = Cardinality(Q) + Cardinality(C) - Cardinality(Q \cap C)
    BY <1>1, FS_Union
  <2>3. /\ Cardinality(P \cup Q) = Cardinality(P) + Cardinality(Q) - Cardinality(P \cap Q)
        /\ IsFiniteSet(P \cup Q)
    BY <1>1, FS_Union
  <2>4. /\ Cardinality(S) = Cardinality(P \cup C) /\ Cardinality(T) = Cardinality(Q \cup C)
        /\ Cardinality(SymDiff(S, T)) = Cardinality(P \cup Q)
    BY <1>4
  <2>5. Cardinality(P \cap C) = 0 /\ Cardinality(Q \cap C) = 0 /\ Cardinality(P \cap Q) = 0
    BY <1>2, <1>3
  <2>6. IsFiniteSet(SymDiff(S, T))
    BY <1>4, <2>3
  <2> QED
    BY <1>2, <2>1, <2>2, <2>3, <2>4, <2>5, <2>6
<1> QED
  BY <1>2, <1>5

(* The accumulator of a row product is empty before the first word, and takes  *)
(* one more product with every word.                                          *)
LEMMA AccumulatorSteps ==
  ASSUME WordBits = 32, NEW A, NEW r, NEW s
  PROVE  /\ Accumulator(A, r, s)[0] = {}
         /\ \A k \in Nat :
              Accumulator(A, r, s)[k + 1] =
                SymDiff(Accumulator(A, r, s)[k], WordProduct(A, r, s, k))
<1> DEFINE D == SUBSET (0 .. 31)
           P(k) == WordProduct(A, r, s, k)
           F == [p \in Nat \X D |-> SymDiff(p[2], P(p[1]))]
           IsAcc(g) == g = [j \in Nat |-> IF j = 0 THEN {} ELSE SymDiff(g[j - 1], P(j - 1))]
<1>1. IsStep(F, D)
  <2>1. \A k \in Nat : P(k) \in D
    BY DEF WordProduct, Window
  <2> QED
    BY <2>1 DEF SymDiff, IsStep
<1>2. \A k \in Nat, t \in D : F[<<k, t>>] = SymDiff(t, P(k))
  OBVIOUS
<1> HIDE DEF F, P
<1>a. {} \in D
  OBVIOUS
<1> HIDE DEF D
<1>b. PICK g : Iterates(g, D, {}, F)
  BY <1>1, <1>a, PrimitiveRecursion
<1>3. g \in [Nat -> D] /\ g[0] = {} /\ \A k \in Nat : g[k + 1] = F[<<k, g[k]>>]
  BY <1>b DEF Iterates
<1>4. IsAcc(g)
  <2>1. ASSUME NEW j \in Nat, j # 0 PROVE g[j] = SymDiff(g[j - 1], P(j - 1))
    <3>1. j - 1 \in Nat /\ (j - 1) + 1 = j
      BY <2>1
    <3> QED
      BY <1>2, <1>3, <3>1
  <2> QED
    BY <1>3, <2>1
<1>5. Accumulator(A, r, s) = CHOOSE h : IsAcc(h)
  BY DEF Accumulator, P
<1>6. IsAcc(Accumulator(A, r, s))
  BY <1>4, <1>5
<1> HIDE DEF IsAcc
<1>7. \A j \in Nat : Accumulator(A, r, s)[j] =
        IF j = 0 THEN {} ELSE SymDiff(Accumulator(A, r, s)[j - 1], P(j - 1))
  BY <1>6 DEF IsAcc
<1>8. ASSUME NEW k \in Nat
      PROVE  Accumulator(A, r, s)[k + 1] = SymDiff(Accumulator(A, r, s)[k], P(k))
  <2>1. k + 1 \in Nat /\ k + 1 # 0 /\ (k + 1) - 1 = k
    OBVIOUS
  <2> QED
    BY <1>7, <2>1
<1> QED
  BY <1>7, <1>8 DEF P

-----------------------------------------------------------------------------
(* The row product.                                                           *)

(* The bits that a row selects: those of r where the row has a one.           *)
Selected(A, r, s) == {k \in r : s + k \in A}

(* The product of a word is the part of the selection that lies in that word.  *)
LEMMA WordOfSelection ==
  ASSUME WordBits = 32, NEW A, NEW r \in SUBSET Nat, NEW s \in Nat, NEW k \in Nat
  PROVE  LET Z == Selected(A, r, s) \cap (32 * k .. 32 * k + 31) IN
           /\ IsFiniteSet(Z) /\ IsFiniteSet(WordProduct(A, r, s, k))
           /\ Cardinality(WordProduct(A, r, s, k)) = Cardinality(Z)
<1> DEFINE Z == Selected(A, r, s) \cap (32 * k .. 32 * k + 31)
           P == WordProduct(A, r, s, k)
           f == [p \in P |-> 32 * k + p]
<1>1. P = {p \in 0 .. 31 : 32 * k + p \in Z}
  <2>1. \A p \in 0 .. 31 : 32 * ((s \div 32) + k) + (s % 32) + p = s + (32 * k + p)
    OBVIOUS
  <2>2. P = {p \in 0 .. 31 : /\ 32 * ((s \div 32) + k) + (s % 32) + p \in A
                             /\ 32 * k + p \in r}
    BY DEF WordProduct, Window, Word
  <2> QED
    BY <2>1, <2>2 DEF Selected
<1>2. IsFiniteSet(P)
  <2>1. P \in SUBSET Nat /\ \A p \in P : p <= 31
    BY <1>1
  <2> HIDE DEF P
  <2> QED
    BY <2>1, FS_BoundedSetOfNaturals
<1>3. f \in Bijection(P, Z)
  <2>1. f \in [P -> Z] /\ \A p, q \in P : f[p] = f[q] => p = q
    BY <1>1
  <2>2. ASSUME NEW z \in Z PROVE \E p \in P : f[p] = z
    <3>1. z - 32 * k \in 0 .. 31 /\ 32 * k + (z - 32 * k) = z
      OBVIOUS
    <3> QED
      BY <1>1, <3>1
  <2> HIDE DEF f, Z, P
  <2> QED
    BY <2>1, <2>2 DEF Bijection, Injection, Surjection, IsInjective
<1> HIDE DEF f, Z, P
<1>4. ExistsBijection(P, Z)
  BY <1>3 DEF ExistsBijection
<1>5. IsFiniteSet(Z) /\ Cardinality(Z) = Cardinality(P)
  BY <1>2, <1>4, FS_Bijection
<1> QED
  BY <1>2, <1>5 DEF Z, P

(* The parity of a set.                                                       *)
Odd(S) == Cardinality(S) % 2 = 1

(* After any number of words the accumulator has the parity of the selection   *)
(* in those words.                                                            *)
LEMMA WalkParity ==
  ASSUME WordBits = 32, NEW A, NEW r \in SUBSET Nat, NEW s \in Nat, NEW words \in Nat
  PROVE  Odd(Accumulator(A, r, s)[words])
           <=> Odd(Selected(A, r, s) \cap (0 .. 32 * words - 1))
<1> DEFINE Z(k) == Selected(A, r, s) \cap (0 .. 32 * k - 1)
           V(k) == Selected(A, r, s) \cap (32 * k .. 32 * k + 31)
           acc == Accumulator(A, r, s)
           P(k) == WordProduct(A, r, s, k)
           T == {k \in Nat : IsFiniteSet(acc[k]) /\ (Odd(acc[k]) <=> Odd(Z(k)))}
<1>1. 0 \in T
  <2>1. Z(0) = {} /\ acc[0] = {}
    BY AccumulatorSteps
  <2> QED
    BY <2>1, FS_EmptySet
<1>2. ASSUME NEW k \in Nat, k \in T PROVE k + 1 \in T
  <2>1. acc[k + 1] = SymDiff(acc[k], P(k))
    BY AccumulatorSteps
  <2>2. /\ IsFiniteSet(V(k)) /\ IsFiniteSet(P(k))
        /\ Cardinality(P(k)) = Cardinality(V(k))
    BY WordOfSelection
  <2>3. IsFiniteSet(acc[k]) /\ (Odd(acc[k]) <=> Odd(Z(k)))
    BY <1>2
  <2>4. Z(k + 1) = SymDiff(Z(k), V(k))
    BY DEF SymDiff, Selected
  <2>5. IsFiniteSet(Z(k))
    <3>1. IsFiniteSet(0 .. 32 * k - 1)
      BY FS_Interval
    <3> QED
      BY <3>1, FS_Subset
  <2> HIDE DEF acc, P, Z, V
  <2>6. /\ IsFiniteSet(acc[k + 1])
        /\ Odd(acc[k + 1]) <=> (Odd(acc[k]) # Odd(P(k)))
    BY <2>1, <2>2, <2>3, SymDiffParity DEF Odd
  <2>7. Odd(Z(k + 1)) <=> (Odd(Z(k)) # Odd(V(k)))
    BY <2>2, <2>4, <2>5, SymDiffParity DEF Odd
  <2>8. Odd(P(k)) <=> Odd(V(k))
    BY <2>2 DEF Odd
  <2>9. Odd(acc[k + 1]) <=> Odd(Z(k + 1))
    BY <2>3, <2>6, <2>7, <2>8 DEF Odd
  <2> QED
    BY <2>6, <2>9
<1> HIDE DEF T
<1>3. words \in T
  BY <1>1, <1>2, SetInduction
<1> QED
  BY <1>3 DEF T

(* row_product is the inner product of the row with r.                        *)
LEMMA RowProductExact ==
  ASSUME WordBits = 32, NEW A, NEW n \in Nat,
         NEW r \in SUBSET (0 .. LBits(n) - 1), NEW s \in Nat
  PROVE  RowProduct(A, r, LWords(n), s) <=> Odd(Selected(A, r, s))
<1>1. LBits(n) \in Nat /\ LWords(n) \in Nat
  BY Sizes
<1>2. LBits(n) <= LWords(n) * 32
  BY <1>1, CeilWord DEF LWords
<1>3. r \in SUBSET Nat
  BY <1>1
<1>4. Selected(A, r, s) \cap (0 .. 32 * LWords(n) - 1) = Selected(A, r, s)
  <2>1. \A x \in r : x \in 0 .. 32 * LWords(n) - 1
    BY <1>1, <1>2
  <2> QED
    BY <2>1 DEF Selected
<1>5. Odd(Accumulator(A, r, s)[LWords(n)])
        <=> Odd(Selected(A, r, s) \cap (0 .. 32 * LWords(n) - 1))
  BY <1>1, <1>3, WalkParity
<1> QED
  BY <1>4, <1>5 DEF RowProduct, Odd

-----------------------------------------------------------------------------
(* The contexts.                                                              *)

(* A context that is handed out, with a matrix inside its description.        *)
LEMMA AllocatedKeeps ==
  ASSUME PlainInv, NEW c \in Contexts, ctx[c] = Null, NEW n \in Nat, ValidLength(n),
         NEW A \in SUBSET (0 .. MatrixBitLen(n) - 1), A \subseteq Nat,
         Allocated(c, n, A)
  PROVE  /\ DOMAIN ctx' = Contexts /\ ctx' = [d \in Contexts |-> ctx'[d]]
         /\ \A d \in Contexts : ctx'[d] = Null \/ ContextOK(ctx'[d])
         /\ NothingLeaks'
<1> DEFINE x == [n |-> n, A |-> A, r |-> {}]
<1>1. ContextOK(x)
  BY DEF ContextOK
<1>2. x # Null
  BY PlainAssumption, <1>1 DEF ContextOK
<1>3. ctx' = [d \in Contexts |-> IF d = c THEN x ELSE ctx[d]]
  BY DEF PlainInv, Allocated
<1>4. Live' = Live \cup {c}
  BY <1>2, <1>3 DEF Live
<1>5. NothingLeaks'
  BY <1>4 DEF NothingLeaks, Allocated, PlainInv
<1> QED
  BY <1>1, <1>3, <1>5 DEF PlainInv

(* A failed call frees what it allocated, and the variable stays NULL.        *)
LEMMA FreedKeeps ==
  ASSUME PlainInv, NEW c \in Contexts, ctx[c] = Null,
         NEW got \in SUBSET Parts, ContextFree(c, heap \cup ({c} \X got)), ctx' = ctx
  PROVE  NothingLeaks'
<1>1. Live' = Live /\ c \notin Live
  BY DEF Live
<1> QED
  BY <1>1 DEF NothingLeaks, ContextFree, PlainInv

LEMMA AllocateFailsKeeps ==
  ASSUME PlainInv, NEW c \in Contexts, ctx[c] = Null, AllocateFails(c), ctx' = ctx
  PROVE  NothingLeaks'
<1>1. PICK got \in {{}, {"ctx"}, {"ctx", "A"}, {"ctx", "r_words"}} :
        ContextFree(c, heap \cup ({c} \X got))
  BY DEF AllocateFails
<1>2. got \in SUBSET Parts
  BY DEF Parts
<1> QED
  BY <1>1, <1>2, FreedKeeps

(* A call that overwrites r within the bytes of the opening, or nothing.      *)
LEMMA OverwrittenKeeps ==
  ASSUME PlainInv, NEW c \in Contexts, ctx[c] # Null,
         NEW r \in SUBSET Bits(OpeningLen(ctx[c].n)), r \subseteq Nat,
         ctx' = [ctx EXCEPT ![c].r = r], UNCHANGED heap
  PROVE  /\ DOMAIN ctx' = Contexts /\ ctx' = [d \in Contexts |-> ctx'[d]]
         /\ \A d \in Contexts : ctx'[d] = Null \/ ContextOK(ctx'[d])
         /\ NothingLeaks'
<1> DEFINE x == [n |-> ctx[c].n, A |-> ctx[c].A, r |-> r]
<1>0. ContextOK(ctx[c])
  BY DEF PlainInv
<1>1. ctx'[c] = x /\ ContextOK(x)
  BY <1>0 DEF ContextOK, PlainInv
<1>2. x # Null
  BY PlainAssumption, <1>1 DEF ContextOK
<1>3. \A d \in Contexts : d # c => ctx'[d] = ctx[d]
  BY DEF PlainInv
<1>4. Live' = Live
  BY <1>1, <1>2, <1>3 DEF Live
<1>5. NothingLeaks'
  BY <1>4 DEF NothingLeaks, PlainInv
<1>6. DOMAIN ctx' = Contexts /\ ctx' = [d \in Contexts |-> ctx'[d]]
  BY DEF PlainInv
<1> QED
  BY <1>1, <1>3, <1>5, <1>6 DEF PlainInv

(* Bytes of a buffer are bits with natural numbers.                          *)
LEMMA BitsAreNat ==
  ASSUME NEW len PROVE Bits(len) \subseteq Nat
  BY DEF Bits

(* Writing len bytes over len bytes leaves len bytes.                        *)
LEMMA PutInside ==
  ASSUME NEW len, NEW old \in SUBSET Bits(len), NEW new
  PROVE  PutBytes(old, new, len) \subseteq Bits(len)
  BY DEF PutBytes

(* The sizes of a message of any accepted length.                             *)
LEMMA MatrixSize ==
  ASSUME WordBits = 32, ByteBits = 8, NEW n \in Nat, ValidLength(n)
  PROVE  /\ MatrixBitLen(n) \in Nat /\ MatrixLen(n) \in Nat
         /\ MatrixBitLen(n) <= MatrixLen(n) * ByteBits
<1>1. MatrixBitLen(n) \in Nat
  BY Sizes DEF MatrixBitLen, ValidLength
<1> QED
  BY <1>1, CeilByte DEF MatrixLen

LEMMA PlainInvariant ==
  ASSUME WordBits = 32, ByteBits = 8
  PROVE  Spec => []PlainInv
<1>1. Init => PlainInv
  BY DEF Init, PlainInv, NothingLeaks, Live, Outcome
<1>2. PlainInv /\ [Next]_vars => PlainInv'
  <2> SUFFICES ASSUME PlainInv, [Next]_vars PROVE PlainInv'
    OBVIOUS
  <2>0. CASE UNCHANGED vars
    BY <2>0 DEF vars, PlainInv, NothingLeaks, Live
  <2>u. ASSUME ctx' = ctx, heap' = heap, last'.ret \in {0, -1}, last'.lib \in BOOLEAN
        PROVE  PlainInv'
    BY <2>u DEF PlainInv, NothingLeaks, Live
  <2>f. ASSUME ctx' = ctx, NothingLeaks', last'.ret \in {0, -1}, last'.lib \in BOOLEAN
        PROVE  PlainInv'
    BY <2>f DEF PlainInv
  <2>1. ASSUME NEW c \in Contexts, Create(c) PROVE PlainInv'
    <3>1. ctx[c] = Null
      BY <2>1 DEF Create
    <3>2. PICK n \in Lengths :
            \/ Report("create", -1, FALSE) /\ UNCHANGED <<ctx, heap>>
            \/ AllocateFails(c) /\ Report("create", -1, TRUE) /\ UNCHANGED ctx
            \/ /\ ContextFree(c, heap \cup ({c} \X Parts))
               /\ Report("create", -1, TRUE) /\ UNCHANGED ctx
            \/ /\ ValidLength(n)
               /\ \E e \in Entropy : Allocated(c, n, SampleMatrix(n, e))
               /\ Report("create", 0, FALSE)
      BY <2>1 DEF Create
    <3>3. CASE Report("create", -1, FALSE) /\ UNCHANGED <<ctx, heap>>
      BY <3>3, <2>u DEF Report, Outcome
    <3>4. CASE AllocateFails(c) /\ Report("create", -1, TRUE) /\ UNCHANGED ctx
      <4>1. NothingLeaks'
        BY <3>1, <3>4, AllocateFailsKeeps
      <4> QED
        BY <4>1, <3>4, <2>f DEF Report, Outcome
    <3>5. CASE /\ ContextFree(c, heap \cup ({c} \X Parts))
               /\ Report("create", -1, TRUE) /\ UNCHANGED ctx
      <4>1. NothingLeaks'
        BY <3>1, <3>5, FreedKeeps
      <4> QED
        BY <4>1, <3>5, <2>f DEF Report, Outcome
    <3>6. CASE /\ ValidLength(n)
               /\ \E e \in Entropy : Allocated(c, n, SampleMatrix(n, e))
               /\ Report("create", 0, FALSE)
      <4>1. PICK e \in Entropy : Allocated(c, n, SampleMatrix(n, e))
        BY <3>6
      <4>2. n \in Nat
        BY PlainAssumption
      <4>3. SampleMatrix(n, e) \subseteq 0 .. MatrixBitLen(n) - 1
        BY <4>2, <3>6, MatrixSize DEF SampleMatrix, ClearUnused, PutBytes, Bits
      <4>4. SampleMatrix(n, e) \subseteq Nat
        BY <4>3
      <4>5. /\ DOMAIN ctx' = Contexts /\ ctx' = [d \in Contexts |-> ctx'[d]]
            /\ \A d \in Contexts : ctx'[d] = Null \/ ContextOK(ctx'[d])
            /\ NothingLeaks'
        BY <3>1, <3>6, <4>1, <4>2, <4>3, <4>4, AllocatedKeeps
      <4> QED
        BY <4>5, <3>6 DEF PlainInv, Report, Outcome
    <3> QED
      BY <3>2, <3>3, <3>4, <3>5, <3>6
  <2>2. ASSUME NEW c \in Contexts, FromMatrix(c) PROVE PlainInv'
    <3>1. ctx[c] = Null
      BY <2>2 DEF FromMatrix
    <3>2. PICK n \in Lengths, bits \in Variants(shared.bits, shared.len),
               honest \in BOOLEAN :
            \/ /\ last' = Outcome("import", -1, FALSE, honest, FALSE)
               /\ UNCHANGED <<ctx, heap>>
            \/ /\ AllocateFails(c) /\ UNCHANGED ctx
               /\ last' = Outcome("import", -1, TRUE, honest, FALSE)
            \/ /\ ImportAccepts(n, bits, shared.len)
               /\ Allocated(c, n, PutBytes({}, bits, shared.len))
               /\ last' = Outcome("import", 0, FALSE, honest, FALSE)
      BY <2>2 DEF FromMatrix
    <3>3. CASE /\ last' = Outcome("import", -1, FALSE, honest, FALSE)
               /\ UNCHANGED <<ctx, heap>>
      BY <3>3, <2>u DEF Outcome
    <3>4. CASE /\ AllocateFails(c) /\ UNCHANGED ctx
               /\ last' = Outcome("import", -1, TRUE, honest, FALSE)
      <4>1. NothingLeaks'
        BY <3>1, <3>4, AllocateFailsKeeps
      <4> QED
        BY <4>1, <3>4, <2>f DEF Outcome
    <3>5. CASE /\ ImportAccepts(n, bits, shared.len)
               /\ Allocated(c, n, PutBytes({}, bits, shared.len))
               /\ last' = Outcome("import", 0, FALSE, honest, FALSE)
      <4> DEFINE A == PutBytes({}, bits, shared.len)
      <4>1. n \in Nat /\ ValidLength(n) /\ shared.len = MatrixLen(n)
        BY <3>5, PlainAssumption DEF ImportAccepts
      <4>2. bits \cap (MatrixBitLen(n) .. MatrixLen(n) * ByteBits - 1) = {}
        BY <3>5, <4>1 DEF ImportAccepts, Canonical
      <4>3. A \subseteq 0 .. MatrixBitLen(n) - 1
        BY <4>1, <4>2, MatrixSize DEF PutBytes, Bits
      <4>4. A \subseteq Nat
        BY <4>3
      <4>5. /\ DOMAIN ctx' = Contexts /\ ctx' = [d \in Contexts |-> ctx'[d]]
            /\ \A d \in Contexts : ctx'[d] = Null \/ ContextOK(ctx'[d])
            /\ NothingLeaks'
        BY <3>1, <3>5, <4>1, <4>3, <4>4, AllocatedKeeps
      <4> QED
        BY <4>5, <3>5 DEF PlainInv, Outcome
    <3> QED
      BY <3>2, <3>3, <3>4, <3>5
  <2>3. ASSUME NEW c \in Contexts, ExportMatrix(c) PROVE PlainInv'
    <3>1. ctx' = ctx /\ heap' = heap
      BY <2>3 DEF ExportMatrix
    <3>2. \E ret \in {0, -1} : Report("export", ret, FALSE)
      BY <2>3 DEF ExportMatrix
    <3> QED
      BY <3>1, <3>2, <2>u DEF Report, Outcome
  <2>4. ASSUME NEW c \in Contexts, Commit(c) PROVE PlainInv'
    <3> DEFINE n == ctx[c].n
               len == OpeningLen(n)
    <3>1. ctx[c] # Null /\ UNCHANGED heap
      BY <2>4 DEF Commit
    <3>2. last'.ret \in {0, -1} /\ last'.lib \in BOOLEAN
      <4>1. \E ret \in {0, -1}, lib \in BOOLEAN : Report("commit", ret, lib)
        BY <2>4 DEF Commit
      <4> QED
        BY <4>1 DEF Report, Outcome
    <3>3. ctx[c].r \in SUBSET Bits(len)
      BY <3>1 DEF PlainInv, ContextOK
    <3>4. \/ ctx' = ctx
          \/ \E e : ctx' = [ctx EXCEPT ![c].r = DrawR(ctx[c].r, n, e)]
          \/ \E e : ctx' = [ctx EXCEPT ![c].r =
                              ClearUnused(DrawR(ctx[c].r, n, e), len, LBits(n))]
      BY <2>4 DEF Commit
    <3>5. \A e : DrawR(ctx[c].r, n, e) \subseteq Bits(len)
      BY <3>3, PutInside DEF DrawR
    <3>6. ctx' = ctx \/ \E r \in SUBSET Bits(len) : ctx' = [ctx EXCEPT ![c].r = r]
      BY <3>4, <3>5 DEF ClearUnused
    <3>7. CASE ctx' = ctx
      BY <3>1, <3>2, <3>7, <2>u
    <3>8. ASSUME NEW r \in SUBSET Bits(len), ctx' = [ctx EXCEPT ![c].r = r]
          PROVE  PlainInv'
      <4>1. r \subseteq Nat
        BY BitsAreNat
      <4> QED
        BY <3>1, <3>2, <3>8, <4>1, OverwrittenKeeps DEF PlainInv
    <3> QED
      BY <3>6, <3>7, <3>8
  <2>5. ASSUME NEW c \in Contexts, Verify(c) PROVE PlainInv'
    <3> DEFINE n == ctx[c].n
               len == OpeningLen(n)
    <3>1. ctx[c] # Null /\ UNCHANGED heap
      BY <2>5 DEF Verify
    <3>2. last'.ret \in {0, -1} /\ last'.lib \in BOOLEAN
      <4>1. \E ret \in {0, -1}, lib \in BOOLEAN : \E honest, related :
              last' = Outcome("verify", ret, lib, honest, related)
        BY <2>5 DEF Verify
      <4> QED
        BY <4>1 DEF Outcome
    <3>3. ctx[c].r \in SUBSET Bits(len)
      BY <3>1 DEF PlainInv, ContextOK
    <3>4. \/ ctx' = ctx
          \/ \E o : ctx' = [ctx EXCEPT ![c].r = PutBytes(ctx[c].r, o, len)]
      BY <2>5 DEF Verify, WellFormed, LoadOpening
    <3>5. \A o : PutBytes(ctx[c].r, o, len) \subseteq Bits(len)
      BY <3>3, PutInside
    <3>6. ctx' = ctx \/ \E r \in SUBSET Bits(len) : ctx' = [ctx EXCEPT ![c].r = r]
      BY <3>4, <3>5
    <3>7. CASE ctx' = ctx
      BY <3>1, <3>2, <3>7, <2>u
    <3>8. ASSUME NEW r \in SUBSET Bits(len), ctx' = [ctx EXCEPT ![c].r = r]
          PROVE  PlainInv'
      <4>1. r \subseteq Nat
        BY BitsAreNat
      <4> QED
        BY <3>1, <3>2, <3>8, <4>1, OverwrittenKeeps DEF PlainInv
    <3> QED
      BY <3>6, <3>7, <3>8
  <2>6. ASSUME NEW c \in Contexts, Free(c) PROVE PlainInv'
    <3>1. ctx' = [d \in Contexts |-> IF d = c THEN Null ELSE ctx[d]]
      BY <2>6 DEF Free, PlainInv
    <3>2. Live' = Live \ {c}
      BY <3>1 DEF Live
    <3>3. NothingLeaks'
      BY <2>6, <3>2 DEF Free, ContextFree, NothingLeaks, PlainInv
    <3> QED
      BY <2>6, <3>1, <3>3 DEF Free, Report, Outcome, PlainInv
  <2> QED
    BY <2>0, <2>1, <2>2, <2>3, <2>4, <2>5, <2>6 DEF Next
<1> QED
  BY <1>1, <1>2, PTL DEF Spec

(* What hm_plain.c writes stays inside the words it has allocated.            *)
THEOREM TypeCorrectness ==
  ASSUME WordBits = 32, ByteBits = 8
  PROVE  Spec => []TypeOK
<1>1. PlainInv => TypeOK
  <2> SUFFICES ASSUME PlainInv PROVE TypeOK
    OBVIOUS
  <2>1. ASSUME NEW c \in Live
        PROVE  /\ ValidLength(ctx[c].n)
               /\ ctx[c].A \subseteq 0 .. MatrixWords(ctx[c].n) * WordBits - 1
               /\ ctx[c].r \subseteq 0 .. LWords(ctx[c].n) * WordBits - 1
    <3> DEFINE n == ctx[c].n
    <3>1. ContextOK(ctx[c]) /\ n \in Nat \ {0} /\ ValidLength(n)
      BY DEF PlainInv, Live, ContextOK, ValidLength
    <3>2. /\ OpeningLen(n) * ByteBits <= LWords(n) * WordBits
          /\ MatrixBitLen(n) <= MatrixWords(n) * WordBits
          /\ OpeningLen(n) \in Nat /\ MatrixBitLen(n) \in Nat
          /\ LWords(n) \in Nat /\ MatrixWords(n) \in Nat
      <4>1. OpeningLen(n) * 8 <= LWords(n) * 32 /\ MatrixLen(n) * 8 <= MatrixWords(n) * 32
        BY <3>1, BufferSizes
      <4>2. LBits(n) \in Nat /\ LWords(n) \in Nat
        BY <3>1, Sizes
      <4>3. OpeningLen(n) \in Nat
        BY <4>2, CeilByte DEF OpeningLen
      <4>4. MatrixBitLen(n) \in Nat /\ MatrixLen(n) \in Nat
            /\ MatrixBitLen(n) <= MatrixLen(n) * 8
        BY <3>1, MatrixSize
      <4>5. MatrixWords(n) \in Nat
        BY <3>1, <4>2 DEF MatrixWords
      <4> QED
        BY <4>1, <4>2, <4>3, <4>4, <4>5
    <3>3. ctx[c].A \subseteq 0 .. MatrixBitLen(n) - 1
          /\ ctx[c].r \subseteq 0 .. OpeningLen(n) * ByteBits - 1
      BY <3>1 DEF ContextOK, Bits
    <3> QED
      BY <3>1, <3>2, <3>3
  <2>2. heap \subseteq Contexts \X Parts
    BY DEF PlainInv, NothingLeaks, Live
  <2> QED
    BY <2>1, <2>2 DEF TypeOK, PlainInv
<1> QED
  BY <1>1, PlainInvariant, PTL

(* The padding the word-wise hash reads is zero, also after failed calls.     *)
THEOREM PaddingStaysZero ==
  ASSUME WordBits = 32, ByteBits = 8
  PROVE  Spec => []PaddingZero
<1>1. PlainInv => PaddingZero
  BY DEF PlainInv, PaddingZero, ContextOK, Live
<1> QED
  BY <1>1, PlainInvariant, PTL

(* No call leaks a part of a context.                                         *)
THEOREM NoLeaks ==
  ASSUME WordBits = 32, ByteBits = 8
  PROVE  Spec => []NothingLeaks
<1>1. PlainInv => NothingLeaks
  BY DEF PlainInv
<1> QED
  BY <1>1, PlainInvariant, PTL

-----------------------------------------------------------------------------
(* The verdicts.                                                              *)

(* Row i of the product, as the relation states it.                           *)
LEMMA RowsExact ==
  ASSUME WordBits = 32, NEW A, NEW n \in Nat, NEW r \in SUBSET (0 .. LBits(n) - 1),
         NEW i \in 0 .. n - 1
  PROVE  RowProduct(A, r, LWords(n), RowStart(n, i))
           <=> Odd({k \in r : n - 1 - i + k \in A})
<1>1. RowStart(n, i) \in Nat
  BY DEF RowStart
<1>2. Selected(A, r, RowStart(n, i)) = {k \in r : n - 1 - i + k \in A}
  BY DEF Selected, RowStart
<1> QED
  BY <1>1, <1>2, RowProductExact

(* What hm_verify refuses before it hashes is not in the relation.            *)
LEMMA RelationWellFormed ==
  ASSUME WordBits = 32, NEW n \in Nat, NEW A, NEW in, InRelation(n, A, in)
  PROVE  WellFormed(n, in) /\ in.digest = SHA256(in.opening)
<1>1. LBits(n) \in Nat
  BY Sizes
<1> QED
  BY <1>1 DEF InRelation, WellFormed, Canonical

(* For the rest the walk over the words decides the relation.                 *)
LEMMA WalkDecides ==
  ASSUME WordBits = 32, NEW n \in Nat, NEW A, NEW in, WellFormed(n, in),
         in.digest = SHA256(in.opening),
         in.opening \in SUBSET Bits(OpeningLen(n)),
         in.b \in SUBSET Bits(MessageByteLen(n))
  PROVE  MessageVerified(n, A, in.opening, in.msg, in.b) <=> InRelation(n, A, in)
<1>1. LBits(n) \in Nat
  BY Sizes
<1>2. in.opening \in SUBSET (0 .. LBits(n) - 1)
  BY <1>1 DEF WellFormed, Canonical, Bits
<1>3. in.b \subseteq 0 .. n - 1
  BY DEF WellFormed, Canonical, Bits
<1> DEFINE row(i) == RowProduct(A, in.opening, LWords(n), RowStart(n, i))
           one(i) == Odd({k \in in.opening : n - 1 - i + k \in A})
<1>4. \A i \in 0 .. n - 1 : row(i) <=> one(i)
  BY <1>2, RowsExact
<1>5. MessageVerified(n, A, in.opening, in.msg, in.b)
        <=> \A i \in 0 .. n - 1 : (row(i) # (i \in in.b)) <=> i \in in.msg
  BY DEF MessageVerified
<1>6. InRelation(n, A, in)
        <=> \A i \in 0 .. n - 1 : i \in in.b <=> ((i \in in.msg) # one(i))
  BY <1>2, <1>3 DEF InRelation, WellFormed, Odd
<1>7. \A i : row(i) \in BOOLEAN /\ one(i) \in BOOLEAN
  BY DEF RowProduct, Odd
<1> HIDE DEF row, one
<1> QED
  BY <1>4, <1>5, <1>6, <1>7

(* hm_commit computes what the relation asks for.                             *)
LEMMA CommitInRelation ==
  ASSUME WordBits = 32, NEW n \in Nat, NEW A, NEW r \in SUBSET (0 .. LBits(n) - 1), NEW msg,
         NEW in, in.clen = CommitmentLen(n), in.olen = OpeningLen(n),
         in.opening = r, in.digest = SHA256(r), in.msg = msg, in.b = ComputeB(n, A, r, msg)
  PROVE  InRelation(n, A, in)
<1> DEFINE row(i) == RowProduct(A, r, LWords(n), RowStart(n, i))
           one(i) == Odd({k \in r : n - 1 - i + k \in A})
<1>1. \A i \in 0 .. n - 1 : row(i) <=> one(i)
  BY RowsExact
<1>2. in.b = {i \in 0 .. n - 1 : row(i) # (i \in msg)}
  BY DEF ComputeB
<1>3. \A i : row(i) \in BOOLEAN /\ one(i) \in BOOLEAN
  BY DEF RowProduct, Odd
<1>4. (\A i \in 0 .. n - 1 : i \in in.b <=> ((i \in msg) # one(i))) => InRelation(n, A, in)
  BY <1>2 DEF InRelation, Odd
<1> HIDE DEF row, one
<1>5. \A i \in 0 .. n - 1 : i \in in.b <=> ((i \in msg) # one(i))
  BY <1>1, <1>2, <1>3
<1> QED
  BY <1>4, <1>5

(* What a verifier receives for an issued commitment fills the same bytes.    *)
LEMMA ReceivedFits ==
  ASSUME WordBits = 32, ByteBits = 8, NEW x, IssuedOK(x), NEW in \in Received(x)
  PROVE  /\ in.clen = CommitmentLen(x.n) /\ in.olen = OpeningLen(x.n)
         /\ in.opening \in SUBSET Bits(OpeningLen(x.n))
         /\ in.b \in SUBSET Bits(MessageByteLen(x.n))
<1> DEFINE n == x.n
<1>1. n \in Nat \ {0} /\ n \in Nat
  BY DEF IssuedOK, ValidLength
<1>2. /\ x.opening \subseteq 0 .. LBits(n) - 1 /\ x.b \subseteq 0 .. n - 1
  BY DEF IssuedOK, InRelation, AsReceived
<1>3. /\ LBits(n) \in Nat /\ LBits(n) <= OpeningLen(n) * 8 /\ OpeningLen(n) \in Nat
      /\ n <= MessageByteLen(n) * 8 /\ MessageByteLen(n) \in Nat
      /\ LBits(n) > 0
  <2>1. LBits(n) \in Nat
    BY <1>1, Sizes
  <2>2. LBits(n) > 0
    BY <1>1, LayoutAssumption DEF LBits
  <2> QED
    BY <1>1, <2>1, <2>2, CeilByte DEF OpeningLen, MessageByteLen
<1>4. x.opening \in SUBSET Bits(OpeningLen(n)) /\ x.b \in SUBSET Bits(MessageByteLen(n))
  BY <1>1, <1>2, <1>3 DEF Bits
<1>5. ASSUME NEW len \in Nat, len * 8 > 0, NEW buffer \in SUBSET Bits(len),
             NEW v \in Variants(buffer, len)
      PROVE  v \in SUBSET Bits(len)
  BY <1>5 DEF Variants, SymDiff, Bits
<1>6. PICK o \in Variants(x.opening, OpeningLen(n)) :
        \E m, d : \E b \in Variants(x.b, MessageByteLen(n)) :
          in = [msg |-> m, b |-> b, digest |-> d, opening |-> o,
                clen |-> CommitmentLen(n), olen |-> OpeningLen(n)]
  BY DEF Received
<1>9. PICK m, d, b :
        b \in Variants(x.b, MessageByteLen(n)) /\
        in = [msg |-> m, b |-> b, digest |-> d, opening |-> o,
              clen |-> CommitmentLen(n), olen |-> OpeningLen(n)]
  BY <1>6
<1>7. OpeningLen(n) * 8 > 0 /\ MessageByteLen(n) * 8 > 0
  BY <1>1, <1>3
<1>8. o \in SUBSET Bits(OpeningLen(n)) /\ b \in SUBSET Bits(MessageByteLen(n))
  BY <1>3, <1>4, <1>5, <1>7, <1>9
<1> QED
  BY <1>8, <1>9

(* r as hm_commit leaves it: the bits of an opening and no other.             *)
LEMMA DrawnOpening ==
  ASSUME WordBits = 32, ByteBits = 8, NEW n \in Nat, NEW old \in SUBSET Bits(OpeningLen(n)), NEW e,
         NEW r, r = ClearUnused(DrawR(old, n, e), OpeningLen(n), LBits(n))
  PROVE  r \in SUBSET (0 .. LBits(n) - 1) /\ r \cap Bits(OpeningLen(n)) = r
<1>1. DrawR(old, n, e) \subseteq Bits(OpeningLen(n))
  BY PutInside DEF DrawR
<1>2. LBits(n) \in Nat
  BY Sizes
<1>3. OpeningLen(n) \in Nat
  BY <1>2, CeilByte DEF OpeningLen
<1> QED
  BY <1>1, <1>2, <1>3 DEF ClearUnused, Bits

(* Verify decides the relation for what is received.                          *)
LEMMA VerifyOutcome ==
  ASSUME WordBits = 32, ByteBits = 8, ExactInv, NEW c \in Contexts, Verify(c)
  PROVE  VerifyExact' /\ HonestAccepted'
<1> DEFINE n == ctx[c].n
           A == ctx[c].A
<1>1. ContextOK(ctx[c])
  BY DEF Verify, ExactInv, PlainInv
<1>2. n \in Nat /\ ctx[c].r \in SUBSET Bits(OpeningLen(n))
  BY <1>1 DEF ContextOK
<1>3. PICK x \in issued : \E in \in Received(x) :
        LET r == LoadOpening(ctx[c].r, in.opening, in.olen)
            Verified(ret, lib) ==
              last' = Outcome("verify", ret, lib, Honest(x, n, A, in), InRelation(n, A, in))
        IN  \/ /\ ~WellFormed(n, in) \/ in.digest # SHA256(in.opening)
               /\ Verified(-1, FALSE)
            \/ Verified(-1, TRUE)
            \/ /\ WellFormed(n, in) /\ in.digest = SHA256(in.opening)
               /\ Verified(IF MessageVerified(n, A, r, in.msg, in.b) THEN 0 ELSE -1, FALSE)
  BY DEF Verify
<1>4. PICK in \in Received(x) :
        LET r == LoadOpening(ctx[c].r, in.opening, in.olen)
            Verified(ret, lib) ==
              last' = Outcome("verify", ret, lib, Honest(x, n, A, in), InRelation(n, A, in))
        IN  \/ /\ ~WellFormed(n, in) \/ in.digest # SHA256(in.opening)
               /\ Verified(-1, FALSE)
            \/ Verified(-1, TRUE)
            \/ /\ WellFormed(n, in) /\ in.digest = SHA256(in.opening)
               /\ Verified(IF MessageVerified(n, A, r, in.msg, in.b) THEN 0 ELSE -1, FALSE)
  BY <1>3
<1> DEFINE r == LoadOpening(ctx[c].r, in.opening, in.olen)
           honest == Honest(x, n, A, in)
           related == InRelation(n, A, in)
<1>5. IssuedOK(x)
  BY DEF ExactInv
<1>6. /\ in.clen = CommitmentLen(x.n) /\ in.olen = OpeningLen(x.n)
      /\ in.opening \in SUBSET Bits(OpeningLen(x.n))
      /\ in.b \in SUBSET Bits(MessageByteLen(x.n))
  BY <1>5, ReceivedFits
(* An honest input is what the relation was established for.                  *)
<1>7. honest => related
  BY <1>5, <1>6 DEF Honest, IssuedOK, InRelation, AsReceived
<1>8. related => WellFormed(n, in) /\ in.digest = SHA256(in.opening)
  BY <1>2, RelationWellFormed
<1>9. ASSUME WellFormed(n, in), in.digest = SHA256(in.opening)
      PROVE  MessageVerified(n, A, r, in.msg, in.b) <=> related
  <2>1. in.olen = OpeningLen(n) /\ in.clen = CommitmentLen(n)
    BY <1>9 DEF WellFormed
  <2>2. in.opening \in SUBSET Bits(OpeningLen(n))
    BY <1>6, <2>1
  <2>3. MessageByteLen(x.n) = MessageByteLen(n)
    <3>1. x.n \in Nat /\ n \in Nat /\ DigestLen \in Nat
      BY <1>2, <1>5, LayoutAssumption DEF IssuedOK
    <3>2. MessageByteLen(x.n) \in Nat /\ MessageByteLen(n) \in Nat
      BY <3>1, CeilByte DEF MessageByteLen
    <3> QED
      BY <1>6, <2>1, <3>1, <3>2 DEF CommitmentLen
  <2>4. r = in.opening
    BY <1>2, <2>1, <2>2 DEF LoadOpening, PutBytes
  <2> QED
    BY <1>2, <1>6, <1>9, <2>2, <2>3, <2>4, WalkDecides
<1>10. last'.op = "verify" /\ last'.honest = honest /\ last'.related = related
  BY <1>4 DEF Outcome
<1>11. ~last'.lib => (last'.ret = 0 <=> related)
  <2>1. CASE /\ ~WellFormed(n, in) \/ in.digest # SHA256(in.opening)
             /\ last' = Outcome("verify", -1, FALSE, honest, related)
    BY <1>8, <2>1 DEF Outcome
  <2>2. CASE last' = Outcome("verify", -1, TRUE, honest, related)
    BY <2>2 DEF Outcome
  <2>3. CASE /\ WellFormed(n, in) /\ in.digest = SHA256(in.opening)
             /\ last' = Outcome("verify",
                                IF MessageVerified(n, A, r, in.msg, in.b) THEN 0 ELSE -1,
                                FALSE, honest, related)
    BY <1>9, <2>3 DEF Outcome
  <2> QED
    BY <1>4, <2>1, <2>2, <2>3
<1> QED
  BY <1>7, <1>10, <1>11 DEF VerifyExact, HonestAccepted

(* Descriptions and commitments that are handed on are what they claim, and   *)
(* every verdict about them is the right one.                                 *)
LEMMA ExactInvariant ==
  ASSUME WordBits = 32, ByteBits = 8
  PROVE  Spec => []ExactInv
<1>1. Init /\ PlainInv => ExactInv
  BY DEF Init, ExactInv, VerifyExact, HonestAccepted, Outcome
<1>2. ExactInv /\ PlainInv' /\ [Next]_vars => ExactInv'
  <2> SUFFICES ASSUME ExactInv, PlainInv', [Next]_vars PROVE ExactInv'
    OBVIOUS
  <2> USE DEF ExactInv
  <2>0. CASE UNCHANGED vars
    BY <2>0 DEF vars, VerifyExact, HonestAccepted
  <2>a. ASSUME NEW op, op # "verify", NEW ret, NEW lib, Report(op, ret, lib)
        PROVE  VerifyExact' /\ HonestAccepted'
    BY <2>a DEF Report, Outcome, VerifyExact, HonestAccepted
  <2>1. ASSUME NEW c \in Contexts, Create(c) PROVE ExactInv'
    <3>1. UNCHANGED <<shared, issued>>
      BY <2>1 DEF Create
    <3>2. \E ret, lib : Report("create", ret, lib)
      BY <2>1 DEF Create
    <3>3. VerifyExact' /\ HonestAccepted'
      BY <2>a, <3>2
    <3> QED
      BY <3>1, <3>3
  <2>2. ASSUME NEW c \in Contexts, FromMatrix(c) PROVE ExactInv'
    <3>1. UNCHANGED <<shared, issued>> /\ shared # Null /\ SharedOK(shared)
      BY <2>2 DEF FromMatrix
    <3>2. PICK n \in Lengths, bits \in Variants(shared.bits, shared.len),
               ret \in {0, -1}, lib \in BOOLEAN :
            /\ last' = Outcome("import", ret, lib,
                               n = shared.n /\ bits = shared.bits, FALSE)
            /\ ~lib /\ ret # 0 => ~ImportAccepts(n, bits, shared.len)
      BY <2>2 DEF FromMatrix
    <3>3. n = shared.n /\ bits = shared.bits => ImportAccepts(n, bits, shared.len)
      <4>1. MatrixBitLen(shared.n) \in Nat
        BY <3>1, MatrixSize DEF SharedOK
      <4> QED
        BY <3>1, <4>1 DEF SharedOK, ImportAccepts, Canonical
    <3>4. VerifyExact' /\ HonestAccepted'
      BY <3>2, <3>3 DEF Outcome, VerifyExact, HonestAccepted
    <3> QED
      BY <3>1, <3>4
  <2>3. ASSUME NEW c \in Contexts, ExportMatrix(c) PROVE ExactInv'
    <3> DEFINE n == ctx[c].n
    <3>1. UNCHANGED issued /\ ContextOK(ctx[c])
      BY <2>3 DEF ExportMatrix, PlainInv
    <3>2. \E ret : Report("export", ret, FALSE)
      BY <2>3 DEF ExportMatrix
    <3>3. VerifyExact' /\ HonestAccepted'
      BY <2>a, <3>2
    <3>4. \/ shared' = shared
          \/ shared' = [n |-> n, len |-> MatrixLen(n), bits |-> ctx[c].A \cap Bits(MatrixLen(n))]
      BY <2>3 DEF ExportMatrix
    <3>5. shared' = Null \/ SharedOK(shared')
      BY <3>1, <3>4 DEF SharedOK, ContextOK
    <3> QED
      BY <3>1, <3>3, <3>5
  <2>4. ASSUME NEW c \in Contexts, Commit(c) PROVE ExactInv'
    <3> DEFINE n == ctx[c].n
               A == ctx[c].A
               len == OpeningLen(n)
    <3>1. UNCHANGED shared /\ ContextOK(ctx[c])
      BY <2>4 DEF Commit, PlainInv
    <3>2. \E ret, lib : Report("commit", ret, lib)
      BY <2>4 DEF Commit
    <3>3. VerifyExact' /\ HonestAccepted'
      BY <2>a, <3>2
    <3>4. \/ issued' = issued
          \/ \E e, m : LET r == ClearUnused(DrawR(ctx[c].r, n, e), len, LBits(n)) IN
               issued' = issued \cup
                 {[n |-> n, bits |-> A \cap Bits(MatrixLen(n)), msg |-> m,
                   b |-> ComputeB(n, A, r, m),
                   digest |-> SHA256(r \cap Bits(len)), opening |-> r \cap Bits(len)]}
      BY <2>4 DEF Commit
    <3>5. ASSUME NEW e, NEW m, NEW r, r = ClearUnused(DrawR(ctx[c].r, n, e), len, LBits(n)),
                 NEW x, x = [n |-> n, bits |-> A \cap Bits(MatrixLen(n)), msg |-> m,
                   b |-> ComputeB(n, A, r, m),
                   digest |-> SHA256(r \cap Bits(len)), opening |-> r \cap Bits(len)]
          PROVE  IssuedOK(x)
      <4>1. n \in Nat /\ ValidLength(n) /\ ctx[c].r \in SUBSET Bits(len)
        BY <3>1 DEF ContextOK
      <4>2. r \in SUBSET (0 .. LBits(n) - 1) /\ r \cap Bits(len) = r
        BY <3>5, <4>1, DrawnOpening
      <4>3. A \cap Bits(MatrixLen(n)) = A
        <5>1. A \subseteq 0 .. MatrixBitLen(n) - 1
          BY <3>1 DEF ContextOK
        <5> QED
          BY <4>1, <5>1, MatrixSize DEF Bits
      <4>4. InRelation(n, A, AsReceived(x))
        BY <3>5, <4>1, <4>2, CommitInRelation DEF AsReceived
      <4> QED
        BY <3>5, <4>1, <4>3, <4>4 DEF IssuedOK
    <3>6. \A x \in issued' : IssuedOK(x)
      BY <3>4, <3>5
    <3> QED
      BY <3>1, <3>3, <3>6
  <2>5. ASSUME NEW c \in Contexts, Verify(c) PROVE ExactInv'
    <3>1. UNCHANGED <<shared, issued>>
      BY <2>5 DEF Verify
    <3>2. VerifyExact' /\ HonestAccepted'
      BY <2>5, VerifyOutcome
    <3> QED
      BY <3>1, <3>2
  <2>6. ASSUME NEW c \in Contexts, Free(c) PROVE ExactInv'
    <3>1. UNCHANGED <<shared, issued>> /\ Report("free", 0, FALSE)
      BY <2>6 DEF Free
    <3>2. VerifyExact' /\ HonestAccepted'
      BY <2>a, <3>1
    <3> QED
      BY <3>1, <3>2
  <2> QED
    BY <2>0, <2>1, <2>2, <2>3, <2>4, <2>5, <2>6 DEF Next
<1> QED
  BY <1>1, <1>2, PlainInvariant, PTL DEF Spec

(* hm_verify answers 0 exactly for what is in the relation of its matrix: the *)
(* word-wise walk agrees with the bitwise definition for every length,        *)
(* matrix, message and opening, whatever the context was used for before.     *)
THEOREM VerifyIsExact ==
  ASSUME WordBits = 32, ByteBits = 8
  PROVE  Spec => []VerifyExact
<1>1. ExactInv => VerifyExact
  BY DEF ExactInv
<1> QED
  BY <1>1, ExactInvariant, PTL

(* What one call produces another accepts: an exported description can be     *)
(* imported, and a commitment verifies in every context of its matrix.        *)
THEOREM HonestIsAccepted ==
  ASSUME WordBits = 32, ByteBits = 8
  PROVE  Spec => []HonestAccepted
<1>1. ExactInv => HonestAccepted
  BY DEF ExactInv
<1> QED
  BY <1>1, ExactInvariant, PTL
==============================================================================
