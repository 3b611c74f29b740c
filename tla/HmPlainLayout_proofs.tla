------------------------ MODULE HmPlainLayout_proofs ------------------------
(* Arithmetic of the sizes of plain commitments, at the byte and word sizes   *)
(* of the code.                                                               *)
EXTENDS HmPlainLayout, TLAPS

(* A quotient rounded up: it holds the value and no smaller one does.       *)
LEMMA CeilByte ==
  ASSUME NEW v \in Nat
  PROVE  /\ CeilDiv(v, 8) \in Nat
         /\ v <= CeilDiv(v, 8) * 8 /\ CeilDiv(v, 8) * 8 < v + 8
  BY DEF CeilDiv

LEMMA CeilWord ==
  ASSUME NEW v \in Nat
  PROVE  /\ CeilDiv(v, 32) \in Nat
         /\ v <= CeilDiv(v, 32) * 32 /\ CeilDiv(v, 32) * 32 < v + 32
  BY DEF CeilDiv

(* The sizes are natural numbers.                                           *)
LEMMA Sizes ==
  ASSUME WordBits = 32, NEW m \in Nat
  PROVE  LBits(m) \in Nat /\ LWords(m) \in Nat
<1>1. LBits(m) \in Nat
  BY LayoutAssumption DEF LBits
<1> QED
  BY <1>1, CeilWord DEF LWords

(* The byte counts of the three buffers of a message of m bits are the least  *)
(* that hold their bits, and the two that are read by words fit the words.    *)
LEMMA BufferSizes ==
  ASSUME WordBits = 32, ByteBits = 8, NEW m \in Nat \ {0}
  PROVE  /\ OpeningLen(m) * ByteBits <= LWords(m) * WordBits
         /\ MatrixLen(m) * ByteBits <= MatrixWords(m) * WordBits
         /\ OpeningLen(m) * ByteBits - LBits(m) \in 0 .. ByteBits - 1
         /\ MatrixLen(m) * ByteBits - MatrixBitLen(m) \in 0 .. ByteBits - 1
         /\ MessageByteLen(m) * ByteBits - m \in 0 .. ByteBits - 1
<1>1. m \in Nat /\ m # 0 /\ BindingBits \in Nat
  BY LayoutAssumption
<1>2. LBits(m) = 4 * BindingBits + 2 * m + 4 /\ LBits(m) \in Nat
  BY <1>1 DEF LBits
<1>3. MatrixBitLen(m) = LBits(m) + m - 1 /\ MatrixBitLen(m) \in Nat
  BY <1>1, <1>2 DEF MatrixBitLen
<1>a. /\ LWords(m) \in Nat /\ LBits(m) <= LWords(m) * 32
      /\ OpeningLen(m) \in Nat /\ MatrixLen(m) \in Nat
      /\ LBits(m) <= OpeningLen(m) * 8
      /\ OpeningLen(m) * 8 < LBits(m) + 8
      /\ MatrixBitLen(m) <= MatrixLen(m) * 8
      /\ MatrixLen(m) * 8 < MatrixBitLen(m) + 8
  BY <1>2, <1>3, CeilByte, CeilWord DEF OpeningLen, MatrixLen, LWords
<1>b. (m - 1) \div 32 \in Nat /\ m - 1 <= ((m - 1) \div 32) * 32 + 31
  BY <1>1
<1>c. MatrixWords(m) = (m - 1) \div 32 + LWords(m) + 1
  BY DEF MatrixWords
<1>4. /\ OpeningLen(m) * 8 <= LWords(m) * 32
      /\ OpeningLen(m) * 8 - LBits(m) \in 0 .. 7
  BY <1>2, <1>a
<1>5. /\ MatrixLen(m) * 8 <= MatrixWords(m) * 32
      /\ MatrixLen(m) * 8 - MatrixBitLen(m) \in 0 .. 7
  <2>1. PICK q \in Nat : q = (m - 1) \div 32 /\ m - 1 <= q * 32 + 31
    BY <1>b
  <2>2. PICK w \in Nat : w = MatrixWords(m) /\ w = q + LWords(m) + 1
    BY <1>a, <1>c, <2>1
  <2>3. MatrixBitLen(m) <= w * 32
    BY <1>1, <1>2, <1>3, <1>a, <2>1, <2>2
  <2>4. MatrixLen(m) <= w * 4
    BY <1>3, <1>a, <2>3
  <2>5. MatrixLen(m) * 8 <= MatrixWords(m) * 32
    BY <1>a, <2>2, <2>4
  <2>6. MatrixLen(m) * 8 - MatrixBitLen(m) \in 0 .. 7
    BY <1>3, <1>a
  <2> QED
    BY <2>5, <2>6
<1>6. MessageByteLen(m) * 8 - m \in 0 .. 7
  <2>1. /\ MessageByteLen(m) \in Nat /\ m <= MessageByteLen(m) * 8
        /\ MessageByteLen(m) * 8 < m + 8
    BY <1>1, CeilByte DEF MessageByteLen
  <2> QED
    BY <1>1, <2>1
<1> QED
  BY <1>4, <1>5, <1>6
==============================================================================
