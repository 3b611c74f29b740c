------------------------- MODULE ToeplitzWalk_proofs -------------------------
(* The walk stays inside its arrays for every message length the library    *)
(* accepts, at the byte and word sizes of the code.                         *)
EXTENDS ToeplitzWalk, HmPlainLayout_proofs

(* The loops keep their bounds.                                             *)
LEMMA WalkInvariant ==
  ASSUME WordBits = 32
  PROVE  Spec => []WalkInv
<1>1. Init => WalkInv
  <2> SUFFICES ASSUME Init PROVE WalkInv
    OBVIOUS
  <2>1. MaxMsgBits \in Nat /\ n \in Nat
    BY LayoutAssumption DEF Init
  <2>2. LWords(n) \in Nat
    BY <2>1, Sizes
  <2> QED
    BY <2>1, <2>2 DEF Init, WalkInv, TypeOK
<1>2. WalkInv /\ [Next]_vars => WalkInv'
  <2> SUFFICES ASSUME WalkInv, [Next]_vars PROVE WalkInv'
    OBVIOUS
  <2>a. MaxMsgBits \in Nat /\ n \in Nat /\ i \in Nat /\ j \in Nat
    BY LayoutAssumption DEF WalkInv, TypeOK
  <2>b. LWords(n) \in Nat
    BY <2>a, Sizes
  <2>c. n' = n
    BY DEF Next, ComputeSizes, BeginRow, LoadWindow, EndRow, Stopped, vars
  <2>d. LWords(n)' = LWords(n)
    BY <2>c DEF LWords, LBits, CeilDiv
  <2> USE <2>a, <2>b, <2>c, <2>d DEF WalkInv, TypeOK
  <2>1. CASE ComputeSizes
    BY <2>1 DEF ComputeSizes, ValidLength
  <2>2. CASE BeginRow
    BY <2>2 DEF BeginRow, ValidLength
  <2>3. CASE LoadWindow
    BY <2>3 DEF LoadWindow, ValidLength
  <2>4. CASE EndRow
    BY <2>4 DEF EndRow, ValidLength
  <2>5. CASE UNCHANGED vars
    BY <2>5 DEF vars, ValidLength
  <2> QED
    BY <2>1, <2>2, <2>3, <2>4, <2>5 DEF Next, Stopped
<1> QED
  BY <1>1, <1>2, PTL DEF Spec

(* Types of the walk: the row counter stays within the binding security and  *)
(* the word counter within the words of an opening, for every length and    *)
(* every schedule of the two loops of universal_hash_compute_b.             *)
THEOREM WalkTypes ==
  ASSUME WordBits = 32
  PROVE  Spec => []TypeOK
<1>1. WalkInv => TypeOK
  BY DEF WalkInv
<1> QED
  BY <1>1, WalkInvariant, PTL

(* Every window the hash loads, lookahead word included, lies in the matrix  *)
(* that context_allocate calloc'ed, for every message length and row.        *)
THEOREM WindowsStayInBounds ==
  ASSUME WordBits = 32
  PROVE  Spec => []WindowInBounds
<1>1. WalkInv => WindowInBounds
  <2> SUFFICES ASSUME WalkInv, pc = "words", j < LWords(n)
               PROVE  /\ 0 <= Base + j /\ Base + j + 1 < MatrixWords(n)
                      /\ Shift \in 0 .. WordBits - 1
    BY DEF WindowInBounds
  <2>1. MaxMsgBits \in Nat /\ n \in Nat /\ i \in Nat /\ j \in Nat /\ i < n
    BY LayoutAssumption DEF WalkInv, TypeOK
  <2>2. LWords(n) \in Nat
    BY <2>1, Sizes
  <2>3. RowStart(n, i) \in 0 .. n - 1
    BY <2>1 DEF RowStart
  <2>4. Base \in 0 .. (n - 1) \div 32 /\ Shift \in 0 .. 31
    BY <2>1, <2>3 DEF Base, Shift
  <2> QED
    BY <2>1, <2>2, <2>4 DEF MatrixWords
<1> QED
  BY <1>1, WalkInvariant, PTL

(* A row of the product never reaches past the bits that describe the       *)
(* matrix into the padding of its last word.                                *)
THEOREM RowsStayInside ==
  ASSUME WordBits = 32
  PROVE  Spec => []RowInsideMatrix
<1>1. WalkInv => RowInsideMatrix
  <2> SUFFICES ASSUME WalkInv, pc = "words"
               PROVE  /\ RowStart(n, i) >= 0
                      /\ RowStart(n, i) + LBits(n) <= MatrixBitLen(n)
    BY DEF RowInsideMatrix
  <2>1. n \in Nat /\ i \in Nat /\ i < n
    BY LayoutAssumption DEF WalkInv, TypeOK
  <2> QED
    BY <2>1, Sizes DEF RowStart, MatrixBitLen
<1> QED
  BY <1>1, WalkInvariant, PTL

(* What is written as bytes fits in the words it is read as, and only the    *)
(* last byte has bits to clear.                                             *)
THEOREM BytesAlwaysFitWords ==
  ASSUME WordBits = 32, ByteBits = 8
  PROVE  Spec => []BytesFitWords
<1>1. WalkInv => BytesFitWords
  <2> SUFFICES ASSUME WalkInv, pc \notin {"start", "refused"}
               PROVE  BytesFitWords
    BY DEF BytesFitWords
  <2>1. n \in Nat \ {0}
    BY LayoutAssumption DEF WalkInv, TypeOK, ValidLength
  <2> QED
    BY <2>1, BufferSizes DEF BytesFitWords
<1> QED
  BY <1>1, WalkInvariant, PTL
==============================================================================
