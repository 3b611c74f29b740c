---------------------------- MODULE HmPlainLayout ----------------------------
(* The sizes behind plain Halevi-Micali commitments (compute_sizes in        *)
(* src/src/hm_plain.c).  A byte has ByteBits bits and a word WordBits, 8 and *)
(* 32 in the code; small values let TLC enumerate contents as well.          *)
EXTENDS Integers

CONSTANTS
  ByteBits,       \* bits of a uint8_t
  WordBits,       \* bits of a uint32_t
  BindingBits,    \* HM_BINDING_SECURITY_BITS
  DigestLen,      \* SHA256_DIGEST_LENGTH
  MaxMsgBits      \* MAX_MSG_BITLEN

ASSUME LayoutAssumption ==
  /\ ByteBits \in Nat \ {0} /\ WordBits \in Nat \ {0}
  /\ WordBits % ByteBits = 0
  /\ BindingBits \in Nat /\ DigestLen \in Nat /\ MaxMsgBits \in Nat

\* Mutant: the quotient is rounded down.
MutFloorDiv(value, divisor) == value \div divisor

CeilDiv(value, divisor) ==
  value \div divisor + (IF value % divisor # 0 THEN 1 ELSE 0)

ValidLength(n) == n # 0 /\ n <= MaxMsgBits

MessageByteLen(n)   == CeilDiv(n, ByteBits)
LBits(n)            == 4 * BindingBits + 2 * n + 4
OpeningLen(n)       == CeilDiv(LBits(n), ByteBits)

\* Mutant: r has its full words only.
MutFullWords(n) == LBits(n) \div WordBits

LWords(n)           == CeilDiv(LBits(n), WordBits)
MatrixBitLen(n)     == LBits(n) + n - 1
MatrixLen(n)        == CeilDiv(MatrixBitLen(n), ByteBits)
CommitmentLen(n)    == MessageByteLen(n) + DigestLen

\* Mutant: no word is added for the lookahead of a window.
MutNoLookahead(n) == (n - 1) \div WordBits + LWords(n)

\* Word windows read one extra word.
MatrixWords(n) == (n - 1) \div WordBits + LWords(n) + 1

\* Mutant: the rows are counted from the wrong end of the diagonals.
MutRowOffByOne(n, i) == n - i

\* Row i of the Toeplitz matrix starts at this bit of the diagonals.
RowStart(n, i) == n - 1 - i
==============================================================================
