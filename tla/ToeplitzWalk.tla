----------------------------- MODULE ToeplitzWalk -----------------------------
(* The loops of universal_hash_compute_b and universal_hash_verify_message    *)
(* (src/src/universal_hash.c): one row product per message bit, each of them  *)
(* a walk over the words of r that loads a 32-bit window of the diagonals for *)
(* each.  The module follows which words of ctx->A and ctx->r_words are read. *)
EXTENDS HmPlainLayout

VARIABLES
  pc,      \* start, rows, words, done or refused
  n,       \* message_bit_len
  i,       \* the row
  j        \* the word of r

vars == <<pc, n, i, j>>

TypeOK ==
  /\ pc \in {"start", "rows", "words", "done", "refused"}
  /\ n \in 0 .. MaxMsgBits + 1
  /\ i \in 0 .. n
  /\ j \in 0 .. LWords(n)

Init == pc = "start" /\ n \in 0 .. MaxMsgBits + 1 /\ i = 0 /\ j = 0

\* The context is created, or the length refused.
ComputeSizes ==
  /\ pc = "start"
  /\ pc' = IF ValidLength(n) THEN "rows" ELSE "refused"
  /\ UNCHANGED <<n, i, j>>

\* Mutant: one row more than the message has bits.
MutRowTooMany ==
  /\ pc = "rows"
  /\ IF i <= n THEN pc' = "words" /\ j' = 0 ELSE pc' = "done" /\ UNCHANGED j
  /\ UNCHANGED <<n, i>>

BeginRow ==
  /\ pc = "rows"
  /\ IF i < n THEN pc' = "words" /\ j' = 0 ELSE pc' = "done" /\ UNCHANGED j
  /\ UNCHANGED <<n, i>>

\* toeplitz_load_window32(A, Base + j, Shift) & r_words[j].
Shift == RowStart(n, i) % WordBits
Base  == RowStart(n, i) \div WordBits

LoadWindow ==
  /\ pc = "words" /\ j < LWords(n)
  /\ j' = j + 1
  /\ UNCHANGED <<pc, n, i>>

EndRow ==
  /\ pc = "words" /\ j = LWords(n)
  /\ pc' = "rows" /\ i' = i + 1
  /\ UNCHANGED <<n, j>>

Stopped == pc \in {"done", "refused"} /\ UNCHANGED vars

Next == ComputeSizes \/ BeginRow \/ LoadWindow \/ EndRow \/ Stopped

Spec == Init /\ [][Next]_vars
-----------------------------------------------------------------------------

\* Both words of every window lie in the calloc'ed matrix, the word of r in
\* r_words, and the shift is one that toeplitz_load_window32 allows.
WindowInBounds ==
  pc = "words" /\ j < LWords(n) =>
    /\ 0 <= Base + j /\ Base + j + 1 < MatrixWords(n)
    /\ Shift \in 0 .. WordBits - 1

\* Every bit of r is multiplied with a bit of the matrix description, never with
\* the padding that follows it: the row ends inside toeplitz_matrix_bit_len.
RowInsideMatrix ==
  pc = "words" => RowStart(n, i) >= 0 /\ RowStart(n, i) + LBits(n) <= MatrixBitLen(n)

\* What is copied by bytes fits where it is read by words: the opening in
\* r_words, the matrix description in A; and the byte counts are the least
\* that hold the bits, so that only the last byte has unused bits to clear.
BytesFitWords ==
  pc \notin {"start", "refused"} =>
    /\ OpeningLen(n) * ByteBits <= LWords(n) * WordBits
    /\ MatrixLen(n) * ByteBits <= MatrixWords(n) * WordBits
    /\ OpeningLen(n) * ByteBits - LBits(n) \in 0 .. ByteBits - 1
    /\ MatrixLen(n) * ByteBits - MatrixBitLen(n) \in 0 .. ByteBits - 1
    /\ MessageByteLen(n) * ByteBits - n \in 0 .. ByteBits - 1

\* The inductive invariant.
WalkInv ==
  /\ TypeOK
  /\ pc \in {"rows", "words", "done"} => ValidLength(n)
  /\ pc = "words" => i < n
==============================================================================
