------------------------------- MODULE HmPlain -------------------------------
(* Plain Halevi-Micali commitments (src/src/hm_plain.c with the universal     *)
(* hash of src/src/universal_hash.c): contexts are created, exported,         *)
(* imported, used and freed, in any order and by both parties.  A buffer is   *)
(* the set of its one bits, bit k of it being bit k % ByteBits of byte        *)
(* k \div ByteBits, and, read by words on a little-endian host, bit           *)
(* k % WordBits of word k \div WordBits.  SHA-256 is a constructor.           *)
EXTENDS HmPlainLayout, FiniteSets, FiniteSetsExt

CONSTANTS
  Contexts,     \* the variables that hold a hm_context_t *
  Lengths,      \* the message_bit_len values the callers ask for
  Messages,     \* messages, as sets of bits
  Entropy,      \* what RAND_bytes may deliver, cut to the bytes asked for
  MaxCommits,   \* bound: successful commits
  Null          \* a NULL pointer; also, nothing was exported yet

ASSUME PlainAssumption ==
  /\ Lengths \subseteq Nat
  /\ Messages \subseteq SUBSET Nat /\ Entropy \subseteq SUBSET Nat
  /\ MaxCommits \in Nat
  /\ Null \notin [n : Nat, A : SUBSET Nat, r : SUBSET Nat]

Parts == {"ctx", "A", "r_words"}

VARIABLES
  ctx,      \* per variable, Null or the context's message_bit_len, A and r_words
  heap,     \* what is allocated, as <<variable, part>>
  shared,   \* the matrix description last exported, with its length
  issued,   \* history: the commitments that were computed, with their openings
  last      \* history: the last call, its outcome and what it was given

vars == <<ctx, heap, shared, issued, last>>

\* The bits of a buffer of len bytes.
Bits(len) == 0 .. len * ByteBits - 1

\* memcpy or RAND_bytes of len bytes to the start of a buffer.
PutBytes(old, new, len) == (old \ Bits(len)) \cup (new \cap Bits(len))

\* Mutant: the last byte is left as it is.
MutKeepUnusedBits(buffer, len, bits) == buffer

\* buffer[len - 1] &= last_byte_mask(bits).
ClearUnused(buffer, len, bits) == buffer \ (bits .. len * ByteBits - 1)

\* ~(buffer[len - 1] & ~last_byte_mask(bits)).
Canonical(buffer, len, bits) == buffer \cap (bits .. len * ByteBits - 1) = {}

SHA256(bytes) == <<"sha256", bytes>>

(***************************************************************************)
(* The universal hash.                                                     *)
(***************************************************************************)
\* Mutant: the shift brings zeros in, not the bits of the next word.
MutNoNextWord(A, idx, shift) ==
  {p \in 0 .. WordBits - 1 : p + shift < WordBits /\ WordBits * idx + shift + p \in A}

\* toeplitz_load_window32: the low word of [A[idx + 1] | A[idx]] >> shift.
Window(A, idx, shift) ==
  {p \in 0 .. WordBits - 1 : WordBits * idx + shift + p \in A}

Word(r, j) == {p \in 0 .. WordBits - 1 : WordBits * j + p \in r}

\* toeplitz_load_window32(A, base + j, shift) & r_words[j].
WordProduct(A, r, row_start, j) ==
  Window(A, row_start \div WordBits + j, row_start % WordBits) \cap Word(r, j)

\* The accumulator of row_product after each number of words.
Accumulator(A, r, row_start) ==
  LET acc[j \in Nat] ==
        IF j = 0 THEN {} ELSE SymDiff(acc[j - 1], WordProduct(A, r, row_start, j - 1))
  IN  acc

\* row_product: the words of the products are xored, then their parity taken.
RowProduct(A, r, words, row_start) ==
  Cardinality(Accumulator(A, r, row_start)[words]) % 2 = 1

ComputeB(n, A, r, message) ==
  {i \in 0 .. n - 1 : RowProduct(A, r, LWords(n), RowStart(n, i)) # (i \in message)}

MessageVerified(n, A, r, message, b) ==
  \A i \in 0 .. n - 1 :
    (RowProduct(A, r, LWords(n), RowStart(n, i)) # (i \in b)) <=> i \in message

(***************************************************************************)
(* The calls.                                                              *)
(***************************************************************************)
\* The call op returned ret; lib: a library call failed on the way; honest: it
\* was given what another call produced; related: what it was given to verify
\* is in the relation.
Outcome(op, ret, lib, honest, related) ==
  [op |-> op, ret |-> ret, lib |-> lib, honest |-> honest, related |-> related]

Report(op, ret, lib) == last' = Outcome(op, ret, lib, FALSE, FALSE)

Init ==
  /\ ctx = [c \in Contexts |-> Null]
  /\ heap = {}
  /\ shared = Null
  /\ issued = {}
  /\ last = Outcome("none", 0, FALSE, FALSE, FALSE)

\* Mutant: only the handle is released.
MutFreeHandleOnly(c, allocated) == heap' = allocated \ {<<c, "ctx">>}

\* hm_context_free of a context with the parts it has got.
ContextFree(c, allocated) == heap' = allocated \ ({c} \X Parts)

\* context_allocate: one of its allocations fails.
AllocateFails(c) ==
  \E got \in {{}, {"ctx"}, {"ctx", "A"}, {"ctx", "r_words"}} :
    ContextFree(c, heap \cup ({c} \X got))

Allocated(c, n, A) ==
  /\ heap' = heap \cup ({c} \X Parts)
  /\ ctx' = [ctx EXCEPT ![c] = [n |-> n, A |-> A, r |-> {}]]

SampleMatrix(n, bits) ==
  ClearUnused(PutBytes({}, bits, MatrixLen(n)), MatrixLen(n), MatrixBitLen(n))

\* Into a variable that holds no context.  RAND_bytes fails, or an allocation.
Create(c) ==
  /\ ctx[c] = Null
  /\ \E n \in Lengths :
       \/ /\ ~ValidLength(n)
          /\ Report("create", -1, FALSE) /\ UNCHANGED <<ctx, heap>>
       \/ /\ ValidLength(n) /\ AllocateFails(c)
          /\ Report("create", -1, TRUE) /\ UNCHANGED ctx
       \/ /\ ValidLength(n) /\ ContextFree(c, heap \cup ({c} \X Parts))
          /\ Report("create", -1, TRUE) /\ UNCHANGED ctx
       \/ /\ ValidLength(n)
          /\ \E e \in Entropy : Allocated(c, n, SampleMatrix(n, e))
          /\ Report("create", 0, FALSE)
  /\ UNCHANGED <<shared, issued>>

\* A buffer as it was sent, with its first bit flipped, and with its last bit set.
Variants(buffer, len) ==
  {buffer, SymDiff(buffer, {0}), buffer \cup {len * ByteBits - 1}}

ImportAccepts(n, bits, len) ==
  ValidLength(n) /\ len = MatrixLen(n) /\ Canonical(bits, len, MatrixBitLen(n))

\* hm_context_from_matrix.
FromMatrix(c) ==
  /\ ctx[c] = Null /\ shared # Null
  /\ \E n \in Lengths, bits \in Variants(shared.bits, shared.len) :
     LET len == shared.len
         Imported(ret, lib) ==
           last' = Outcome("import", ret, lib,
                           n = shared.n /\ bits = shared.bits, FALSE)
     IN
       \/ /\ ~ImportAccepts(n, bits, len)
          /\ Imported(-1, FALSE) /\ UNCHANGED <<ctx, heap>>
       \/ /\ ImportAccepts(n, bits, len) /\ AllocateFails(c)
          /\ Imported(-1, TRUE) /\ UNCHANGED ctx
       \/ /\ ImportAccepts(n, bits, len)
          /\ Allocated(c, n, PutBytes({}, bits, len)) /\ Imported(0, FALSE)
  /\ UNCHANGED <<shared, issued>>

\* Lengths around the one the layout requires.
Near(len) == {len - 1, len, len + 1}

ExportMatrix(c) ==
  /\ ctx[c] # Null
  /\ \E capacity \in Near(MatrixLen(ctx[c].n)) :
     LET len == MatrixLen(ctx[c].n) IN
       \/ /\ capacity < len
          /\ Report("export", -1, FALSE) /\ UNCHANGED shared
       \/ /\ capacity >= len
          /\ shared' = [n |-> ctx[c].n, len |-> len, bits |-> ctx[c].A \cap Bits(len)]
          /\ Report("export", 0, FALSE)
  /\ UNCHANGED <<ctx, heap, issued>>

\* Mutant: RAND_bytes fills the words of r, not only the bytes of the opening.
MutWholeWords(r, n, bits) == bits \cap (0 .. LWords(n) * WordBits - 1)

\* r after RAND_bytes: the bytes of the opening are overwritten.
DrawR(r, n, bits) == PutBytes(r, bits, OpeningLen(n))

\* hm_commit: sizes are checked, r drawn in place and copied out, the message
\* hashed, the digest appended.  A RAND_bytes that fails may leave anything in r.
Commit(c) ==
  /\ ctx[c] # Null /\ Cardinality(issued) < MaxCommits
  /\ LET n == ctx[c].n
         len == OpeningLen(n)
     IN
     \/ /\ \E capacity \in Near(CommitmentLen(n)), room \in Near(len) :
             capacity < CommitmentLen(n) \/ room < len
        /\ Report("commit", -1, FALSE)
        /\ UNCHANGED <<ctx, issued>>
     \/ /\ \E e \in Entropy \cup {ctx[c].r} : ctx' = [ctx EXCEPT ![c].r = DrawR(@, n, e)]
        /\ Report("commit", -1, TRUE)
        /\ UNCHANGED issued
     \/ \E e \in Entropy, m \in Messages :
        LET r == ClearUnused(DrawR(ctx[c].r, n, e), len, LBits(n)) IN
        /\ ctx' = [ctx EXCEPT ![c].r = r]
        /\ \/ /\ issued' = issued \cup
                   {[n |-> n, bits |-> ctx[c].A \cap Bits(MatrixLen(n)), msg |-> m,
                     b |-> ComputeB(n, ctx[c].A, r, m),
                     digest |-> SHA256(r \cap Bits(len)), opening |-> r \cap Bits(len)]}
              /\ Report("commit", 0, FALSE)
           \/ Report("commit", -1, TRUE) /\ UNCHANGED issued
  /\ UNCHANGED <<heap, shared>>

\* A commitment and an opening as they were issued or changed on their way,
\* also an opening changed together with its digest, and any message.
Received(x) ==
  LET openings == Variants(x.opening, OpeningLen(x.n)) IN
  UNION {{[msg |-> m, b |-> b, digest |-> d, opening |-> o,
           clen |-> CommitmentLen(x.n), olen |-> OpeningLen(x.n)] :
            m \in Messages, b \in Variants(x.b, MessageByteLen(x.n)),
            d \in {x.digest, SHA256(o)}} : o \in openings}

WellFormed(n, in) ==
  /\ in.clen = CommitmentLen(n) /\ in.olen = OpeningLen(n)
  /\ Canonical(in.opening, in.olen, LBits(n))
  /\ Canonical(in.b, MessageByteLen(n), n)

\* The relation a commitment stands for, bit by bit (test_hm_plain.cpp:83-93):
\* b_i = m_i + sum over j of T[n - 1 - i + j] r_j, and the digest of r.
InRelation(n, T, in) ==
  /\ in.clen = CommitmentLen(n) /\ in.olen = OpeningLen(n)
  /\ in.opening \subseteq 0 .. LBits(n) - 1 /\ in.b \subseteq 0 .. n - 1
  /\ in.digest = SHA256(in.opening)
  /\ \A i \in 0 .. n - 1 :
       LET ones == {k \in in.opening : n - 1 - i + k \in T}
       IN  i \in in.b <=> ((i \in in.msg) # (Cardinality(ones) % 2 = 1))

\* in is what hm_commit produced for x, in a context that describes x's matrix.
Honest(x, n, A, in) ==
  /\ x.n = n /\ x.bits = A
  /\ <<x.msg, x.b, x.digest, x.opening>> = <<in.msg, in.b, in.digest, in.opening>>

\* Mutant: the opening is not copied, r is what the last call left.
MutStaleOpening(r, opening, len) == r

\* memcpy(ctx->r_words, opening, opening_len).
LoadOpening(r, opening, len) == PutBytes(r, opening, len)

\* hm_verify: r_words is overwritten only once the digest has matched.
Verify(c) ==
  /\ ctx[c] # Null
  /\ \E x \in issued : \E in \in Received(x) :
     LET n == ctx[c].n
         A == ctx[c].A
         r == LoadOpening(ctx[c].r, in.opening, in.olen)
         Verified(ret, lib) ==
           last' = Outcome("verify", ret, lib, Honest(x, n, A, in), InRelation(n, A, in))
     IN
     \/ /\ ~WellFormed(n, in) \/ in.digest # SHA256(in.opening)
        /\ Verified(-1, FALSE) /\ UNCHANGED ctx
     \/ WellFormed(n, in) /\ Verified(-1, TRUE) /\ UNCHANGED ctx
     \/ /\ WellFormed(n, in) /\ in.digest = SHA256(in.opening)
        /\ ctx' = [ctx EXCEPT ![c].r = r]
        /\ Verified(IF MessageVerified(n, A, r, in.msg, in.b) THEN 0 ELSE -1, FALSE)
  /\ UNCHANGED <<heap, shared, issued>>

\* hm_context_free, and the caller forgets the pointer.
Free(c) ==
  /\ ctx[c] # Null
  /\ ContextFree(c, heap)
  /\ ctx' = [ctx EXCEPT ![c] = Null]
  /\ Report("free", 0, FALSE)
  /\ UNCHANGED <<shared, issued>>

Next ==
  \E c \in Contexts :
    Create(c) \/ FromMatrix(c) \/ ExportMatrix(c) \/ Commit(c) \/ Verify(c) \/ Free(c)

Spec == Init /\ [][Next]_vars
-----------------------------------------------------------------------------
(* Properties *)

Live == {c \in Contexts : ctx[c] # Null}

\* What the calls write stays inside the words that were allocated for it.
TypeOK ==
  /\ \A c \in Live :
       /\ ValidLength(ctx[c].n)
       /\ ctx[c].A \subseteq 0 .. MatrixWords(ctx[c].n) * WordBits - 1
       /\ ctx[c].r \subseteq 0 .. LWords(ctx[c].n) * WordBits - 1
  /\ heap \subseteq Contexts \X Parts
  /\ last.ret \in {0, -1} /\ last.lib \in BOOLEAN

\* hm_verify answers 0 exactly for what is in the relation of the context's own
\* matrix, whatever the context was used for before: the word-wise walk agrees
\* with the bitwise definition (hm_plain.c:203-237, universal_hash.c:5-44).
VerifyExact ==
  last.op = "verify" /\ ~last.lib => (last.ret = 0 <=> last.related)

\* What one call produces another accepts, unless a library call fails: an
\* exported description can be imported with its length, and a commitment verifies
\* with its message and opening in every context of its matrix, also when that
\* context has verified others or failed to commit in between.
HonestAccepted == last.honest /\ ~last.lib => last.ret = 0

\* "Remaining bytes in the padded last word stay zero between calls"
\* (hm_plain.c:192), after failed calls as well, and no unused bit of the matrix
\* is ever set: the hash reads whole words of both.
PaddingZero ==
  \A c \in Live :
    /\ ctx[c].r \subseteq Bits(OpeningLen(ctx[c].n))
    /\ ctx[c].A \subseteq 0 .. MatrixBitLen(ctx[c].n) - 1

\* A call that fails after it has allocated leaves nothing behind, and a context
\* that is handed out is complete.
NothingLeaks == heap = Live \X Parts

-----------------------------------------------------------------------------
(* The inductive invariants. *)
ContextOK(x) ==
  /\ x \in [n : Nat, A : SUBSET Nat, r : SUBSET Nat]
  /\ ValidLength(x.n)
  /\ x.A \subseteq 0 .. MatrixBitLen(x.n) - 1
  /\ x.r \subseteq Bits(OpeningLen(x.n))

\* Behind NothingLeaks, PaddingZero and TypeOK.
PlainInv ==
  /\ DOMAIN ctx = Contexts
  /\ ctx = [c \in Contexts |-> ctx[c]]
  /\ \A c \in Contexts : ctx[c] = Null \/ ContextOK(ctx[c])
  /\ NothingLeaks
  /\ last.ret \in {0, -1} /\ last.lib \in BOOLEAN

\* What hm_commit handed out, as hm_verify gets it when nothing is changed.
AsReceived(x) ==
  [msg |-> x.msg, b |-> x.b, digest |-> x.digest, opening |-> x.opening,
   clen |-> CommitmentLen(x.n), olen |-> OpeningLen(x.n)]

\* An exported description describes a matrix, and an issued commitment is in the
\* relation of the matrix it was computed with.
SharedOK(d) ==
  /\ d.n \in Nat /\ ValidLength(d.n) /\ d.len = MatrixLen(d.n)
  /\ d.bits \subseteq 0 .. MatrixBitLen(d.n) - 1

IssuedOK(x) ==
  x.n \in Nat /\ ValidLength(x.n) /\ InRelation(x.n, x.bits, AsReceived(x))

\* Behind VerifyExact and HonestAccepted.
ExactInv ==
  /\ PlainInv
  /\ shared = Null \/ SharedOK(shared)
  /\ \A x \in issued : IssuedOK(x)
  /\ VerifyExact /\ HonestAccepted
==============================================================================
