# zk-HM in TLA+

A verification project for the C library in `src/`: plain Halevi-Micali commitments
and zero-knowledge bit commitments proved with MPC in the head. TLC checks the
models on small instances; TLAPS proves every invariant that TLC checks, and that both
zero-knowledge calls implement their abstract promise, for every value of the
constants.

## 1. Inventory

| Component | Code | State it keeps | Operations |
| --- | --- | --- | --- |
| ZK commitment | `hm_zk.c:34-157` | locals `file`, `base_ctx`, shared `error`, the two output `hm_buffer_t`, the proof file | `hm_bit_commit` |
| ZK verification | `hm_zk.c:159-239` | locals, shared `error` | `hm_bit_verify` |
| Thread state | `thread_state.c` | one `ProverThreadState` / `VerifierThreadState` per OpenMP thread | init, cleanup |
| Proof file I/O | `hm_zk_io.c` | a record per round at offset `k * proofSize` | read/write commitment, `pwrite`/`pread` of a round |
| Owned buffers | `hm_buffer.c` | `data`, `len` | copy, free |
| Plain commitments | `hm_plain.c` | `hm_context_t`: length, layout, matrix `A`, scratch `r_words` | sizes, create, from_matrix, export, free, commit, verify |
| Universal hash | `universal_hash.c`, `toeplitz_internal.h` | none | row products over 32-bit windows |
| MPC arithmetic | `mpc_arithmetic.[ch]` | tape and view counters | shared XOR, AND, MAJ, CH, bit-serial ADD |
| MPC SHA-256 | `mpc_sha256_*.c` | counters, message schedule | prove, verify |
| MPC universal hash, one round | `mpc_universal_hash.c`, `mpc_halevi_micali.c`, `mpc_core_funcs.h` | views | share, prove, open, verify |
| Random oracle | `random_oracle.c` | digest contexts | `H`, `HH`, `H3` |
| PRG | `prg.c` | none | AES-CTR tapes |

Interactions. `hm_bit_commit` and `hm_bit_verify` meet only in the commitment bytes
and the proof file, which nothing locks. Inside each of them an OpenMP team shares
`base_ctx`, the `FILE`, the commitment's digest and one `atomic_int error`;
everything else a thread uses is in its own state. The parties of a plain commitment
exchange an exported matrix, commitments and openings; a context has a scratch
vector `r_words` that both `hm_commit` and `hm_verify` reuse.

What is hard here: 136 rounds under any schedule with a failure in any thread;
cleanups that run twice; output buffers freed on an error path that may not have
filled them; a barrier that failed threads must still reach; short reads and writes;
scratch words that survive from call to call and from failure to success; sizes that
depend on three roundings; carries, tape and view counters that prover and verifier
advance separately over 2184 gates; uninitialised bits that both sides must hash
alike; a process that dies between two rounds, and a verification that runs while
the file is truncated and written again. Each is a row of `hazards` in
`PROJECT.json`, at the line where it bites.

What makes each component correct: a verdict that is exact, a complete file on
success, every allocation released exactly once (ZK calls); a verdict equal to the
definition of the commitment relation whatever the context did before (plain calls);
every access inside its array (universal hash); shares that reconstruct the intended
value and views the verifier can recompute (MPC); an answer to every query
(challenge); and, over the file, that 0 is the answer only to a commitment whose
whole proof has stood there, and the answer to it as long as that proof does.

## 2. Modules

`AllRounds` is the abstract promise of both ZK calls: rounds are performed one by
one, in any order, never undone, and "ok" is announced only after all of them.

`HmBitCommit` models one call of `hm_bit_commit`. `main` is the calling thread's
place in the function; one action per step, named for it, up to `SetupContext`,
which starts the region and gives every iteration of the `omp for` to some thread
(any assignment, hence any schedule). `pc[t]` is a thread's place: `ThreadInit`,
`ThreadInitFails`, `StoreError`, `NextIteration` (the `continue` when the flag is
set), `ProveRound`, `WriteRound`, `WriteRoundFails`, `ReachBarrier`,
`ThreadCleanup`. `Join` and `CleanupLabel` are the two ways out, `Abort` is
`handleErrors` and the crash after an unchecked `calloc` or an unchecked copy of a
digest context. `heap` holds every
allocation; a free that is not in it sets `badFree`. The file is one slot per round
whose content is the number of the round it proves, `Empty`, `Torn` (a short write)
or `Stale` (an earlier proof); a call finds any mixture of the last three there,
which is what calls that failed or died can leave.

`HmBitVerify` models one call of `hm_bit_verify` in the same way. The proof file is
an input: any pattern of valid and invalid records with a missing tail. `rec[t]` is
what thread `t` has copied out of the file, with the round it belongs to: the check
works on the copy, never on the file.

`ProofExchange` composes the two over the file. It extends `HmBitCommit` and takes
`HmBitVerify` as an instance whose `proof` is not an input but `FileOf(subject)`:
the slots as a reader finds them, valid where the call under verification wrote
them. `CommitStep` is any step of the current call, `Die` the end of its process at
any point, `CommitAgain` the next call on the same path. `CallVerify` hands the
verifier the commitment of any call that has returned with one, also of a call that
failed or whose file is gone; `VerifyStep` is any step of the verification and
interleaves with those of a later call. `writer`, `complete` and `settled` are
history.

`HmPlainLayout` is `compute_sizes` as operators, over the bits of a byte and of a
word. `ToeplitzWalk` adds the loops of the universal hash, one step per window that
is loaded. `HmPlain` models the calls of `hm_plain.h` on several contexts. A buffer
is the set of its one bits, which is both its bytes and its little-endian words;
`Window`, `Accumulator` and `RowProduct` follow the word-wise code (the accumulator
is a recursive function of the number of words), `InRelation` is the bitwise
definition the test suite uses. SHA-256 is a constructor, so two different openings
have different digests.

`MpcArithmetic` models the gates of `mpc_arithmetic.c` on shared words. The prover
evaluates gates of any kind, one action each, except that the loop of `mpc_ADD` is
one action per bit (`BeginAdd`, `CarryStep`, `EndAdd`). `wires` holds the shares
between the gates, `views` what the gates write to the views; a word is the set of
its one bits. `Open` is the challenge: the verifier (`CheckProduct`,
`BeginCheckAdd`, `CheckCarry`, `EndCheckAdd`, `CompareOutput`) replays the gates
with the shares of parties `e` and `e + 1`, counters from zero. Which gates follow
each other is left open, so the properties hold for any circuit of them. The
operators of the single gates are in `MpcGates`.

`MpcSha256` fixes the circuit. The straight-line code of `mpc_sha256_prover.c` and
`mpc_sha256_verifier.c` is a table of calls (`ProveExpand`, `ProveCompress`,
`Rotation`, `CheckExpand`, `CheckCompress`, `Feed`, `Load`), and `Exec` says what
one call does to a machine: the arrays, the tape position `rand` and the view index
`county` (`randCount / 4` and `countY`), the views, and whether all checks passed.
The same gates serve the prover with three parties and the verifier with two. The
schedule `w` has its 64 rows from the start, as the uninitialised array of the code
has; a row nobody has written holds `Unassigned`, which is no word. `SHA256` is the
standard's definition on words that are not shared, with the length field of the
padding up to 2^31 bits, the most that TLC's integers allow.

`MpcRound` is the body of both loops around it: `ShareSecrets`, the evaluation
(`LoadBlock`, `ExpandWords`, `CompressBlock`, `FeedForward` once per block, for
either role), `ProveProduct`, `HashViews`, the challenge (`AskOracle`, `NewHash`,
`DrawPair` are H3, one pair of bits a step) and `Open`. `ReadRound` changes sides:
the verifier gets the record with the prover's commitment, one to the other bit, or
one with another digest, asks H3 itself, and goes through `VerifyCommit`,
`SetupVerifier`, the evaluation, `CompareOutput` and `VerifyProduct`. Keys and
nonces are named by their party, `ViewDigest` is a constructor, `Tape` is the
keystream. The views begin with words of an earlier round (`Stale`), and the bits of
`h.b` that the code never initialises (`hm_zk.c:70`, `mpc_universal_hash.c:51`) hold
`Junk`.

`MC*` modules and `.cfg` files give the constants values. `*_proofs` modules hold
the theorems: `ProofExchange_proofs` those of one call of `hm_bit_commit` as well,
`MpcGates_proofs` the lemmas that `MpcArithmetic_proofs` and `MpcRound_proofs` share.

Definitions that begin with `Mut` are plausible bugs; no specification uses them.
Each property fails under the one that `PROJECT.json` pairs it with.

## 3. Runs and bounds

| Run | Bounds | What it shows |
| --- | --- | --- |
| `commit_safety` | 3 threads (symmetric), 3 rounds | exact verdict, complete proof, ownership, no bad free, no mixed file |
| `commit_live` | 2 threads, 3 rounds, fair | termination, implements `AllRounds` |
| `verify_safety` | 3 threads (symmetric), 3 rounds, every file | exact verdict, nothing leaks |
| `verify_live` | 2 threads, 3 rounds, fair | termination, implements `AllRounds` |
| `toeplitz_walk` | the code's word sizes, lengths 0 to 71 with a maximum of 70 | windows and rows inside their arrays |
| `plain_two_parties` | 2 contexts, 4-bit bytes, 8-bit words, lengths 0, 5, 10, one commitment | honest accepted, others refused, padding zero, no leaks |
| `plain_word_walk` | 1 context, lengths 1, 2, 8, 9 | the walk equals the definition on both sides of a word boundary |
| `mpc_gates` | 3-bit words, 2 gates, all values of two inputs | gates compute, adder carries, honest views accepted, verifier in step |
| `mpc_round` | the code's sizes: 32-bit words, 1030-bit opening, 3 blocks, 2184 gates; 2 openings, 3 digests of 4 bits, 3 commitments | shared SHA-256 and product are right, the budget of tape and views is exact, every challenge comes, a record fits its own commitment only |
| `proof_exchange` | 2 calls of 2 threads (symmetric), 1 checking thread, 2 rounds | only a proof that has been complete is accepted, and a complete one is |
| `commit_uninit` | 2 threads, 2 rounds | finding 1 |
| `commit_entropy` | 2 threads, 2 rounds | finding 2 |

Three threads and three rounds are enough for the team: a thread that fails to
initialise, one inside a round and one that has read the flag coexist, and one
thread can own several rounds or none. With 8-bit words and 4-bit bytes a message of
5 bits has unused bits in the message, the opening and the matrix, and the opening
has a padded last word; a message of 9 bits makes the windows cross into the next
base word. What is left out of these runs (three contexts, longer messages) is what
the proofs cover for the properties they state. `MaxCommits` bounds the commitments
of a run; contexts, exports, imports, verifications and failures are unbounded.
`Entropy` and `Messages` are a few bit patterns in which neither the used nor the
unused bits are alike.

Three bits are the least word in which a carry depends on a carry that depends on
inputs; two gates are the least circuit in which a gate reads shares, tape words and
view words at an offset that another gate has moved. The inputs take all 64 pairs of
values under two maskings. The verifier's branches to "rejected" are in the model
and never taken: that is `HonestViewsAccepted`.

`mpc_round` has an opening and a sharing for each of the two bits and one set of
tapes, which are patterns without a period in bits, bytes or words, so that an input
of full size exercises the circuit, the counters, the padding and the digest in every
word; what no run of TLC could enumerate, all inputs, tapes and opening lengths, is
what `MpcRound_proofs` is about. The digests make H3 answer 0, answer 1, and find two pairs of ones,
hash again and answer 2 in the second pair of the new digest. A record is also
checked against a commitment to the other bit and one with another digest. The last
is refused except under challenge 0: `OutputShare` gives the third party the
difference between the digest and the two recorded shares, and a challenge that
opens the two recorded ones sees nothing of it. In the code another digest also
gives another challenge (it is part of H3's input, and the model lets the verifier's
digest be any); this is the protocol's soundness error per repetition, and
`RoundExact` states it as it is.

`proof_exchange` has two rounds and two calls: a verification that reads one round
of one proof and one of the next needs no more, nor does a call that dies between
two rounds. The verifier's own interleavings are in `verify_safety`, and the proofs
cover any teams, rounds and calls.

`CallerBuffers` is how the caller hands over an output buffer: no pointer, an
uninitialised struct, or one with `data == NULL`. The runs that pass leave the
uninitialised one out; `commit_uninit` is that case.

Fairness (`FairSpec` of the two calls): weak fairness of the calling thread's next
step and of each thread's next step. OpenMP threads are kernel threads the scheduler
does not starve, and no step of a thread waits except at the barrier and the join.
`FairSpec` of `MpcRound` is weak fairness of H3's loop, `NewHash \/ DrawPair`: it is
sequential code that runs on. That it ends also depends on SHA-256: `Rehash` must
not lead from pairs of ones to pairs of ones for ever.

## 4. Findings

1. `hm_bit_commit` frees both output buffers on its error path (`hm_zk.c:153`)
   before they were written. `hm_zk.h:31-32` declares them `@param[out]`, and
   `tests/test_hm_zk.cpp:16-17` passes uninitialised structs.
2. `RAND_bytes` failures in `mpc_core_funcs.h:9-11,19-20,30` are ignored, and the
   call returns 0, against `hm_zk.h:34-35`.

## 5. Proofs

One call of `hm_bit_commit` (first part of `ProofExchange_proofs`), for every finite or
infinite team and every number of rounds. The invariant `IInv` (end of `HmBitCommit`) has named parts: `CallInv` says what the
calling thread holds at each of its places, `ForkInv` that the team exists only in
the region, `HeapInv` that a pointer is non-NULL exactly when it owns an allocation,
`TeamInv` that a thread without a complete state has raised the flag before it meets
the loop, `VerdictInv` that a failure is in the flag or about to be, `RecordInv`
that while no failure is flagged every round is written, pending or in some thread's
hands, and `ClaimInv` that a pending round belongs to one thread and its slot is
empty. `CompleteOnSuccess` needs the last two: without them a round could be passed
over after a failure whose flag was lost. The theorems are type correctness, the six
safety properties of `commit_safety`, and that every step implements a step of
`AllRounds` or a stutter. `NoBadFree` is proved under the assumption that the caller
does not pass uninitialised structs ("uninit" is not in `CallerBuffers`), which
finding 1 shows to be needed.

`HmBitVerify_proofs` has the same plan for the verification. `ReadInv` is new there:
a round that was accepted is valid in the file, and what a thread checks is what the
file holds in its own round. `VerdictInv` says that every refusal has a reason
(`Unfit`) and that a raised or pending flag is never lost; `RecordInv` that no round
is passed over while the flag is down. Together they are the two directions of
`VerdictExact`. `NothingLeaks` follows from `HeapInv` and from the threads being
done at return.

`ProofExchange_proofs` proves `ExchangeInv`, for any two teams and any number of
rounds and calls. It keeps `IInv` of the commitment across its steps and across
`Die` and `CommitAgain`, but only the part of the verifier's invariant that survives
a file that changes under it (`CheckersTyped`, `CheckersReady`, `CheckersDone`: 0
means that every round was checked). `SeenInv` is the heart: the records that the
verifier has found valid all stand in the file, or the call they belong to has been
complete, or it was not, the file is truncated and those records never come back, so
at least one round will be refused. `HonestInv` is the converse: as long as the
verified call is the last one and returned 0, nothing but a failure of the verifier
raises its flag.

`HmPlainLayout_proofs` has the arithmetic of rounding up to bytes and words at the
code's sizes (8 and 32, assumptions of its lemmas). `ToeplitzWalk_proofs` uses it to
prove, for every message length and security parameter, that windows, lookahead
words and rows stay inside their arrays. `HmPlain_proofs` proves `PlainInv`
inductive (each context has its matrix inside the description and its `r` inside the
bytes of the opening; what is allocated is exactly the parts of the live contexts),
and from it type correctness, `PaddingZero` and `NothingLeaks`. `VerifyExact` needs
that the word-wise walk is the Toeplitz product: the accumulator's parity is the
parity of the set of bits where row and opening agree, by induction on the number of
words (`AccumulatorSteps`, `SymDiffParity`, `WalkParity`), each word's window being
the 32 diagonals it stands for (`RowProductExact`, `RowsExact`). `ExactInv` then keeps, next to `PlainInv`, what every call
produced (`IssuedOK`) and what two contexts with the same matrix share (`SharedOK`);
`HonestAccepted` follows from it.

`MpcArithmetic_proofs` has lemmas about one product and one carry position (the
cross terms of the three parties cover the product once and the random words
cancel), and the invariant `ArithmeticInv`: `CounterInv` ties the counters to the
gates recorded, `LoopInv` says which carries are computed, `TraceInv` that every
recorded gate satisfies the equations of its formula, and the verifier's shares are
the prover's. `TraceInv` is what a verifier needs long after the prover has left a
gate. From it follow, for every width, circuit, input and tape: the products compute
their functions, the three carries share the carry of the sum, the adder's output is
the sum modulo 2^Width (`SumsCompute`, by induction over the bits, in
`MpcGates_proofs`), and no honest transcript is refused.

`MpcRound_proofs` proves all four invariants of `mpc_round`, for openings of every
length, all secrets and coins, tapes, matrices, digests and uninitialised bits. The
width is 32, as `Sha256Assumption` says. Its parts:

- The prover's machine. `Sound` says that registers, written schedule rows and written
  view rows are words and that the view index equals the tape position. Every call
  keeps it and computes on the reconstructed words what its gate promises
  (`Computes`); the twenty-odd calls of an iteration are followed call by call
  (`ExpandEvaluates`, `CompressEvaluates`), the iterations and blocks by induction
  (`ExpandLoop`, `CompressLoop`, `EvaluationIs`). The result, `EvaluationHashes`: the
  chaining words of a whole evaluation reconstruct `SHA256` of the reconstructed
  opening.
- The prover's round. `ProverInv` says which evaluation a machine belongs to and how
  far it has come; it is inductive on its own and gives `SharesReconstruct`.
- The verifier's machine. `Follows` relates the machine of two parties to that of
  three: same counters, same words of the opened parties, and views that are the
  prover's final ones. Every call keeps it and no check fails (`GateFollows`), since
  the rows a gate reads are never written again; `Tracks` carries that through the
  programs, where the two sides differ only in how they add a round constant (the
  register `t0` is the difference that is allowed to last, and it is written before it
  is read). `StagesRepeat` is the outcome: each stage of the verifier repeats the
  stage of the prover.
- The challenge. How many pairs and digests H3 passes is not bounded, so the prover's
  walk is kept as the set of positions it has passed (`Walking`), and every walk that
  begins at the same digest must end in the same challenge (`EndsWith`): no induction
  is needed, and the verifier's own walk follows that set.
- The whole round. `RoundInv` adds what is in the record (`Published`), how the
  commitment at hand differs from the one that was made (`Related`), and the verdicts
  so far (`Judged`). `TypeOK`, `BudgetExact` and `RoundExact` follow from it. For
  `RoundExact` an accepted round needs every check of both evaluations to agree, and a
  refused one needs a reason; for another digest the comparison fails exactly when
  party 2 is opened.

`RoundExact` is about records that `hm_bit_commit` made; that no other record passes is
a claim about adversaries.

Induction over data is done on sets of natural numbers (`SetInduction` in
`HmPlain_proofs` and in `MpcGates_proofs`, proved from the library's facts about
cardinality, because its own induction theorem takes an operator): a property of the first n words,
bits or blocks is put as the set of the n that have it. The recursion of the models is
in recursive functions for that reason.

Only model-checked: liveness under fairness, that is `Termination` of both calls and
`OracleAnswers`, for which the proof system has no rules here.

## 6. Not modelled

- The keystream of AES-CTR (`prg.c`, `mpc_hm_expand_matrix`). Its loop over chunks
  concatenates what one OpenSSL context returns; the result is `Tape` and `HashA`.
- Functions of the MPC layer without a caller: `mpc_universal_hash_prove` and
  `mpc_universal_hash_verify`, with the `mpc_SETBIT` and `mpc_GETBIT` they use, and
  `mpc_NEGATE`, `mpc_NEGATE2`, `mpc_XORK`, `mpc_XORK2`.
- Examples, tests and benchmarks, which are clients of the library; logging.
- The values of SHA-256 outside `MpcRound`, where it is a constructor.
- A caller that overlaps buffers, uses a context from two threads, or overwrites a
  live context, which the headers exclude; two calls of `hm_bit_commit` that write
  the same path at once. A failure of the disk other than a short or failed
  `pwrite` or `pread`, and data of a dead process that never reached the disk.
- The ignored results of `EVP_MD_CTX_copy_ex` (`hm_zk.c:119`, `218`) and of the
  `EVP_Digest*` calls, which have no step of their own. What makes the copy fail is
  an allocation; it leaves a context without a digest, and OpenSSL 3.0 ends the
  process when such a context is used next. That outcome is `Abort` at `"prove"` and
  `"check"`; that a failed copy could go unnoticed and give a digest of something
  else is excluded by that behaviour of the library, not by this code.
- Statistical hiding, binding and soundness, which are claims about probabilities
  and adversaries, not about steps.

Two remarks of the source are off and change nothing: `prg.h:17-18` counts 64 AND
and 664 ADD gates a block, the code has 128 and 600, 728 words either way, as
`BudgetExact` confirms; `prg.c:17-18` calls the 2912 bytes bits.

## 7. Plan

Done, in this order: `AllRounds`, `HmBitCommit` with its proofs, `HmBitVerify`,
`HmPlainLayout` and `ToeplitzWalk` with their proofs, `HmPlain` with its proofs,
`MpcArithmetic` with its proofs, `MpcSha256` and `MpcRound`, `HmBitVerify_proofs`,
`ProofExchange` with its proofs, `VerifyExact` and `HonestAccepted` of `HmPlain`,
`SumsCompute` of `MpcArithmetic`, and `MpcRound_proofs`.

Left: `commit_batch.c` as a client of `HmPlain`, for the jumps past the
initialisation of `receiver_ctx` (`commit_batch.c:39`, `45`, `54`, `63`).
