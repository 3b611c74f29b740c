----------------------------- MODULE HmBitCommit -----------------------------
(* One call of hm_bit_commit (src/src/hm_zk.c): the calling thread samples   *)
(* the opening, fills the two output buffers and opens the proof file; an    *)
(* OpenMP team then proves NUM_ROUNDS independent rounds, each written with  *)
(* pwrite at its own offset, and the call reports one verdict.               *)
(*                                                                           *)
(* Any allocation, RAND_bytes, fopen or pwrite may fail, and handleErrors    *)
(* may abort the process.  Contents are abstract: a record of the proof file *)
(* is the number of the round it proves.                                     *)
EXTENDS Integers, FiniteSets

CONSTANTS
  Threads,        \* the OpenMP team
  NumRounds,      \* NUM_ROUNDS
  CallerBuffers   \* how the caller may hand over an output hm_buffer_t

ASSUME ThreadsAssumption == Threads # {} /\ "call" \notin Threads
ASSUME NumRoundsAssumption == NumRounds \in Nat \ {0}
ASSUME CallerBuffersAssumption ==
  CallerBuffers \subseteq {"absent", "uninit", "null"}

Rounds == 0 .. NumRounds - 1

\* What a record-sized slot of the file holds when it is not a round's record:
\* nothing, part of a record, or a record of an earlier proof.
Empty == -1
Torn  == -2
Stale == -3

\* The allocations of a ProverThreadState, in order, and of the call itself.
ThreadPtrs == {"rand_block", "views_block", "bufWrite", "ctx_chal", "ctx_hash"}
CallPtrs   == {"file", "base_ctx"}
Buffers    == {"commitment", "opening"}

VARIABLES
  main,         \* where the calling thread is
  ret,          \* the value returned; Pending before
  out,          \* the data pointer of each output buffer
  held,         \* the non-NULL ones of the locals file and base_ctx
  slots,        \* the proof file, one slot of proofSize bytes per round
  pc,           \* where each thread of the team is
  todo,         \* the iterations of the omp for that are still a thread's own
  round,        \* the thread's k
  buf,          \* the record in the thread's bufWrite
  ptr,          \* the non-NULL pointers of the thread's state st
  error,        \* the shared atomic_int
  heap,         \* what is allocated, as <<owner, name>>
  badFree,      \* history: a pointer that owned nothing was freed
  faulted,      \* history: a call whose result is checked has failed
  entropyLost   \* history: a RAND_bytes whose result is ignored has failed

vars == <<main, ret, out, held, slots, pc, todo, round, buf, ptr, error, heap,
          badFree, faulted, entropyLost>>

callVars   == <<ret, out, held, slots>>
teamVars   == <<pc, todo, round, buf, ptr, error>>
Pending    == 1

TypeOK ==
  /\ main \in {"start", "sample", "copy", "keys", "write", "open", "context",
               "region", "cleanup", "returned", "aborted"}
  /\ ret \in {Pending, 0, -1}
  /\ out \in [Buffers -> {"absent", "uninit", "null", "live"}]
  /\ held \subseteq CallPtrs
  /\ slots \in [Rounds -> Rounds \cup {Empty, Torn, Stale}]
  /\ pc \in [Threads -> {"init", "initfail", "loop", "prove", "write", "report",
                         "barrier", "done"}]
  /\ todo \in [Threads -> SUBSET Rounds]
  /\ round \in [Threads -> Rounds]
  /\ buf \in [Threads -> Rounds \cup {Empty}]
  /\ ptr \in [Threads -> SUBSET ThreadPtrs]
  /\ error \in {0, 1}
  /\ heap \subseteq (Threads \X ThreadPtrs)
                      \cup ({"call"} \X (CallPtrs \cup Buffers))
  /\ badFree \in BOOLEAN /\ faulted \in BOOLEAN /\ entropyLost \in BOOLEAN

\* The file may hold an earlier proof, or what an earlier call that failed or
\* died has left of one; both buffers are the caller's.
Init ==
  /\ main = "start" /\ ret = Pending
  /\ out \in [Buffers -> CallerBuffers]
  /\ held = {}
  /\ slots \in [Rounds -> {Empty, Torn, Stale}]
  /\ pc = [t \in Threads |-> "init"]
  /\ todo = [t \in Threads |-> {}]
  /\ round = [t \in Threads |-> 0]
  /\ buf = [t \in Threads |-> Empty]
  /\ ptr = [t \in Threads |-> {}]
  /\ error = 0
  /\ heap = {}
  /\ badFree = FALSE /\ faulted = FALSE /\ entropyLost = FALSE

(***************************************************************************)
(* The calling thread, up to the parallel region.                          *)
(***************************************************************************)
Proceed(next) == main' = next /\ UNCHANGED faulted
GotoCleanup   == main' = "cleanup" /\ faulted' = TRUE

TestRandomness ==
  /\ main = "start"
  /\ \/ Proceed("sample") /\ UNCHANGED ret
     \/ main' = "returned" /\ faulted' = TRUE /\ ret' = -1
  /\ UNCHANGED <<out, held, slots, teamVars, heap, badFree, entropyLost>>

SampleOpening ==
  /\ main = "sample"
  /\ Proceed("copy") \/ GotoCleanup
  /\ UNCHANGED <<callVars, teamVars, heap, badFree, entropyLost>>

\* hm_buffer_copy and hm_zk_write_commitment: refuse an absent buffer, store
\* the result of malloc in it, fill it when there is one.
FillBuffer(b, next) ==
  \/ out[b] = "absent" /\ GotoCleanup /\ UNCHANGED <<out, heap>>
  \/ out[b] # "absent" /\ GotoCleanup /\ out' = [out EXCEPT ![b] = "null"]
       /\ UNCHANGED heap
  \/ out[b] # "absent" /\ Proceed(next) /\ out' = [out EXCEPT ![b] = "live"]
       /\ heap' = heap \cup {<<"call", b>>}

CopyOpening ==
  /\ main = "copy"
  /\ FillBuffer("opening", "keys")
  /\ UNCHANGED <<ret, held, slots, teamVars, badFree, entropyLost>>

\* generate_keys_and_rs ignores what RAND_bytes returns.
GenerateKeys ==
  /\ main = "keys"
  /\ Proceed("write")
  /\ entropyLost' \in {entropyLost, TRUE}
  /\ UNCHANGED <<callVars, teamVars, heap, badFree>>

WriteCommitment ==
  /\ main = "write"
  /\ FillBuffer("commitment", "open")
  /\ UNCHANGED <<ret, held, slots, teamVars, badFree, entropyLost>>

\* Mutant: the file is opened for update and keeps an earlier proof.
MutOpenForUpdate ==
  /\ main = "open"
  /\ \/ GotoCleanup /\ UNCHANGED <<held, slots, heap>>
     \/ /\ Proceed("context")
        /\ held' = held \cup {"file"}
        /\ heap' = heap \cup {<<"call", "file">>}
        /\ UNCHANGED slots
  /\ UNCHANGED <<ret, out, teamVars, badFree, entropyLost>>

\* fopen with mode "wb" empties the file.
OpenProofFile ==
  /\ main = "open"
  /\ \/ GotoCleanup /\ UNCHANGED <<held, slots, heap>>
     \/ /\ Proceed("context")
        /\ held' = held \cup {"file"}
        /\ heap' = heap \cup {<<"call", "file">>}
        /\ slots' = [k \in Rounds |-> Empty]
  /\ UNCHANGED <<ret, out, teamVars, badFree, entropyLost>>

\* The shared hash context, and the start of the region: every iteration of
\* the omp for belongs to one thread, whatever the schedule.
SetupContext ==
  /\ main = "context"
  /\ Proceed("region")
  /\ held' = held \cup {"base_ctx"}
  /\ heap' = heap \cup {<<"call", "base_ctx">>}
  /\ \E owner \in [Rounds -> Threads] :
       todo' = [t \in Threads |-> {k \in Rounds : owner[k] = t}]
  /\ UNCHANGED <<ret, out, slots, pc, round, buf, ptr, error, badFree,
                 entropyLost>>

(***************************************************************************)
(* A thread of the team.                                                   *)
(***************************************************************************)
\* A thread moves, and the calling thread and the outputs stay as they are.
Step(t, from, to) ==
  /\ main = "region"
  /\ pc[t] = from
  /\ pc' = [pc EXCEPT ![t] = to]
  /\ UNCHANGED <<main, ret, out, held>>

\* Mutant: st is not cleared, so a second cleanup frees its pointers again.
MutKeepPointers(t, got, allocated) ==
  /\ heap' = allocated \ ({t} \X got)
  /\ badFree' = (badFree \/ ~({t} \X got \subseteq allocated))
  /\ ptr' = [ptr EXCEPT ![t] = got]

\* Frees every non-NULL pointer of st, then clears st.
StateCleanup(t, got, allocated) ==
  /\ heap' = allocated \ ({t} \X got)
  /\ badFree' = (badFree \/ ~({t} \X got \subseteq allocated))
  /\ ptr' = [ptr EXCEPT ![t] = {}]

ThreadInit(t) ==
  /\ Step(t, "init", "loop")
  /\ ptr' = [ptr EXCEPT ![t] = ThreadPtrs]
  /\ heap' = heap \cup ({t} \X ThreadPtrs)
  /\ UNCHANGED <<slots, todo, round, buf, error, badFree, faulted, entropyLost>>

\* What is allocated when a malloc, or EVP_MD_CTX_new for ctx_chal, fails.
PartialStates ==
  {{}, {"rand_block"}, {"rand_block", "views_block"},
   {"rand_block", "views_block", "bufWrite"}}

ThreadInitFails(t) ==
  /\ Step(t, "init", "initfail")
  /\ \E got \in PartialStates : StateCleanup(t, got, heap \cup ({t} \X got))
  /\ faulted' = TRUE
  /\ UNCHANGED <<slots, todo, round, buf, error, entropyLost>>

\* Mutant: the flag is a count of failures.
MutCountErrors(t) ==
  /\ Step(t, "initfail", "loop") \/ Step(t, "report", "loop")
  /\ error' = error + 1
  /\ UNCHANGED <<slots, todo, round, buf, ptr, heap, badFree, faulted,
                 entropyLost>>

\* atomic_store(&error, 1), after a failed init and after a failed write.
StoreError(t) ==
  /\ Step(t, "initfail", "loop") \/ Step(t, "report", "loop")
  /\ error' = 1
  /\ UNCHANGED <<slots, todo, round, buf, ptr, heap, badFree, faulted,
                 entropyLost>>

\* Mutant: the flag is not looked at.
MutIgnoreFlag(t) ==
  /\ Step(t, "loop", "prove")
  /\ \E k \in todo[t] :
       /\ todo' = [todo EXCEPT ![t] = @ \ {k}]
       /\ round' = [round EXCEPT ![t] = k]
  /\ UNCHANGED <<slots, buf, ptr, error, heap, badFree, faulted, entropyLost>>

\* The next iteration; once the flag is seen set, the thread only passes over it.
NextIteration(t) ==
  /\ Step(t, "loop", IF error = 1 THEN "loop" ELSE "prove")
  /\ \E k \in todo[t] :
       /\ todo' = [todo EXCEPT ![t] = @ \ {k}]
       /\ round' = [round EXCEPT ![t] = k]
  /\ UNCHANGED <<slots, buf, ptr, error, heap, badFree, faulted, entropyLost>>

\* Mutant: the team shares one bufWrite.
MutSharedBuffer(t) ==
  /\ Step(t, "prove", "write")
  /\ buf' = [u \in Threads |-> round[t]]
  /\ entropyLost' \in {entropyLost, TRUE}
  /\ UNCHANGED <<slots, todo, round, ptr, error, heap, badFree, faulted>>

\* Share, prove, hash, challenge, open, and serialise into the thread's buffer;
\* share_secrets ignores what RAND_bytes returns.
ProveRound(t) ==
  /\ Step(t, "prove", "write")
  /\ buf' = [buf EXCEPT ![t] = round[t]]
  /\ entropyLost' \in {entropyLost, TRUE}
  /\ UNCHANGED <<slots, todo, round, ptr, error, heap, badFree, faulted>>

\* Mutant: every record is written at the start of the file.
MutNoOffset(t) ==
  /\ Step(t, "write", "loop")
  /\ slots' = [slots EXCEPT ![0] = buf[t]]
  /\ UNCHANGED <<todo, round, buf, ptr, error, heap, badFree, faulted,
                 entropyLost>>

WriteRound(t) ==
  /\ Step(t, "write", "loop")
  /\ slots' = [slots EXCEPT ![round[t]] = buf[t]]
  /\ UNCHANGED <<todo, round, buf, ptr, error, heap, badFree, faulted,
                 entropyLost>>

\* Mutant: a short write is taken for a complete one.
MutShortWriteAccepted(t) ==
  /\ Step(t, "write", "loop")
  /\ \E left \in {slots[round[t]], Torn} :
       slots' = [slots EXCEPT ![round[t]] = left]
  /\ faulted' = TRUE
  /\ UNCHANGED <<todo, round, buf, ptr, error, heap, badFree, entropyLost>>

\* pwrite fails, or writes less than a record.
WriteRoundFails(t) ==
  /\ Step(t, "write", "report")
  /\ \E left \in {slots[round[t]], Torn} :
       slots' = [slots EXCEPT ![round[t]] = left]
  /\ faulted' = TRUE
  /\ UNCHANGED <<todo, round, buf, ptr, error, heap, badFree, entropyLost>>

\* Mutant: a thread that saw the flag never arrives at the barrier.
MutSkipBarrier(t) ==
  /\ Step(t, "loop", "barrier")
  /\ todo[t] = {} /\ error = 0
  /\ UNCHANGED <<slots, todo, round, buf, ptr, error, heap, badFree, faulted,
                 entropyLost>>

ReachBarrier(t) ==
  /\ Step(t, "loop", "barrier")
  /\ todo[t] = {}
  /\ UNCHANGED <<slots, todo, round, buf, ptr, error, heap, badFree, faulted,
                 entropyLost>>

\* The barrier that ends the omp for, then prover_thread_state_cleanup.
ThreadCleanup(t) ==
  /\ Step(t, "barrier", "done")
  /\ \A u \in Threads : pc[u] \in {"barrier", "done"}
  /\ StateCleanup(t, ptr[t], heap)
  /\ UNCHANGED <<slots, todo, round, buf, error, faulted, entropyLost>>

(***************************************************************************)
(* The calling thread, after the parallel region and on its error path.    *)
(***************************************************************************)
Verdict == IF error = 1 THEN -1 ELSE 0

Join ==
  /\ main = "region"
  /\ \A t \in Threads : pc[t] = "done"
  /\ main' = "returned" /\ ret' = Verdict
  /\ held' = {}
  /\ heap' = heap \ ({"call"} \X held)
  /\ badFree' = (badFree \/ ~({"call"} \X held \subseteq heap))
  /\ UNCHANGED <<out, slots, teamVars, faulted, entropyLost>>

\* hm_buffer_free: a NULL hm_buffer_t is left alone, any data pointer is freed.
Freed == {b \in Buffers : out[b] \in {"live", "uninit"}}

\* Mutant: the error path forgets the opening.
MutLeakOpening ==
  /\ main = "cleanup"
  /\ main' = "returned" /\ ret' = -1
  /\ held' = {}
  /\ out' = [b \in Buffers |-> IF out[b] = "absent" THEN "absent" ELSE "null"]
  /\ heap' = heap \ ({"call"} \X (held \cup (Freed \ {"opening"})))
  /\ UNCHANGED <<slots, teamVars, badFree, faulted, entropyLost>>

CleanupLabel ==
  /\ main = "cleanup"
  /\ main' = "returned" /\ ret' = -1
  /\ held' = {}
  /\ out' = [b \in Buffers |-> IF out[b] = "absent" THEN "absent" ELSE "null"]
  /\ heap' = heap \ ({"call"} \X (held \cup Freed))
  /\ badFree' = (badFree \/ ~({"call"} \X (held \cup Freed) \subseteq heap))
  /\ UNCHANGED <<slots, teamVars, faulted, entropyLost>>

\* handleErrors, or the NULL of an unchecked calloc: the process ends.  AES
\* contexts are set up in mpc_hm_hash_init and for the tapes, SHA-256 contexts
\* for base_ctx and ctx_hash; mpc_sha256_prove pads into calloc'ed blocks.
Abort ==
  /\ \/ main \in {"keys", "context"}
     \/ main = "region" /\ \E t \in Threads : pc[t] \in {"init", "prove"}
  /\ main' = "aborted"
  /\ UNCHANGED <<callVars, teamVars, heap, badFree, faulted, entropyLost>>

Stopped == main \in {"returned", "aborted"} /\ UNCHANGED vars

CallerStep ==
  \/ TestRandomness \/ SampleOpening \/ CopyOpening \/ GenerateKeys
  \/ WriteCommitment \/ OpenProofFile \/ SetupContext \/ Join \/ CleanupLabel

ThreadStep(t) ==
  \/ ThreadInit(t) \/ ThreadInitFails(t) \/ StoreError(t) \/ NextIteration(t)
  \/ ProveRound(t) \/ WriteRound(t) \/ WriteRoundFails(t) \/ ReachBarrier(t)
  \/ ThreadCleanup(t)

Next == CallerStep \/ (\E t \in Threads : ThreadStep(t)) \/ Abort \/ Stopped

Spec == Init /\ [][Next]_vars

\* The scheduler runs every thread that can run, and the libraries return.
FairSpec == Spec /\ WF_vars(CallerStep) /\ \A t \in Threads : WF_vars(ThreadStep(t))

-----------------------------------------------------------------------------
(* Properties *)

\* A call that returns 0 leaves every round's own record in its own slot of the
\* file and hands over both buffers, whatever the schedule and whichever thread
\* failed (hm_zk.c:89-142).
CompleteOnSuccess ==
  ret = 0 => /\ \A k \in Rounds : slots[k] = k
             /\ \A b \in Buffers : out[b] = "live"

\* The verdict is -1 exactly when some checked step of the call failed, in the
\* calling thread or in any thread of the team: no failure is lost on its way
\* through the atomic flag, and none is invented (hm_zk.c:95,130,142).
VerdictExact == main = "returned" => (ret = 0 <=> ~faulted)

\* Nothing is freed twice and nothing that was never allocated is freed: the
\* cleanup of a thread whose init failed runs twice, the error path frees
\* buffers that may not have been filled (thread_state.c:50-84, hm_zk.c:144-156).
NoBadFree == ~badFree

\* When the call returns, all it still owns is the data of the output buffers
\* that are non-NULL: nothing leaks, and no buffer points at freed memory.
OwnershipAtReturn ==
  main = "returned" => heap = {"call"} \X {b \in Buffers : out[b] = "live"}

\* A thread inside a round works on its own complete state, and the digest in
\* commitment_out, base_ctx and the file outlive it: a thread whose init failed
\* starts no round, and nothing is released under a running one.
ReadyStateInUse ==
  \A t \in Threads : pc[t] \in {"prove", "write"} =>
    /\ ptr[t] = ThreadPtrs /\ {t} \X ThreadPtrs \subseteq heap
    /\ {"call"} \X (CallPtrs \cup {"commitment"}) \subseteq heap

\* The file never holds records of an earlier proof beside anything of this
\* one, also when the call fails half-way (fopen "wb", hm_zk.c:77).
SingleProofFile ==
  (\E k \in Rounds : slots[k] = Stale) => \A k \in Rounds : slots[k] \notin Rounds

\* Every call returns or aborts, also when threads fail before the loop: they
\* still pass over their iterations and arrive at the barrier.
Termination == <>(main \in {"returned", "aborted"})

\* RAND_bytes failures are failures of the call (hm_zk.h:34-35: "Returns 0 if
\* the proof was computed successfully, nonzero value indicates failure").
SuccessMeansSampled == ret = 0 => ~entropyLost

\* The call implements the abstract promise: a round is performed when its
\* record is in its slot, at most once and never undone.
Abstract == INSTANCE AllRounds WITH
  done    <- {k \in Rounds : slots[k] = k},
  verdict <- IF main # "returned" THEN "pending"
             ELSE IF ret = 0 THEN "ok" ELSE "failed"

ImplementsAllRounds == Abstract!Spec

-----------------------------------------------------------------------------
(* The inductive invariant behind these properties, part by part. *)

\* How far the calling thread has got: what it holds and has filled.
CallInv ==
  /\ main \in {"start", "sample", "copy", "keys", "write", "open", "cleanup",
              "returned"} => held = {}
  /\ main = "context" => held = {"file"}
  /\ main = "region" => held = CallPtrs
  /\ main \in {"start", "sample", "copy"} => out["opening"] # "live"
  /\ main \in {"start", "sample", "copy", "keys", "write"}
       => out["commitment"] # "live"
  /\ main \in {"keys", "write", "open", "context", "region"}
       => out["opening"] = "live"
  /\ main \in {"open", "context", "region"} => out["commitment"] = "live"

\* The team exists only in the region; a thread that has begun and not ended
\* has the call's file, base_ctx and commitment at its disposal.
ForkInv ==
  /\ main \notin {"region", "returned", "aborted"} =>
       /\ error = 0
       /\ \A t \in Threads : pc[t] = "init" /\ todo[t] = {}
  /\ main = "returned" => \A t \in Threads : pc[t] \in {"init", "done"}
  /\ \A t \in Threads : pc[t] \notin {"init", "done"} =>
       held = CallPtrs /\ out["commitment"] = "live"

\* A pointer is non-NULL exactly when it owns an allocation.
HeapInv ==
  /\ \A t \in Threads, p \in ThreadPtrs : <<t, p>> \in heap <=> p \in ptr[t]
  /\ \A p \in CallPtrs : <<"call", p>> \in heap <=> p \in held
  /\ \A b \in Buffers : <<"call", b>> \in heap <=> out[b] = "live"

\* A thread's state st is complete while it works; a thread without one has
\* raised the flag before it reaches the loop.
TeamInv ==
  \A t \in Threads :
    /\ pc[t] \in {"prove", "write", "report"} => ptr[t] = ThreadPtrs
    /\ pc[t] \in {"init", "initfail", "done"} => ptr[t] = {}
    /\ pc[t] = "loop" /\ ptr[t] # ThreadPtrs => error = 1
    /\ pc[t] \in {"barrier", "done"} => todo[t] = {}
    /\ pc[t] = "write" => buf[t] = round[t]

\* A failure is in the flag, or a thread is about to put it there.
VerdictInv ==
  /\ main # "returned" => ret = Pending
  /\ main \in {"start", "sample", "copy", "keys", "write", "open", "context"}
       => ~faulted
  /\ main = "cleanup" => faulted
  /\ error = 1 => faulted
  /\ \A t \in Threads : pc[t] \in {"initfail", "report"} => faulted
  /\ main = "region" /\ faulted =>
       error = 1 \/ \E t \in Threads : pc[t] \in {"initfail", "report"}
  /\ VerdictExact

\* While no failure is flagged, no round has been passed over.
Accounted(k) ==
  \/ slots[k] = k
  \/ \E t \in Threads :
       k \in todo[t] \/ (pc[t] \in {"prove", "write", "report"} /\ round[t] = k)

RecordInv ==
  /\ main = "region" /\ error = 0 => \A k \in Rounds : Accounted(k)
  /\ CompleteOnSuccess

\* A round that is still to be written belongs to one thread, and its slot is
\* untouched; before the region the file holds no record of this call.
Claims(t, k) == k \in todo[t] \/ (pc[t] \in {"prove", "write"} /\ round[t] = k)

ClaimInv ==
  /\ \A t, u \in Threads : \A k \in Rounds : Claims(t, k) /\ Claims(u, k) => t = u
  /\ \A t \in Threads : pc[t] \in {"prove", "write"} => round[t] \notin todo[t]
  /\ \A t \in Threads : \A k \in Rounds : Claims(t, k) => slots[k] = Empty
  /\ main \notin {"region", "returned", "aborted"} =>
       \A k \in Rounds : slots[k] \in {Empty, Torn, Stale}
  /\ main = "context" => \A k \in Rounds : slots[k] = Empty
  /\ main = "region" => \A k \in Rounds : slots[k] # Stale
  /\ SingleProofFile

IInv ==
  TypeOK /\ CallInv /\ ForkInv /\ HeapInv /\ TeamInv /\ VerdictInv /\ RecordInv
    /\ ClaimInv
==============================================================================
