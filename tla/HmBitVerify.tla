----------------------------- MODULE HmBitVerify -----------------------------
(* One call of hm_bit_verify (src/src/hm_zk.c): argument checks, the proof   *)
(* file, the shared hash context, then an OpenMP team that reads every       *)
(* round's record with pread, derives its challenge and checks it, and one   *)
(* verdict for all rounds.                                                   *)
(*                                                                           *)
(* Contents are abstract: a record is valid when mpc_hm_verify accepts it    *)
(* for this commitment, invalid otherwise, and missing when the file ends    *)
(* before the record does.                                                   *)
EXTENDS Integers, FiniteSets

CONSTANTS
  Threads,     \* the OpenMP team
  NumRounds    \* NUM_ROUNDS

ASSUME ThreadsAssumption == Threads # {} /\ "call" \notin Threads
ASSUME NumRoundsAssumption == NumRounds \in Nat \ {0}

Rounds == 0 .. NumRounds - 1
Kinds  == {"valid", "invalid", "missing"}
Nothing == [of |-> -1, as |-> "missing"]    \* st.a and st.z before the first read

ThreadPtrs == {"bufWrite", "z.ve", "z.ve1", "ctx_chal"}
CallPtrs   == {"file", "base_ctx"}

VARIABLES
  main,      \* where the calling thread is
  ret,       \* the value returned; Pending before
  arg,       \* the commitment and the path as the caller passed them
  proof,     \* the proof file: what each round's record is
  held,      \* the non-NULL ones of the locals file and base_ctx
  pc,        \* where each thread of the team is
  todo,      \* the iterations of the omp for that are still a thread's own
  round,     \* the thread's k
  rec,       \* the record that st.a and st.z hold: of which round, and what it is
  chal,      \* st.ctx_chal: "base" after the copy of base_ctx, else "spent"
  ptr,       \* the non-NULL pointers of the thread's state st
  error,     \* the shared atomic_int
  heap,      \* what is allocated, as <<owner, name>>
  badFree,   \* history: a pointer that owned nothing was freed
  checked,   \* history: the rounds found valid
  faulted    \* history: a call whose result is checked has failed

callVars == <<ret, arg, proof, held>>
teamVars == <<pc, todo, round, rec, chal, ptr, error>>
vars     == <<main, callVars, teamVars, heap, badFree, checked, faulted>>
Pending  == 1

TypeOK ==
  /\ main \in {"start", "args", "open", "commitment", "context", "region",
               "fail", "returned", "aborted"}
  /\ ret \in {Pending, 0, -1}
  /\ arg \in {"absent", "badlength", "ok"}
  /\ proof \in [Rounds -> Kinds]
  /\ held \subseteq CallPtrs
  /\ pc \in [Threads -> {"init", "initfail", "loop", "read", "check", "report",
                         "barrier", "done"}]
  /\ todo \in [Threads -> SUBSET Rounds]
  /\ round \in [Threads -> Rounds]
  /\ rec \in [Threads -> [of : Rounds \cup {-1}, as : Kinds]]
  /\ chal \in [Threads -> {"base", "spent"}]
  /\ ptr \in [Threads -> SUBSET ThreadPtrs]
  /\ error \in {0, 1}
  /\ heap \subseteq (Threads \X ThreadPtrs) \cup ({"call"} \X CallPtrs)
  /\ badFree \in BOOLEAN /\ faulted \in BOOLEAN
  /\ checked \subseteq Rounds

\* A file of any length: from some offset on, the records are missing.
ProofFiles ==
  {f \in [Rounds -> Kinds] :
     \A j, k \in Rounds : j < k /\ f[j] = "missing" => f[k] = "missing"}

Init ==
  /\ main = "start" /\ ret = Pending
  /\ arg \in {"absent", "badlength", "ok"}
  /\ proof \in ProofFiles
  /\ held = {}
  /\ pc = [t \in Threads |-> "init"]
  /\ todo = [t \in Threads |-> {}]
  /\ round = [t \in Threads |-> 0]
  /\ rec = [t \in Threads |-> Nothing]
  /\ chal = [t \in Threads |-> "spent"]
  /\ ptr = [t \in Threads |-> {}]
  /\ error = 0 /\ heap = {} /\ checked = {}
  /\ badFree = FALSE /\ faulted = FALSE

(***************************************************************************)
(* The calling thread, up to the parallel region.                          *)
(***************************************************************************)
TestRandomness ==
  /\ main = "start"
  /\ \/ main' = "args" /\ UNCHANGED <<ret, faulted>>
     \/ main' = "returned" /\ ret' = -1 /\ faulted' = TRUE
  /\ UNCHANGED <<arg, proof, held, teamVars, heap, badFree, checked>>

\* No commitment, an empty one, or no path.
CheckArguments ==
  /\ main = "args"
  /\ \/ arg # "absent" /\ main' = "open" /\ UNCHANGED ret
     \/ arg = "absent" /\ main' = "returned" /\ ret' = -1
  /\ UNCHANGED <<arg, proof, held, teamVars, heap, badFree, checked, faulted>>

OpenProofFile ==
  /\ main = "open"
  /\ \/ main' = "fail" /\ faulted' = TRUE /\ UNCHANGED <<held, heap>>
     \/ /\ main' = "commitment" /\ UNCHANGED faulted
        /\ held' = held \cup {"file"}
        /\ heap' = heap \cup {<<"call", "file">>}
  /\ UNCHANGED <<ret, arg, proof, teamVars, badFree, checked>>

\* hm_zk_read_commitment accepts exactly one length.
ReadCommitment ==
  /\ main = "commitment"
  /\ main' = IF arg = "ok" THEN "context" ELSE "fail"
  /\ UNCHANGED <<callVars, teamVars, heap, badFree, checked, faulted>>

\* The matrix, the shared hash context, and the start of the region: every
\* iteration of the omp for belongs to one thread, whatever the schedule.
SetupContext ==
  /\ main = "context"
  /\ main' = "region"
  /\ held' = held \cup {"base_ctx"}
  /\ heap' = heap \cup {<<"call", "base_ctx">>}
  /\ \E owner \in [Rounds -> Threads] :
       todo' = [t \in Threads |-> {k \in Rounds : owner[k] = t}]
  /\ UNCHANGED <<ret, arg, proof, pc, round, rec, chal, ptr, error, badFree,
                 checked, faulted>>

(***************************************************************************)
(* A thread of the team.                                                   *)
(***************************************************************************)
Step(t, from, to) ==
  /\ main = "region"
  /\ pc[t] = from
  /\ pc' = [pc EXCEPT ![t] = to]
  /\ UNCHANGED <<main, ret, arg, proof, held>>

\* Mutant: st is not cleared, so a second cleanup frees its pointers again.
MutKeepPointers(t, got, allocated) ==
  /\ heap' = allocated \ ({t} \X got)
  /\ badFree' = (badFree \/ ~({t} \X got \subseteq allocated))
  /\ ptr' = [ptr EXCEPT ![t] = got]

\* Frees every non-NULL pointer of st, then clears st.
StateCleanup(t, got, allocated) ==
  /\ heap' = allocated \ ({t} \X got)
  /\ badFree' = (badFree \/ ~({t} \X got \subseteq allocated))
  /\ ptr' = [ptr EXCEPT ![t] = {}]

ThreadInit(t) ==
  /\ Step(t, "init", "loop")
  /\ ptr' = [ptr EXCEPT ![t] = ThreadPtrs]
  /\ heap' = heap \cup ({t} \X ThreadPtrs)
  /\ UNCHANGED <<todo, round, rec, chal, error, badFree, checked, faulted>>

\* What is allocated when one of the four allocations fails.
PartialStates ==
  {{}, {"bufWrite"}, {"bufWrite", "z.ve"}, {"bufWrite", "z.ve", "z.ve1"}}

\* Mutant: the failed init returns without its cleanup, st still partly filled.
MutInitNoCleanup(t) ==
  /\ Step(t, "init", "initfail")
  /\ \E got \in PartialStates : heap' = heap \cup ({t} \X got)
  /\ faulted' = TRUE
  /\ UNCHANGED <<todo, round, rec, chal, ptr, badFree, error, checked>>

ThreadInitFails(t) ==
  /\ Step(t, "init", "initfail")
  /\ \E got \in PartialStates : StateCleanup(t, got, heap \cup ({t} \X got))
  /\ faulted' = TRUE
  /\ UNCHANGED <<todo, round, rec, chal, error, checked>>

\* Mutant: the flag is a count of failures.
MutCountErrors(t) ==
  /\ Step(t, "initfail", "loop") \/ Step(t, "report", "loop")
  /\ error' = error + 1
  /\ UNCHANGED <<todo, round, rec, chal, ptr, heap, badFree, checked, faulted>>

\* atomic_store(&error, 1): after a failed init, read or check.
StoreError(t) ==
  /\ Step(t, "initfail", "loop") \/ Step(t, "report", "loop")
  /\ error' = 1
  /\ UNCHANGED <<todo, round, rec, chal, ptr, heap, badFree, checked, faulted>>

\* Mutant: the flag is not looked at.
MutIgnoreFlag(t) ==
  /\ Step(t, "loop", "read")
  /\ \E k \in todo[t] :
       /\ todo' = [todo EXCEPT ![t] = @ \ {k}]
       /\ round' = [round EXCEPT ![t] = k]
  /\ UNCHANGED <<rec, chal, ptr, error, heap, badFree, checked, faulted>>

\* The next iteration; once the flag is seen set, the thread only passes over it.
NextIteration(t) ==
  /\ Step(t, "loop", IF error = 1 THEN "loop" ELSE "read")
  /\ \E k \in todo[t] :
       /\ todo' = [todo EXCEPT ![t] = @ \ {k}]
       /\ round' = [round EXCEPT ![t] = k]
  /\ UNCHANGED <<rec, chal, ptr, error, heap, badFree, checked, faulted>>

RecordAt(k) == [of |-> k, as |-> proof[k]]

\* Mutant: every read starts at the beginning of the file.
MutNoOffset(t) ==
  /\ Step(t, "read", "check")
  /\ proof[0] # "missing"
  /\ rec' = [rec EXCEPT ![t] = RecordAt(0)]
  /\ chal' = [chal EXCEPT ![t] = "base"]
  /\ UNCHANGED <<todo, round, ptr, error, heap, badFree, checked, faulted>>

\* Mutant: base_ctx is copied into ctx_chal only before a thread's first round.
MutCopyOnce(t) ==
  /\ Step(t, "read", "check")
  /\ proof[round[t]] # "missing"
  /\ rec' = [rec EXCEPT ![t] = RecordAt(round[t])]
  /\ chal' = [chal EXCEPT ![t] = IF rec[t] = Nothing THEN "base" ELSE "spent"]
  /\ UNCHANGED <<todo, round, ptr, error, heap, badFree, checked, faulted>>

\* A whole record is copied into st.a and st.z, and base_ctx into ctx_chal.
ReadRound(t) ==
  /\ Step(t, "read", "check")
  /\ proof[round[t]] # "missing"
  /\ rec' = [rec EXCEPT ![t] = RecordAt(round[t])]
  /\ chal' = [chal EXCEPT ![t] = "base"]
  /\ UNCHANGED <<todo, round, ptr, error, heap, badFree, checked, faulted>>

\* Mutant: the end of the file is taken for the end of the proof.
MutEndOfFile(t) ==
  /\ Step(t, "read", "loop")
  /\ proof[round[t]] = "missing"
  /\ UNCHANGED <<todo, round, rec, chal, ptr, error, heap, badFree, checked,
                 faulted>>

\* pread meets the end of the file, or fails.
ReadRoundFails(t) ==
  /\ Step(t, "read", "report")
  /\ faulted' = (faulted \/ proof[round[t]] # "missing")
  /\ UNCHANGED <<todo, round, rec, chal, ptr, error, heap, badFree, checked>>

\* H3 consumes the copy; mpc_hm_verify accepts the record that was read.
CheckRound(t) ==
  /\ Step(t, "check", "loop")
  /\ rec[t].as = "valid" /\ chal[t] = "base"
  /\ chal' = [chal EXCEPT ![t] = "spent"]
  /\ checked' = checked \cup {rec[t].of}
  /\ UNCHANGED <<todo, round, rec, ptr, error, heap, badFree, faulted>>

\* mpc_hm_verify rejects the record, or runs out of memory.
CheckRoundFails(t) ==
  /\ Step(t, "check", "report")
  /\ \/ (rec[t].as = "invalid" \/ chal[t] = "spent") /\ UNCHANGED faulted
     \/ faulted' = TRUE
  /\ chal' = [chal EXCEPT ![t] = "spent"]
  /\ UNCHANGED <<todo, round, rec, ptr, error, heap, badFree, checked>>

\* Mutant: a thread that saw the flag never arrives at the barrier.
MutSkipBarrier(t) ==
  /\ Step(t, "loop", "barrier")
  /\ todo[t] = {} /\ error = 0
  /\ UNCHANGED <<todo, round, rec, chal, ptr, error, heap, badFree, checked,
                 faulted>>

ReachBarrier(t) ==
  /\ Step(t, "loop", "barrier")
  /\ todo[t] = {}
  /\ UNCHANGED <<todo, round, rec, chal, ptr, error, heap, badFree, checked,
                 faulted>>

\* The barrier that ends the omp for, then verifier_thread_state_cleanup.
ThreadCleanup(t) ==
  /\ Step(t, "barrier", "done")
  /\ \A u \in Threads : pc[u] \in {"barrier", "done"}
  /\ StateCleanup(t, ptr[t], heap)
  /\ UNCHANGED <<todo, round, rec, chal, error, checked, faulted>>

(***************************************************************************)
(* The calling thread, after the parallel region and on its error path.    *)
(***************************************************************************)
Verdict == IF error = 1 THEN -1 ELSE 0

Release ==
  /\ held' = {}
  /\ heap' = heap \ ({"call"} \X held)
  /\ badFree' = (badFree \/ ~({"call"} \X held \subseteq heap))
  /\ UNCHANGED <<arg, proof, teamVars, checked, faulted>>

Join ==
  /\ main = "region"
  /\ \A t \in Threads : pc[t] = "done"
  /\ main' = "returned" /\ ret' = Verdict
  /\ Release

\* The fail label: fclose when the file was opened.
FailLabel ==
  /\ main = "fail"
  /\ main' = "returned" /\ ret' = -1
  /\ Release

\* handleErrors ends the process: AES or SHA-256 contexts that cannot be set up
\* in mpc_hm_expand_matrix, for base_ctx, or while a round is checked.
Abort ==
  /\ \/ main = "context"
     \/ main = "region" /\ \E t \in Threads : pc[t] = "check"
  /\ main' = "aborted"
  /\ UNCHANGED <<callVars, teamVars, heap, badFree, checked, faulted>>

Stopped == main \in {"returned", "aborted"} /\ UNCHANGED vars

CallerStep ==
  \/ TestRandomness \/ CheckArguments \/ OpenProofFile \/ ReadCommitment
  \/ SetupContext \/ Join \/ FailLabel

ThreadStep(t) ==
  \/ ThreadInit(t) \/ ThreadInitFails(t) \/ StoreError(t) \/ NextIteration(t)
  \/ ReadRound(t) \/ ReadRoundFails(t) \/ CheckRound(t) \/ CheckRoundFails(t)
  \/ ReachBarrier(t) \/ ThreadCleanup(t)

Next == CallerStep \/ (\E t \in Threads : ThreadStep(t)) \/ Abort \/ Stopped

Spec == Init /\ [][Next]_vars

\* The scheduler runs every thread that can run, and the libraries return.
FairSpec == Spec /\ WF_vars(CallerStep) /\ \A t \in Threads : WF_vars(ThreadStep(t))

-----------------------------------------------------------------------------
(* Properties *)

\* The verdict is the one of checking the rounds one after the other: 0 exactly
\* when the arguments are good, every record of the file is there and valid, and
\* nothing failed on the way; it depends on no schedule (hm_zk.c:162-238).
VerdictExact ==
  main = "returned" =>
    (ret = 0 <=> /\ arg = "ok" /\ ~faulted
                 /\ \A k \in Rounds : proof[k] = "valid")

\* Nothing is freed twice: the cleanup of a thread whose init failed runs twice
\* (thread_state.c:112-136), and the fail label closes only an open file.
NoBadFree == ~badFree

\* A call that returns owns nothing any more, on every path.
NothingLeaks == main = "returned" => heap = {} /\ held = {}

\* A thread inside a round has its complete state, and the file and base_ctx
\* outlive it: a thread whose init failed starts no round.
ReadyStateInUse ==
  \A t \in Threads : pc[t] \in {"read", "check"} =>
    /\ ptr[t] = ThreadPtrs /\ {t} \X ThreadPtrs \subseteq heap
    /\ {"call"} \X CallPtrs \subseteq heap

\* Every call returns or aborts, also when threads fail before the loop: they
\* still pass over their iterations and arrive at the barrier.
Termination == <>(main \in {"returned", "aborted"})

\* The call implements the abstract promise: a round is performed when its own
\* record was accepted, at most once, and 0 is returned only after all of them.
Abstract == INSTANCE AllRounds WITH
  done    <- checked,
  verdict <- IF main # "returned" THEN "pending"
             ELSE IF ret = 0 THEN "ok" ELSE "failed"

ImplementsAllRounds == Abstract!Spec

-----------------------------------------------------------------------------
(* The inductive invariant behind these properties, part by part. *)

\* How far the calling thread has got: what it holds, and which arguments have
\* passed its tests.
CallInv ==
  /\ main # "returned" => ret = Pending
  /\ main \in {"start", "args", "open", "returned"} => held = {}
  /\ main \in {"commitment", "context"} => held = {"file"}
  /\ main = "region" => held = CallPtrs
  /\ main = "fail" => held \in {{}, {"file"}}
  /\ main \in {"context", "region"} => arg = "ok"

\* The team exists only in the region; a thread that has begun and not ended
\* has the call's file and base_ctx at its disposal.
ForkInv ==
  /\ main \notin {"region", "returned", "aborted"} =>
       /\ error = 0 /\ checked = {}
       /\ \A t \in Threads : pc[t] = "init" /\ todo[t] = {}
  /\ main = "returned" => \A t \in Threads : pc[t] \in {"init", "done"}
  /\ \A t \in Threads : pc[t] \notin {"init", "done"} => held = CallPtrs

\* A pointer is non-NULL exactly when it owns an allocation.
HeapInv ==
  /\ \A t \in Threads, p \in ThreadPtrs : <<t, p>> \in heap <=> p \in ptr[t]
  /\ \A p \in CallPtrs : <<"call", p>> \in heap <=> p \in held

\* A thread's state st is complete while it works, and it checks the round it
\* has just read with a fresh copy of base_ctx; a thread without a state has
\* raised the flag before it reaches the loop.
TeamInv ==
  \A t \in Threads :
    /\ pc[t] \in {"read", "check", "report"} => ptr[t] = ThreadPtrs
    /\ pc[t] \in {"init", "initfail", "done"} => ptr[t] = {}
    /\ pc[t] = "loop" /\ ptr[t] # ThreadPtrs => error = 1
    /\ pc[t] \in {"barrier", "done"} => todo[t] = {}
    /\ pc[t] = "check" => rec[t].of = round[t] /\ chal[t] = "base"

\* What has been read is what the file holds.
ReadInv ==
  /\ \A k \in checked : proof[k] = "valid"
  /\ \A t \in Threads : pc[t] = "check" =>
       rec[t].as = proof[round[t]] /\ rec[t].as # "missing"

\* A refusal has a reason, and is in the flag or on its way into it.
Unfit == faulted \/ \E k \in Rounds : proof[k] # "valid"

VerdictInv ==
  /\ main \in {"start", "args", "open", "commitment", "context"} => ~faulted
  /\ main = "fail" => faulted \/ arg # "ok"
  /\ error = 1 => Unfit
  /\ \A t \in Threads : pc[t] \in {"initfail", "report"} => Unfit
  /\ main = "region" /\ faulted =>
       error = 1 \/ \E t \in Threads : pc[t] \in {"initfail", "report"}
  /\ VerdictExact

\* While no failure is flagged, no round has been passed over.
Accounted(k) ==
  \/ k \in checked
  \/ \E t \in Threads :
       k \in todo[t] \/ (pc[t] \in {"read", "check", "report"} /\ round[t] = k)

RecordInv ==
  /\ main = "region" /\ error = 0 => \A k \in Rounds : Accounted(k)
  /\ ret = 0 => checked = Rounds

\* A round that is still to be checked belongs to one thread.
Claims(t, k) == k \in todo[t] \/ (pc[t] \in {"read", "check"} /\ round[t] = k)

ClaimInv ==
  /\ \A t, u \in Threads : \A k \in Rounds : Claims(t, k) /\ Claims(u, k) => t = u
  /\ \A t \in Threads : pc[t] \in {"read", "check"} => round[t] \notin todo[t]
  /\ \A t \in Threads : \A k \in Rounds : Claims(t, k) => k \notin checked

IInv ==
  TypeOK /\ CallInv /\ ForkInv /\ HeapInv /\ TeamInv /\ RecordInv /\ ReadInv
    /\ VerdictInv /\ ClaimInv /\ NoBadFree
==============================================================================
