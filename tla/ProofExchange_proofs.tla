------------------------- MODULE ProofExchange_proofs -------------------------
(* Proofs about HmBitCommit and about ProofExchange, which runs its calls one *)
(* after the other, for all teams, numbers of rounds and calls: a call leaves *)
(* all rounds or a failure, what a verifier accepts was complete, and what    *)
(* was committed without a failure is accepted.                               *)
EXTENDS ProofExchange, TLAPS

(***************************************************************************)
(* One call of hm_bit_commit, for every way in which a caller hands        *)
(* over the buffers.  Each part of the inductive invariant IInv has a      *)
(* lemma of its own, with one step per action.                             *)
(***************************************************************************)
\* The invariant holds when the call begins.
LEMMA InitIInv == Init => IInv
<1> SUFFICES ASSUME Init PROVE IInv
  OBVIOUS
<1>1. TypeOK
  <2>1. 0 \in Rounds
    BY NumRoundsAssumption DEF Rounds
  <2>2. out \in [Buffers -> {"absent", "uninit", "null", "live"}]
    BY CallerBuffersAssumption DEF Init
  <2>3. slots \in [Rounds -> Rounds \cup {Empty, Torn, Stale}]
    BY DEF Init
  <2> QED BY <2>1, <2>2, <2>3 DEF Init, TypeOK
<1>2. CallInv /\ ForkInv
  BY CallerBuffersAssumption DEF Init, CallInv, ForkInv, Buffers
<1>3. HeapInv
  BY CallerBuffersAssumption DEF Init, HeapInv, Buffers
<1>4. TeamInv /\ VerdictInv
  BY DEF Init, TeamInv, VerdictInv, VerdictExact
<1>5. RecordInv
  BY DEF Init, RecordInv, CompleteOnSuccess, Pending
<1>6. ClaimInv
  <2>1. \A k \in Rounds : slots[k] \in {Empty, Torn, Stale} /\ slots[k] \notin Rounds
    BY DEF Init, Rounds, Empty, Torn, Stale
  <2> QED
    BY <2>1 DEF Init, ClaimInv, Claims, SingleProofFile
<1> QED
  BY <1>1, <1>2, <1>3, <1>4, <1>5, <1>6 DEF IInv

\* Every step keeps the variables in their types.
LEMMA TypeStep ==
  ASSUME TypeOK, [Next]_vars
  PROVE  TypeOK'
<1> USE DEF TypeOK
<1>1. CASE TestRandomness
  BY <1>1 DEF TestRandomness, Proceed, callVars, teamVars
<1>2. CASE SampleOpening
  BY <1>2 DEF SampleOpening, Proceed, GotoCleanup, callVars, teamVars
<1>3. CASE CopyOpening
  <2>1. out' \in [Buffers -> {"absent", "uninit", "null", "live"}]
    BY <1>3 DEF CopyOpening, FillBuffer
  <2>2. heap' \subseteq (Threads \X ThreadPtrs)
                        \cup ({"call"} \X (CallPtrs \cup Buffers))
    BY <1>3 DEF CopyOpening, FillBuffer, Buffers
  <2> QED
    BY <1>3, <2>1, <2>2 DEF CopyOpening, FillBuffer, Proceed, GotoCleanup,
       teamVars
<1>4. CASE GenerateKeys
  BY <1>4 DEF GenerateKeys, Proceed, callVars, teamVars
<1>5. CASE WriteCommitment
  <2>1. out' \in [Buffers -> {"absent", "uninit", "null", "live"}]
    BY <1>5 DEF WriteCommitment, FillBuffer
  <2>2. heap' \subseteq (Threads \X ThreadPtrs)
                        \cup ({"call"} \X (CallPtrs \cup Buffers))
    BY <1>5 DEF WriteCommitment, FillBuffer, Buffers
  <2> QED
    BY <1>5, <2>1, <2>2 DEF WriteCommitment, FillBuffer, Proceed,
       GotoCleanup, teamVars
<1>6. CASE OpenProofFile
  <2>1. slots' \in [Rounds -> Rounds \cup {Empty, Torn, Stale}]
    BY <1>6 DEF OpenProofFile
  <2>2. heap' \subseteq (Threads \X ThreadPtrs)
                        \cup ({"call"} \X (CallPtrs \cup Buffers))
    BY <1>6 DEF OpenProofFile, CallPtrs
  <2>3. held' \subseteq CallPtrs
    BY <1>6 DEF OpenProofFile, CallPtrs
  <2> QED
    BY <1>6, <2>1, <2>2, <2>3 DEF OpenProofFile, Proceed, GotoCleanup, teamVars
<1>7. CASE SetupContext
  BY <1>7 DEF SetupContext, Proceed, CallPtrs, callVars, teamVars
<1>8. CASE Join
  BY <1>8 DEF Join, Verdict, callVars, teamVars
<1>9. CASE CleanupLabel
  BY <1>9 DEF CleanupLabel, Freed, callVars, teamVars
<1>10. ASSUME NEW t \in Threads, ThreadInit(t) PROVE TypeOK'
  BY <1>10 DEF ThreadInit, Step
<1>11. ASSUME NEW t \in Threads, ThreadInitFails(t) PROVE TypeOK'
  BY <1>11 DEF ThreadInitFails, Step, StateCleanup, PartialStates
<1>12. ASSUME NEW t \in Threads, StoreError(t) PROVE TypeOK'
  BY <1>12 DEF StoreError, Step
<1>13. ASSUME NEW t \in Threads, NextIteration(t) PROVE TypeOK'
  BY <1>13 DEF NextIteration, Step
<1>14. ASSUME NEW t \in Threads, ProveRound(t) PROVE TypeOK'
  BY <1>14 DEF ProveRound, Step
<1>15. ASSUME NEW t \in Threads, WriteRound(t) PROVE TypeOK'
  BY <1>15 DEF WriteRound, Step
<1>16. ASSUME NEW t \in Threads, WriteRoundFails(t) PROVE TypeOK'
  BY <1>16 DEF WriteRoundFails, Step
<1>17. ASSUME NEW t \in Threads, ReachBarrier(t) PROVE TypeOK'
  BY <1>17 DEF ReachBarrier, Step
<1>18. ASSUME NEW t \in Threads, ThreadCleanup(t) PROVE TypeOK'
  BY <1>18 DEF ThreadCleanup, Step, StateCleanup
<1>19. CASE Abort
  BY <1>19 DEF Abort, callVars, teamVars
<1>20. CASE UNCHANGED vars
  BY <1>20 DEF vars
<1> QED
  BY <1>1, <1>2, <1>3, <1>4, <1>5, <1>6, <1>7, <1>8, <1>9, <1>10, <1>11,
     <1>12, <1>13, <1>14, <1>15, <1>16, <1>17, <1>18, <1>19, <1>20 DEF Next,
     CallerStep, ThreadStep, Stopped

\* How far the call has got determines what it holds and has filled.
LEMMA CallStep ==
  ASSUME TypeOK, CallInv, ForkInv, [Next]_vars
  PROVE  CallInv'
<1> USE DEF TypeOK, CallInv, ForkInv, Buffers, CallPtrs
<1>1. CASE TestRandomness
  BY <1>1 DEF TestRandomness, Proceed, callVars, teamVars
<1>2. CASE SampleOpening
  BY <1>2 DEF SampleOpening, Proceed, GotoCleanup, callVars, teamVars
<1>3. CASE CopyOpening
  BY <1>3 DEF CopyOpening, FillBuffer, Proceed, GotoCleanup, callVars,
     teamVars
<1>4. CASE GenerateKeys
  BY <1>4 DEF GenerateKeys, Proceed, callVars, teamVars
<1>5. CASE WriteCommitment
  BY <1>5 DEF WriteCommitment, FillBuffer, Proceed, GotoCleanup, callVars,
     teamVars
<1>6. CASE OpenProofFile
  BY <1>6 DEF OpenProofFile, Proceed, GotoCleanup, callVars, teamVars
<1>7. CASE SetupContext
  BY <1>7 DEF SetupContext, Proceed, callVars, teamVars
<1>8. CASE Join
  BY <1>8 DEF Join, Verdict, callVars, teamVars
<1>9. CASE CleanupLabel
  BY <1>9 DEF CleanupLabel, Freed, callVars, teamVars
<1>10. ASSUME NEW t \in Threads, ThreadInit(t) PROVE CallInv'
  BY <1>10 DEF ThreadInit, Step
<1>11. ASSUME NEW t \in Threads, ThreadInitFails(t) PROVE CallInv'
  BY <1>11 DEF ThreadInitFails, Step, StateCleanup, PartialStates
<1>12. ASSUME NEW t \in Threads, StoreError(t) PROVE CallInv'
  BY <1>12 DEF StoreError, Step
<1>13. ASSUME NEW t \in Threads, NextIteration(t) PROVE CallInv'
  BY <1>13 DEF NextIteration, Step
<1>14. ASSUME NEW t \in Threads, ProveRound(t) PROVE CallInv'
  BY <1>14 DEF ProveRound, Step
<1>15. ASSUME NEW t \in Threads, WriteRound(t) PROVE CallInv'
  BY <1>15 DEF WriteRound, Step
<1>16. ASSUME NEW t \in Threads, WriteRoundFails(t) PROVE CallInv'
  BY <1>16 DEF WriteRoundFails, Step
<1>17. ASSUME NEW t \in Threads, ReachBarrier(t) PROVE CallInv'
  BY <1>17 DEF ReachBarrier, Step
<1>18. ASSUME NEW t \in Threads, ThreadCleanup(t) PROVE CallInv'
  BY <1>18 DEF ThreadCleanup, Step, StateCleanup
<1>19. CASE Abort
  BY <1>19 DEF Abort, callVars, teamVars
<1>20. CASE UNCHANGED vars
  BY <1>20 DEF vars
<1> QED
  BY <1>1, <1>2, <1>3, <1>4, <1>5, <1>6, <1>7, <1>8, <1>9, <1>10, <1>11,
     <1>12, <1>13, <1>14, <1>15, <1>16, <1>17, <1>18, <1>19, <1>20 DEF Next,
     CallerStep, ThreadStep, Stopped

\* No thread is at work outside the region, or without the call's resources.
LEMMA ForkStep ==
  ASSUME TypeOK, CallInv, ForkInv, [Next]_vars
  PROVE  ForkInv'
<1> USE DEF TypeOK, CallInv, ForkInv, Buffers, CallPtrs
<1>1. CASE TestRandomness
  BY <1>1 DEF TestRandomness, Proceed, callVars, teamVars
<1>2. CASE SampleOpening
  BY <1>2 DEF SampleOpening, Proceed, GotoCleanup, callVars, teamVars
<1>3. CASE CopyOpening
  BY <1>3 DEF CopyOpening, FillBuffer, Proceed, GotoCleanup, callVars,
     teamVars
<1>4. CASE GenerateKeys
  BY <1>4 DEF GenerateKeys, Proceed, callVars, teamVars
<1>5. CASE WriteCommitment
  BY <1>5 DEF WriteCommitment, FillBuffer, Proceed, GotoCleanup, callVars,
     teamVars
<1>6. CASE OpenProofFile
  BY <1>6 DEF OpenProofFile, Proceed, GotoCleanup, callVars, teamVars
<1>7. CASE SetupContext
  BY <1>7 DEF SetupContext, Proceed, callVars, teamVars
<1>8. CASE Join
  BY <1>8 DEF Join, Verdict, callVars, teamVars
<1>9. CASE CleanupLabel
  BY <1>9 DEF CleanupLabel, Freed, callVars, teamVars
<1>10. ASSUME NEW t \in Threads, ThreadInit(t) PROVE ForkInv'
  BY <1>10 DEF ThreadInit, Step
<1>11. ASSUME NEW t \in Threads, ThreadInitFails(t) PROVE ForkInv'
  BY <1>11 DEF ThreadInitFails, Step, StateCleanup, PartialStates
<1>12. ASSUME NEW t \in Threads, StoreError(t) PROVE ForkInv'
  BY <1>12 DEF StoreError, Step
<1>13. ASSUME NEW t \in Threads, NextIteration(t) PROVE ForkInv'
  BY <1>13 DEF NextIteration, Step
<1>14. ASSUME NEW t \in Threads, ProveRound(t) PROVE ForkInv'
  BY <1>14 DEF ProveRound, Step
<1>15. ASSUME NEW t \in Threads, WriteRound(t) PROVE ForkInv'
  BY <1>15 DEF WriteRound, Step
<1>16. ASSUME NEW t \in Threads, WriteRoundFails(t) PROVE ForkInv'
  BY <1>16 DEF WriteRoundFails, Step
<1>17. ASSUME NEW t \in Threads, ReachBarrier(t) PROVE ForkInv'
  BY <1>17 DEF ReachBarrier, Step
<1>18. ASSUME NEW t \in Threads, ThreadCleanup(t) PROVE ForkInv'
  BY <1>18 DEF ThreadCleanup, Step, StateCleanup
<1>19. CASE Abort
  BY <1>19 DEF Abort, callVars, teamVars
<1>20. CASE UNCHANGED vars
  BY <1>20 DEF vars
<1> QED
  BY <1>1, <1>2, <1>3, <1>4, <1>5, <1>6, <1>7, <1>8, <1>9, <1>10, <1>11,
     <1>12, <1>13, <1>14, <1>15, <1>16, <1>17, <1>18, <1>19, <1>20 DEF Next,
     CallerStep, ThreadStep, Stopped

\* A thread at work has its complete state.
LEMMA TeamStep ==
  ASSUME TypeOK, CallInv, ForkInv, TeamInv, [Next]_vars
  PROVE  TeamInv'
<1> USE DEF TypeOK, CallInv, ForkInv, TeamInv
<1>1. CASE TestRandomness
  BY <1>1 DEF TestRandomness, Proceed, callVars, teamVars
<1>2. CASE SampleOpening
  BY <1>2 DEF SampleOpening, Proceed, GotoCleanup, callVars, teamVars
<1>3. CASE CopyOpening
  BY <1>3 DEF CopyOpening, FillBuffer, Proceed, GotoCleanup, callVars,
     teamVars
<1>4. CASE GenerateKeys
  BY <1>4 DEF GenerateKeys, Proceed, callVars, teamVars
<1>5. CASE WriteCommitment
  BY <1>5 DEF WriteCommitment, FillBuffer, Proceed, GotoCleanup, callVars,
     teamVars
<1>6. CASE OpenProofFile
  BY <1>6 DEF OpenProofFile, Proceed, GotoCleanup, callVars, teamVars
<1>7. CASE SetupContext
  BY <1>7 DEF SetupContext, Proceed, callVars, teamVars
<1>8. CASE Join
  BY <1>8 DEF Join, Verdict, callVars, teamVars
<1>9. CASE CleanupLabel
  BY <1>9 DEF CleanupLabel, Freed, callVars, teamVars
<1>10. ASSUME NEW t \in Threads, ThreadInit(t) PROVE TeamInv'
  BY <1>10 DEF ThreadInit, Step
<1>11. ASSUME NEW t \in Threads, ThreadInitFails(t) PROVE TeamInv'
  BY <1>11 DEF ThreadInitFails, Step, StateCleanup, PartialStates
<1>12. ASSUME NEW t \in Threads, StoreError(t) PROVE TeamInv'
  BY <1>12 DEF StoreError, Step
<1>13. ASSUME NEW t \in Threads, NextIteration(t) PROVE TeamInv'
  BY <1>13 DEF NextIteration, Step
<1>14. ASSUME NEW t \in Threads, ProveRound(t) PROVE TeamInv'
  BY <1>14 DEF ProveRound, Step
<1>15. ASSUME NEW t \in Threads, WriteRound(t) PROVE TeamInv'
  BY <1>15 DEF WriteRound, Step
<1>16. ASSUME NEW t \in Threads, WriteRoundFails(t) PROVE TeamInv'
  BY <1>16 DEF WriteRoundFails, Step
<1>17. ASSUME NEW t \in Threads, ReachBarrier(t) PROVE TeamInv'
  BY <1>17 DEF ReachBarrier, Step
<1>18. ASSUME NEW t \in Threads, ThreadCleanup(t) PROVE TeamInv'
  BY <1>18 DEF ThreadCleanup, Step, StateCleanup
<1>19. CASE Abort
  BY <1>19 DEF Abort, callVars, teamVars
<1>20. CASE UNCHANGED vars
  BY <1>20 DEF vars
<1> QED
  BY <1>1, <1>2, <1>3, <1>4, <1>5, <1>6, <1>7, <1>8, <1>9, <1>10, <1>11,
     <1>12, <1>13, <1>14, <1>15, <1>16, <1>17, <1>18, <1>19, <1>20 DEF Next,
     CallerStep, ThreadStep, Stopped

\* Filling a buffer that is not filled yet keeps pointers and heap in step.
LEMMA FillHeap ==
  ASSUME TypeOK, HeapInv, NEW b \in Buffers, NEW next,
         FillBuffer(b, next), out[b] # "live", UNCHANGED <<ptr, held>>
  PROVE  HeapInv'
<1>1. ASSUME NEW t \in Threads, NEW p \in ThreadPtrs
      PROVE  <<t, p>> \in heap' <=> p \in ptr'[t]
  BY ThreadsAssumption DEF HeapInv, FillBuffer
<1>2. ASSUME NEW p \in CallPtrs PROVE <<"call", p>> \in heap' <=> p \in held'
  BY DEF HeapInv, FillBuffer, Buffers, CallPtrs
<1>3. ASSUME NEW c \in Buffers
      PROVE  <<"call", c>> \in heap' <=> out'[c] = "live"
  BY DEF TypeOK, HeapInv, FillBuffer
<1> QED
  BY <1>1, <1>2, <1>3 DEF HeapInv

\* Releasing a thread's state keeps pointers and heap in step.
LEMMA CleanupHeap ==
  ASSUME TypeOK, HeapInv, NEW t \in Threads, NEW got, got \subseteq ThreadPtrs,
         StateCleanup(t, got, heap \cup ({t} \X got)),
         ptr[t] = {} \/ got = ptr[t], UNCHANGED <<held, out>>
  PROVE  HeapInv'
<1>1. ASSUME NEW u \in Threads, NEW p \in ThreadPtrs
      PROVE  <<u, p>> \in heap' <=> p \in ptr'[u]
  BY DEF TypeOK, HeapInv, StateCleanup
<1>2. ASSUME NEW p \in CallPtrs \cup Buffers
      PROVE  <<"call", p>> \in heap' <=> <<"call", p>> \in heap
  BY ThreadsAssumption DEF StateCleanup
<1> QED
  BY <1>1, <1>2 DEF HeapInv

\* A pointer stays non-NULL exactly while it owns an allocation.
LEMMA HeapStep ==
  ASSUME TypeOK, CallInv, TeamInv, HeapInv, [Next]_vars
  PROVE  HeapInv'
<1>1. CASE CopyOpening
  <2>1. "opening" \in Buffers /\ out["opening"] # "live"
    BY <1>1 DEF Buffers, CopyOpening, CallInv
  <2> QED
    BY <1>1, <2>1, FillHeap DEF CopyOpening, teamVars
<1>2. CASE WriteCommitment
  <2>1. "commitment" \in Buffers /\ out["commitment"] # "live"
    BY <1>2 DEF Buffers, WriteCommitment, CallInv
  <2> QED
    BY <1>2, <2>1, FillHeap DEF WriteCommitment, teamVars
<1>3. CASE OpenProofFile
  BY <1>3, ThreadsAssumption
     DEF OpenProofFile, HeapInv, Buffers, CallPtrs, teamVars
<1>4. CASE SetupContext
  BY <1>4, ThreadsAssumption
     DEF SetupContext, HeapInv, Buffers, CallPtrs
<1>5. CASE Join
  <2>1. ASSUME NEW t \in Threads, NEW p \in ThreadPtrs
        PROVE  <<t, p>> \in heap' <=> p \in ptr'[t]
    BY <1>5, ThreadsAssumption DEF HeapInv, Join, teamVars
  <2>2. ASSUME NEW p \in CallPtrs PROVE <<"call", p>> \in heap' <=> p \in held'
    BY <1>5 DEF HeapInv, Join
  <2>3. ASSUME NEW c \in Buffers
        PROVE  <<"call", c>> \in heap' <=> out'[c] = "live"
    BY <1>5 DEF TypeOK, HeapInv, Join, Buffers, CallPtrs
  <2> QED
    BY <2>1, <2>2, <2>3 DEF HeapInv
<1>6. CASE CleanupLabel
  BY <1>6, ThreadsAssumption
     DEF CleanupLabel, Freed, TypeOK, HeapInv, Buffers, CallPtrs, teamVars
<1>7. ASSUME NEW t \in Threads, ThreadInit(t) PROVE HeapInv'
  <2>1. ASSUME NEW u \in Threads, NEW p \in ThreadPtrs
        PROVE  <<u, p>> \in heap' <=> p \in ptr'[u]
    BY <1>7 DEF TypeOK, HeapInv, ThreadInit
  <2>2. ASSUME NEW p \in CallPtrs \cup Buffers
        PROVE  <<"call", p>> \in heap' <=> <<"call", p>> \in heap
    BY <1>7, ThreadsAssumption DEF ThreadInit
  <2> QED
    BY <1>7, <2>1, <2>2 DEF HeapInv, ThreadInit, Step
<1>8. ASSUME NEW t \in Threads, ThreadInitFails(t) PROVE HeapInv'
  <2>1. ptr[t] = {} /\ UNCHANGED <<held, out>>
    BY <1>8 DEF ThreadInitFails, Step, TeamInv
  <2>2. PICK got \in PartialStates : StateCleanup(t, got, heap \cup ({t} \X got))
    BY <1>8 DEF ThreadInitFails
  <2>3. got \subseteq ThreadPtrs
    BY <2>2 DEF PartialStates, ThreadPtrs
  <2> QED
    BY <2>1, <2>2, <2>3, CleanupHeap
<1>9. ASSUME NEW t \in Threads, ThreadCleanup(t) PROVE HeapInv'
  <2>1. UNCHANGED <<held, out>> /\ StateCleanup(t, ptr[t], heap)
    BY <1>9 DEF ThreadCleanup, Step
  <2>2. ptr[t] \subseteq ThreadPtrs
    BY DEF TypeOK
  <2>3. heap \cup ({t} \X ptr[t]) = heap
    BY <2>2 DEF HeapInv
  <2> QED
    BY <2>1, <2>2, <2>3, CleanupHeap
<1>10. CASE TestRandomness \/ SampleOpening \/ GenerateKeys \/ Abort
            \/ UNCHANGED vars
  BY <1>10 DEF TestRandomness, SampleOpening, GenerateKeys, Abort, HeapInv,
               callVars, teamVars, vars
<1>11. ASSUME NEW t \in Threads,
              \/ StoreError(t) \/ NextIteration(t) \/ ProveRound(t)
              \/ WriteRound(t) \/ WriteRoundFails(t) \/ ReachBarrier(t)
       PROVE  HeapInv'
  BY <1>11 DEF StoreError, NextIteration, ProveRound, WriteRound,
               WriteRoundFails, ReachBarrier, Step, HeapInv
<1> QED
  BY <1>1, <1>2, <1>3, <1>4, <1>5, <1>6, <1>7, <1>8, <1>9, <1>10, <1>11
     DEF Next, CallerStep, ThreadStep, Stopped

\* No failure is lost between the thread that meets it and the verdict.
LEMMA VerdictStep ==
  ASSUME TypeOK, CallInv, ForkInv, TeamInv, VerdictInv, [Next]_vars
  PROVE  VerdictInv'
<1> USE DEF TypeOK, CallInv, ForkInv, TeamInv, VerdictInv, VerdictExact,
       Pending
<1>1. CASE TestRandomness
  BY <1>1 DEF TestRandomness, Proceed, callVars, teamVars
<1>2. CASE SampleOpening
  BY <1>2 DEF SampleOpening, Proceed, GotoCleanup, callVars, teamVars
<1>3. CASE CopyOpening
  BY <1>3 DEF CopyOpening, FillBuffer, Proceed, GotoCleanup, callVars,
     teamVars
<1>4. CASE GenerateKeys
  BY <1>4 DEF GenerateKeys, Proceed, callVars, teamVars
<1>5. CASE WriteCommitment
  BY <1>5 DEF WriteCommitment, FillBuffer, Proceed, GotoCleanup, callVars,
     teamVars
<1>6. CASE OpenProofFile
  BY <1>6 DEF OpenProofFile, Proceed, GotoCleanup, callVars, teamVars
<1>7. CASE SetupContext
  BY <1>7 DEF SetupContext, Proceed, callVars, teamVars
<1>8. CASE Join
  BY <1>8 DEF Join, Verdict, callVars, teamVars
<1>9. CASE CleanupLabel
  BY <1>9 DEF CleanupLabel, Freed, callVars, teamVars
<1>10. ASSUME NEW t \in Threads, ThreadInit(t) PROVE VerdictInv'
  BY <1>10 DEF ThreadInit, Step
<1>11. ASSUME NEW t \in Threads, ThreadInitFails(t) PROVE VerdictInv'
  BY <1>11 DEF ThreadInitFails, Step, StateCleanup, PartialStates
<1>12. ASSUME NEW t \in Threads, StoreError(t) PROVE VerdictInv'
  BY <1>12 DEF StoreError, Step
<1>13. ASSUME NEW t \in Threads, NextIteration(t) PROVE VerdictInv'
  BY <1>13 DEF NextIteration, Step
<1>14. ASSUME NEW t \in Threads, ProveRound(t) PROVE VerdictInv'
  BY <1>14 DEF ProveRound, Step
<1>15. ASSUME NEW t \in Threads, WriteRound(t) PROVE VerdictInv'
  BY <1>15 DEF WriteRound, Step
<1>16. ASSUME NEW t \in Threads, WriteRoundFails(t) PROVE VerdictInv'
  BY <1>16 DEF WriteRoundFails, Step
<1>17. ASSUME NEW t \in Threads, ReachBarrier(t) PROVE VerdictInv'
  BY <1>17 DEF ReachBarrier, Step
<1>18. ASSUME NEW t \in Threads, ThreadCleanup(t) PROVE VerdictInv'
  BY <1>18 DEF ThreadCleanup, Step, StateCleanup
<1>19. CASE Abort
  BY <1>19 DEF Abort, callVars, teamVars
<1>20. CASE UNCHANGED vars
  BY <1>20 DEF vars
<1> QED
  BY <1>1, <1>2, <1>3, <1>4, <1>5, <1>6, <1>7, <1>8, <1>9, <1>10, <1>11,
     <1>12, <1>13, <1>14, <1>15, <1>16, <1>17, <1>18, <1>19, <1>20 DEF Next,
     CallerStep, ThreadStep, Stopped

\* No round is passed over without the flag going up.
LEMMA RecordStep ==
  ASSUME TypeOK, CallInv, ForkInv, TeamInv, VerdictInv, RecordInv, [Next]_vars
  PROVE  RecordInv'
<1> USE DEF TypeOK, CallInv, ForkInv, TeamInv, VerdictInv, RecordInv,
       CompleteOnSuccess, Accounted, Pending
<1>1. CASE TestRandomness
  BY <1>1 DEF TestRandomness, Proceed, callVars, teamVars
<1>2. CASE SampleOpening
  BY <1>2 DEF SampleOpening, Proceed, GotoCleanup, callVars, teamVars
<1>3. CASE CopyOpening
  BY <1>3 DEF CopyOpening, FillBuffer, Proceed, GotoCleanup, callVars,
     teamVars
<1>4. CASE GenerateKeys
  BY <1>4 DEF GenerateKeys, Proceed, callVars, teamVars
<1>5. CASE WriteCommitment
  BY <1>5 DEF WriteCommitment, FillBuffer, Proceed, GotoCleanup, callVars,
     teamVars
<1>6. CASE OpenProofFile
  BY <1>6 DEF OpenProofFile, Proceed, GotoCleanup, callVars, teamVars
<1>7. CASE SetupContext
  BY <1>7 DEF SetupContext, Proceed, callVars, teamVars
<1>8. CASE Join
  <2>1. ASSUME error = 0, NEW k \in Rounds PROVE slots[k] = k
    BY <1>8, <2>1 DEF Join
  <2>2. \A b \in Buffers : out[b] = "live"
    BY <1>8 DEF Join, Buffers
  <2> QED
    BY <1>8, <2>1, <2>2 DEF Join, teamVars, Verdict
<1>9. CASE CleanupLabel
  BY <1>9 DEF CleanupLabel, Freed, callVars, teamVars
<1>10. ASSUME NEW t \in Threads, ThreadInit(t) PROVE RecordInv'
  BY <1>10 DEF ThreadInit, Step
<1>11. ASSUME NEW t \in Threads, ThreadInitFails(t) PROVE RecordInv'
  BY <1>11 DEF ThreadInitFails, Step, StateCleanup, PartialStates
<1>12. ASSUME NEW t \in Threads, StoreError(t) PROVE RecordInv'
  BY <1>12 DEF StoreError, Step
<1>13. ASSUME NEW t \in Threads, NextIteration(t) PROVE RecordInv'
  BY <1>13 DEF NextIteration, Step
<1>14. ASSUME NEW t \in Threads, ProveRound(t) PROVE RecordInv'
  BY <1>14 DEF ProveRound, Step
<1>15. ASSUME NEW t \in Threads, WriteRound(t) PROVE RecordInv'
  BY <1>15 DEF WriteRound, Step
<1>16. ASSUME NEW t \in Threads, WriteRoundFails(t) PROVE RecordInv'
  BY <1>16 DEF WriteRoundFails, Step
<1>17. ASSUME NEW t \in Threads, ReachBarrier(t) PROVE RecordInv'
  BY <1>17 DEF ReachBarrier, Step
<1>18. ASSUME NEW t \in Threads, ThreadCleanup(t) PROVE RecordInv'
  BY <1>18 DEF ThreadCleanup, Step, StateCleanup
<1>19. CASE Abort
  BY <1>19 DEF Abort, callVars, teamVars
<1>20. CASE UNCHANGED vars
  BY <1>20 DEF vars
<1> QED
  BY <1>1, <1>2, <1>3, <1>4, <1>5, <1>6, <1>7, <1>8, <1>9, <1>10, <1>11,
     <1>12, <1>13, <1>14, <1>15, <1>16, <1>17, <1>18, <1>19, <1>20 DEF Next,
     CallerStep, ThreadStep, Stopped

\* A round still to be written has one owner and an untouched slot.
LEMMA ClaimStep ==
  ASSUME TypeOK, CallInv, ForkInv, TeamInv, ClaimInv, [Next]_vars
  PROVE  ClaimInv'
<1> USE DEF TypeOK, CallInv, ForkInv, TeamInv, ClaimInv, Claims,
       SingleProofFile, Rounds, Empty, Stale, Torn
<1>1. CASE TestRandomness
  BY <1>1 DEF TestRandomness, Proceed, callVars, teamVars
<1>2. CASE SampleOpening
  BY <1>2 DEF SampleOpening, Proceed, GotoCleanup, callVars, teamVars
<1>3. CASE CopyOpening
  BY <1>3 DEF CopyOpening, FillBuffer, Proceed, GotoCleanup, callVars,
     teamVars
<1>4. CASE GenerateKeys
  BY <1>4 DEF GenerateKeys, Proceed, callVars, teamVars
<1>5. CASE WriteCommitment
  BY <1>5 DEF WriteCommitment, FillBuffer, Proceed, GotoCleanup, callVars,
     teamVars
<1>6. CASE OpenProofFile
  <2>1. \A k \in Rounds : slots[k] \in {Empty, Torn, Stale}
    BY <1>6 DEF OpenProofFile
  <2>2. \A t \in Threads, k \in Rounds : ~Claims(t, k)'
    BY <1>6 DEF OpenProofFile, teamVars
  <2>3. \A t \in Threads : pc'[t] = "init"
    BY <1>6 DEF OpenProofFile, teamVars
  <2>4. CASE GotoCleanup /\ UNCHANGED slots
    BY <2>1, <2>2, <2>3, <2>4 DEF GotoCleanup
  <2>5. CASE main' = "context" /\ slots' = [k \in Rounds |-> Empty]
    BY <2>1, <2>2, <2>3, <2>5
  <2> QED
    BY <1>6, <2>4, <2>5 DEF OpenProofFile, Proceed
<1>7. CASE SetupContext
  <2>1. \A k \in Rounds : slots'[k] = Empty
    BY <1>7 DEF SetupContext
  <2> QED
    BY <1>7, <2>1 DEF SetupContext, Proceed
<1>8. CASE Join
  BY <1>8 DEF Join, Verdict, callVars, teamVars
<1>9. CASE CleanupLabel
  BY <1>9 DEF CleanupLabel, Freed, callVars, teamVars
<1>10. ASSUME NEW t \in Threads, ThreadInit(t) PROVE ClaimInv'
  BY <1>10 DEF ThreadInit, Step
<1>11. ASSUME NEW t \in Threads, ThreadInitFails(t) PROVE ClaimInv'
  BY <1>11 DEF ThreadInitFails, Step, StateCleanup, PartialStates
<1>12. ASSUME NEW t \in Threads, StoreError(t) PROVE ClaimInv'
  <2>1. /\ pc' = [pc EXCEPT ![t] = "loop"]
        /\ UNCHANGED <<main, slots, todo, round>>
    BY <1>12 DEF StoreError, Step
  <2> QED
    BY <2>1
<1>13. ASSUME NEW t \in Threads, NextIteration(t) PROVE ClaimInv'
  BY <1>13 DEF NextIteration, Step
<1>14. ASSUME NEW t \in Threads, ProveRound(t) PROVE ClaimInv'
  BY <1>14 DEF ProveRound, Step
<1>15. ASSUME NEW t \in Threads, WriteRound(t) PROVE ClaimInv'
  BY <1>15 DEF WriteRound, Step
<1>16. ASSUME NEW t \in Threads, WriteRoundFails(t) PROVE ClaimInv'
  BY <1>16 DEF WriteRoundFails, Step
<1>17. ASSUME NEW t \in Threads, ReachBarrier(t) PROVE ClaimInv'
  BY <1>17 DEF ReachBarrier, Step
<1>18. ASSUME NEW t \in Threads, ThreadCleanup(t) PROVE ClaimInv'
  BY <1>18 DEF ThreadCleanup, Step, StateCleanup
<1>19. CASE Abort
  BY <1>19 DEF Abort, callVars, teamVars
<1>20. CASE UNCHANGED vars
  BY <1>20 DEF vars
<1> QED
  BY <1>1, <1>2, <1>3, <1>4, <1>5, <1>6, <1>7, <1>8, <1>9, <1>10, <1>11,
     <1>12, <1>13, <1>14, <1>15, <1>16, <1>17, <1>18, <1>19, <1>20 DEF Next,
     CallerStep, ThreadStep, Stopped

\* Every step preserves the whole invariant.
LEMMA IInvStep == IInv /\ [Next]_vars => IInv'
<1> SUFFICES ASSUME IInv, [Next]_vars PROVE IInv'
  OBVIOUS
<1>1. /\ TypeOK /\ CallInv /\ ForkInv /\ HeapInv /\ TeamInv
      /\ VerdictInv /\ RecordInv /\ ClaimInv
  BY DEF IInv
<1>2. TypeOK'
  BY <1>1, TypeStep
<1>3. CallInv' /\ ForkInv'
  BY <1>1, CallStep, ForkStep
<1>4. HeapInv' /\ TeamInv'
  BY <1>1, HeapStep, TeamStep
<1>5. VerdictInv' /\ RecordInv' /\ ClaimInv'
  BY <1>1, VerdictStep, RecordStep, ClaimStep
<1> QED
  BY <1>2, <1>3, <1>4, <1>5 DEF IInv

\* IInv is an invariant of the call.
THEOREM Invariance == Spec => []IInv
<1> QED
  BY InitIInv, IInvStep, PTL DEF Spec

\* The variables keep their types.
THEOREM TypeCorrectness == Spec => []TypeOK
<1>1. IInv => TypeOK
  BY DEF IInv
<1> QED
  BY <1>1, Invariance, PTL

\* A call that returns 0 leaves a complete proof and both buffers, for any
\* team, any number of rounds and any schedule of the omp for.
THEOREM CompleteProof == Spec => []CompleteOnSuccess
<1>1. IInv => CompleteOnSuccess
  BY DEF IInv, RecordInv
<1> QED
  BY <1>1, Invariance, PTL

\* The call returns -1 exactly when one of its checked steps failed.
THEOREM ExactVerdict == Spec => []VerdictExact
<1>1. IInv => VerdictExact
  BY DEF IInv, VerdictInv
<1> QED
  BY <1>1, Invariance, PTL

\* A call that has returned owns nothing but the non-NULL output buffers.
THEOREM Ownership == Spec => []OwnershipAtReturn
<1>1. IInv => OwnershipAtReturn
  <2> SUFFICES ASSUME IInv, main = "returned"
               PROVE  heap = {"call"} \X {b \in Buffers : out[b] = "live"}
    BY DEF OwnershipAtReturn
  <2>1. heap \subseteq (Threads \X ThreadPtrs) \cup ({"call"} \X (CallPtrs \cup Buffers))
    BY DEF IInv, TypeOK
  <2>2. \A t \in Threads, p \in ThreadPtrs : <<t, p>> \notin heap
    BY DEF IInv, HeapInv, ForkInv, TeamInv
  <2>3. \A p \in CallPtrs : <<"call", p>> \notin heap
    BY DEF IInv, HeapInv, CallInv
  <2>4. \A b \in Buffers : <<"call", b>> \in heap <=> out[b] = "live"
    BY DEF IInv, HeapInv
  <2> QED
    BY <2>1, <2>2, <2>3, <2>4
<1> QED
  BY <1>1, Invariance, PTL

\* No thread works without its complete state and the call's resources.
THEOREM ReadyState == Spec => []ReadyStateInUse
<1>1. IInv => ReadyStateInUse
  BY DEF IInv, TypeOK, HeapInv, ForkInv, TeamInv, ReadyStateInUse, Buffers
<1> QED
  BY <1>1, Invariance, PTL

\* The file never mixes two proofs.
THEOREM OneProof == Spec => []SingleProofFile
<1>1. IInv => SingleProofFile
  BY DEF IInv, ClaimInv
<1> QED
  BY <1>1, Invariance, PTL

-----------------------------------------------------------------------------
(* What the call frees. *)

\* Every pointer that may be freed is NULL or owns an allocation.
OwnedOnly == NoBadFree /\ \A b \in Buffers : out[b] # "uninit"

\* No step frees what is not owned.
LEMMA OwnedOnlyStep ==
  ASSUME IInv, OwnedOnly, [Next]_vars
  PROVE  OwnedOnly'
<1> USE DEF OwnedOnly, NoBadFree
<1>0. TypeOK /\ HeapInv /\ CallInv
  BY DEF IInv
<1>1. CASE Join
  <2>1. {"call"} \X held \subseteq heap
    BY <1>0 DEF HeapInv, TypeOK
  <2> QED BY <1>1, <2>1 DEF Join
<1>2. CASE CleanupLabel
  <2>1. {"call"} \X (held \cup Freed) \subseteq heap
    BY <1>0 DEF HeapInv, TypeOK, Freed
  <2> QED BY <1>2, <2>1 DEF CleanupLabel
<1>3. CASE CopyOpening \/ WriteCommitment
  BY <1>0, <1>3 DEF CopyOpening, WriteCommitment, FillBuffer, TypeOK
<1>4. ASSUME NEW t \in Threads, ThreadInitFails(t) PROVE OwnedOnly'
  BY <1>4 DEF ThreadInitFails, StateCleanup, Step
<1>5. ASSUME NEW t \in Threads, ThreadCleanup(t) PROVE OwnedOnly'
  <2>1. {t} \X ptr[t] \subseteq heap
    BY <1>0 DEF HeapInv, TypeOK
  <2> QED BY <1>5, <2>1 DEF ThreadCleanup, StateCleanup, Step
<1>6. CASE \/ TestRandomness \/ SampleOpening \/ GenerateKeys \/ OpenProofFile
           \/ SetupContext \/ Abort \/ UNCHANGED vars
  <2>1. UNCHANGED <<out, badFree>>
    BY <1>6 DEF TestRandomness, SampleOpening, GenerateKeys, OpenProofFile,
       SetupContext, Abort, callVars, vars
  <2> QED BY <2>1
<1>7. ASSUME NEW t \in Threads,
             \/ ThreadInit(t) \/ StoreError(t) \/ NextIteration(t) \/ ProveRound(t)
             \/ WriteRound(t) \/ WriteRoundFails(t) \/ ReachBarrier(t)
      PROVE  OwnedOnly'
  <2>1. UNCHANGED <<out, badFree>>
    BY <1>7 DEF ThreadInit, StoreError, NextIteration, ProveRound,
       WriteRound, WriteRoundFails, ReachBarrier, Step
  <2> QED BY <2>1
<1> QED
  BY <1>1, <1>2, <1>3, <1>4, <1>5, <1>6, <1>7
        DEF Next, CallerStep, ThreadStep, Stopped

\* A caller that hands over buffers with a NULL data pointer, or none at all,
\* never has a pointer freed that owns nothing.
THEOREM FreesWhatItOwns ==
  ASSUME "uninit" \notin CallerBuffers
  PROVE  Spec => []NoBadFree
<1>1. Init => OwnedOnly
  BY DEF Init, OwnedOnly, NoBadFree
<1>2. IInv /\ OwnedOnly /\ [Next]_vars => OwnedOnly'
  BY OwnedOnlyStep
<1>3. OwnedOnly => NoBadFree
  BY DEF OwnedOnly
<1> QED
  BY <1>1, <1>2, <1>3, Invariance, PTL DEF Spec

-----------------------------------------------------------------------------
(* The call implements AllRounds. *)

\* The call begins where the abstract specification begins.
LEMMA RefInit == Init => Abstract!Init
  BY NumRoundsAssumption DEF Init, Abstract!Init, Rounds, Empty, Torn, Stale

\* Every step of the call is a step of the abstract specification, or leaves
\* what it speaks of unchanged.
LEMMA RefStep ==
  ASSUME IInv, [Next]_vars
  PROVE  [Abstract!Next]_(Abstract!vars)
<1> DEFINE Done == {k \in Rounds : slots[k] = k}
           Verd == IF main # "returned" THEN "pending"
             ELSE IF ret = 0 THEN "ok" ELSE "failed"
<1> USE DEF Abstract!Next, Abstract!vars
<1>0. TypeOK /\ CallInv /\ ForkInv /\ VerdictInv /\ RecordInv /\ ClaimInv /\ TeamInv
  BY DEF IInv
<1>1. CASE Join
  <2>1. Done' = Done /\ Verd = "pending" /\ Verd' = IF error = 0 THEN "ok" ELSE "failed"
    BY <1>0, <1>1 DEF Join, Verdict, TypeOK
  <2>2. CASE error = 0
    <3>1. Done = Rounds
      BY <1>0, <1>1, <2>2 DEF Join, RecordInv, Accounted, TeamInv
    <3> QED BY <2>1, <2>2, <3>1 DEF Abstract!Succeed
  <2>3. CASE error # 0
    BY <2>1, <2>3 DEF Abstract!Fail
  <2> QED BY <2>2, <2>3
<1>2. CASE CleanupLabel \/ (TestRandomness /\ main' = "returned")
  BY <1>2 DEF CleanupLabel, TestRandomness, Proceed, Abstract!Fail
<1>3. CASE OpenProofFile
  <2>1. Done = {} /\ Done' = {}
    BY <1>0, <1>3, NumRoundsAssumption DEF OpenProofFile, ClaimInv, Rounds,
       Empty, Torn, Stale, Proceed, GotoCleanup
  <2> QED BY <1>3, <2>1 DEF OpenProofFile, Proceed, GotoCleanup
<1>4. ASSUME NEW t \in Threads, WriteRound(t) PROVE [Abstract!Next]_(Abstract!vars)
  <2>1. round[t] \in Rounds /\ round[t] \notin Done
    BY <1>0, <1>4 DEF TypeOK, WriteRound, Step, ClaimInv, Claims, Rounds, Empty
  <2>2. Done' = Done \cup {round[t]}
    BY <1>0, <1>4 DEF TypeOK, WriteRound, Step, TeamInv
  <2>3. Verd = "pending" /\ Verd' = Verd
    BY <1>4 DEF WriteRound, Step
  <2> QED BY <2>1, <2>2, <2>3 DEF Abstract!Perform
<1>5. ASSUME NEW t \in Threads, WriteRoundFails(t) PROVE [Abstract!Next]_(Abstract!vars)
  <2>1. round[t] \in Rounds /\ slots[round[t]] = Empty
    BY <1>0, <1>5 DEF TypeOK, WriteRoundFails, Step, ClaimInv, Claims
  <2>2. Done' = Done
    BY <1>0, <1>5, <2>1 DEF TypeOK, WriteRoundFails, Step, Rounds, Empty, Torn
  <2> QED BY <1>5, <2>2 DEF WriteRoundFails, Step
<1>6. CASE \/ TestRandomness /\ main' # "returned"
           \/ SampleOpening \/ CopyOpening \/ GenerateKeys \/ WriteCommitment
           \/ SetupContext \/ Abort \/ UNCHANGED vars
  BY <1>6 DEF TestRandomness, SampleOpening, CopyOpening, FillBuffer,
     GenerateKeys, WriteCommitment,
    SetupContext, Abort, Proceed, GotoCleanup, callVars, vars
<1>7. ASSUME NEW t \in Threads,
             \/ ThreadInit(t) \/ ThreadInitFails(t) \/ StoreError(t) \/ NextIteration(t)
             \/ ProveRound(t) \/ ReachBarrier(t) \/ ThreadCleanup(t)
      PROVE  [Abstract!Next]_(Abstract!vars)
  BY <1>7 DEF ThreadInit, ThreadInitFails, StoreError, NextIteration,
     ProveRound, ReachBarrier, ThreadCleanup, Step
<1> QED
  BY <1>1, <1>2, <1>3, <1>4, <1>5, <1>6, <1>7
        DEF Next, CallerStep, ThreadStep, Stopped

\* Rounds are performed once each, and success is reported after all of them.
THEOREM Implementation == Spec => ImplementsAllRounds
<1>1. Init => Abstract!Init
  BY RefInit
<1>2. IInv /\ [Next]_vars => [Abstract!Next]_(Abstract!vars)
  BY RefStep
<1> QED
  BY <1>1, <1>2, Invariance, PTL DEF Spec, ImplementsAllRounds, Abstract!Spec

(***************************************************************************)
(* The exchange over one proof file.                                       *)
(***************************************************************************)
LEMMA NumbersApart ==
  /\ 0 \in Rounds
  /\ Empty \notin Rounds /\ Torn \notin Rounds /\ Stale \notin Rounds
  /\ Empty # Stale /\ Torn # Stale /\ Empty # Torn
BY NumRoundsAssumption DEF Rounds, Empty, Torn, Stale

\* Every slot of the file reads as something the verifier can meet.
LEMMA FileType == FileOf(subject) \in [Verify!Rounds -> Verify!Kinds]
BY DEF FileOf, Verify!Kinds, Verify!Rounds, Rounds

\* So it is after a step.
LEMMA FileTypeNext == FileOf(subject)' \in [Verify!Rounds -> Verify!Kinds]
BY DEF FileOf, Verify!Kinds, Verify!Rounds, Rounds

\* The verifier counts the same rounds.
LEMMA SameRounds == Verify!Rounds = Rounds
BY DEF Verify!Rounds, Rounds

\* The verifier finds a slot valid exactly when it is good.
LEMMA ValidIsGood ==
  \A k \in Rounds : FileOf(subject)[k] = "valid" <=> Good(k)
BY DEF FileOf, Good

-----------------------------------------------------------------------------
(* hm_bit_commit and its file. *)

\* A step of a call truncates the file, leaves it, or fills untouched slots.
LEMMA FileStep ==
  ASSUME IInv, CallerStep \/ \E t \in Threads : ThreadStep(t)
  PROVE  /\ main \notin {"returned", "aborted"}
         /\ \/ \A k \in Rounds : slots'[k] = Empty
            \/ \A k \in Rounds :
                 \/ slots'[k] = slots[k]
                 \/ slots[k] = Empty /\ slots'[k] \in {k, Torn}
<1> DEFINE P == /\ main \notin {"returned", "aborted"}
                /\ \/ \A k \in Rounds : slots'[k] = Empty
                   \/ \A k \in Rounds :
                        \/ slots'[k] = slots[k]
                        \/ slots[k] = Empty /\ slots'[k] \in {k, Torn}
<1>0. TypeOK /\ TeamInv /\ ClaimInv
  BY DEF IInv
<1>1. CASE OpenProofFile
  BY <1>1 DEF OpenProofFile
<1>2. CASE \/ TestRandomness \/ SampleOpening \/ CopyOpening \/ GenerateKeys
           \/ WriteCommitment \/ SetupContext \/ Join \/ CleanupLabel
  BY <1>2 DEF TestRandomness, SampleOpening, CopyOpening, GenerateKeys,
     WriteCommitment, SetupContext, Join, CleanupLabel, callVars
<1>3. ASSUME NEW t \in Threads, WriteRound(t) PROVE P
  <2>1. round[t] \in Rounds /\ slots[round[t]] = Empty /\ buf[t] = round[t]
    BY <1>0, <1>3 DEF TypeOK, WriteRound, Step, ClaimInv, Claims, TeamInv
  <2> QED
    BY <1>0, <1>3, <2>1 DEF WriteRound, Step, TypeOK
<1>4. ASSUME NEW t \in Threads, WriteRoundFails(t) PROVE P
  <2>1. round[t] \in Rounds /\ slots[round[t]] = Empty
    BY <1>0, <1>4 DEF TypeOK, WriteRoundFails, Step, ClaimInv, Claims
  <2> QED
    BY <1>0, <1>4, <2>1 DEF WriteRoundFails, Step, TypeOK
<1>5. ASSUME NEW t \in Threads,
             \/ ThreadInit(t) \/ ThreadInitFails(t) \/ StoreError(t)
             \/ NextIteration(t) \/ ProveRound(t) \/ ReachBarrier(t)
             \/ ThreadCleanup(t)
      PROVE  P
  BY <1>5 DEF ThreadInit, ThreadInitFails, StoreError, NextIteration,
     ProveRound, ReachBarrier, ThreadCleanup, Step
<1> QED
  BY <1>1, <1>2, <1>3, <1>4, <1>5 DEF CallerStep, ThreadStep

\* What a call keeps to holds through its steps, its death and the next call.
LEMMA CommitterStep ==
  ASSUME IInv, [ExchangeNext]_exchangeState
  PROVE  IInv'
<1>1. CASE CommitStep
  <2>1. Next
    BY <1>1 DEF CommitStep, Next
  <2> QED BY <2>1, IInvStep
<1>2. CASE Die
  <2> USE <1>2 DEF IInv, Die, callVars, teamVars
  <2>1. TypeOK' /\ HeapInv' /\ TeamInv'
    BY DEF TypeOK, HeapInv, TeamInv
  <2>2. CallInv' /\ ForkInv'
    BY DEF CallInv, ForkInv
  <2>3. VerdictInv' /\ RecordInv'
    BY DEF VerdictInv, VerdictExact, RecordInv, CompleteOnSuccess, Pending
  <2>4. ClaimInv'
    BY DEF ClaimInv, Claims, SingleProofFile
  <2> QED BY <2>1, <2>2, <2>3, <2>4
<1>3. CASE CommitAgain
  <2>1. slots' \in [Rounds -> {Empty, Torn, Stale}]
    BY <1>3 DEF CommitAgain, IInv, TypeOK, Whole
  <2>2. Init'
    BY <1>3, <2>1 DEF CommitAgain, Init
  <2>3. (Init => IInv)'
    BY InitIInv, PTL
  <2> QED BY <2>2, <2>3
<1>4. CASE CallVerify \/ VerifyStep \/ Rest \/ UNCHANGED exchangeState
  <2>1. [Next]_vars
    BY <1>4 DEF CallVerify, VerifyStep, Rest, exchangeState
  <2> QED BY <2>1, IInvStep
<1> QED
  BY <1>1, <1>2, <1>3, <1>4 DEF ExchangeNext

\* Calls are numbered, and no commitment leaves a call before it returns.
LEMMA CallsStep ==
  ASSUME IInv, CallsInv, [ExchangeNext]_exchangeState
  PROVE  CallsInv'
<1> USE DEF CallsInv
<1>1. CASE CommitStep
  <2>1. main # "returned"
    BY <1>1, FileStep DEF CommitStep
  <2>2. writer' \in [Rounds -> 0 .. call]
    BY <1>1 DEF CommitStep
  <2>3. handed' \subseteq handed \cup {call} /\ handed \subseteq handed'
    BY <1>1 DEF CommitStep
  <2>4. main' # "returned" => handed' = handed
    BY <1>1 DEF CommitStep
  <2>5. UNCHANGED <<call, subject, settled>>
    BY <1>1 DEF CommitStep
  <2> QED BY <2>1, <2>2, <2>3, <2>4, <2>5
<1>2. CASE Die
  BY <1>2 DEF Die, exchangeVars
<1>3. CASE CommitAgain
  <2>1. call' = call + 1 /\ UNCHANGED <<writer, handed, subject, settled>>
    BY <1>3 DEF CommitAgain
  <2>2. writer' \in [Rounds -> 0 .. call']
    BY <2>1
  <2> QED BY <1>3, <2>1, <2>2 DEF CommitAgain
<1>4. CASE CallVerify
  BY <1>4 DEF CallVerify, vars, exchangeVars
<1>5. CASE VerifyStep \/ Rest \/ UNCHANGED exchangeState
  BY <1>5 DEF VerifyStep, Rest, exchangeState, vars, exchangeVars
<1> QED
  BY <1>1, <1>2, <1>3, <1>4, <1>5 DEF ExchangeNext

\* Who wrote a record, and whose proof has been complete.
LEMMA WriterStep ==
  ASSUME IInv, CallsInv, WriterInv, [ExchangeNext]_exchangeState
  PROVE  WriterInv'
<1> USE NumbersApart
<1>1. CASE CommitStep
  <2>1. \A k \in Rounds : slots'[k] \in Rounds => slots'[k] = k /\ writer'[k] = call
    BY <1>1, FileStep DEF CommitStep, WriterInv
  <2>2. ASSUME NEW s \in 0 .. call,
               \A k \in Rounds : slots'[k] \in Rounds \cup {Stale} /\ writer'[k] = s
        PROVE  s \in complete'
    <3>1. CASE \E k \in Rounds : slots'[k] = Stale
      <4>1. IInv'
        BY <1>1, CommitterStep DEF ExchangeNext
      <4>2. \A k \in Rounds : slots'[k] = Stale
        BY <2>2, <3>1, <4>1 DEF IInv, ClaimInv, SingleProofFile
      <4>3. \A k \in Rounds : slots[k] = Stale /\ writer'[k] = writer[k]
        BY <1>1, <4>2, FileStep DEF CommitStep
      <4>4. s \in complete
        BY <2>2, <4>3 DEF WriterInv, Whole
      <4> QED BY <1>1, <4>4 DEF CommitStep
    <3>2. CASE \A k \in Rounds : slots'[k] \in Rounds
      <4>1. (\A k \in Rounds : slots'[k] = k) /\ s = call
        BY <2>1, <2>2, <3>2
      <4> QED BY <1>1, <4>1 DEF CommitStep
    <3> QED BY <2>2, <3>1, <3>2
  <2> QED BY <1>1, <2>1, <2>2 DEF CommitStep, WriterInv, Whole
<1>2. CASE CommitAgain
  <2>1. \A k \in Rounds : Whole(k)' <=> Whole(k)
    BY <1>2 DEF CommitAgain, Whole
  <2>2. \A k \in Rounds : slots'[k] \notin Rounds
    BY <1>2 DEF CommitAgain, Whole
  <2>3. call' = call + 1 /\ UNCHANGED <<writer, complete>>
    BY <1>2 DEF CommitAgain
  <2>4. ASSUME NEW s \in 0 .. call', \A k \in Rounds : Whole(k)' /\ writer'[k] = s
        PROVE  s \in complete'
    <3>1. s \in 0 .. call
      BY <2>3, <2>4 DEF CallsInv
    <3> QED BY <2>1, <2>3, <2>4, <3>1 DEF WriterInv
  <2> QED BY <2>2, <2>4 DEF WriterInv
<1>3. CASE Die \/ CallVerify \/ VerifyStep \/ Rest \/ UNCHANGED exchangeState
  BY <1>3 DEF Die, CallVerify, VerifyStep, Rest, exchangeState, vars, callVars,
     exchangeVars, WriterInv, Whole
<1> QED
  BY <1>1, <1>2, <1>3 DEF ExchangeNext

-----------------------------------------------------------------------------
(* hm_bit_verify on a file that may change. *)

\* Only VerifyStep moves the verifier.
LEMMA VerifierStands ==
  ASSUME CommitStep \/ Die \/ CommitAgain \/ CallVerify \/ Rest
           \/ UNCHANGED exchangeState
  PROVE  UNCHANGED verifyVars
BY DEF CommitStep, Die, CommitAgain, CallVerify, Rest, exchangeState

\* The verifier's variables keep their types, whatever becomes of the file.
LEMMA TypedStep ==
  ASSUME CheckersTyped, CheckersReady, [ExchangeNext]_exchangeState
  PROVE  CheckersTyped'
<1>1. CASE VerifyStep
  <2> USE FileTypeNext DEF CheckersTyped, Verify!TypeOK, Verify!CallPtrs
  <2>1. CASE Verify!TestRandomness
    BY <2>1 DEF Verify!TestRandomness, Verify!teamVars
  <2>2. CASE Verify!CheckArguments
    BY <2>2 DEF Verify!CheckArguments, Verify!teamVars
  <2>3. CASE Verify!OpenProofFile
    <3>1. vheap' \subseteq (Checkers \X Verify!ThreadPtrs)
                            \cup ({"call"} \X Verify!CallPtrs)
      BY <2>3 DEF Verify!OpenProofFile
    <3>2. vheld' \subseteq Verify!CallPtrs
      BY <2>3 DEF Verify!OpenProofFile
    <3> QED BY <2>3, <3>1, <3>2 DEF Verify!OpenProofFile, Verify!teamVars
  <2>4. CASE Verify!ReadCommitment
    BY <2>4 DEF Verify!ReadCommitment, Verify!callVars, Verify!teamVars
  <2>5. CASE Verify!SetupContext
    BY <2>5 DEF Verify!SetupContext
  <2>6. CASE Verify!Join
    BY <2>6 DEF Verify!Join, Verify!Release, Verify!Verdict, Verify!teamVars
  <2>7. CASE Verify!FailLabel
    BY <2>7 DEF Verify!FailLabel, Verify!Release, Verify!teamVars
  <2>8. ASSUME NEW t \in Checkers, Verify!ThreadInit(t) PROVE CheckersTyped'
    BY <2>8 DEF Verify!ThreadInit, Verify!Step
  <2>9. ASSUME NEW t \in Checkers, Verify!ThreadInitFails(t) PROVE CheckersTyped'
    BY <2>9 DEF Verify!ThreadInitFails, Verify!Step, Verify!StateCleanup,
       Verify!PartialStates
  <2>10. ASSUME NEW t \in Checkers, Verify!StoreError(t) PROVE CheckersTyped'
    BY <2>10 DEF Verify!StoreError, Verify!Step
  <2>11. ASSUME NEW t \in Checkers, Verify!NextIteration(t) PROVE CheckersTyped'
    BY <2>11 DEF Verify!NextIteration, Verify!Step
  <2>12. ASSUME NEW t \in Checkers, Verify!ReadRound(t) PROVE CheckersTyped'
    BY <2>12 DEF Verify!ReadRound, Verify!RecordAt, Verify!Step
  <2>13. ASSUME NEW t \in Checkers, Verify!ReadRoundFails(t) PROVE CheckersTyped'
    BY <2>13 DEF Verify!ReadRoundFails, Verify!Step
  <2>14. ASSUME NEW t \in Checkers, Verify!CheckRound(t) PROVE CheckersTyped'
    <3>1. vrec[t].of \in Verify!Rounds
      BY <2>14 DEF Verify!CheckRound, Verify!Step, CheckersReady
    <3> QED BY <2>14, <3>1 DEF Verify!CheckRound, Verify!Step
  <2>15. ASSUME NEW t \in Checkers, Verify!CheckRoundFails(t) PROVE CheckersTyped'
    BY <2>15 DEF Verify!CheckRoundFails, Verify!Step
  <2>16. ASSUME NEW t \in Checkers, Verify!ReachBarrier(t) PROVE CheckersTyped'
    BY <2>16 DEF Verify!ReachBarrier, Verify!Step
  <2>17. ASSUME NEW t \in Checkers, Verify!ThreadCleanup(t) PROVE CheckersTyped'
    BY <2>17 DEF Verify!ThreadCleanup, Verify!Step, Verify!StateCleanup
  <2>18. CASE Verify!Abort
    BY <2>18 DEF Verify!Abort, Verify!callVars, Verify!teamVars
  <2> QED
    BY <1>1, <2>1, <2>2, <2>3, <2>4, <2>5, <2>6, <2>7, <2>8, <2>9, <2>10,
       <2>11, <2>12, <2>13, <2>14, <2>15, <2>16, <2>17, <2>18
       DEF VerifyStep, Verify!CallerStep, Verify!ThreadStep
<1>2. CASE CommitStep \/ Die \/ CommitAgain \/ CallVerify \/ Rest
           \/ UNCHANGED exchangeState
  <2>1. UNCHANGED verifyVars
    BY <1>2, VerifierStands
  <2> QED BY <2>1, FileTypeNext DEF verifyVars, CheckersTyped, Verify!TypeOK
<1> QED
  BY <1>1, <1>2 DEF ExchangeNext

\* A checker checks the round it has just read, and idles only without work.
LEMMA ReadyStep ==
  ASSUME CheckersTyped, CheckersReady, [ExchangeNext]_exchangeState
  PROVE  CheckersReady'
<1>1. CASE VerifyStep
  <2> USE SameRounds DEF CheckersTyped, Verify!TypeOK, CheckersReady
  <2>1. CASE Verify!TestRandomness
    BY <2>1 DEF Verify!TestRandomness, Verify!teamVars
  <2>2. CASE Verify!CheckArguments
    BY <2>2 DEF Verify!CheckArguments, Verify!teamVars
  <2>3. CASE Verify!OpenProofFile
    BY <2>3 DEF Verify!OpenProofFile, Verify!teamVars
  <2>4. CASE Verify!ReadCommitment
    BY <2>4 DEF Verify!ReadCommitment, Verify!callVars, Verify!teamVars
  <2>5. CASE Verify!SetupContext
    <3>1. vmain' = "region" /\ UNCHANGED <<vpc, vround, vrec, vchal>>
      BY <2>5 DEF Verify!SetupContext
    <3>2. \A t \in Checkers : vpc[t] \notin {"barrier", "done"}
      BY <2>5 DEF Verify!SetupContext
    <3> QED BY <3>1, <3>2
  <2>6. CASE Verify!Join
    BY <2>6 DEF Verify!Join, Verify!Release, Verify!Verdict, Verify!teamVars
  <2>7. CASE Verify!FailLabel
    BY <2>7 DEF Verify!FailLabel, Verify!Release, Verify!teamVars
  <2>8. ASSUME NEW t \in Checkers, Verify!ThreadInit(t) PROVE CheckersReady'
    BY <2>8 DEF Verify!ThreadInit, Verify!Step
  <2>9. ASSUME NEW t \in Checkers, Verify!ThreadInitFails(t) PROVE CheckersReady'
    BY <2>9 DEF Verify!ThreadInitFails, Verify!Step, Verify!StateCleanup,
       Verify!PartialStates
  <2>10. ASSUME NEW t \in Checkers, Verify!StoreError(t) PROVE CheckersReady'
    BY <2>10 DEF Verify!StoreError, Verify!Step
  <2>11. ASSUME NEW t \in Checkers, Verify!NextIteration(t) PROVE CheckersReady'
    BY <2>11 DEF Verify!NextIteration, Verify!Step
  <2>12. ASSUME NEW t \in Checkers, Verify!ReadRound(t) PROVE CheckersReady'
    BY <2>12 DEF Verify!ReadRound, Verify!RecordAt, Verify!Step
  <2>13. ASSUME NEW t \in Checkers, Verify!ReadRoundFails(t) PROVE CheckersReady'
    BY <2>13 DEF Verify!ReadRoundFails, Verify!Step
  <2>14. ASSUME NEW t \in Checkers, Verify!CheckRound(t) PROVE CheckersReady'
    BY <2>14 DEF Verify!CheckRound, Verify!Step
  <2>15. ASSUME NEW t \in Checkers, Verify!CheckRoundFails(t) PROVE CheckersReady'
    BY <2>15 DEF Verify!CheckRoundFails, Verify!Step
  <2>16. ASSUME NEW t \in Checkers, Verify!ReachBarrier(t) PROVE CheckersReady'
    BY <2>16 DEF Verify!ReachBarrier, Verify!Step
  <2>17. ASSUME NEW t \in Checkers, Verify!ThreadCleanup(t) PROVE CheckersReady'
    BY <2>17 DEF Verify!ThreadCleanup, Verify!Step, Verify!StateCleanup
  <2>18. CASE Verify!Abort
    BY <2>18 DEF Verify!Abort, Verify!callVars, Verify!teamVars
  <2> QED
    BY <1>1, <2>1, <2>2, <2>3, <2>4, <2>5, <2>6, <2>7, <2>8, <2>9, <2>10,
       <2>11, <2>12, <2>13, <2>14, <2>15, <2>16, <2>17, <2>18
       DEF VerifyStep, Verify!CallerStep, Verify!ThreadStep
<1>2. CASE CommitStep \/ Die \/ CommitAgain \/ CallVerify \/ Rest
           \/ UNCHANGED exchangeState
  <2>1. UNCHANGED verifyVars
    BY <1>2, VerifierStands
  <2> QED BY <2>1 DEF verifyVars, CheckersReady
<1> QED
  BY <1>1, <1>2 DEF ExchangeNext

\* No round is passed over without the flag going up.
LEMMA DoneStep ==
  ASSUME CheckersTyped, CheckersReady, CheckersDone, [ExchangeNext]_exchangeState
  PROVE  CheckersDone'
<1>1. CASE VerifyStep
  <2> USE SameRounds DEF CheckersTyped, Verify!TypeOK, CheckersReady, CheckersDone, Verify!Accounted, Verify!Pending
  <2>1. CASE Verify!TestRandomness
    BY <2>1 DEF Verify!TestRandomness, Verify!teamVars
  <2>2. CASE Verify!CheckArguments
    BY <2>2 DEF Verify!CheckArguments, Verify!teamVars
  <2>3. CASE Verify!OpenProofFile
    BY <2>3 DEF Verify!OpenProofFile, Verify!teamVars
  <2>4. CASE Verify!ReadCommitment
    BY <2>4 DEF Verify!ReadCommitment, Verify!callVars, Verify!teamVars
  <2>5. CASE Verify!SetupContext
    BY <2>5 DEF Verify!SetupContext
  <2>6. CASE Verify!Join
    <3>1. verror = 0 => \A k \in Rounds : k \in vchecked
      BY <2>6 DEF Verify!Join
    <3>2. vret' = 0 => verror = 0
      BY <2>6 DEF Verify!Join, Verify!Verdict
    <3>3. vchecked \subseteq Rounds
      OBVIOUS
    <3>4. vret' = 0 => vchecked = Rounds
      BY <3>1, <3>2, <3>3, Zenon
    <3>5. vmain' = "returned" /\ vchecked' = vchecked
      BY <2>6 DEF Verify!Join, Verify!Release
    <3> QED BY <3>4, <3>5
  <2>7. CASE Verify!FailLabel
    BY <2>7 DEF Verify!FailLabel, Verify!Release, Verify!teamVars
  <2>8. ASSUME NEW t \in Checkers, Verify!ThreadInit(t) PROVE CheckersDone'
    BY <2>8 DEF Verify!ThreadInit, Verify!Step
  <2>9. ASSUME NEW t \in Checkers, Verify!ThreadInitFails(t) PROVE CheckersDone'
    BY <2>9 DEF Verify!ThreadInitFails, Verify!Step, Verify!StateCleanup,
       Verify!PartialStates
  <2>10. ASSUME NEW t \in Checkers, Verify!StoreError(t) PROVE CheckersDone'
    BY <2>10 DEF Verify!StoreError, Verify!Step
  <2>11. ASSUME NEW t \in Checkers, Verify!NextIteration(t) PROVE CheckersDone'
    BY <2>11 DEF Verify!NextIteration, Verify!Step
  <2>12. ASSUME NEW t \in Checkers, Verify!ReadRound(t) PROVE CheckersDone'
    BY <2>12 DEF Verify!ReadRound, Verify!RecordAt, Verify!Step
  <2>13. ASSUME NEW t \in Checkers, Verify!ReadRoundFails(t) PROVE CheckersDone'
    BY <2>13 DEF Verify!ReadRoundFails, Verify!Step
  <2>14. ASSUME NEW t \in Checkers, Verify!CheckRound(t) PROVE CheckersDone'
    <3>1. vrec[t].of = vround[t]
      BY <2>14 DEF Verify!CheckRound, Verify!Step
    <3> QED BY <2>14, <3>1 DEF Verify!CheckRound, Verify!Step
  <2>15. ASSUME NEW t \in Checkers, Verify!CheckRoundFails(t) PROVE CheckersDone'
    BY <2>15 DEF Verify!CheckRoundFails, Verify!Step
  <2>16. ASSUME NEW t \in Checkers, Verify!ReachBarrier(t) PROVE CheckersDone'
    BY <2>16 DEF Verify!ReachBarrier, Verify!Step
  <2>17. ASSUME NEW t \in Checkers, Verify!ThreadCleanup(t) PROVE CheckersDone'
    BY <2>17 DEF Verify!ThreadCleanup, Verify!Step, Verify!StateCleanup
  <2>18. CASE Verify!Abort
    BY <2>18 DEF Verify!Abort, Verify!callVars, Verify!teamVars
  <2> QED
    BY <1>1, <2>1, <2>2, <2>3, <2>4, <2>5, <2>6, <2>7, <2>8, <2>9, <2>10,
       <2>11, <2>12, <2>13, <2>14, <2>15, <2>16, <2>17, <2>18
       DEF VerifyStep, Verify!CallerStep, Verify!ThreadStep
<1>2. CASE CommitStep \/ Die \/ CommitAgain \/ CallVerify \/ Rest
           \/ UNCHANGED exchangeState
  <2>1. UNCHANGED verifyVars
    BY <1>2, VerifierStands
  <2> QED BY <2>1 DEF verifyVars, CheckersDone, Verify!Accounted
<1> QED
  BY <1>1, <1>2 DEF ExchangeNext

\* What the verifier comes to see, it finds good.
LEMMA SeenGrows ==
  ASSUME CheckersTyped, CheckersReady, VerifyStep
  PROVE  \A k \in Seen' : k \in Seen \/ Good(k)
<1> DEFINE P == \A k \in Seen' : k \in Seen \/ Good(k)
<1> USE SameRounds DEF CheckersTyped, Verify!TypeOK, CheckersReady, Seen
<1>1. ASSUME NEW t \in Checkers, Verify!ReadRound(t) PROVE P
  <2>1. FileOf(subject)[vround[t]] = "valid" => Good(vround[t])
    BY ValidIsGood
  <2>2. /\ vchecked' = vchecked /\ vround' = vround
        /\ vpc' = [vpc EXCEPT ![t] = "check"]
        /\ vrec' = [vrec EXCEPT ![t] = Verify!RecordAt(vround[t])]
    BY <1>1 DEF Verify!ReadRound, Verify!Step
  <2>3. vrec'[t].as = FileOf(subject)[vround[t]]
    BY <2>2 DEF Verify!RecordAt
  <2> QED BY <2>1, <2>2, <2>3
<1>2. ASSUME NEW t \in Checkers, Verify!CheckRound(t) PROVE P
  <2>1. vrec[t].of = vround[t] /\ vpc[t] = "check" /\ vrec[t].as = "valid"
    BY <1>2 DEF Verify!CheckRound, Verify!Step
  <2>2. /\ vchecked' = vchecked \cup {vrec[t].of} /\ UNCHANGED <<vround, vrec>>
        /\ vpc' = [vpc EXCEPT ![t] = "loop"]
    BY <1>2 DEF Verify!CheckRound, Verify!Step
  <2> QED BY <2>1, <2>2
<1>3. ASSUME NEW t \in Checkers,
             \/ Verify!ThreadInit(t) \/ Verify!ThreadInitFails(t)
             \/ Verify!StoreError(t) \/ Verify!NextIteration(t)
             \/ Verify!ReadRoundFails(t) \/ Verify!CheckRoundFails(t)
             \/ Verify!ReachBarrier(t) \/ Verify!ThreadCleanup(t)
      PROVE  P
  <2>1. /\ vchecked' = vchecked /\ vrec' = vrec
        /\ \A u \in Checkers : vpc'[u] = "check" => vpc[u] = "check" /\ vround'[u] = vround[u]
    BY <1>3 DEF Verify!ThreadInit, Verify!ThreadInitFails, Verify!StoreError,
       Verify!NextIteration, Verify!ReadRoundFails, Verify!CheckRoundFails,
       Verify!ReachBarrier, Verify!ThreadCleanup, Verify!Step
  <2> QED BY <2>1
<1>4. CASE \/ Verify!TestRandomness \/ Verify!CheckArguments
           \/ Verify!OpenProofFile \/ Verify!ReadCommitment
           \/ Verify!SetupContext \/ Verify!Join \/ Verify!FailLabel
           \/ Verify!Abort
  <2>1. UNCHANGED <<vchecked, vrec, vpc, vround>>
    BY <1>4 DEF Verify!TestRandomness, Verify!CheckArguments,
       Verify!OpenProofFile, Verify!ReadCommitment, Verify!SetupContext,
       Verify!Join, Verify!FailLabel, Verify!Release, Verify!Abort,
       Verify!teamVars
  <2> QED BY <2>1
<1> QED
  BY <1>1, <1>2, <1>3, <1>4 DEF VerifyStep, Verify!CallerStep, Verify!ThreadStep

LEMMA SeenAreRounds == ASSUME CheckersTyped PROVE Seen \subseteq Rounds
BY SameRounds DEF CheckersTyped, Verify!TypeOK, Seen

\* When every round has been seen good, the proof was complete.
LEMMA AllGoodIsComplete ==
  ASSUME CallsInv, WriterInv, \A k \in Rounds : Good(k)
  PROVE  subject \in complete
BY DEF CallsInv, WriterInv, Good

\* What has been seen stays in the file, or was complete, or is too little.
LEMMA SeenStep ==
  ASSUME IInv, CallsInv, WriterInv, CheckersTyped, CheckersReady, IdleInv,
         SeenInv, [ExchangeNext]_exchangeState
  PROVE  SeenInv'
<1> USE NumbersApart
<1>1. CASE CommitStep
  <2>1. Seen' = Seen /\ UNCHANGED <<call, subject>> /\ complete \subseteq complete'
    BY <1>1 DEF CommitStep, verifyVars, Seen
  <2>2. \A k \in Rounds : writer'[k] = IF slots'[k] \in Rounds THEN call
                        ELSE IF slots'[k] = Stale THEN writer[k] ELSE 0
    BY <1>1 DEF CommitStep
  <2>3. main # "returned"
    BY <1>1, FileStep DEF CommitStep
  <2>4. subject < call
    BY <2>3 DEF CallsInv
  <2>5. CASE \A k \in Rounds : slots'[k] = Empty
    <3>1. \A k \in Rounds : ~Good(k)'
      BY <2>5 DEF Good, Whole
    <3>2. Seen = Rounds => SeenInv /\ subject \in complete
      BY AllGoodIsComplete DEF SeenInv
    <3> QED BY <2>1, <2>4, <3>1, <3>2 DEF SeenInv
  <2>6. CASE \A k \in Rounds :
               \/ slots'[k] = slots[k]
               \/ slots[k] = Empty /\ slots'[k] \in {k, Torn}
    <3>1. \A k \in Rounds : Good(k) => Good(k)'
      BY <2>1, <2>2, <2>6 DEF Good, Whole, WriterInv
    <3>2. \A k \in Rounds : Good(k)' => Good(k)
      BY <2>1, <2>2, <2>4, <2>6 DEF Good, Whole, CallsInv
    <3>3. Seen \subseteq Rounds
      BY SeenAreRounds
    <3>4. CASE subject \in complete
      BY <2>1, <3>4 DEF SeenInv
    <3>5. CASE \A k \in Seen : Good(k)
      BY <2>1, <3>1, <3>3, <3>5 DEF SeenInv
    <3>6. CASE subject < call /\ Seen # Rounds /\ \A k \in Rounds : ~Good(k)
      <4>1. \A k \in Rounds : ~Good(k)'
        BY <3>2, <3>6
      <4>2. subject' < call' /\ Seen' # Rounds
        BY <2>1, <3>6
      <4> QED BY <4>1, <4>2 DEF SeenInv
    <3> QED BY <3>4, <3>5, <3>6 DEF SeenInv
  <2>7. \/ \A k \in Rounds : slots'[k] = Empty
        \/ \A k \in Rounds :
             \/ slots'[k] = slots[k]
             \/ slots[k] = Empty /\ slots'[k] \in {k, Torn}
    BY <1>1, FileStep DEF CommitStep
  <2> QED BY <2>5, <2>6, <2>7, Zenon
<1>2. CASE CommitAgain
  <2>1. \A k \in Rounds : Good(k)' <=> Good(k)
    BY <1>2 DEF CommitAgain, Good, Whole
  <2>2. call' = call + 1 /\ Seen' = Seen /\ UNCHANGED <<complete, subject>>
    BY <1>2 DEF CommitAgain, Seen, verifyVars
  <2>3. Seen \subseteq Rounds
    BY SeenAreRounds
  <2> QED BY <2>1, <2>2, <2>3 DEF SeenInv, CallsInv
<1>3. CASE CallVerify
  <2>1. Seen' = {}
    BY <1>3 DEF CallVerify, IdleInv, Seen, verifyVars
  <2> QED BY <2>1 DEF SeenInv
<1>4. CASE VerifyStep
  <2>1. UNCHANGED <<slots, writer, complete, subject, call>>
    BY <1>4 DEF VerifyStep, vars, callVars, exchangeVars
  <2>2. \A k : Good(k)' <=> Good(k)
    BY <2>1 DEF Good, Whole
  <2>3. \A k \in Seen' : k \in Seen \/ Good(k)
    BY <1>4, SeenGrows
  <2>4. Seen \subseteq Rounds /\ Seen' \subseteq Rounds
    <3>1. CheckersTyped'
      BY <1>4, TypedStep DEF ExchangeNext
    <3>2. (CheckersTyped => Seen \subseteq Rounds)'
      BY SeenAreRounds, PTL
    <3> QED BY <3>1, <3>2, SeenAreRounds
  <2>5. CASE subject \in complete
    BY <2>1, <2>5 DEF SeenInv
  <2>6. CASE \A k \in Seen : Good(k)
    BY <2>2, <2>3, <2>6 DEF SeenInv
  <2>7. CASE subject < call /\ Seen # Rounds /\ \A k \in Rounds : ~Good(k)
    <3>1. Seen' \subseteq Seen
      BY <2>3, <2>4, <2>7
    <3>2. Seen' # Rounds
      BY <2>4, <2>7, <3>1
    <3> QED BY <2>1, <2>2, <2>7, <3>2 DEF SeenInv
  <2> QED BY <2>5, <2>6, <2>7 DEF SeenInv
<1>5. CASE Die \/ Rest \/ UNCHANGED exchangeState
  <2>1. /\ Seen' = Seen /\ UNCHANGED <<call, subject, complete>>
        /\ \A k : Good(k)' <=> Good(k)
    BY <1>5 DEF Die, Rest, exchangeState, vars, callVars, exchangeVars,
       verifyVars, Seen, Good, Whole
  <2> QED BY <2>1 DEF SeenInv
<1> QED
  BY <1>1, <1>2, <1>3, <1>4, <1>5 DEF ExchangeNext

\* The verifier waits until it is called.
LEMMA IdleStep ==
  ASSUME CallsInv, IdleInv, [ExchangeNext]_exchangeState
  PROVE  IdleInv'
<1>1. CASE CallVerify
  BY <1>1 DEF CallVerify, CallsInv, IdleInv
<1>2. CASE VerifyStep
  BY <1>2 DEF VerifyStep, IdleInv
<1>3. CASE CommitStep \/ Die \/ CommitAgain \/ Rest \/ UNCHANGED exchangeState
  <2>1. subject' = subject /\ UNCHANGED verifyVars
    BY <1>3, VerifierStands DEF CommitStep, Die, CommitAgain, Rest, exchangeState
  <2> QED BY <2>1 DEF verifyVars, IdleInv
<1> QED
  BY <1>1, <1>2, <1>3 DEF ExchangeNext

\* A verifier that finds every record valid refuses only when it fails.
LEMMA HonestCheck ==
  ASSUME CheckersTyped, CheckersReady, HonestSoFar, VerifyStep,
         \A k \in Rounds : FileOf(subject)[k] = "valid"
  PROVE  HonestSoFar'
<1>0. UNCHANGED <<main, ret>>
  BY DEF VerifyStep, vars, callVars
<1> USE <1>0, SameRounds DEF CheckersTyped, Verify!TypeOK, CheckersReady, HonestSoFar
<1>1. CASE Verify!TestRandomness
  BY <1>1 DEF Verify!TestRandomness, Verify!teamVars
<1>2. CASE Verify!CheckArguments
  BY <1>2 DEF Verify!CheckArguments, Verify!teamVars
<1>3. CASE Verify!OpenProofFile
  BY <1>3 DEF Verify!OpenProofFile, Verify!teamVars
<1>4. CASE Verify!ReadCommitment
  BY <1>4 DEF Verify!ReadCommitment, Verify!callVars, Verify!teamVars
<1>5. CASE Verify!SetupContext
  BY <1>5 DEF Verify!SetupContext
<1>6. CASE Verify!Join
  BY <1>6 DEF Verify!Join, Verify!Release, Verify!Verdict, Verify!teamVars
<1>7. CASE Verify!FailLabel
  BY <1>7 DEF Verify!FailLabel, Verify!Release, Verify!teamVars
<1>8. ASSUME NEW t \in Checkers, Verify!ThreadInit(t) PROVE HonestSoFar'
  BY <1>8 DEF Verify!ThreadInit, Verify!Step
<1>9. ASSUME NEW t \in Checkers, Verify!ThreadInitFails(t) PROVE HonestSoFar'
  BY <1>9 DEF Verify!ThreadInitFails, Verify!Step, Verify!StateCleanup,
     Verify!PartialStates
<1>10. ASSUME NEW t \in Checkers, Verify!StoreError(t) PROVE HonestSoFar'
  BY <1>10 DEF Verify!StoreError, Verify!Step
<1>11. ASSUME NEW t \in Checkers, Verify!NextIteration(t) PROVE HonestSoFar'
  BY <1>11 DEF Verify!NextIteration, Verify!Step
<1>12. ASSUME NEW t \in Checkers, Verify!ReadRound(t) PROVE HonestSoFar'
  BY <1>12 DEF Verify!ReadRound, Verify!RecordAt, Verify!Step
<1>13. ASSUME NEW t \in Checkers, Verify!ReadRoundFails(t) PROVE HonestSoFar'
  BY <1>13 DEF Verify!ReadRoundFails, Verify!Step
<1>14. ASSUME NEW t \in Checkers, Verify!CheckRound(t) PROVE HonestSoFar'
  BY <1>14 DEF Verify!CheckRound, Verify!Step
<1>15. ASSUME NEW t \in Checkers, Verify!CheckRoundFails(t) PROVE HonestSoFar'
  BY <1>15 DEF Verify!CheckRoundFails, Verify!Step
<1>16. ASSUME NEW t \in Checkers, Verify!ReachBarrier(t) PROVE HonestSoFar'
  BY <1>16 DEF Verify!ReachBarrier, Verify!Step
<1>17. ASSUME NEW t \in Checkers, Verify!ThreadCleanup(t) PROVE HonestSoFar'
  BY <1>17 DEF Verify!ThreadCleanup, Verify!Step, Verify!StateCleanup
<1>18. CASE Verify!Abort
  BY <1>18 DEF Verify!Abort, Verify!callVars, Verify!teamVars
<1> QED
  BY <1>1, <1>2, <1>3, <1>4, <1>5, <1>6, <1>7, <1>8, <1>9, <1>10,
     <1>11, <1>12, <1>13, <1>14, <1>15, <1>16, <1>17, <1>18
     DEF VerifyStep, Verify!CallerStep, Verify!ThreadStep

\* While the verified call is the last one, nothing but the verifier fails.
LEMMA HonestStep ==
  ASSUME IInv, CallsInv, WriterInv, CheckersTyped, CheckersReady, IdleInv,
         HonestInv, [ExchangeNext]_exchangeState
  PROVE  HonestInv'
<1> SUFFICES ASSUME settled', subject' = call' PROVE HonestSoFar'
  BY DEF HonestInv
<1>1. CASE CommitStep \/ Die
  <2>1. settled /\ subject = call /\ main # "returned"
    BY <1>1, FileStep DEF CommitStep, Die, exchangeVars
  <2> QED BY <2>1 DEF HonestInv, HonestSoFar
<1>2. CASE CommitAgain
  BY <1>2 DEF CommitAgain, CallsInv
<1>3. CASE CallVerify
  <2>1. subject = 0 /\ main = "returned" /\ ret = 0
    BY <1>3 DEF CallVerify, exchangeVars
  <2>2. UNCHANGED <<main, ret>> /\ UNCHANGED verifyVars
    BY <1>3 DEF CallVerify, vars, callVars
  <2> QED BY <2>1, <2>2 DEF IdleInv, HonestSoFar, verifyVars
<1>4. CASE VerifyStep
  <2>1. settled /\ subject = call /\ HonestSoFar
    BY <1>4 DEF VerifyStep, exchangeVars, HonestInv
  <2>2. \A k \in Rounds : slots[k] = k
    BY <2>1 DEF HonestSoFar, IInv, RecordInv, CompleteOnSuccess
  <2>3. \A k \in Rounds : Good(k)
    BY <2>1, <2>2 DEF WriterInv, Good, Whole
  <2>4. \A k \in Rounds : FileOf(subject)[k] = "valid"
    BY <2>3, ValidIsGood
  <2> QED BY <1>4, <2>1, <2>4, HonestCheck
<1>5. CASE Rest \/ UNCHANGED exchangeState
  BY <1>5 DEF Rest, exchangeState, vars, callVars, exchangeVars, verifyVars,
     HonestInv, HonestSoFar
<1> QED
  BY <1>1, <1>2, <1>3, <1>4, <1>5 DEF ExchangeNext

-----------------------------------------------------------------------------
(* The theorems. *)

\* The invariant holds before the first call.
LEMMA ExchangeInitInv == ExchangeInit => ExchangeInv
<1> SUFFICES ASSUME ExchangeInit PROVE ExchangeInv
  OBVIOUS
<1> USE NumbersApart
<1>1. IInv
  BY InitIInv DEF ExchangeInit
<1>2. CallsInv
  <2>1. writer \in [Rounds -> 0 .. call] /\ call = 1
    BY DEF ExchangeInit
  <2>2. handed = {} /\ subject = 0 /\ settled = FALSE
    BY DEF ExchangeInit
  <2>3. settled \in BOOLEAN
    BY <2>2
  <2>4. 0 \in 0 .. call /\ call \in Nat \ {0}
    BY <2>1
  <2> QED BY <2>1, <2>2, <2>3, <2>4, Zenon DEF CallsInv
<1>3. WriterInv
  BY DEF ExchangeInit, WriterInv, Whole
<1>4. CheckersTyped
  <2>1. 0 \in Verify!Rounds
    BY SameRounds
  <2>2. Verify!Nothing \in [of : Verify!Rounds \cup {-1}, as : Verify!Kinds]
    BY DEF Verify!Nothing, Verify!Kinds
  <2> QED BY <2>1, <2>2, FileType
          DEF ExchangeInit, Verify!Init, CheckersTyped, Verify!TypeOK
<1>5. CheckersReady /\ CheckersDone
  BY DEF ExchangeInit, Verify!Init, Verify!Pending, CheckersReady, CheckersDone
<1>6. SeenInv
  <2>1. Seen = {}
    BY DEF ExchangeInit, Verify!Init, Seen
  <2> QED BY <2>1 DEF SeenInv
<1>7. IdleInv /\ HonestInv
  BY DEF ExchangeInit, Verify!Init, Verify!Pending, Pending, IdleInv, HonestInv
<1> QED
  BY <1>1, <1>2, <1>3, <1>4, <1>5, <1>6, <1>7 DEF ExchangeInv

\* The invariant of the exchange.
THEOREM ExchangeInvariance == ExchangeSpec => []ExchangeInv
<1>1. ExchangeInv /\ [ExchangeNext]_exchangeState => ExchangeInv'
  <2> SUFFICES ASSUME ExchangeInv, [ExchangeNext]_exchangeState
               PROVE  ExchangeInv'
    OBVIOUS
  <2>1. /\ IInv /\ CallsInv /\ WriterInv /\ CheckersTyped /\ CheckersReady
        /\ CheckersDone /\ SeenInv /\ IdleInv /\ HonestInv
    BY DEF ExchangeInv
  <2>2. IInv' /\ CallsInv' /\ WriterInv'
    BY <2>1, CommitterStep, CallsStep, WriterStep
  <2>3. CheckersTyped' /\ CheckersReady' /\ CheckersDone'
    BY <2>1, TypedStep, ReadyStep, DoneStep
  <2>4. SeenInv' /\ IdleInv' /\ HonestInv'
    BY <2>1, SeenStep, IdleStep, HonestStep
  <2> QED BY <2>2, <2>3, <2>4 DEF ExchangeInv
<1> QED
  BY <1>1, ExchangeInitInv, PTL DEF ExchangeSpec

\* What hm_bit_verify accepts was a complete proof of its call, for all teams,
\* numbers of rounds and calls, deaths, failures and re-commits.
THEOREM AcceptedIsComplete == ExchangeSpec => []AcceptedWasComplete
<1>1. ExchangeInv => AcceptedWasComplete
  <2> SUFFICES ASSUME ExchangeInv, vret = 0 PROVE subject \in complete
    BY DEF AcceptedWasComplete
  <2>1. /\ CallsInv /\ WriterInv /\ CheckersTyped /\ CheckersDone /\ SeenInv
    BY DEF ExchangeInv
  <2>2. Seen = Rounds
    BY <2>1, SeenAreRounds DEF CheckersDone, Seen
  <2> QED BY <2>1, <2>2, AllGoodIsComplete DEF SeenInv
<1> QED
  BY <1>1, ExchangeInvariance, PTL

\* A commitment whose call returned 0 is accepted from an undisturbed file,
\* unless the verifier itself fails.
THEOREM HonestExchange == ExchangeSpec => []HonestExchangeAccepted
<1>1. ExchangeInv => HonestExchangeAccepted
  BY DEF ExchangeInv, HonestInv, HonestSoFar, HonestExchangeAccepted
<1> QED
  BY <1>1, ExchangeInvariance, PTL
=============================================================================
