-------------------------- MODULE HmBitVerify_proofs --------------------------
(* Proofs about HmBitVerify, for every team, every number of rounds and every *)
(* proof file.  Each part of the inductive invariant IInv has a lemma of its  *)
(* own, with one step per action.                                             *)
EXTENDS HmBitVerify, TLAPS

\* The invariant holds when the call begins.
LEMMA InitIInv == Init => IInv
<1> SUFFICES ASSUME Init PROVE IInv
  OBVIOUS
<1>1. TypeOK
  <2>1. 0 \in Rounds
    BY NumRoundsAssumption DEF Rounds
  <2>2. proof \in [Rounds -> Kinds]
    BY DEF Init, ProofFiles
  <2>3. Nothing \in [of : Rounds \cup {-1}, as : Kinds]
    BY DEF Nothing, Kinds
  <2> QED BY <2>1, <2>2, <2>3 DEF Init, TypeOK
<1>2. CallInv /\ ForkInv /\ HeapInv /\ NoBadFree
  BY DEF Init, CallInv, ForkInv, HeapInv, NoBadFree
<1>3. TeamInv /\ VerdictInv
  BY DEF Init, TeamInv, VerdictInv, VerdictExact
<1>4. RecordInv /\ ReadInv /\ ClaimInv
  BY DEF Init, RecordInv, ReadInv, ClaimInv, Claims, Pending
<1> QED
  BY <1>1, <1>2, <1>3, <1>4 DEF IInv

\* Every step keeps the variables in their types.
LEMMA TypeStep ==
  ASSUME TypeOK, TeamInv, [Next]_vars
  PROVE  TypeOK'
<1> USE DEF TypeOK, CallPtrs
<1>1. CASE TestRandomness
  BY <1>1 DEF TestRandomness, callVars, teamVars
<1>2. CASE CheckArguments
  BY <1>2 DEF CheckArguments, callVars, teamVars
<1>3. CASE OpenProofFile
  <2>1. heap' \subseteq (Threads \X ThreadPtrs) \cup ({"call"} \X CallPtrs)
    BY <1>3 DEF OpenProofFile
  <2>2. held' \subseteq CallPtrs
    BY <1>3 DEF OpenProofFile
  <2> QED
    BY <1>3, <2>1, <2>2 DEF OpenProofFile, teamVars
<1>4. CASE ReadCommitment
  BY <1>4 DEF ReadCommitment, callVars, teamVars
<1>5. CASE SetupContext
  BY <1>5 DEF SetupContext, callVars, teamVars
<1>6. CASE Join
  BY <1>6 DEF Join, Release, Verdict, callVars, teamVars
<1>7. CASE FailLabel
  BY <1>7 DEF FailLabel, Release, callVars, teamVars
<1>8. ASSUME NEW t \in Threads, ThreadInit(t) PROVE TypeOK'
  BY <1>8 DEF ThreadInit, Step
<1>9. ASSUME NEW t \in Threads, ThreadInitFails(t) PROVE TypeOK'
  BY <1>9 DEF ThreadInitFails, Step, StateCleanup, PartialStates
<1>10. ASSUME NEW t \in Threads, StoreError(t) PROVE TypeOK'
  BY <1>10 DEF StoreError, Step
<1>11. ASSUME NEW t \in Threads, NextIteration(t) PROVE TypeOK'
  BY <1>11 DEF NextIteration, Step
<1>12. ASSUME NEW t \in Threads, ReadRound(t) PROVE TypeOK'
  BY <1>12 DEF ReadRound, RecordAt, Step
<1>13. ASSUME NEW t \in Threads, ReadRoundFails(t) PROVE TypeOK'
  BY <1>13 DEF ReadRoundFails, Step
<1>14. ASSUME NEW t \in Threads, CheckRound(t) PROVE TypeOK'
  <2>1. rec[t].of \in Rounds
    BY <1>14 DEF CheckRound, Step, TeamInv
  <2> QED
    BY <1>14, <2>1 DEF CheckRound, Step
<1>15. ASSUME NEW t \in Threads, CheckRoundFails(t) PROVE TypeOK'
  BY <1>15 DEF CheckRoundFails, Step
<1>16. ASSUME NEW t \in Threads, ReachBarrier(t) PROVE TypeOK'
  BY <1>16 DEF ReachBarrier, Step
<1>17. ASSUME NEW t \in Threads, ThreadCleanup(t) PROVE TypeOK'
  BY <1>17 DEF ThreadCleanup, Step, StateCleanup
<1>18. CASE Abort
  BY <1>18 DEF Abort, callVars, teamVars
<1>19. CASE UNCHANGED vars
  BY <1>19 DEF vars, callVars, teamVars
<1> QED
  BY <1>1, <1>2, <1>3, <1>4, <1>5, <1>6, <1>7, <1>8, <1>9, <1>10,
     <1>11, <1>12, <1>13, <1>14, <1>15, <1>16, <1>17, <1>18, <1>19
     DEF Next, CallerStep, ThreadStep, Stopped

\* How far the call has got determines what it holds.
LEMMA CallStep ==
  ASSUME TypeOK, CallInv, ForkInv, [Next]_vars
  PROVE  CallInv'
<1> USE DEF TypeOK, CallInv, ForkInv, CallPtrs
<1>1. CASE TestRandomness
  BY <1>1 DEF TestRandomness, callVars, teamVars
<1>2. CASE CheckArguments
  BY <1>2 DEF CheckArguments, callVars, teamVars
<1>3. CASE OpenProofFile
  BY <1>3 DEF OpenProofFile, callVars, teamVars
<1>4. CASE ReadCommitment
  BY <1>4 DEF ReadCommitment, callVars, teamVars
<1>5. CASE SetupContext
  BY <1>5 DEF SetupContext, callVars, teamVars
<1>6. CASE Join
  BY <1>6 DEF Join, Release, Verdict, callVars, teamVars
<1>7. CASE FailLabel
  BY <1>7 DEF FailLabel, Release, callVars, teamVars
<1>8. ASSUME NEW t \in Threads, ThreadInit(t) PROVE CallInv'
  BY <1>8 DEF ThreadInit, Step
<1>9. ASSUME NEW t \in Threads, ThreadInitFails(t) PROVE CallInv'
  BY <1>9 DEF ThreadInitFails, Step, StateCleanup, PartialStates
<1>10. ASSUME NEW t \in Threads, StoreError(t) PROVE CallInv'
  BY <1>10 DEF StoreError, Step
<1>11. ASSUME NEW t \in Threads, NextIteration(t) PROVE CallInv'
  BY <1>11 DEF NextIteration, Step
<1>12. ASSUME NEW t \in Threads, ReadRound(t) PROVE CallInv'
  BY <1>12 DEF ReadRound, RecordAt, Step
<1>13. ASSUME NEW t \in Threads, ReadRoundFails(t) PROVE CallInv'
  BY <1>13 DEF ReadRoundFails, Step
<1>14. ASSUME NEW t \in Threads, CheckRound(t) PROVE CallInv'
  BY <1>14 DEF CheckRound, Step
<1>15. ASSUME NEW t \in Threads, CheckRoundFails(t) PROVE CallInv'
  BY <1>15 DEF CheckRoundFails, Step
<1>16. ASSUME NEW t \in Threads, ReachBarrier(t) PROVE CallInv'
  BY <1>16 DEF ReachBarrier, Step
<1>17. ASSUME NEW t \in Threads, ThreadCleanup(t) PROVE CallInv'
  BY <1>17 DEF ThreadCleanup, Step, StateCleanup
<1>18. CASE Abort
  BY <1>18 DEF Abort, callVars, teamVars
<1>19. CASE UNCHANGED vars
  BY <1>19 DEF vars, callVars, teamVars
<1> QED
  BY <1>1, <1>2, <1>3, <1>4, <1>5, <1>6, <1>7, <1>8, <1>9, <1>10,
     <1>11, <1>12, <1>13, <1>14, <1>15, <1>16, <1>17, <1>18, <1>19
     DEF Next, CallerStep, ThreadStep, Stopped

\* No thread is at work outside the region, or without the call's resources.
LEMMA ForkStep ==
  ASSUME TypeOK, CallInv, ForkInv, [Next]_vars
  PROVE  ForkInv'
<1> USE DEF TypeOK, CallInv, ForkInv, CallPtrs
<1>1. CASE TestRandomness
  BY <1>1 DEF TestRandomness, callVars, teamVars
<1>2. CASE CheckArguments
  BY <1>2 DEF CheckArguments, callVars, teamVars
<1>3. CASE OpenProofFile
  BY <1>3 DEF OpenProofFile, callVars, teamVars
<1>4. CASE ReadCommitment
  BY <1>4 DEF ReadCommitment, callVars, teamVars
<1>5. CASE SetupContext
  BY <1>5 DEF SetupContext, callVars, teamVars
<1>6. CASE Join
  BY <1>6 DEF Join, Release, Verdict, callVars, teamVars
<1>7. CASE FailLabel
  BY <1>7 DEF FailLabel, Release, callVars, teamVars
<1>8. ASSUME NEW t \in Threads, ThreadInit(t) PROVE ForkInv'
  BY <1>8 DEF ThreadInit, Step
<1>9. ASSUME NEW t \in Threads, ThreadInitFails(t) PROVE ForkInv'
  BY <1>9 DEF ThreadInitFails, Step, StateCleanup, PartialStates
<1>10. ASSUME NEW t \in Threads, StoreError(t) PROVE ForkInv'
  BY <1>10 DEF StoreError, Step
<1>11. ASSUME NEW t \in Threads, NextIteration(t) PROVE ForkInv'
  BY <1>11 DEF NextIteration, Step
<1>12. ASSUME NEW t \in Threads, ReadRound(t) PROVE ForkInv'
  BY <1>12 DEF ReadRound, RecordAt, Step
<1>13. ASSUME NEW t \in Threads, ReadRoundFails(t) PROVE ForkInv'
  BY <1>13 DEF ReadRoundFails, Step
<1>14. ASSUME NEW t \in Threads, CheckRound(t) PROVE ForkInv'
  BY <1>14 DEF CheckRound, Step
<1>15. ASSUME NEW t \in Threads, CheckRoundFails(t) PROVE ForkInv'
  BY <1>15 DEF CheckRoundFails, Step
<1>16. ASSUME NEW t \in Threads, ReachBarrier(t) PROVE ForkInv'
  BY <1>16 DEF ReachBarrier, Step
<1>17. ASSUME NEW t \in Threads, ThreadCleanup(t) PROVE ForkInv'
  BY <1>17 DEF ThreadCleanup, Step, StateCleanup
<1>18. CASE Abort
  BY <1>18 DEF Abort, callVars, teamVars
<1>19. CASE UNCHANGED vars
  BY <1>19 DEF vars, callVars, teamVars
<1> QED
  BY <1>1, <1>2, <1>3, <1>4, <1>5, <1>6, <1>7, <1>8, <1>9, <1>10,
     <1>11, <1>12, <1>13, <1>14, <1>15, <1>16, <1>17, <1>18, <1>19
     DEF Next, CallerStep, ThreadStep, Stopped

\* A thread at work has its complete state and the record it has just read.
LEMMA TeamStep ==
  ASSUME TypeOK, CallInv, ForkInv, TeamInv, [Next]_vars
  PROVE  TeamInv'
<1> USE DEF TypeOK, CallInv, ForkInv, TeamInv
<1>1. CASE TestRandomness
  BY <1>1 DEF TestRandomness, callVars, teamVars
<1>2. CASE CheckArguments
  BY <1>2 DEF CheckArguments, callVars, teamVars
<1>3. CASE OpenProofFile
  BY <1>3 DEF OpenProofFile, callVars, teamVars
<1>4. CASE ReadCommitment
  BY <1>4 DEF ReadCommitment, callVars, teamVars
<1>5. CASE SetupContext
  BY <1>5 DEF SetupContext, callVars, teamVars
<1>6. CASE Join
  BY <1>6 DEF Join, Release, Verdict, callVars, teamVars
<1>7. CASE FailLabel
  BY <1>7 DEF FailLabel, Release, callVars, teamVars
<1>8. ASSUME NEW t \in Threads, ThreadInit(t) PROVE TeamInv'
  BY <1>8 DEF ThreadInit, Step
<1>9. ASSUME NEW t \in Threads, ThreadInitFails(t) PROVE TeamInv'
  BY <1>9 DEF ThreadInitFails, Step, StateCleanup, PartialStates
<1>10. ASSUME NEW t \in Threads, StoreError(t) PROVE TeamInv'
  BY <1>10 DEF StoreError, Step
<1>11. ASSUME NEW t \in Threads, NextIteration(t) PROVE TeamInv'
  BY <1>11 DEF NextIteration, Step
<1>12. ASSUME NEW t \in Threads, ReadRound(t) PROVE TeamInv'
  BY <1>12 DEF ReadRound, RecordAt, Step
<1>13. ASSUME NEW t \in Threads, ReadRoundFails(t) PROVE TeamInv'
  BY <1>13 DEF ReadRoundFails, Step
<1>14. ASSUME NEW t \in Threads, CheckRound(t) PROVE TeamInv'
  BY <1>14 DEF CheckRound, Step
<1>15. ASSUME NEW t \in Threads, CheckRoundFails(t) PROVE TeamInv'
  BY <1>15 DEF CheckRoundFails, Step
<1>16. ASSUME NEW t \in Threads, ReachBarrier(t) PROVE TeamInv'
  BY <1>16 DEF ReachBarrier, Step
<1>17. ASSUME NEW t \in Threads, ThreadCleanup(t) PROVE TeamInv'
  BY <1>17 DEF ThreadCleanup, Step, StateCleanup
<1>18. CASE Abort
  BY <1>18 DEF Abort, callVars, teamVars
<1>19. CASE UNCHANGED vars
  BY <1>19 DEF vars, callVars, teamVars
<1> QED
  BY <1>1, <1>2, <1>3, <1>4, <1>5, <1>6, <1>7, <1>8, <1>9, <1>10,
     <1>11, <1>12, <1>13, <1>14, <1>15, <1>16, <1>17, <1>18, <1>19
     DEF Next, CallerStep, ThreadStep, Stopped

\* Releasing a thread's state keeps pointers and heap in step, and frees only
\* what is owned.
LEMMA CleanupHeap ==
  ASSUME TypeOK, HeapInv, NoBadFree, NEW t \in Threads, NEW got,
         got \subseteq ThreadPtrs, StateCleanup(t, got, heap \cup ({t} \X got)),
         ptr[t] = {} \/ got = ptr[t], UNCHANGED held
  PROVE  HeapInv' /\ NoBadFree'
<1>1. ASSUME NEW u \in Threads, NEW p \in ThreadPtrs
      PROVE  <<u, p>> \in heap' <=> p \in ptr'[u]
  BY DEF TypeOK, HeapInv, StateCleanup
<1>2. ASSUME NEW p \in CallPtrs
      PROVE  <<"call", p>> \in heap' <=> <<"call", p>> \in heap
  BY ThreadsAssumption DEF StateCleanup
<1>3. NoBadFree'
  BY DEF NoBadFree, StateCleanup
<1> QED
  BY <1>1, <1>2, <1>3 DEF HeapInv

\* Closing the file and freeing base_ctx frees what the call holds, once.
LEMMA ReleaseHeap ==
  ASSUME TypeOK, HeapInv, NoBadFree, Release
  PROVE  HeapInv' /\ NoBadFree'
<1>1. ASSUME NEW t \in Threads, NEW p \in ThreadPtrs
      PROVE  <<t, p>> \in heap' <=> p \in ptr'[t]
  BY ThreadsAssumption DEF HeapInv, Release, teamVars
<1>2. ASSUME NEW p \in CallPtrs PROVE <<"call", p>> \in heap' <=> p \in held'
  BY DEF HeapInv, Release
<1>3. {"call"} \X held \subseteq heap
  BY DEF TypeOK, HeapInv
<1> QED
  BY <1>1, <1>2, <1>3 DEF HeapInv, NoBadFree, Release

\* A pointer stays non-NULL exactly while it owns an allocation.
LEMMA HeapStep ==
  ASSUME TypeOK, CallInv, TeamInv, HeapInv, NoBadFree, [Next]_vars
  PROVE  HeapInv' /\ NoBadFree'
<1>1. CASE OpenProofFile
  BY <1>1, ThreadsAssumption
     DEF OpenProofFile, HeapInv, NoBadFree, CallPtrs, teamVars
<1>2. CASE SetupContext
  BY <1>2, ThreadsAssumption DEF SetupContext, HeapInv, NoBadFree, CallPtrs
<1>3. CASE Join \/ FailLabel
  BY <1>3, ReleaseHeap DEF Join, FailLabel
<1>4. ASSUME NEW t \in Threads, ThreadInit(t) PROVE HeapInv' /\ NoBadFree'
  BY <1>4, ThreadsAssumption DEF ThreadInit, Step, TypeOK, HeapInv, NoBadFree
<1>5. ASSUME NEW t \in Threads, ThreadInitFails(t) PROVE HeapInv' /\ NoBadFree'
  <2>1. PICK got \in PartialStates : StateCleanup(t, got, heap \cup ({t} \X got))
    BY <1>5 DEF ThreadInitFails
  <2>2. got \subseteq ThreadPtrs
    BY <2>1 DEF PartialStates, ThreadPtrs
  <2>3. ptr[t] = {} /\ UNCHANGED held
    BY <1>5 DEF ThreadInitFails, Step, TeamInv
  <2> QED
    BY <2>1, <2>2, <2>3, CleanupHeap
<1>6. ASSUME NEW t \in Threads, ThreadCleanup(t) PROVE HeapInv' /\ NoBadFree'
  <2>1. UNCHANGED held /\ StateCleanup(t, ptr[t], heap)
    BY <1>6 DEF ThreadCleanup, Step
  <2>2. ptr[t] \subseteq ThreadPtrs
    BY DEF TypeOK
  <2>3. heap \cup ({t} \X ptr[t]) = heap
    BY <2>2 DEF HeapInv
  <2> QED
    BY <2>1, <2>2, <2>3, CleanupHeap
<1>7. CASE TestRandomness \/ CheckArguments \/ ReadCommitment \/ Abort
           \/ UNCHANGED vars
  BY <1>7 DEF TestRandomness, CheckArguments, ReadCommitment, Abort, HeapInv,
              NoBadFree, callVars, teamVars, vars
<1>8. ASSUME NEW t \in Threads,
             \/ StoreError(t) \/ NextIteration(t) \/ ReadRound(t)
             \/ ReadRoundFails(t) \/ CheckRound(t) \/ CheckRoundFails(t)
             \/ ReachBarrier(t)
      PROVE  HeapInv' /\ NoBadFree'
  BY <1>8 DEF StoreError, NextIteration, ReadRound, ReadRoundFails, CheckRound,
              CheckRoundFails, ReachBarrier, Step, HeapInv, NoBadFree
<1> QED
  BY <1>1, <1>2, <1>3, <1>4, <1>5, <1>6, <1>7, <1>8
     DEF Next, CallerStep, ThreadStep, Stopped

\* No failure is lost between the thread that meets it and the verdict.
LEMMA VerdictStep ==
  ASSUME TypeOK, CallInv, ForkInv, TeamInv, RecordInv, ReadInv, VerdictInv, [Next]_vars
  PROVE  VerdictInv'
<1> USE DEF TypeOK, CallInv, ForkInv, TeamInv, VerdictInv, VerdictExact, Unfit, Pending
<1>1. CASE TestRandomness
  BY <1>1 DEF TestRandomness, callVars, teamVars
<1>2. CASE CheckArguments
  BY <1>2 DEF CheckArguments, callVars, teamVars
<1>3. CASE OpenProofFile
  BY <1>3 DEF OpenProofFile, callVars, teamVars
<1>4. CASE ReadCommitment
  BY <1>4 DEF ReadCommitment, callVars, teamVars
<1>5. CASE SetupContext
  BY <1>5 DEF SetupContext, callVars, teamVars
<1>6. CASE Join
  <2>1. ASSUME error = 0, NEW k \in Rounds PROVE proof[k] = "valid"
    BY <1>6, <2>1 DEF Join, RecordInv, ReadInv, Accounted
  <2>2. error = 0 => ~faulted
    BY <1>6 DEF Join
  <2> QED
    BY <1>6, <2>1, <2>2 DEF Join, Release, Verdict, teamVars
<1>7. CASE FailLabel
  BY <1>7 DEF FailLabel, Release, callVars, teamVars
<1>8. ASSUME NEW t \in Threads, ThreadInit(t) PROVE VerdictInv'
  BY <1>8 DEF ThreadInit, Step
<1>9. ASSUME NEW t \in Threads, ThreadInitFails(t) PROVE VerdictInv'
  BY <1>9 DEF ThreadInitFails, Step, StateCleanup, PartialStates
<1>10. ASSUME NEW t \in Threads, StoreError(t) PROVE VerdictInv'
  BY <1>10 DEF StoreError, Step
<1>11. ASSUME NEW t \in Threads, NextIteration(t) PROVE VerdictInv'
  BY <1>11 DEF NextIteration, Step
<1>12. ASSUME NEW t \in Threads, ReadRound(t) PROVE VerdictInv'
  BY <1>12 DEF ReadRound, RecordAt, Step
<1>13. ASSUME NEW t \in Threads, ReadRoundFails(t) PROVE VerdictInv'
  BY <1>13 DEF ReadRoundFails, Step
<1>14. ASSUME NEW t \in Threads, CheckRound(t) PROVE VerdictInv'
  BY <1>14 DEF CheckRound, Step
<1>15. ASSUME NEW t \in Threads, CheckRoundFails(t) PROVE VerdictInv'
  <2>1. Unfit'
    BY <1>15 DEF CheckRoundFails, Step, ReadInv
  <2> QED
    BY <1>15, <2>1 DEF CheckRoundFails, Step
<1>16. ASSUME NEW t \in Threads, ReachBarrier(t) PROVE VerdictInv'
  BY <1>16 DEF ReachBarrier, Step
<1>17. ASSUME NEW t \in Threads, ThreadCleanup(t) PROVE VerdictInv'
  BY <1>17 DEF ThreadCleanup, Step, StateCleanup
<1>18. CASE Abort
  BY <1>18 DEF Abort, callVars, teamVars
<1>19. CASE UNCHANGED vars
  BY <1>19 DEF vars, callVars, teamVars
<1> QED
  BY <1>1, <1>2, <1>3, <1>4, <1>5, <1>6, <1>7, <1>8, <1>9, <1>10,
     <1>11, <1>12, <1>13, <1>14, <1>15, <1>16, <1>17, <1>18, <1>19
     DEF Next, CallerStep, ThreadStep, Stopped

\* The file does not change, and what is checked is what was read of it.
LEMMA ReadStep ==
  ASSUME TypeOK, CallInv, ForkInv, TeamInv, ReadInv, [Next]_vars
  PROVE  ReadInv'
<1> USE DEF TypeOK, ForkInv, TeamInv, ReadInv
<1>1. CASE TestRandomness
  BY <1>1 DEF TestRandomness, callVars, teamVars
<1>2. CASE CheckArguments
  BY <1>2 DEF CheckArguments, callVars, teamVars
<1>3. CASE OpenProofFile
  BY <1>3 DEF OpenProofFile, callVars, teamVars
<1>4. CASE ReadCommitment
  BY <1>4 DEF ReadCommitment, callVars, teamVars
<1>5. CASE SetupContext
  BY <1>5 DEF SetupContext, callVars, teamVars
<1>6. CASE Join
  BY <1>6 DEF Join, Release, Verdict, callVars, teamVars
<1>7. CASE FailLabel
  BY <1>7 DEF FailLabel, Release, callVars, teamVars
<1>8. ASSUME NEW t \in Threads, ThreadInit(t) PROVE ReadInv'
  BY <1>8 DEF ThreadInit, Step
<1>9. ASSUME NEW t \in Threads, ThreadInitFails(t) PROVE ReadInv'
  BY <1>9 DEF ThreadInitFails, Step, StateCleanup, PartialStates
<1>10. ASSUME NEW t \in Threads, StoreError(t) PROVE ReadInv'
  BY <1>10 DEF StoreError, Step
<1>11. ASSUME NEW t \in Threads, NextIteration(t) PROVE ReadInv'
  BY <1>11 DEF NextIteration, Step
<1>12. ASSUME NEW t \in Threads, ReadRound(t) PROVE ReadInv'
  BY <1>12 DEF ReadRound, RecordAt, Step
<1>13. ASSUME NEW t \in Threads, ReadRoundFails(t) PROVE ReadInv'
  BY <1>13 DEF ReadRoundFails, Step
<1>14. ASSUME NEW t \in Threads, CheckRound(t) PROVE ReadInv'
  BY <1>14 DEF CheckRound, Step
<1>15. ASSUME NEW t \in Threads, CheckRoundFails(t) PROVE ReadInv'
  BY <1>15 DEF CheckRoundFails, Step
<1>16. ASSUME NEW t \in Threads, ReachBarrier(t) PROVE ReadInv'
  BY <1>16 DEF ReachBarrier, Step
<1>17. ASSUME NEW t \in Threads, ThreadCleanup(t) PROVE ReadInv'
  BY <1>17 DEF ThreadCleanup, Step, StateCleanup
<1>18. CASE Abort
  BY <1>18 DEF Abort, callVars, teamVars
<1>19. CASE UNCHANGED vars
  BY <1>19 DEF vars, callVars, teamVars
<1> QED
  BY <1>1, <1>2, <1>3, <1>4, <1>5, <1>6, <1>7, <1>8, <1>9, <1>10,
     <1>11, <1>12, <1>13, <1>14, <1>15, <1>16, <1>17, <1>18, <1>19
     DEF Next, CallerStep, ThreadStep, Stopped

\* No round is passed over without the flag going up.
LEMMA RecordStep ==
  ASSUME TypeOK, CallInv, ForkInv, TeamInv, RecordInv, [Next]_vars
  PROVE  RecordInv'
<1> USE DEF TypeOK, CallInv, ForkInv, TeamInv, RecordInv, Accounted, Pending
<1>1. CASE TestRandomness
  BY <1>1 DEF TestRandomness, callVars, teamVars
<1>2. CASE CheckArguments
  BY <1>2 DEF CheckArguments, callVars, teamVars
<1>3. CASE OpenProofFile
  BY <1>3 DEF OpenProofFile, callVars, teamVars
<1>4. CASE ReadCommitment
  BY <1>4 DEF ReadCommitment, callVars, teamVars
<1>5. CASE SetupContext
  BY <1>5 DEF SetupContext, callVars, teamVars
<1>6. CASE Join
  <2>1. error = 0 => \A k \in Rounds : k \in checked
    BY <1>6 DEF Join
  <2>2. main' = "returned" /\ UNCHANGED checked
    BY <1>6 DEF Join, Release
  <2>3. ret' = 0 => checked = Rounds
    <3>1. ret' = 0 => error = 0
      BY <1>6 DEF Join, Verdict
    <3>2. checked \subseteq Rounds
      OBVIOUS
    <3> QED BY <2>1, <3>1, <3>2, Zenon
  <2> QED
    BY <2>2, <2>3
<1>7. CASE FailLabel
  BY <1>7 DEF FailLabel, Release, callVars, teamVars
<1>8. ASSUME NEW t \in Threads, ThreadInit(t) PROVE RecordInv'
  BY <1>8 DEF ThreadInit, Step
<1>9. ASSUME NEW t \in Threads, ThreadInitFails(t) PROVE RecordInv'
  BY <1>9 DEF ThreadInitFails, Step, StateCleanup, PartialStates
<1>10. ASSUME NEW t \in Threads, StoreError(t) PROVE RecordInv'
  BY <1>10 DEF StoreError, Step
<1>11. ASSUME NEW t \in Threads, NextIteration(t) PROVE RecordInv'
  BY <1>11 DEF NextIteration, Step
<1>12. ASSUME NEW t \in Threads, ReadRound(t) PROVE RecordInv'
  BY <1>12 DEF ReadRound, RecordAt, Step
<1>13. ASSUME NEW t \in Threads, ReadRoundFails(t) PROVE RecordInv'
  BY <1>13 DEF ReadRoundFails, Step
<1>14. ASSUME NEW t \in Threads, CheckRound(t) PROVE RecordInv'
  <2>1. rec[t].of = round[t]
    BY <1>14 DEF CheckRound, Step
  <2> QED
    BY <1>14, <2>1 DEF CheckRound, Step
<1>15. ASSUME NEW t \in Threads, CheckRoundFails(t) PROVE RecordInv'
  BY <1>15 DEF CheckRoundFails, Step
<1>16. ASSUME NEW t \in Threads, ReachBarrier(t) PROVE RecordInv'
  BY <1>16 DEF ReachBarrier, Step
<1>17. ASSUME NEW t \in Threads, ThreadCleanup(t) PROVE RecordInv'
  BY <1>17 DEF ThreadCleanup, Step, StateCleanup
<1>18. CASE Abort
  BY <1>18 DEF Abort, callVars, teamVars
<1>19. CASE UNCHANGED vars
  BY <1>19 DEF vars, callVars, teamVars
<1> QED
  BY <1>1, <1>2, <1>3, <1>4, <1>5, <1>6, <1>7, <1>8, <1>9, <1>10,
     <1>11, <1>12, <1>13, <1>14, <1>15, <1>16, <1>17, <1>18, <1>19
     DEF Next, CallerStep, ThreadStep, Stopped

\* A round still to be checked has one owner.
LEMMA ClaimStep ==
  ASSUME TypeOK, CallInv, ForkInv, TeamInv, ClaimInv, [Next]_vars
  PROVE  ClaimInv'
<1> USE DEF TypeOK, CallInv, ForkInv, TeamInv, ClaimInv, Claims
<1>1. CASE TestRandomness
  BY <1>1 DEF TestRandomness, callVars, teamVars
<1>2. CASE CheckArguments
  BY <1>2 DEF CheckArguments, callVars, teamVars
<1>3. CASE OpenProofFile
  BY <1>3 DEF OpenProofFile, callVars, teamVars
<1>4. CASE ReadCommitment
  BY <1>4 DEF ReadCommitment, callVars, teamVars
<1>5. CASE SetupContext
  BY <1>5 DEF SetupContext, callVars, teamVars
<1>6. CASE Join
  BY <1>6 DEF Join, Release, Verdict, callVars, teamVars
<1>7. CASE FailLabel
  BY <1>7 DEF FailLabel, Release, callVars, teamVars
<1>8. ASSUME NEW t \in Threads, ThreadInit(t) PROVE ClaimInv'
  BY <1>8 DEF ThreadInit, Step
<1>9. ASSUME NEW t \in Threads, ThreadInitFails(t) PROVE ClaimInv'
  BY <1>9 DEF ThreadInitFails, Step, StateCleanup, PartialStates
<1>10. ASSUME NEW t \in Threads, StoreError(t) PROVE ClaimInv'
  BY <1>10 DEF StoreError, Step
<1>11. ASSUME NEW t \in Threads, NextIteration(t) PROVE ClaimInv'
  BY <1>11 DEF NextIteration, Step
<1>12. ASSUME NEW t \in Threads, ReadRound(t) PROVE ClaimInv'
  BY <1>12 DEF ReadRound, RecordAt, Step
<1>13. ASSUME NEW t \in Threads, ReadRoundFails(t) PROVE ClaimInv'
  BY <1>13 DEF ReadRoundFails, Step
<1>14. ASSUME NEW t \in Threads, CheckRound(t) PROVE ClaimInv'
  <2>1. rec[t].of = round[t]
    BY <1>14 DEF CheckRound, Step
  <2> QED
    BY <1>14, <2>1 DEF CheckRound, Step
<1>15. ASSUME NEW t \in Threads, CheckRoundFails(t) PROVE ClaimInv'
  BY <1>15 DEF CheckRoundFails, Step
<1>16. ASSUME NEW t \in Threads, ReachBarrier(t) PROVE ClaimInv'
  BY <1>16 DEF ReachBarrier, Step
<1>17. ASSUME NEW t \in Threads, ThreadCleanup(t) PROVE ClaimInv'
  BY <1>17 DEF ThreadCleanup, Step, StateCleanup
<1>18. CASE Abort
  BY <1>18 DEF Abort, callVars, teamVars
<1>19. CASE UNCHANGED vars
  BY <1>19 DEF vars, callVars, teamVars
<1> QED
  BY <1>1, <1>2, <1>3, <1>4, <1>5, <1>6, <1>7, <1>8, <1>9, <1>10,
     <1>11, <1>12, <1>13, <1>14, <1>15, <1>16, <1>17, <1>18, <1>19
     DEF Next, CallerStep, ThreadStep, Stopped

\* Every step preserves the whole invariant.
LEMMA IInvStep == IInv /\ [Next]_vars => IInv'
<1> SUFFICES ASSUME IInv, [Next]_vars PROVE IInv'
  OBVIOUS
<1>1. /\ TypeOK /\ CallInv /\ ForkInv /\ HeapInv /\ TeamInv
      /\ RecordInv /\ ReadInv /\ VerdictInv /\ ClaimInv /\ NoBadFree
  BY DEF IInv
<1>2. TypeOK'
  BY <1>1, TypeStep
<1>3. CallInv' /\ ForkInv'
  BY <1>1, CallStep, ForkStep
<1>4. HeapInv' /\ NoBadFree' /\ TeamInv'
  BY <1>1, HeapStep, TeamStep
<1>5. RecordInv' /\ ReadInv' /\ VerdictInv' /\ ClaimInv'
  BY <1>1, RecordStep, ReadStep, VerdictStep, ClaimStep
<1> QED
  BY <1>2, <1>3, <1>4, <1>5 DEF IInv

\* IInv is an invariant of the call.
THEOREM Invariance == Spec => []IInv
<1> QED
  BY InitIInv, IInvStep, PTL DEF Spec

\* The variables keep their types.
THEOREM TypeCorrectness == Spec => []TypeOK
<1>1. IInv => TypeOK
  BY DEF IInv
<1> QED
  BY <1>1, Invariance, PTL

\* The call returns 0 exactly when the arguments are good, every record of the
\* file is valid and nothing failed, for any team, file and schedule.
THEOREM ExactVerdict == Spec => []VerdictExact
<1>1. IInv => VerdictExact
  BY DEF IInv, VerdictInv
<1> QED
  BY <1>1, Invariance, PTL

\* The call never frees a pointer that owns nothing.
THEOREM FreesWhatItOwns == Spec => []NoBadFree
<1>1. IInv => NoBadFree
  BY DEF IInv
<1> QED
  BY <1>1, Invariance, PTL

\* A call that has returned owns nothing.
THEOREM NoLeaks == Spec => []NothingLeaks
<1>1. IInv => NothingLeaks
  <2> SUFFICES ASSUME IInv, main = "returned" PROVE heap = {} /\ held = {}
    BY DEF NothingLeaks
  <2>1. heap \subseteq (Threads \X ThreadPtrs) \cup ({"call"} \X CallPtrs)
    BY DEF IInv, TypeOK
  <2>2. held = {}
    BY DEF IInv, CallInv
  <2>3. \A t \in Threads, p \in ThreadPtrs : <<t, p>> \notin heap
    BY DEF IInv, HeapInv, ForkInv, TeamInv
  <2>4. \A p \in CallPtrs : <<"call", p>> \notin heap
    BY <2>2 DEF IInv, HeapInv
  <2> QED
    BY <2>1, <2>2, <2>3, <2>4
<1> QED
  BY <1>1, Invariance, PTL

\* No thread works without its complete state and the call's resources.
THEOREM ReadyState == Spec => []ReadyStateInUse
<1>1. IInv => ReadyStateInUse
  BY DEF IInv, TypeOK, HeapInv, ForkInv, TeamInv, ReadyStateInUse
<1> QED
  BY <1>1, Invariance, PTL

-----------------------------------------------------------------------------
(* The call implements AllRounds. *)

\* Every step of the call is a step of the abstract specification, or leaves
\* what it speaks of unchanged.
LEMMA RefStep ==
  ASSUME IInv, [Next]_vars
  PROVE  [Abstract!Next]_(Abstract!vars)
<1> DEFINE Verd == IF main # "returned" THEN "pending"
             ELSE IF ret = 0 THEN "ok" ELSE "failed"
<1> USE DEF Abstract!Next, Abstract!vars
<1>0. TypeOK /\ CallInv /\ ForkInv /\ RecordInv /\ ClaimInv /\ TeamInv
  BY DEF IInv
<1>1. CASE Join
  <2>1. checked' = checked /\ Verd = "pending"
    BY <1>1 DEF Join, Release
  <2>2. Verd' = IF error = 0 THEN "ok" ELSE "failed"
    BY <1>0, <1>1 DEF Join, Verdict, TypeOK
  <2>3. CASE error = 0
    <3>1. checked = Rounds
      BY <1>0, <1>1, <2>3 DEF Join, RecordInv, Accounted, TeamInv, TypeOK
    <3> QED BY <2>1, <2>2, <2>3, <3>1 DEF Abstract!Succeed
  <2>4. CASE error # 0
    BY <2>1, <2>2, <2>4 DEF Abstract!Fail
  <2> QED BY <2>3, <2>4
<1>2. CASE FailLabel \/ ((TestRandomness \/ CheckArguments) /\ main' = "returned")
  BY <1>2 DEF FailLabel, Release, TestRandomness, CheckArguments, Abstract!Fail
<1>3. ASSUME NEW t \in Threads, CheckRound(t) PROVE [Abstract!Next]_(Abstract!vars)
  <2>1. round[t] \in Rounds /\ round[t] \notin checked
    BY <1>0, <1>3 DEF TypeOK, CheckRound, Step, ClaimInv, Claims
  <2>2. checked' = checked \cup {round[t]}
    <3>1. rec[t].of = round[t]
      BY <1>0, <1>3 DEF CheckRound, Step, TeamInv
    <3> QED BY <1>3, <3>1 DEF CheckRound
  <2>3. Verd = "pending" /\ Verd' = Verd
    BY <1>3 DEF CheckRound, Step
  <2> QED BY <2>1, <2>2, <2>3 DEF Abstract!Perform
<1>4. CASE \/ (TestRandomness \/ CheckArguments) /\ main' # "returned"
           \/ OpenProofFile \/ ReadCommitment \/ SetupContext \/ Abort
           \/ UNCHANGED vars
  BY <1>4 DEF TestRandomness, CheckArguments, OpenProofFile, ReadCommitment,
     SetupContext, Abort, callVars, vars
<1>5. ASSUME NEW t \in Threads,
             \/ ThreadInit(t) \/ ThreadInitFails(t) \/ StoreError(t)
             \/ NextIteration(t) \/ ReadRound(t) \/ ReadRoundFails(t)
             \/ CheckRoundFails(t) \/ ReachBarrier(t) \/ ThreadCleanup(t)
      PROVE  [Abstract!Next]_(Abstract!vars)
  BY <1>5 DEF ThreadInit, ThreadInitFails, StoreError, NextIteration, ReadRound,
     ReadRoundFails, CheckRoundFails, ReachBarrier, ThreadCleanup, Step
<1> QED
  BY <1>1, <1>2, <1>3, <1>4, <1>5 DEF Next, CallerStep, ThreadStep, Stopped

\* Rounds are checked once each, and 0 is returned after all of them.
THEOREM Implementation == Spec => ImplementsAllRounds
<1>1. Init => Abstract!Init
  BY DEF Init, Abstract!Init
<1>2. IInv /\ [Next]_vars => [Abstract!Next]_(Abstract!vars)
  BY RefStep
<1> QED
  BY <1>1, <1>2, Invariance, PTL DEF Spec, ImplementsAllRounds, Abstract!Spec
==============================================================================
