---------------------------- MODULE ProofExchange ----------------------------
(* Committing and verifying meet in the proof file (src/src/hm_zk.c): calls  *)
(* of hm_bit_commit write to one path, one after the other, and any of them  *)
(* may die with its process between two of its steps; a verifier that was    *)
(* handed the commitment of a call that returned reads the file, possibly    *)
(* while a later call already writes it.  There is no lock: what keeps the   *)
(* two apart is that fopen truncates, that a record is written once, and     *)
(* that a record is valid for the commitment of its own call only.           *)
EXTENDS HmBitCommit

CONSTANTS
  Checkers,     \* the OpenMP team of hm_bit_verify
  MaxCalls      \* bound: calls of hm_bit_commit

ASSUME CheckersAssumption == Checkers # {} /\ "call" \notin Checkers
ASSUME MaxCallsAssumption == MaxCalls \in Nat \ {0}

VARIABLES
  call,       \* the current call of hm_bit_commit, counted from 1
  writer,     \* the call that wrote the record in each slot
  handed,     \* the calls whose commitment the caller has been left with
  complete,   \* history: the calls whose records were all in the file at once
  subject,    \* the call whose commitment is being verified, 0 before
  settled,    \* history: the verifier began after that call had returned 0
  vmain, vret, varg, vheld, vpc, vtodo, vround, vrec, vchal, vptr, verror,
  vheap, vbadFree, vchecked, vfaulted

exchangeVars == <<call, writer, handed, complete>>
verifyVars == <<vmain, vret, varg, vheld, vpc, vtodo, vround, vrec, vchal, vptr,
                verror, vheap, vbadFree, vchecked, vfaulted>>

\* The file as the verifier finds it: what it reads of a slot that was written
\* whole depends on whose record it is; behind the last whole slot the file
\* ends, at the latest after a part of a record; holes before it read as zeros.
Whole(k) == slots[k] \in Rounds \cup {Stale}
FileOf(s) ==
  [k \in Rounds |->
     IF Whole(k) THEN IF writer[k] = s THEN "valid" ELSE "invalid"
     ELSE IF \E j \in Rounds : j > k /\ slots[j] # Empty THEN "invalid"
     ELSE "missing"]

Verify == INSTANCE HmBitVerify WITH
  Threads <- Checkers, proof <- FileOf(subject),
  main <- vmain, ret <- vret, arg <- varg, held <- vheld, pc <- vpc,
  todo <- vtodo, round <- vround, rec <- vrec, chal <- vchal, ptr <- vptr,
  error <- verror, heap <- vheap, badFree <- vbadFree, checked <- vchecked,
  faulted <- vfaulted

\* The first call finds no file, and the verifier is given a well-formed
\* commitment and a path.
ExchangeInit ==
  /\ call = 1 /\ handed = {} /\ complete = {}
  /\ subject = 0 /\ settled = FALSE
  /\ writer = [k \in Rounds |-> 0]
  /\ Init /\ slots = [k \in Rounds |-> Empty]
  /\ varg = "ok" /\ Verify!Init

\* One step of the current call of hm_bit_commit, seen with what it writes.
CommitStep ==
  /\ CallerStep \/ \E t \in Threads : ThreadStep(t)
  /\ writer' = [k \in Rounds |->
                  IF slots'[k] \in Rounds THEN call
                  ELSE IF slots'[k] = Stale THEN writer[k] ELSE 0]
  /\ complete' = IF \A k \in Rounds : slots'[k] = k THEN complete \cup {call}
                 ELSE complete
  /\ handed' = IF main' = "returned" /\ out'["commitment"] = "live"
                 THEN handed \cup {call} ELSE handed
  /\ UNCHANGED <<call, subject, settled, verifyVars>>

\* The process dies, on its own or in handleErrors: its memory and the
\* commitment are gone, what pwrite has written stays.
Die ==
  /\ main \notin {"returned", "aborted"}
  /\ main' = "aborted"
  /\ UNCHANGED <<callVars, teamVars, heap, badFree, faulted, entropyLost,
                 exchangeVars, subject, settled, verifyVars>>

\* The next call for the same path, in this process or in a new one.
CommitAgain ==
  /\ main \in {"returned", "aborted"} /\ call < MaxCalls
  /\ call' = call + 1
  /\ main' = "start" /\ ret' = Pending
  /\ out' \in [Buffers -> CallerBuffers]
  /\ held' = {} /\ heap' = {} /\ error' = 0
  /\ slots' = [k \in Rounds |-> IF Whole(k) THEN Stale ELSE slots[k]]
  /\ pc' = [t \in Threads |-> "init"]
  /\ todo' = [t \in Threads |-> {}]
  /\ round' = [t \in Threads |-> 0]
  /\ buf' = [t \in Threads |-> Empty]
  /\ ptr' = [t \in Threads |-> {}]
  /\ badFree' = FALSE /\ faulted' = FALSE /\ entropyLost' = FALSE
  /\ UNCHANGED <<writer, handed, complete, subject, settled, verifyVars>>

\* hm_bit_verify is called with the commitment of a call that returned: the
\* last one, or an earlier one whose proof may be gone.
CallVerify ==
  /\ subject = 0
  /\ \E s \in handed :
       /\ subject' = s
       /\ settled' = (s = call /\ main = "returned" /\ ret = 0)
  /\ UNCHANGED <<vars, exchangeVars, verifyVars>>

VerifyStep ==
  /\ subject # 0
  /\ UNCHANGED <<vars, exchangeVars, subject, settled>>
  /\ Verify!CallerStep \/ (\E t \in Checkers : Verify!ThreadStep(t)) \/ Verify!Abort

Rest ==
  /\ main \in {"returned", "aborted"} /\ call = MaxCalls
  /\ vmain \in {"returned", "aborted"} \/ handed = {}
  /\ UNCHANGED <<vars, exchangeVars, subject, settled, verifyVars>>

ExchangeNext ==
  CommitStep \/ Die \/ CommitAgain \/ CallVerify \/ VerifyStep \/ Rest

exchangeState == <<vars, exchangeVars, subject, settled, verifyVars>>

ExchangeSpec == ExchangeInit /\ [][ExchangeNext]_exchangeState

-----------------------------------------------------------------------------
(* Properties *)

\* hm_bit_verify returns 0 only for a call all of whose records have stood in
\* the file together: not for a call that died or failed between two rounds,
\* and not by reading some rounds of one proof and some of the next while the
\* file is truncated and written again (hm_zk.c:77,128,211).
AcceptedWasComplete == vret = 0 => subject \in complete

\* A proof whose call returned 0 is accepted: unless the verifier itself fails,
\* or a later call has begun on the file, the answer to the commitment handed
\* over is 0, whatever dead and failed calls left at this path before.
HonestExchangeAccepted ==
  vmain = "returned" /\ settled /\ subject = call /\ ~vfaulted => vret = 0

-----------------------------------------------------------------------------
(* The inductive invariant behind these properties, part by part; HmBitCommit's *)
(* own IInv is its first part.                                                  *)

\* Calls are numbered, and the commitment of a call is not handed over, let
\* alone verified, before the call has returned.
CallsInv ==
  /\ call \in Nat \ {0} /\ writer \in [Rounds -> 0 .. call]
  /\ handed \subseteq 1 .. call /\ subject \in 0 .. call /\ settled \in BOOLEAN
  /\ subject # 0 => subject \in handed
  /\ main # "returned" => call \notin handed

\* Who wrote what stands in the file.
WriterInv ==
  /\ \A k \in Rounds : slots[k] \in Rounds => slots[k] = k /\ writer[k] = call
  /\ \A s \in 0 .. call :
       (\A k \in Rounds : Whole(k) /\ writer[k] = s) => s \in complete

\* The verifier's team: 0 is returned only when every round has been checked.
CheckersTyped == Verify!TypeOK

CheckersReady ==
  \A t \in Checkers :
    /\ vmain \notin {"region", "returned", "aborted"} => vpc[t] = "init"
    /\ vpc[t] \in {"barrier", "done"} => vtodo[t] = {}
    /\ vpc[t] = "check" => vrec[t].of = vround[t] /\ vchal[t] = "base"

CheckersDone ==
  /\ vmain = "region" /\ verror = 0 => \A k \in Rounds : Verify!Accounted(k)
  /\ vret = 0 => vchecked = Rounds

\* The records that have been read and found, or will be found, valid.
Good(k) == Whole(k) /\ writer[k] = subject
Seen == vchecked \cup
        {k \in Rounds : \E t \in Checkers : /\ vpc[t] = "check" /\ vround[t] = k
                                            /\ vrec[t].as = "valid"}

\* What has been seen stood in the file; if it is gone, it was complete, or it
\* is not enough and there is no more of it.
SeenInv ==
  \/ subject \in complete
  \/ \A k \in Seen : Good(k)
  \/ subject < call /\ Seen # Rounds /\ \A k \in Rounds : ~Good(k)

\* Before the verifier is called, its variables are the initial ones.
IdleInv ==
  subject = 0 =>
    /\ vmain = "start" /\ vret = Pending /\ varg = "ok" /\ verror = 0
    /\ vchecked = {} /\ ~vfaulted
    /\ \A t \in Checkers : vpc[t] = "init"

\* As long as the verified call is the last one and returned 0, the file is
\* complete and only a failure of the verifier itself makes it refuse.
HonestSoFar ==
  /\ main = "returned" /\ ret = 0 /\ varg = "ok"
  /\ verror = 1 => vfaulted
  /\ vmain = "fail" => vfaulted
  /\ \A t \in Checkers :
       /\ vpc[t] \in {"initfail", "report"} => vfaulted
       /\ vpc[t] = "check" => vrec[t].as = "valid"
  /\ vmain = "returned" /\ ~vfaulted => vret = 0

HonestInv == settled /\ subject = call => HonestSoFar

ExchangeInv ==
  /\ IInv /\ CallsInv /\ WriterInv
  /\ CheckersTyped /\ CheckersReady /\ CheckersDone
  /\ SeenInv /\ IdleInv /\ HonestInv
==============================================================================
