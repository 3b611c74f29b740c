------------------------------ MODULE AllRounds ------------------------------
(* What hm_bit_commit and hm_bit_verify promise, with the threads, the heap  *)
(* and the file abstracted away: a call performs the rounds of the proof     *)
(* system (NUM_ROUNDS repetitions) in any order, each at most once, and      *)
(* reports success only when all of them have been performed.                *)

CONSTANT Rounds

VARIABLES
  done,      \* the rounds performed: recorded in the file, or checked
  verdict    \* what the caller has been told

vars == <<done, verdict>>

TypeOK == done \subseteq Rounds /\ verdict \in {"pending", "ok", "failed"}

Init == done = {} /\ verdict = "pending"

Perform(k) ==
  /\ verdict = "pending"
  /\ k \notin done
  /\ done' = done \cup {k}
  /\ UNCHANGED verdict

Succeed ==
  /\ verdict = "pending"
  /\ done = Rounds
  /\ verdict' = "ok"
  /\ UNCHANGED done

Fail ==
  /\ verdict = "pending"
  /\ verdict' = "failed"
  /\ UNCHANGED done

Next == (\E k \in Rounds : Perform(k)) \/ Succeed \/ Fail

Spec == Init /\ [][Next]_vars
==============================================================================
