------------------------------ MODULE MpcRound -------------------------------
(* One repetition of the proof, from the shares to the verdict: the body of   *)
(* the loops of hm_bit_commit and hm_bit_verify (src/src/hm_zk.c), with the   *)
(* MPC evaluation of SHA-256 and of the universal hash on both sides and the  *)
(* challenge drawn by H3.  The prover's record is then checked against the    *)
(* commitment it was made for, or against another one.                        *)
EXTENDS MpcSha256

CONSTANTS
  Inputs,     \* secrets and coins: records [r, m, x0, x1, m0, m1]
  HashA,      \* the one bits of the matrix A
  Junk,       \* what the bits of h.b that nothing initialises may hold
  HashBits,   \* bits of a digest, 256 in the code
  Digests,    \* digests of H3's queries, as sets of one bits
  Rehash      \* SHA-256 of a digest

ASSUME RoundAssumption ==
  /\ \A coins \in Inputs :
       /\ coins.r \subseteq 0 .. LBits - 1
       /\ coins.m \in {0, 1} /\ coins.m0 \in {0, 1} /\ coins.m1 \in {0, 1}
  /\ HashBits \in Nat \ {0} /\ HashBits % 2 = 0
  /\ Digests \subseteq SUBSET (0 .. HashBits - 1)
  /\ Rehash \in [SUBSET (0 .. HashBits - 1) -> SUBSET (0 .. HashBits - 1)]
  /\ Junk \subseteq SUBSET (1 .. 7)

VARIABLES
  pc,         \* where the round is
  role,       \* whose code runs: the prover's or the verifier's
  in,         \* the secrets and coins
  c,          \* the commitment at hand: b and y, the digest
  given,      \* whether the verifier was given the prover's commitment
  x, msg,     \* the shares of the opening and of the message
  views,      \* the prover's views after the evaluation
  m,          \* the machine that evaluates SHA-256
  blk,        \* the block
  a, z,       \* the record: ZkBooCommit and ZkBooOpen
  asked,      \* the prover's query to H3 and its digest
  hash, bitTracker, e,   \* H3's digest, its position, and the challenge
  faulted     \* an allocation of the verifier failed

inputVars == <<in, given>>
shareVars == <<x, msg, views>>
recordVars == <<a, z>>
oracleVars == <<asked, hash, bitTracker, e>>
loopVars  == <<m, blk>>
vars == <<pc, role, inputVars, c, shareVars, loopVars, recordVars, oracleVars, faulted>>

None == <<>>
Rows == 0 .. TapeWords - 1

\* A word that an earlier round left in a view, or that malloc did.
Stale == Unassigned(Prover)

\* rvec_normalize.
Normalize(s) == s \cap 0 .. LBits - 1

\* The bit of b that counts.
LowBit(b) == Cardinality(b \cap {0})

Parity(s) == Cardinality(s) % 2

Init ==
  /\ pc = "hash" /\ role = "prover"
  /\ in \in Inputs /\ given = "own" /\ c = None
  /\ x = None /\ msg = None /\ views = None /\ m = None /\ blk = 0
  /\ a = None /\ z = None
  /\ asked = None /\ hash = {} /\ bitTracker = 0 /\ e = 0
  /\ faulted = FALSE

-----------------------------------------------------------------------------
(* The prover, up to the evaluation.                                         *)

\* mpc_hm_hash_init sets bit 0 of b, which is a local nothing initialises, and
\* hm_zk_write_commitment writes the whole byte with the digest of the opening.
WriteCommitment ==
  /\ pc = "hash" /\ pc' = "share"
  /\ \E junk \in Junk :
       c' = [b |-> junk \cup {i \in {0} : (Parity(HashA \cap in.r) + in.m) % 2 = 1},
             y |-> SHA256(in.r)]
  /\ UNCHANGED <<role, inputVars, shareVars, loopVars, recordVars, oracleVars, faulted>>

ShareSecrets ==
  /\ pc = "share" /\ pc' = "setup"
  /\ LET x0 == Normalize(in.x0)    x1 == Normalize(in.x1) IN
       x' = [j \in Party |-> CASE j = 0 -> x0 [] j = 1 -> x1
                               [] j = 2 -> Normalize(Xor(in.r, Xor(x0, x1)))]
  /\ msg' = [j \in Party |-> CASE j = 0 -> in.m0 [] j = 1 -> in.m1
                               [] j = 2 -> (in.m + in.m0 + in.m1) % 2]
  /\ UNCHANGED <<role, inputVars, c, views, loopVars, recordVars, oracleVars, faulted>>

\* An evaluation before its first block.
Machine(who, keys, openings) ==
  [e |-> who, key |-> keys, rand |-> 0, county |-> 0, views |-> openings, ok |-> TRUE,
   w |-> [j \in 0 .. 63 |-> Unassigned(who)],
   reg |-> [v \in Registers |->
     [j \in Parties(who) |->
       IF v \in Range(H8) THEN hA[CHOOSE q \in 1 .. 8 : H8[q] = v] ELSE {}]]]

\* mpc_sha256_prove: tapes from the three keys; the views are those of the
\* thread's last round.
SetupProver ==
  /\ pc = "setup" /\ role = "prover" /\ pc' = "load"
  /\ m' = Machine(Prover, [j \in Party |-> j], [row \in Rows |-> Stale])
  /\ blk' = 0
  /\ UNCHANGED <<role, inputVars, c, shareVars, recordVars, oracleVars, faulted>>

\* The calloc of a padded share returned NULL, and memcpy writes to it.
Crash ==
  /\ pc = "setup" /\ role = "prover" /\ pc' = "aborted"
  /\ UNCHANGED <<role, inputVars, c, shareVars, loopVars, recordVars, oracleVars, faulted>>
-----------------------------------------------------------------------------
(* SHA-256, on both sides.                                                   *)

Program(prove, check) == IF role = "prover" THEN prove ELSE check

\* The view of an opened party.
OpenedView(j) == IF j = e THEN z.ve ELSE z.ve1

\* Whose shares are padded and hashed.
InputShare(j) == IF role = "prover" THEN x[j] ELSE OpenedView(j).x

\* The evaluation goes on with machine after, or is left at a failed check.
Evaluate(after, next) ==
  /\ m' = after
  /\ pc' = IF after.ok THEN next ELSE "rejected"
  /\ UNCHANGED <<role, inputVars, c, shareVars, recordVars, oracleVars, faulted>>

LoadBlock ==
  /\ pc = "load" /\ blk < NumBlocks
  /\ Evaluate([m EXCEPT !.w = [j \in 0 .. 63 |->
                 IF j < 16 THEN [p \in Parties(m.e) |-> ChunkWord(InputShare(p), blk, j)]
                           ELSE Unassigned(m.e)]], "expand")
  /\ UNCHANGED blk

ExpandWords ==
  /\ pc = "expand"
  /\ Evaluate(Loop(m, Program(ProveExpand, CheckExpand), 16), "compress")
  /\ UNCHANGED blk

CompressBlock ==
  /\ pc = "compress"
  /\ Evaluate(Loop(Run(m, Load, 0), Program(ProveCompress, CheckCompress), 0), "feed")
  /\ UNCHANGED blk

FeedForward ==
  /\ pc = "feed"
  /\ Evaluate(Run(m, Feed, 0), "load")
  /\ blk' = blk + 1

Hashed == pc = "load" /\ blk = NumBlocks
-----------------------------------------------------------------------------
(* The prover: product, views, challenge, opening.                           *)

\* Party j's share of the inner product, and with it of b.
ProductShare(share, bit) == (Parity(HashA \cap Normalize(share)) + bit) % 2

\* The end of mpc_sha256_prove and of mpc_hm_prove.
ProveProduct ==
  /\ Hashed /\ role = "prover" /\ pc' = "views"
  /\ a' = [yp  |-> [j \in 0 .. 1 |-> [q \in 1 .. 8 |-> m.reg[H8[q]][j]]],
           y2p |-> [j \in Party |-> ProductShare(x[j], msg[j])],
           h   |-> None]
  /\ views' = [j \in Party |-> [x |-> x[j], msg |-> msg[j],
                               y |-> [row \in Rows |-> m.views[row][j]]]]
  /\ UNCHANGED <<role, inputVars, c, x, msg, loopVars, z, oracleVars, faulted>>

\* H and HH of a key, a view and a nonce; a party's key and nonce are named by
\* the party.
ViewDigest(key, view, nonce) == <<key, view, nonce>>

HashViews ==
  /\ pc = "views" /\ pc' = "query"
  /\ a' = [a EXCEPT !.h = [j \in Party |-> ViewDigest(j, views[j], j)]]
  /\ m' = None
  /\ UNCHANGED <<role, inputVars, c, shareVars, blk, z, oracleVars, faulted>>

\* Mutant: the verifier's context has b without the bits that do not count.
MutQuery == <<HashA, IF role = "prover" THEN c.b ELSE c.b \cap {0}, c.y>>

\* What has been hashed when H3 finishes ctx: base_ctx holds A and b; the record
\* follows, which nobody writes to after the prover's query.
Query == <<HashA, c.b, c.y>>

\* H3: the digest of the query, the same for the same query.
AskOracle ==
  /\ pc = "query" /\ pc' = "draw"
  /\ \E d \in Digests :
       /\ (role = "verifier" /\ Query = asked.query) => d = asked.digest
       /\ hash' = d
       /\ asked' = IF role = "prover" THEN [query |-> Query, digest |-> d] ELSE asked
  /\ bitTracker' = 0
  /\ UNCHANGED <<role, inputVars, c, shareVars, loopVars, recordVars, e, faulted>>

\* Mutant: the position is not reset.
MutNewHash ==
  /\ pc = "draw" /\ bitTracker >= HashBits
  /\ hash' = Rehash[hash] /\ UNCHANGED bitTracker
  /\ UNCHANGED <<pc, role, inputVars, c, shareVars, loopVars, recordVars, asked, e, faulted>>

NewHash ==
  /\ pc = "draw" /\ bitTracker >= HashBits
  /\ hash' = Rehash[hash] /\ bitTracker' = 0
  /\ UNCHANGED <<pc, role, inputVars, c, shareVars, loopVars, recordVars, asked, e, faulted>>

\* Mutant: two set bits are taken for a challenge.
MutDrawPair ==
  /\ pc = "draw" /\ bitTracker < HashBits
  /\ e' = (IF bitTracker \in hash THEN 2 ELSE 0) + (IF bitTracker + 1 \in hash THEN 1 ELSE 0)
  /\ pc' = Program("open", "check")
  /\ bitTracker' = bitTracker + 2
  /\ UNCHANGED <<role, inputVars, c, shareVars, loopVars, recordVars, asked, hash, faulted>>

\* Two bits: 0, 1 or 2 by b1 and b2, or another draw.
DrawPair ==
  /\ pc = "draw" /\ bitTracker < HashBits
  /\ LET b1 == bitTracker \in hash    b2 == bitTracker + 1 \in hash IN
       IF b1 /\ b2 THEN UNCHANGED <<pc, e>>
       ELSE /\ e' = IF b1 THEN 2 ELSE IF b2 THEN 1 ELSE 0
            /\ pc' = Program("open", "check")
  /\ bitTracker' = bitTracker + 2
  /\ UNCHANGED <<role, inputVars, c, shareVars, loopVars, recordVars, asked, hash, faulted>>

Open ==
  /\ pc = "open" /\ pc' = "written"
  /\ z' = [ke |-> e, ke1 |-> Next3(e), ve |-> views[e], ve1 |-> views[Next3(e)],
           re |-> e, re1 |-> Next3(e)]
  /\ UNCHANGED <<role, inputVars, c, shareVars, loopVars, a, oracleVars, faulted>>
-----------------------------------------------------------------------------
(* The verifier.                                                             *)

\* The round is read from the proof file, and the commitment may be the prover's,
\* or one to the other bit, or one with another digest.
ReadRound ==
  /\ pc = "written" /\ pc' = "query" /\ role' = "verifier"
  /\ \E which \in {"own", "bit", "digest"} :
       /\ given' = which
       /\ c' = CASE which = "own"    -> c
                 [] which = "bit"    -> [c EXCEPT !.b = Xor(@, {0})]
                 [] which = "digest" -> [c EXCEPT !.y[1] = Xor(@, {0})]
  /\ views' = None
  /\ UNCHANGED <<in, x, msg, loopVars, recordVars, oracleVars, faulted>>

\* reconstruct_sha256_output_shares: the third share comes from the digest.
OutputShare(j, q) ==
  IF j = 2 THEN Xor(c.y[q], Xor(a.yp[0][q], a.yp[1][q])) ELSE a.yp[j][q]

Goto(ok, next) == pc' = IF ok THEN next ELSE "rejected"

VerifyCommit ==
  /\ pc = "check"
  /\ Goto(/\ a.h[e] = ViewDigest(z.ke, z.ve, z.re)
          /\ a.h[Next3(e)] = ViewDigest(z.ke1, z.ve1, z.re1), "setup")
  /\ UNCHANGED <<role, inputVars, c, shareVars, loopVars, recordVars, oracleVars, faulted>>

\* mpc_sha256_verify: the tapes of the two opened keys, and padded shares.
SetupVerifier ==
  /\ pc = "setup" /\ role = "verifier" /\ pc' = "load"
  /\ m' = Machine(e, [j \in Parties(e) |-> IF j = e THEN z.ke ELSE z.ke1],
                  [row \in Rows |-> [j \in Parties(e) |-> OpenedView(j).y[row]]])
  /\ blk' = 0
  /\ UNCHANGED <<role, inputVars, c, shareVars, recordVars, oracleVars, faulted>>

SetupVerifierFails ==
  /\ pc = "setup" /\ role = "verifier" /\ pc' = "rejected" /\ faulted' = TRUE
  /\ UNCHANGED <<role, inputVars, c, shareVars, loopVars, recordVars, oracleVars>>

CompareOutput ==
  /\ Hashed /\ role = "verifier"
  /\ Goto(\A j \in Parties(e), q \in 1 .. 8 : m.reg[H8[q]][j] = OutputShare(j, q),
          "product")
  /\ UNCHANGED <<role, inputVars, c, shareVars, loopVars, recordVars, oracleVars, faulted>>

\* mpc_inner_prod_verify.
VerifyProduct ==
  /\ pc = "product"
  /\ LET rec == [j \in Parties(e) |-> ProductShare(OpenedView(j).x, OpenedView(j).msg)]
         third == Next3(Next3(e))
     IN Goto(/\ \A j \in Parties(e) : a.y2p[j] = rec[j]
             /\ (rec[e] + rec[Next3(e)] + a.y2p[third]) % 2 = LowBit(c.b), "accepted")
  /\ UNCHANGED <<role, inputVars, c, shareVars, loopVars, recordVars, oracleVars, faulted>>

Finished == pc \in {"accepted", "rejected", "aborted"} /\ UNCHANGED vars

Step ==
  \/ WriteCommitment \/ ShareSecrets \/ SetupProver \/ Crash
  \/ LoadBlock \/ ExpandWords \/ CompressBlock \/ FeedForward
  \/ ProveProduct \/ HashViews \/ AskOracle \/ NewHash \/ DrawPair \/ Open
  \/ ReadRound \/ VerifyCommit \/ SetupVerifier \/ SetupVerifierFails
  \/ CompareOutput \/ VerifyProduct

Next == Step \/ Finished

Spec     == Init /\ [][Next]_vars
FairSpec == Spec /\ WF_vars(NewHash \/ DrawPair)
-----------------------------------------------------------------------------

\* The machine without its tables: a view word is a word, or Stale.
MachineOK ==
  /\ m.e \in {Prover} \cup Party /\ m.ok \in BOOLEAN
  /\ m.rand \in 0 .. TapeWords /\ m.county \in 0 .. TapeWords
  /\ DOMAIN m.w = 0 .. 63 /\ DOMAIN m.reg = Registers

TypeOK ==
  /\ pc \in {"hash", "share", "setup", "load", "expand", "compress", "feed", "views",
            "query", "draw", "open", "written", "check", "product", "accepted", "rejected",
            "aborted"}
  /\ role \in {"prover", "verifier"} /\ given \in {"own", "bit", "digest"}
  /\ in \in Inputs
  /\ m # None => MachineOK
  /\ blk \in 0 .. NumBlocks
  /\ hash \in SUBSET (0 .. HashBits - 1) /\ bitTracker \in 0 .. HashBits
  /\ e \in Party /\ faulted \in BOOLEAN

\* What the prover commits to is shared, never held: the three output shares of
\* the evaluation, two of which enter the record, reconstruct SHA-256 of the
\* opening in the commitment, and the three product shares its bit b, although
\* every round, gate and padding was done share by share.
SharesReconstruct ==
  pc = "views" =>
    /\ \A q \in 1 .. 8 :
         /\ Recon([j \in Party |-> m.reg[H8[q]][j]]) = c.y[q]
         /\ OutputShare(2, q) = m.reg[H8[q]][2]
    /\ (a.y2p[0] + a.y2p[1] + a.y2p[2]) % 2 = LowBit(c.b)

\* A block takes the 728 words that RAND_BYTES and ySize reserve for it, on both
\* sides, and no view is hashed with a word that this round has not written.
BudgetExact ==
  /\ pc = "load" => m.rand = 728 * blk /\ m.county = 728 * blk
  /\ pc \in {"views", "product"} => m.rand = TapeWords
  /\ pc = "views" => \A row \in Rows : m.views[row] # Stale

\* A round is accepted exactly when it was made for the commitment it is checked
\* against, whatever the challenge, tapes and uninitialised bits; for another
\* digest only when the challenge opens parties 0 and 1, whose output shares are
\* those in the record.  The verifier's failed allocation refuses.
RoundExact ==
  /\ pc = "accepted" => given = "own" \/ (given = "digest" /\ e = 0)
  /\ pc = "rejected" =>
       faulted \/ given = "bit" \/ (given = "digest" /\ (e # 0 \/ e # z.ke))

\* H3 comes to a challenge for every digest, also when the first hash runs out of
\* pairs, provided that not all later hashes consist of pairs of ones.
OracleAnswers == pc = "draw" ~> pc \in {"open", "check"}
==============================================================================
