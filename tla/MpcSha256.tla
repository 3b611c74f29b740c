----------------------------- MODULE MpcSha256 -------------------------------
(* SHA-256 of a shared input: the straight-line programs of the prover        *)
(* (src/src/mpc_sha256_prover.c) and of the verifier (mpc_sha256_verifier.c)  *)
(* as tables of calls, and what one call does to the arrays, the tape, the    *)
(* views and the two counters.  The arrays are named as in the source: H0 to  *)
(* H7 are H[0] to H[7], and w-7 is w[j - 7] in an iteration of the schedule.  *)
EXTENDS MpcGates, Sequences, SequencesExt, TLC

CONSTANTS
  LBits,      \* L_BITS: bits of the opening
  Tape        \* Tape[key][n]: word n of the keystream of a key

\* shared.h: how many bytes, blocks and tape words the opening takes.
LBytes    == (LBits + 7) \div 8
NumBlocks == (8 * LBytes + 1 + 64 + 511) \div 512
TapeWords == (2912 * NumBlocks) \div 4

ASSUME Sha256Assumption ==
  /\ Width = 32 /\ LBits \in Nat
  /\ Tape \in [Party -> [0 .. TapeWords - 1 -> Word]]

\* The word with the given upper and lower half.
Halves(p) == {b \in Bit : (p[2 - (b \div 16)] \div 2 ^ (b % 16)) % 2 = 1}

hHalves == <<
  <<\h6a09, \he667>>, <<\hbb67, \hae85>>, <<\h3c6e, \hf372>>, <<\ha54f, \hf53a>>,
  <<\h510e, \h527f>>, <<\h9b05, \h688c>>, <<\h1f83, \hd9ab>>, <<\h5be0, \hcd19>>>>

hA == [n \in 1 .. 8 |-> Halves(hHalves[n])]

kHalves == <<
  <<\h428a, \h2f98>>, <<\h7137, \h4491>>, <<\hb5c0, \hfbcf>>, <<\he9b5, \hdba5>>,
  <<\h3956, \hc25b>>, <<\h59f1, \h11f1>>, <<\h923f, \h82a4>>, <<\hab1c, \h5ed5>>,
  <<\hd807, \haa98>>, <<\h1283, \h5b01>>, <<\h2431, \h85be>>, <<\h550c, \h7dc3>>,
  <<\h72be, \h5d74>>, <<\h80de, \hb1fe>>, <<\h9bdc, \h06a7>>, <<\hc19b, \hf174>>,
  <<\he49b, \h69c1>>, <<\hefbe, \h4786>>, <<\h0fc1, \h9dc6>>, <<\h240c, \ha1cc>>,
  <<\h2de9, \h2c6f>>, <<\h4a74, \h84aa>>, <<\h5cb0, \ha9dc>>, <<\h76f9, \h88da>>,
  <<\h983e, \h5152>>, <<\ha831, \hc66d>>, <<\hb003, \h27c8>>, <<\hbf59, \h7fc7>>,
  <<\hc6e0, \h0bf3>>, <<\hd5a7, \h9147>>, <<\h06ca, \h6351>>, <<\h1429, \h2967>>,
  <<\h27b7, \h0a85>>, <<\h2e1b, \h2138>>, <<\h4d2c, \h6dfc>>, <<\h5338, \h0d13>>,
  <<\h650a, \h7354>>, <<\h766a, \h0abb>>, <<\h81c2, \hc92e>>, <<\h9272, \h2c85>>,
  <<\ha2bf, \he8a1>>, <<\ha81a, \h664b>>, <<\hc24b, \h8b70>>, <<\hc76c, \h51a3>>,
  <<\hd192, \he819>>, <<\hd699, \h0624>>, <<\hf40e, \h3585>>, <<\h106a, \ha070>>,
  <<\h19a4, \hc116>>, <<\h1e37, \h6c08>>, <<\h2748, \h774c>>, <<\h34b0, \hbcb5>>,
  <<\h391c, \h0cb3>>, <<\h4ed8, \haa4a>>, <<\h5b9c, \hca4f>>, <<\h682e, \h6ff3>>,
  <<\h748f, \h82ee>>, <<\h78a5, \h636f>>, <<\h84c8, \h7814>>, <<\h8cc7, \h0208>>,
  <<\h90be, \hfffa>>, <<\ha450, \h6ceb>>, <<\hbef9, \ha3f7>>, <<\hc671, \h78f2>>>>

k == [n \in 0 .. 63 |-> Halves(kHalves[n + 1])]

Vars8 == <<"a", "b", "c", "d", "e", "f", "g", "h">>
H8    == <<"H0", "H1", "H2", "H3", "H4", "H5", "H6", "H7">>
Back  ==
  [v \in {"w", "w-2", "w-7", "w-15", "w-16"} |->
    CASE v = "w" -> 0 [] v = "w-2" -> 2 [] v = "w-7" -> 7 [] v = "w-15" -> 15
      [] v = "w-16" -> 16]
Registers ==
  Range(Vars8) \cup Range(H8) \cup {"s0", "s1", "t0", "t1", "temp1", "temp2", "maj"}

(***************************************************************************)
(* The tables.                                                             *)
(***************************************************************************)
Call(op, src, dst, n) == [op |-> op, src |-> src, dst |-> dst, n |-> n]

ADD(x, y, z)    == Call("ADD", <<x, y>>, z, 0)
ADDK(x, z)      == Call("ADDK", <<x>>, z, 0)
CH(e, f, g, z)  == Call("CH", <<e, f, g>>, z, 0)
MAJ(a, b, c, z) == Call("MAJ", <<a, b, c>>, z, 0)
XOR(x, y, z)    == Call("XOR", <<x, y>>, z, 0)
ROT(x, n, z)    == Call("ROT", <<x>>, z, n)
SHR(x, n, z)    == Call("SHR", <<x>>, z, n)
COPY(x, z)      == Call("COPY", <<x>>, z, 0)

\* The five lines that xor two rotations and a third word into s, in t0 and t1.
Sigma(x, m, n, third, s) ==
  <<ROT(x, m, "t0"), ROT(x, n, "t1"), XOR("t0", "t1", "t0"), third, XOR("t0", "t1", s)>>

\* One iteration of the message schedule, of the prover and of the verifier.
ProveExpand ==
  Sigma("w-15", 7, 18, SHR("w-15", 3, "t1"), "s0")
    \o Sigma("w-2", 17, 19, SHR("w-2", 10, "t1"), "s1")
    \o <<ADD("w-16", "s0", "t1"), ADD("w-7", "t1", "t1"), ADD("t1", "s1", "w")>>

CheckExpand == ProveExpand

\* Mutant: e is overwritten before it is copied to f.
MutRotation ==
  <<COPY("g", "h"), COPY("f", "g"), ADD("d", "temp1", "e"), COPY("e", "f"),
    COPY("c", "d"), COPY("b", "c"), COPY("a", "b"), ADD("temp1", "temp2", "a")>>

\* The copies down the eight variables, around the addition to e.
Rotation ==
  <<COPY("g", "h"), COPY("f", "g"), COPY("e", "f"), ADD("d", "temp1", "e"),
    COPY("c", "d"), COPY("b", "c"), COPY("a", "b"), ADD("temp1", "temp2", "a")>>

\* One iteration of the compression; addk are the calls that add k[i] to t1.
Compress(addk) ==
  Sigma("e", 6, 11, ROT("e", 25, "t1"), "s1")
    \o <<ADD("h", "s1", "t0"), CH("e", "f", "g", "t1"), ADD("t0", "t1", "t1")>>
    \o addk \o <<ADD("t1", "w", "temp1")>>
    \o Sigma("a", 2, 13, ROT("a", 22, "t1"), "s0")
    \o <<MAJ("a", "b", "c", "maj"), ADD("s0", "maj", "temp2")>> \o Rotation

ProveCompress == Compress(<<ADDK("t1", "t1")>>)

\* The verifier loads the constant into t0.
CheckCompress == Compress(<<Call("K", <<>>, "t0", 0), ADD("t1", "t0", "t1")>>)

Feed == [n \in 1 .. 8 |-> ADD(H8[n], Vars8[n], H8[n])]
Load == [n \in 1 .. 8 |-> COPY(H8[n], Vars8[n])]

(***************************************************************************)
(* What a call does.  A machine is the state of one evaluation: the shares *)
(* of every array for the parties there are, the counters, the views that  *)
(* the prover writes and the verifier reads, and whether all checks passed. *)
(***************************************************************************)
Prover == -1        \* in the place of a challenge: all three parties
Parties(e) == IF e = Prover THEN Party ELSE {e, Next3(e)}

\* What memory holds that nobody has written a word to.
Unassigned(e) == [j \in Parties(e) |-> {Width}]

Read(m, x, i) == IF x \in DOMAIN Back THEN m.w[i - Back[x]] ELSE m.reg[x]

\* The same function; to compare it the model checker makes a table of its values.
Table(f) == IF f = f THEN f ELSE <<>>

\* What is stored is a word.
Write(m, x, v, i) ==
  LET u == Table([j \in DOMAIN v |-> {b \in Bit : b \in v[j]}]) IN
    IF x \in DOMAIN Back THEN [m EXCEPT !.w[i - Back[x]] = u]
                         ELSE [m EXCEPT !.reg[x] = u]

\* getRandom32, for every party of the evaluation.
Draw(m, n) == Table([j \in Parties(m.e) |-> Tape[m.key[j]][n]])

\* The shared carries of x + y; in the list, those up to each position.
Carries(x, y, r) ==
  LET Further(d, n) == [j \in Party |-> IF CarryOut(x, y, d, r, j, n - 1)
                                        THEN d[j] \cup {n} ELSE d[j] \ {n}]
      upto[n \in Bit] ==
        IF n = 0 THEN <<Zero>>
        ELSE LET s == upto[n - 1] IN Append(s, Table(Further(Last(s), n)))
  IN Last(upto[Width - 1])

\* Mutant: a majority draws a word for each of its two factors.
MutProveGate(m, op, x, z, i) ==
  LET r == Draw(m, m.rand)
      f == Factors(op, x[1], x[2], x[3])
      t == IF op = "ADD" THEN Carries(x[1], x[2], r)
                         ELSE [j \in Party |-> AndShare(f[1], f[2], r, j)]
      v == IF op = "ADD" THEN XorShares(XorShares(x[1], x[2]), t)
                         ELSE Result(op, t, x[1], x[3])
  IN [Write(m, z, v, i) EXCEPT !.rand = @ + (IF op = "MAJ" THEN 2 ELSE 1),
                               !.county = @ + 1, !.views[m.county] = t]

\* A gate of the prover: the openings t enter the views.
ProveGate(m, op, x, z, i) ==
  LET r == Draw(m, m.rand)
      f == Factors(op, x[1], x[2], x[3])
      t == IF op = "ADD" THEN Carries(x[1], x[2], r)
                         ELSE [j \in Party |-> AndShare(f[1], f[2], r, j)]
      v == IF op = "ADD" THEN XorShares(XorShares(x[1], x[2]), t)
                         ELSE Result(op, t, x[1], x[3])
  IN [Write(m, z, v, i) EXCEPT !.rand = @ + 1, !.county = @ + 1, !.views[m.county] = t]

\* A gate of the verifier: party e's opening is recomputed, e + 1's believed.
CheckGate(m, op, x, z, i) ==
  LET r == Draw(m, m.rand)
      t == [j \in Parties(m.e) |-> m.views[m.county][j]]
      f == Factors(op, x[1], x[2], x[3])
      v == IF op = "ADD" THEN XorShares(XorShares(x[1], x[2]), t)
                         ELSE Result(op, t, x[1], x[3])
      agrees ==
        IF op = "ADD" THEN \A b \in 0 .. Width - 2 :
                             b + 1 \in t[m.e] <=> CarryOut(x[1], x[2], t, r, m.e, b)
        ELSE \A b \in Bit : b \in t[m.e] <=> b \in AndShare(f[1], f[2], r, m.e)
  IN IF agrees THEN [Write(m, z, v, i) EXCEPT !.rand = @ + 1, !.county = @ + 1]
     ELSE [m EXCEPT !.rand = @ + 1, !.ok = FALSE]

Gate(m, op, x, z, i) ==
  IF m.e = Prover THEN ProveGate(m, op, x, z, i) ELSE CheckGate(m, op, x, z, i)

Constant(m, i) == [j \in Parties(m.e) |-> k[i]]

\* mpc_RIGHTROTATE, mpc_RIGHTSHIFT and memcpy, on a party's word.
Local(call, v) ==
  CASE call.op = "COPY" -> v
    [] call.op = "ROT"  -> {(b - call.n) % Width : b \in v}
    [] call.op = "SHR"  -> {b - call.n : b \in v}

\* One call in iteration i; after a failed check the function is left.
Exec(m, call, i) ==
  LET x == Table([p \in DOMAIN call.src |-> Read(m, call.src[p], i)])
  IN CASE ~m.ok -> m
       [] m.ok /\ call.op \in {"COPY", "ROT", "SHR"} ->
            Write(m, call.dst, [j \in Parties(m.e) |-> Local(call, x[1][j])], i)
       [] m.ok /\ call.op = "XOR"  -> Write(m, call.dst, XorShares(x[1], x[2]), i)
       [] m.ok /\ call.op = "K"    -> Write(m, call.dst, Constant(m, i), i)
       [] m.ok /\ call.op = "ADDK" ->
            Gate(m, "ADD", <<x[1], Constant(m, i), x[1]>>, call.dst, i)
       [] m.ok /\ call.op = "ADD"  -> Gate(m, "ADD", <<x[1], x[2], x[1]>>, call.dst, i)
       [] m.ok /\ call.op \in {"CH", "MAJ"} -> Gate(m, call.op, x, call.dst, i)

Run(m, program, i) ==
  LET after[p \in 0 .. Len(program)] ==
        IF p = 0 THEN m ELSE Exec(after[p - 1], program[p], i)
  IN after[Len(program)]

\* The loop for (i = first; i < 64; i++) over a program.
Loop(m, program, first) ==
  LET trace[i \in first .. 64] ==
        IF i = first THEN <<m>>
        ELSE LET s == trace[i - 1] IN Append(s, Run(Last(s), program, i - 1))
  IN Last(trace[64])

(***************************************************************************)
(* Padding: the share's bytes, 0x80, zeros, and the length in the last     *)
(* eight bytes; words are loaded big-endian.                                *)
(***************************************************************************)
PaddedLen  == NumBlocks * 64

\* The bits of the length, as far as TLC's integers go: openings below 2^31 bits.
LengthBits == {n \in 0 .. 30 : ((8 * LBytes) \div 2 ^ n) % 2 = 1}

PaddedByte(x, p) ==
  {q \in 0 .. 7 :
     \/ p < LBytes /\ 8 * p + q \in x
     \/ p = LBytes /\ q = 7
     \/ p >= PaddedLen - 8 /\ 8 * (PaddedLen - 1 - p) + q \in LengthBits}

ChunkWord(x, blk, j) ==
  {b \in Bit : b % 8 \in PaddedByte(x, 64 * blk + 4 * j + (3 - (b \div 8)))}

(***************************************************************************)
(* SHA-256 of the standard, on words that are not shared.                  *)
(***************************************************************************)
Sum(x, y) ==
  {b \in Bit : ((b \in x) # (b \in y)) #
     (\E p \in 0 .. b - 1 : p \in x /\ p \in y
                             /\ \A q \in p + 1 .. b - 1 : q \in x \/ q \in y)}
Sum3(x, y, z) == Sum(Sum(x, y), z)
Rotr(x, n)    == {(b - n) % Width : b \in x}
Xor3(x, y, z) == {b \in Bit : ((b \in x) # (b \in y)) # (b \in z)}
Shr(x, n)     == {b - n : b \in {a \in x : a >= n}}

\* Bit g of the padded message, the first one being the most significant.
MessageBit(r, g) ==
  \/ g < 8 * LBytes /\ 8 * (g \div 8) + 7 - (g % 8) \in r
  \/ g = 8 * LBytes
  \/ g >= 512 * NumBlocks - 64 /\ 512 * NumBlocks - 1 - g \in LengthBits

ScheduleOf(r, blk) ==
  LET upto[t \in 16 .. 64] ==
        IF t = 16
        THEN [j \in 1 .. 16 |->
                {b \in Bit : MessageBit(r, 512 * blk + 32 * (j - 1) + 31 - b)}]
        ELSE LET w  == upto[t - 1]
                 s0 == Xor3(Rotr(w[t - 15], 7), Rotr(w[t - 15], 18), Shr(w[t - 15], 3))
                 s1 == Xor3(Rotr(w[t - 2], 17), Rotr(w[t - 2], 19), Shr(w[t - 2], 10))
             IN Append(w, Sum(Sum3(w[t - 16], s0, w[t - 7]), s1))
  IN upto[64]

\* One round of the compression, with the constant and the word of the round.
RoundOf(v, kt, wt) ==
  LET s1 == Xor3(Rotr(v[5], 6), Rotr(v[5], 11), Rotr(v[5], 25))
      ch == PlainProduct("CH", v[5], v[6], v[7])
      t1 == Sum(Sum3(Sum(v[8], s1), ch, kt), wt)
      s0 == Xor3(Rotr(v[1], 2), Rotr(v[1], 13), Rotr(v[1], 22))
      t2 == Sum(s0, PlainProduct("MAJ", v[1], v[2], v[3]))
  IN <<Sum(t1, t2), v[1], v[2], v[3], Sum(v[4], t1), v[5], v[6], v[7]>>

CompressionOf(h, w) ==
  LET upto[t \in 0 .. 64] ==
        IF t = 0 THEN <<h>>
        ELSE LET s == upto[t - 1] IN Append(s, RoundOf(s[t], k[t - 1], w[t]))
      last == upto[64][65]
  IN Table([n \in 1 .. 8 |-> Sum(h[n], last[n])])

SHA256(r) ==
  LET upto[blk \in 0 .. NumBlocks] ==
        IF blk = 0 THEN hA
        ELSE CompressionOf(upto[blk - 1], ScheduleOf(r, blk - 1))
  IN upto[NumBlocks]
==============================================================================
