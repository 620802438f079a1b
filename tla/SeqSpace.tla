------------------------------ MODULE SeqSpace ------------------------------
(***************************************************************************)
(* The circular sequence space of tcp/transport/seq.go.  A sequence number *)
(* is a uint32; here the space has 2*HalfSeqSpace numbers, so TLC checks a *)
(* small circle and the proofs hold for every size, 2^32 included.  The    *)
(* timestamps of paws.go live in the same space.                           *)
(***************************************************************************)
EXTENDS Integers, Sequences

CONSTANT HalfSeqSpace   \* halfSeqSpace, 2^31 in the code

ASSUME HalfSeqSpaceAssumption == HalfSeqSpace \in Nat \ {0}

SeqSize == 2 * HalfSeqSpace
SeqNum == 0..(SeqSize - 1)

\* uint32 addition and subtraction: exact for 0 <= n <= SeqSize, which is all
\* the code ever adds (windows, segment lengths).
SeqAdd(a, n) == IF a + n < SeqSize THEN a + n ELSE a + n - SeqSize
SeqSub(b, a) == IF a <= b THEN b - a ELSE b - a + SeqSize

SeqLT(a, b) == SeqSub(b, a) # 0 /\ SeqSub(b, a) < HalfSeqSpace
SeqLEQ(a, b) == a = b \/ SeqLT(a, b)
SeqGT(a, b) == SeqLT(b, a)
AcceptableAck(una, ack, nxt) == SeqLT(una, ack) /\ SeqLEQ(ack, nxt)

-----------------------------------------------------------------------------
minU32(a, b) == IF a < b THEN a ELSE b
maxU32(a, b) == IF a > b THEN a ELSE b

\* How many rounds a loop makes: S holds the numbers of the rounds (from 0)
\* in which its condition is true, and round n is never one of them.
LoopCount(S, n) == CHOOSE k \in 0..n : k \notin S /\ \A i \in 0..(k - 1) : i \in S
=============================================================================
