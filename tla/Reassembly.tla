----------------------------- MODULE Reassembly -----------------------------
(***************************************************************************)
(* The reassembly loops of data.go as they are written, over the sorted    *)
(* list c.tcb.oooSegs, run side by side with the set-based acceptText of   *)
(* DataTransfer: segments of one stream arrive in any order, cut anywhere, *)
(* repeated and overlapping, while the reader takes bytes out.  From the   *)
(* same list come the SACK blocks of an ACK (sack.go) and its options.     *)
(***************************************************************************)
EXTENDS StateMachine, Options, SequencesExt, FiniteSetsExt

CONSTANTS Irs,          \* sequence number of the first byte
          StreamLen     \* how many bytes the stream has

ASSUME ReassemblyAssumption == Irs \in SeqNum /\ StreamLen \in 1..(HalfSeqSpace - 1)

VARIABLES conn,   \* the TCB, driven by the operators of DataTransfer
          list    \* oooSegs, lastOooSeq, rcvBuf and rcv.nxt, driven by the loops below

rvars == <<conn, list>>

-----------------------------------------------------------------------------
\* removeFullyConsumedOoo
removeFullyConsumedOoo(l) ==
    [l EXCEPT !.oooSegs = SelectSeq(@, LAMBDA s : ~SeqLEQ(SeqAdd(s.seq, Len(s.data)), l.nxt))]

\* Mutant: the first fragment at a number stays, however short.
insertSortedKeepsFirst(l, f) ==
    LET later == {i \in 1..Len(l.oooSegs) : ~SeqLT(l.oooSegs[i].seq, f.seq)}
        i == IF later = {} THEN Len(l.oooSegs) + 1 ELSE Min(later)
    IN IF i <= Len(l.oooSegs) /\ l.oooSegs[i].seq = f.seq
       THEN l ELSE [l EXCEPT !.oooSegs = InsertAt(@, i, f)]

\* insertOoo: before the first fragment that does not begin earlier, unless
\* that one begins at the same number and is at least as long.
insertSorted(l, f) ==
    LET later == {i \in 1..Len(l.oooSegs) : ~SeqLT(l.oooSegs[i].seq, f.seq)}
        i == IF later = {} THEN Len(l.oooSegs) + 1 ELSE Min(later)
    IN IF /\ i <= Len(l.oooSegs) /\ l.oooSegs[i].seq = f.seq
          /\ Len(l.oooSegs[i].data) >= Len(f.data)
       THEN l ELSE [l EXCEPT !.oooSegs = InsertAt(@, i, f)]

\* drainOoo, one round of its outer loop per call.
RECURSIVE drainLoop(_)
drainLoop(l) ==
    LET covering == {i \in 1..Len(l.oooSegs) :
                       LET s == l.oooSegs[i]
                       IN ~SeqLEQ(SeqAdd(s.seq, Len(s.data)), l.nxt) /\ SeqLEQ(s.seq, l.nxt)}
        s == l.oooSegs[Min(covering)]
        new == SubSeq(s.data, SeqSub(l.nxt, s.seq) + 1, Len(s.data))
    IN IF covering = {} THEN removeFullyConsumedOoo(l)
       ELSE drainLoop(removeFullyConsumedOoo([l EXCEPT !.rcvBuf = @ \o new,
                                                       !.nxt = SeqAdd(@, Len(new))]))

\* The branch of acceptText that stores the trimmed fragment.
store(l, f) ==
    IF f.data = <<>> THEN l
    ELSE IF f.seq = l.nxt
    THEN drainLoop([l EXCEPT !.rcvBuf = @ \o f.data, !.nxt = SeqAdd(@, Len(f.data))])
    ELSE [insertSorted(l, f) EXCEPT !.lastOooSeq = f.seq]

-----------------------------------------------------------------------------
(* sack.go and ackOptions *)

\* Mutant: a fragment that overlaps the block before it replaces its end.
extendsOverlap(block, f) == SeqLEQ(f.seq, block[2])

\* The fragment begins where the block ends.
extends(block, f) == f.seq = block[2]

\* One block [left, right) for each run of adjacent fragments.
regions(l) ==
    FoldLeft(LAMBDA blocks, f :
                LET end == SeqAdd(f.seq, Len(f.data)) n == Len(blocks)
                IN IF n > 0 /\ extends(blocks[n], f) THEN [blocks EXCEPT ![n][2] = end]
                   ELSE Append(blocks, <<f.seq, end>>),
             <<>>, l.oooSegs)

inBlock(block, seq) == SeqLEQ(block[1], seq) /\ SeqLT(seq, block[2])

\* The first block that has the latest arrival changes places with the first one.
newestFirst(blocks, seq) ==
    LET having == {i \in DOMAIN blocks : inBlock(blocks[i], seq)}
    IN IF having = {} THEN blocks
       ELSE [blocks EXCEPT ![1] = blocks[Min(having)], ![Min(having)] = blocks[1]]

sackBlocks(l, max) ==
    LET blocks == newestFirst(regions(l), l.lastOooSeq)
    IN SubSeq(blocks, 1, minU32(Len(blocks), max))

maxSackBlocks == 4

\* Mutant: the timestamp takes no room.
sackRoomAlways(tsOK) == maxSackBlocks

sackRoom(tsOK) == IF tsOK THEN maxSackBlocks - 1 ELSE maxSackBlocks

\* ackOptions of a connection that negotiated SACK; TSVal and TSecr are examples.
ackOptions(l, tsOK) ==
    LET blocks == sackBlocks(l, sackRoom(tsOK))
    IN IF tsOK THEN [noOptions EXCEPT !.HasTimestamp = TRUE, !.TSVal = 7, !.TSecr = 3,
                                      !.SACKBlocks = blocks]
       ELSE [noOptions EXCEPT !.SACKBlocks = blocks]

\* synOptionBytes before it is marshalled; a SYN that acknowledges has a TSecr.
synOptions(tsecr) ==
    [noOptions EXCEPT !.HasMSS = TRUE, !.MSS = DefaultMSS, !.HasWScale = TRUE,
                      !.WindowScale = WScale, !.HasTimestamp = TRUE, !.TSVal = 7,
                      !.TSecr = tsecr, !.SACKPermitted = TRUE]

-----------------------------------------------------------------------------
Init == /\ conn = [NewConn(0) EXCEPT !.state = "Established", !.rcv.nxt = Irs,
                                     !.rcv.wnd = RcvBuff, !.opt.sendMSS = DefaultMSS]
        /\ list = [oooSegs |-> <<>>, lastOooSeq |-> 0, rcvBuf |-> <<>>, nxt |-> Irs]

\* Bytes from + 1 to from + n of the stream arrive in an acceptable segment (the
\* others do not get as far as acceptText).
Text == \E from \in 0..(StreamLen - 1) : \E n \in 1..DefaultMSS :
    LET s == [flags |-> {"ACK"}, seq |-> SeqAdd(Irs, from), data |-> [i \in 1..n |-> from + i]]
    IN /\ from + n <= StreamLen /\ acceptable(conn, s)
       /\ conn' = [acceptText(conn, s) EXCEPT !.out = {}]
       /\ list' = store(list, trimToWindow(conn, s))

Read == \E n \in 1..Len(conn.rcvBuf) :
    /\ conn' = [Recv(conn, n) EXCEPT !.out = {}]
    /\ list' = [list EXCEPT !.rcvBuf = SubSeq(@, n + 1, Len(@))]

Next == Text \/ Read
Spec == Init /\ [][Next]_rvars

-----------------------------------------------------------------------------
\* The loops over the list and the set-based operators store the same bytes,
\* advance RCV.NXT equally and keep the same fragments, none twice, the list in
\* ascending order and the longer first where two begin at the same number, as
\* drainOoo and sackBlocks need it (insertOoo, drainOoo, removeFullyConsumedOoo).
SameAsList ==
    /\ conn.rcvBuf = list.rcvBuf /\ conn.rcv.nxt = list.nxt
    /\ conn.oooSegs = ToSet(list.oooSegs)
    /\ \A i \in 1..(Len(list.oooSegs) - 1) :
          LET f == list.oooSegs[i] g == list.oooSegs[i + 1]
          IN SeqLT(f.seq, g.seq) \/ (f.seq = g.seq /\ Len(f.data) > Len(g.data))

\* The sequence numbers that blocks or fragments stand for.
bytesOf(blocks) == UNION {{s \in SeqNum : inBlock(b, s)} : b \in ToSet(blocks)}
heldBytes(l) == bytesOf([i \in DOMAIN l.oooSegs |->
    <<l.oooSegs[i].seq, SeqAdd(l.oooSegs[i].seq, Len(l.oooSegs[i].data))>>])

\* An ACK never claims a byte the receiver does not hold, and all blocks together
\* claim every byte it holds beyond the gap, although fragments overlap and the
\* loop merges adjacent ones only.  The first block has the segment that came last,
\* as long as it waits for the gap to close, so that a lost ACK costs the sender
\* nothing (sackBlocks; RFC 2018, 4).
SackTruthful ==
    /\ bytesOf(regions(list)) = heldBytes(list)
    /\ bytesOf(sackBlocks(list, maxSackBlocks)) \subseteq heldBytes(list)
    /\ list.oooSegs # <<>> /\ SeqLT(list.nxt, list.lastOooSeq) =>
          inBlock(sackBlocks(list, 1)[1], list.lastOooSeq)

\* What a header sends: the options of a SYN, a SYN-ACK or an ACK.
sentOptions(l) == {synOptions(0), synOptions(3)}
    \cup (IF l.oooSegs = <<>> THEN {} ELSE {ackOptions(l, TRUE), ackOptions(l, FALSE)})

\* Each option of o is taken over whole or not at all.
someOf(o) == {[o EXCEPT !.HasMSS = o.HasMSS /\ mss, !.MSS = IF mss THEN @ ELSE 0,
                        !.HasWScale = o.HasWScale /\ ws, !.WindowScale = IF ws THEN @ ELSE 0,
                        !.SACKPermitted = @ /\ perm,
                        !.HasTimestamp = o.HasTimestamp /\ ts,
                        !.TSVal = IF ts THEN @ ELSE 0, !.TSecr = IF ts THEN @ ELSE 0,
                        !.SACKBlocks = IF sack THEN @ ELSE <<>>] :
                 mss, ws, perm, ts, sack \in BOOLEAN}

\* The options of every SYN, SYN-ACK and ACK fit into the 40 bytes a header has
\* for them, the other side reads what was written, and options that are cut
\* anywhere are refused or read as some of the options, each of them whole
\* (synOptionBytes, ackOptions, Marshal, ParseTCPOptions).
OptionsSurvive ==
    \A o \in sentOptions(list) :
        LET b == Marshal(o) IN
        /\ Len(b) % 4 = 0 /\ DataOffsetForOptions(Len(b)) <= 15
        /\ ParseTCPOptions(b) = o
        /\ \A k \in 0..(Len(b) - 1) :
              ParseTCPOptions(SubSeq(b, 1, k)) \in {malformed} \cup someOf(o)
=============================================================================
