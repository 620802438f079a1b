---------------------------- MODULE DataTransfer ----------------------------
(***************************************************************************)
(* The data path of a connection: the send buffer with Nagle and sender-   *)
(* side SWS avoidance, reassembly and the receive window (data.go), and    *)
(* the persist, override and delayed-ACK timers (flowcontrol.go).          *)
(***************************************************************************)
EXTENDS Tcb

-----------------------------------------------------------------------------
(* Sending.                                                                *)

disarmOverride(t) == [t EXCEPT !.tmr.override = FALSE]
disarmPersist(t) == [t EXCEPT !.tmr.persist = FALSE]
armOverride(t) == [t EXCEPT !.tmr.override = TRUE]
\* Mutant: the persist timer is not started.
armPersistNot(t) == [t EXCEPT !.tmr.override = FALSE]
armPersist(t) == [t EXCEPT !.tmr.persist = TRUE, !.tmr.override = FALSE]

\* Room in the peer's window and in cwnd.
sendUsable(t) ==
    LET right == SeqAdd(t.snd.una, t.snd.wnd)
        rwnd == IF SeqGT(t.snd.nxt, right) THEN 0 ELSE SeqSub(right, t.snd.nxt)
    IN minU32(maxU32(0, t.cong.cwnd - flightSize(t)), rwnd)

\* canSend for n = min(D, U) bytes.
canSend(t, n, idle) ==
    n > 0 /\ (n >= effSndMSS(t) \/ idle \/ NoDelay \/ n >= t.snd.maxWnd \div 2)

unsent(t) == Len(t.sndBuf) - flightSize(t)

\* Cut n unsent bytes, starting skip bytes after SND.NXT, into a segment.
cut(t, skip, n) == SubSeq(t.sndBuf, flightSize(t) + skip + 1, flightSize(t) + skip + n)

\* emitSegment: one segment of at most min(D, U, MSS) bytes at SND.NXT.
emitSegment(t, n) ==
    LET len == minU32(n, DefaultMSS)
        sent == sendData(t, {"ACK"}, t.snd.nxt, t.rcv.nxt, cut(t, 0, len))
    IN disarmOverride([sent EXCEPT !.snd.nxt = SeqAdd(@, len)])

\* The loop of flushSend while canSend allows it: k segments leave in a row.
\* D and U shrink by what each one carries, so round i sees n - i*DefaultMSS.
emitSegments(t, n) ==
    LET idle == t.snd.nxt = t.snd.una
        k == LoopCount({i \in 0..(n - 1) : canSend(t, n - i * DefaultMSS, idle)}, n)
        piece(i) == cut(t, (i - 1) * DefaultMSS, minU32(n - (i - 1) * DefaultMSS, DefaultMSS))
        entry(i) == [flags |-> {"ACK"}, seq |-> SeqAdd(t.snd.nxt, (i - 1) * DefaultMSS),
                     data |-> piece(i), retries |-> 0]
        wire(i) == [flags |-> {"ACK"}, seq |-> entry(i).seq, ack |-> t.rcv.nxt,
                    win |-> advertised(t, {"ACK"}), data |-> piece(i),
                    opts |-> IF t.opt.tsOK THEN "ts" ELSE "none",
                    tsval |-> IF t.opt.tsOK THEN t.ts.now ELSE 0]
    IN IF k = 0 THEN t
       ELSE [t EXCEPT !.out = @ \cup {wire(i) : i \in 1..k},
                      !.retxQueue = @ \o [i \in 1..k |-> entry(i)],
                      !.snd.nxt = SeqAdd(@, minU32(n, k * DefaultMSS)),
                      !.ts.lastAckSent = t.rcv.nxt,
                      !.tmr.override = FALSE]

flushSend(t) ==
    LET sent == emitSegments(t, minU32(unsent(t), sendUsable(t)))
    IN IF unsent(t) <= 0 THEN disarmPersist(disarmOverride(t))
       ELSE IF t.snd.wnd = 0 THEN armPersist(t)
       ELSE IF unsent(sent) <= 0 THEN disarmPersist(disarmOverride(sent))
       ELSE armOverride(sent)

Send(t, data) == flushSend([t EXCEPT !.sndBuf = @ \o data])

\* releaseAckedSend: drop the acknowledged bytes; SYN and FIN are not in the buffer.
releaseAckedSend(t, acked) ==
    [t EXCEPT !.sndBuf = SubSeq(@, minU32(acked, Len(@)) + 1, Len(@))]

\* A zero-window probe carries the first unsent byte and consumes its number.
probePersist(t) ==
    IF unsent(t) <= 0 \/ t.snd.wnd # 0 THEN t
    ELSE [sendData(t, {"ACK"}, t.snd.nxt, t.rcv.nxt, cut(t, 0, 1))
          EXCEPT !.snd.nxt = SeqAdd(@, 1)]

fireOverride(t) ==
    IF unsent(t) <= 0 \/ sendUsable(t) = 0 THEN disarmOverride(t)
    ELSE emitSegment(t, minU32(unsent(t), sendUsable(t)))

-----------------------------------------------------------------------------
(* Receiving.                                                              *)

\* Mutant: every payload is taken for the next one.
trimToWindowInOrder(t, s) == [seq |-> t.rcv.nxt, data |-> s.data]

\* The part of a payload inside [RCV.NXT, RCV.NXT + RCV.WND).
trimToWindow(t, s) ==
    LET end == SeqAdd(s.seq, Len(s.data))
        right == SeqAdd(t.rcv.nxt, t.rcv.wnd)
        skip == IF SeqLT(s.seq, t.rcv.nxt) THEN SeqSub(t.rcv.nxt, s.seq) ELSE 0
        over == IF SeqGT(end, right) THEN SeqSub(end, right) ELSE 0
    IN [seq |-> IF skip > 0 THEN t.rcv.nxt ELSE s.seq,
        data |-> IF skip + over >= Len(s.data) THEN <<>>
                 ELSE SubSeq(s.data, skip + 1, Len(s.data) - over)]

\* insertOoo keeps the fragments sorted; a set loses nothing, see taken below.
insertOoo(t, f) ==
    IF \E g \in t.oooSegs : g.seq = f.seq /\ Len(g.data) >= Len(f.data) THEN t
    ELSE [t EXCEPT !.oooSegs = @ \cup {f}]

\* Fragment f holds the byte at sequence number q.
holds(f, q) == SeqSub(q, f.seq) < Len(f.data)

\* The fragment drainOoo takes the byte at q from: the first of the sorted list
\* that covers it, i.e. the one reaching back furthest, the longest among equals.
holder(frags, q) ==
    CHOOSE f \in frags :
        /\ holds(f, q)
        /\ \A g \in frags : holds(g, q) =>
              \/ SeqSub(q, g.seq) < SeqSub(q, f.seq)
              \/ g.seq = f.seq /\ Len(g.data) <= Len(f.data)

\* drainOoo: move the bytes contiguous with RCV.NXT to rcvBuf, forget the
\* fragments that are now behind RCV.NXT.
drainOoo(t) ==
    LET at(j) == SeqAdd(t.rcv.nxt, j)
        n == LoopCount({j \in 0..(RcvBuff - 1) : \E f \in t.oooSegs : holds(f, at(j))}, RcvBuff)
        taken(j) == LET f == holder(t.oooSegs, at(j)) IN f.data[SeqSub(at(j), f.seq) + 1]
    IN [t EXCEPT !.rcvBuf = @ \o [j \in 1..n |-> taken(j - 1)],
                 !.rcv.nxt = at(n),
                 !.oooSegs = {f \in @ : ~SeqLEQ(SeqAdd(f.seq, Len(f.data)), at(n))}]

\* Mutant: the delayed-ACK timer is not started.
onDelayableSegmentUnarmed(t) ==
    IF t.tmr.delAckCount + 1 >= 2 THEN sendAck(t) ELSE [t EXCEPT !.tmr.delAckCount = @ + 1]

onDelayableSegment(t) ==
    IF t.tmr.delAckCount + 1 >= 2 THEN sendAck(t)
    ELSE [t EXCEPT !.tmr.delAckCount = @ + 1, !.tmr.delAck = TRUE]

\* Mutant: received bytes do not use up the window.
consumeRcvWindowNot(t, n) == t
consumeRcvWindow(t, n) == [t EXCEPT !.rcv.wnd = maxU32(0, @ - n)]

acceptText(t, s) ==
    LET f == trimToWindow(t, s)
        inOrder == f.seq = t.rcv.nxt
        stored == IF inOrder
                  THEN drainOoo([t EXCEPT !.rcvBuf = @ \o f.data,
                                          !.rcv.nxt = SeqAdd(@, Len(f.data))])
                  ELSE insertOoo(t, f)
        done == consumeRcvWindow(stored, SeqSub(stored.rcv.nxt, t.rcv.nxt))
    IN IF f.data = <<>> THEN sendAck(t)
       ELSE IF inOrder /\ done.oooSegs = {} /\ Len(f.data) >= effSndMSS(t)
       THEN onDelayableSegment(done) ELSE sendAck(done)

\* Mutant: SWS avoidance closes the window instead of leaving it.
advertiseWindowShut(t) ==
    LET avail == maxU32(0, RcvBuff - Len(t.rcvBuf))
    IN IF avail - t.rcv.wnd < minU32(RcvBuff \div 2, effSndMSS(t)) THEN 0 ELSE avail

\* Receiver-side SWS avoidance: open the window only by a worthwhile step.
advertiseWindow(t) ==
    LET avail == maxU32(0, RcvBuff - Len(t.rcvBuf))
        opening == avail - t.rcv.wnd
    IN IF avail <= t.rcv.wnd \/ opening < minU32(RcvBuff \div 2, effSndMSS(t))
       THEN t.rcv.wnd ELSE avail

\* Recv with a buffer that takes n bytes of the n available or more.
Recv(t, n) ==
    LET read == [t EXCEPT !.rcvBuf = SubSeq(@, n + 1, Len(@))]
        open == [read EXCEPT !.rcv.wnd = advertiseWindow(read)]
    IN IF open.rcv.wnd > t.rcv.wnd /\ synchronized(t.state) THEN sendAck(open) ELSE open

\* Mutant: end of file whatever is still to be read.
finReachedEarly(t) == t.fin.seen

\* What Recv answers io.EOF on.
finReached(t) == t.rcvBuf = <<>> /\ t.fin.seen /\ SeqLEQ(t.fin.seq, t.rcv.nxt)
=============================================================================
