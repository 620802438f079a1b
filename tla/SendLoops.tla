----------------------------- MODULE SendLoops ------------------------------
(***************************************************************************)
(* The loops of the send path as they are written: flushSend of data.go    *)
(* emits one segment per round, ackRetxQueue of statemachine.go drops one  *)
(* entry per round.  They are compared with the closed forms the other     *)
(* modules use, on every state two connections can reach.                  *)
(***************************************************************************)
EXTENDS Duplex

\* Mutant: idle is evaluated again in every round.
RECURSIVE flushLoopIdleAgain(_, _)
flushLoopIdleAgain(t, idle) ==
    LET n == minU32(unsent(t), sendUsable(t))
    IN IF unsent(t) <= 0 THEN disarmPersist(disarmOverride(t))
       ELSE IF t.snd.wnd = 0 THEN armPersist(t)
       ELSE IF ~canSend(t, n, t.snd.nxt = t.snd.una) THEN armOverride(t)
       ELSE flushLoopIdleAgain(emitSegment(t, n), idle)

RECURSIVE flushLoop(_, _)
flushLoop(t, idle) ==
    LET n == minU32(unsent(t), sendUsable(t))
    IN IF unsent(t) <= 0 THEN disarmPersist(disarmOverride(t))
       ELSE IF t.snd.wnd = 0 THEN armPersist(t)
       ELSE IF ~canSend(t, n, idle) THEN armOverride(t)
       ELSE flushLoop(emitSegment(t, n), idle)

RECURSIVE ackLoop(_, _)
ackLoop(q, ack) ==
    IF q = <<>> \/ ~SeqLEQ(SeqAdd(Head(q).seq, segLen(Head(q))), ack)
    THEN q ELSE ackLoop(Tail(q), ack)

-----------------------------------------------------------------------------
\* Whatever Send has just appended, and whether or not the peer has just opened
\* or shut its window, flushSend emits what its loop emits: the same segments,
\* in the same queue order, with the same timers left armed; and ackRetxQueue
\* drops what its loop drops, for every ACK of what is in flight.
LoopsAgree ==
    \A p \in Peer :
        /\ canSendMore(p) =>
            \A n \in SendSizes : \A w \in {0, tcb[p].snd.wnd, RcvBuff} :
                LET t == [tcb[p] EXCEPT !.sndBuf = @ \o [i \in 1..n |-> nsent[p] + i],
                                        !.snd.wnd = w]
                IN flushSend(t) = flushLoop(t, t.snd.nxt = t.snd.una)
        /\ \A n \in 0..flightSize(tcb[p]) :
            LET ack == SeqAdd(tcb[p].snd.una, n)
            IN ackRetxQueue(tcb[p], ack).retxQueue = ackLoop(tcb[p].retxQueue, ack)
=============================================================================
