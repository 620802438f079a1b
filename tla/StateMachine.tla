---------------------------- MODULE StateMachine ----------------------------
(***************************************************************************)
(* The connection state machine (tcp/transport/statemachine.go): the user  *)
(* calls, Tick, and onSegment with its fixed processing order, together    *)
(* with keepalive.go and the timestamp rules of paws.go.  Each of these    *)
(* holds Conn.mu from beginning to end, so each is one operator.           *)
(***************************************************************************)
EXTENDS DataTransfer

-----------------------------------------------------------------------------
(* User calls.                                                             *)

ActiveOpen(t, iss) ==
    sendSyn([t EXCEPT !.snd.iss = iss, !.snd.una = iss, !.snd.nxt = SeqAdd(iss, 1),
                      !.rcv.wnd = RcvBuff, !.state = "SynSent"],
            {"SYN"}, iss, 0)

PassiveOpen(t) == [t EXCEPT !.rcv.wnd = RcvBuff, !.state = "Listen"]

\* The FIN takes the next sequence number, whatever sndBuf still holds.
sendFin(t, st) ==
    [send(t, {"FIN", "ACK"}, t.snd.nxt, t.rcv.nxt)
     EXCEPT !.snd.nxt = SeqAdd(@, 1), !.state = st]

Close(t) ==
    CASE t.state = "Listen" -> [t EXCEPT !.state = "Closed"]
      [] t.state = "SynSent" -> [t EXCEPT !.state = "Closed", !.retxQueue = <<>>]
      [] t.state \in {"Established", "SynReceived"} -> sendFin(t, "FinWait1")
      [] t.state = "CloseWait" -> sendFin(t, "LastAck")
      [] OTHER -> t

-----------------------------------------------------------------------------
(* Timers.  due is the set of timers whose deadline has passed.            *)

abandon(t) == [t EXCEPT !.state = "Closed", !.retxQueue = <<>>]

\* Resend the head of the queue, without options, with the current RCV.NXT.
resendFront(t) ==
    LET front == Head(t.retxQueue)
    IN writeSeg(t, front.flags, front.seq, t.rcv.nxt, front.data)

\* Mutant: one retransmission too many.
checkRetransmitOneMore(t) ==
    IF t.retxQueue = <<>> THEN t
    ELSE IF Head(t.retxQueue).retries > MaxRetransmits THEN abandon(t)
    ELSE resendFront([t EXCEPT !.cong = onRtoTimeout(@, flightSize(t)),
                               !.retxQueue[1].retries = @ + 1])

checkRetransmit(t) ==
    IF t.retxQueue = <<>> THEN t
    ELSE IF Head(t.retxQueue).retries >= MaxRetransmits THEN abandon(t)
    ELSE resendFront([t EXCEPT !.cong = onRtoTimeout(@, flightSize(t)),
                               !.retxQueue[1].retries = @ + 1])

checkKeepAlive(t) ==
    IF ~KeepAlive \/ ~synchronized(t.state) \/ t.snd.una # t.snd.nxt THEN t
    ELSE IF t.keepaliveProbes >= KeepaliveMaxProbes THEN abandon(t)
    ELSE [writeSeg(t, {"ACK"}, SeqSub(t.snd.nxt, 1), t.rcv.nxt, <<>>)
          EXCEPT !.keepaliveProbes = @ + 1]

\* The timers that are running and so can be due.
armed(t) ==
    {x \in {"timewait", "rtx", "persist", "override", "delack", "keepalive"} :
        CASE x = "timewait" -> t.state = "TimeWait"
          [] x = "rtx" -> t.retxQueue # <<>>
          [] x = "persist" -> t.tmr.persist
          [] x = "override" -> t.tmr.override
          [] x = "delack" -> t.tmr.delAck
          [] x = "keepalive" -> KeepAlive /\ synchronized(t.state)}

Tick(t, due) ==
    LET t1 == IF "timewait" \in due THEN [t EXCEPT !.state = "Closed"] ELSE t
        t2 == IF "rtx" \in due THEN checkRetransmit(t1) ELSE t1
        t3 == IF "persist" \in due THEN probePersist(t2) ELSE t2
        t4 == IF "override" \in due THEN fireOverride(t3) ELSE t3
        t5 == IF "delack" \in due THEN sendAck(t4) ELSE t4
    IN IF "keepalive" \in due THEN checkKeepAlive(t5) ELSE t5

-----------------------------------------------------------------------------
(* Acknowledgements.                                                       *)

\* Drop the acknowledged front entries of the retransmission queue.
ackRetxQueue(t, ack) ==
    LET acked(e) == SeqLEQ(SeqAdd(e.seq, segLen(e)), ack)
        n == Len(t.retxQueue)
        k == LoopCount({i \in 0..(n - 1) : acked(t.retxQueue[i + 1])}, n)
    IN [t EXCEPT !.retxQueue = SubSeq(@, k + 1, n)]

isDupAck(t, s) ==
    /\ t.retxQueue # <<>>
    /\ s.data = <<>> /\ "SYN" \notin s.flags /\ "FIN" \notin s.flags
    /\ s.ack = t.snd.una
    /\ (IF t.opt.scaled THEN s.win * WScale ELSE s.win) = t.snd.wnd

onDuplicateAck(t, s) ==
    LET c == onDupAck(t.cong, flightSize(t))
    IN IF flightSize(t) = 0 THEN t
       ELSE IF t.cong.state # "FastRecovery" /\ c.state = "FastRecovery"
       THEN resendFront([t EXCEPT !.cong = c]) ELSE [t EXCEPT !.cong = c]

\* negotiateOptions with the options the peer's SYN or SYN-ACK carries.
negotiateOptions(t, s) ==
    IF s.opts = "syn"
    THEN [t EXCEPT !.opt = [scaled |-> TRUE, tsOK |-> TRUE, sendMSS |-> DefaultMSS],
                   !.ts.recent = s.tsval]
    ELSE [t EXCEPT !.opt.sendMSS = DefaultSendMSS]

initSendWindow(t, s) ==
    [t EXCEPT !.snd.wnd = s.win, !.snd.wl1 = s.seq, !.snd.wl2 = s.ack,
              !.snd.maxWnd = maxU32(@, s.win)]

updateSendWindow(t, s) ==
    LET w == IF t.opt.scaled THEN s.win * WScale ELSE s.win
        newer == \/ SeqLT(t.snd.wl1, s.seq)
                 \/ t.snd.wl1 = s.seq /\ SeqLEQ(t.snd.wl2, s.ack)
        u == [t EXCEPT !.snd.maxWnd = maxU32(@, w)]
    IN IF newer THEN [u EXCEPT !.snd.wnd = w, !.snd.wl1 = s.seq, !.snd.wl2 = s.ack,
                               !.tmr.persist = IF w > 0 THEN FALSE ELSE @]
       ELSE u

\* Mutant: any ACK is taken for the ACK of the FIN.
finAckedAlways(t) == TRUE
finAcked(t) == t.snd.una = t.snd.nxt

\* Mutant: LAST-ACK is never left.
advanceStateOnAckNotLast(t) ==
    CASE t.state = "SynReceived" -> [t EXCEPT !.state = "Established", !.reached = TRUE]
      [] t.state = "FinWait1" /\ finAcked(t) -> [t EXCEPT !.state = "FinWait2"]
      [] t.state = "Closing" /\ finAcked(t) -> [t EXCEPT !.state = "TimeWait"]
      [] OTHER -> t

advanceStateOnAck(t) ==
    CASE t.state = "SynReceived" -> [t EXCEPT !.state = "Established", !.reached = TRUE]
      [] t.state = "FinWait1" /\ finAcked(t) -> [t EXCEPT !.state = "FinWait2"]
      [] t.state = "Closing" /\ finAcked(t) -> [t EXCEPT !.state = "TimeWait"]
      [] t.state = "LastAck" /\ finAcked(t) -> [t EXCEPT !.state = "Closed"]
      [] OTHER -> t

\* The ACK is outside (SND.UNA - MAX.SND.WND) .. SND.NXT (RFC 5961).
ackOutOfRange(t, s) ==
    SeqLT(s.ack, SeqSub(t.snd.una, t.snd.maxWnd)) \/ SeqGT(s.ack, t.snd.nxt)

\* Mutant: an old ACK counts as a new one.
advancesBack(t, s) == s.ack # t.snd.una /\ SeqLEQ(s.ack, t.snd.nxt)
advances(t, s) == AcceptableAck(t.snd.una, s.ack, t.snd.nxt)

\* handleAck's result: FALSE when the segment must be dropped.
ackOK(t, s) == ~ackOutOfRange(t, s) /\ (t.state = "SynReceived" => advances(t, s))

\* handleAck when it returns FALSE, and when it returns TRUE.
refuseAck(t, s) == IF t.state = "SynReceived" /\ ackOutOfRange(t, s)
                   THEN sendRst(t, s.ack) ELSE sendChallengeAck(t)

handleAck(t, s) ==
    LET acked == SeqSub(s.ack, t.snd.una)
        u == [t EXCEPT !.snd.una = s.ack, !.cong = onNewAck(@, acked)]
        v == IF advances(t, s) THEN releaseAckedSend(ackRetxQueue(u, s.ack), acked)
             ELSE IF isDupAck(t, s) THEN onDuplicateAck(t, s)
             ELSE t
    IN flushSend(advanceStateOnAck(updateSendWindow(v, s)))

-----------------------------------------------------------------------------
(* Segment arrival.                                                        *)

inWindow(t, seq) ==
    IF t.rcv.wnd = 0 THEN seq = t.rcv.nxt
    ELSE SeqLEQ(t.rcv.nxt, seq) /\ SeqLT(seq, SeqAdd(t.rcv.nxt, t.rcv.wnd))

acceptable(t, s) ==
    IF segLen(s) = 0 THEN inWindow(t, s.seq)
    ELSE /\ t.rcv.wnd > 0
         /\ inWindow(t, s.seq) \/ inWindow(t, SeqAdd(s.seq, segLen(s) - 1))

onSegmentClosed(t, s) ==
    IF "RST" \in s.flags THEN t
    ELSE IF "ACK" \in s.flags THEN sendRst(t, s.ack)
    ELSE send(sendRst(t, 0), {"RST", "ACK"}, 0, SeqAdd(s.seq, segLen(s)))

onSegmentListen(t, s) ==
    LET syn == [t EXCEPT !.rcv.irs = s.seq, !.rcv.nxt = SeqAdd(s.seq, 1),
                         !.snd.una = t.snd.iss, !.snd.nxt = SeqAdd(t.snd.iss, 1),
                         !.origin = "passive", !.state = "SynReceived"]
    IN IF "RST" \in s.flags THEN t
       ELSE IF "ACK" \in s.flags THEN sendRst(t, s.ack)
       ELSE IF "SYN" \in s.flags
       THEN sendSyn(initSendWindow(negotiateOptions(syn, s), s),
                    {"SYN", "ACK"}, t.snd.iss, SeqAdd(s.seq, 1))
       ELSE t

\* Mutant: an ACK in SYN-SENT is not checked.
badAckNever(t, s) == FALSE

\* SYN-SENT: the ACK is not for the SYN that was sent.
badAck(t, s) == "ACK" \in s.flags /\ (SeqLEQ(s.ack, t.snd.iss) \/ SeqGT(s.ack, t.snd.nxt))

takeSyn(t, s) ==
    negotiateOptions([t EXCEPT !.rcv.irs = s.seq, !.rcv.nxt = SeqAdd(s.seq, 1)], s)

synAckArrives(t, s) ==
    LET acked == ackRetxQueue([takeSyn(t, s) EXCEPT !.snd.una = s.ack], s.ack)
    IN sendAck([initSendWindow(acked, s) EXCEPT !.state = "Established", !.reached = TRUE])

\* Simultaneous open: the options and IRS are taken, the window is not.
simultaneousOpen(t, s) ==
    LET syn == takeSyn(t, s)
    IN sendSyn([syn EXCEPT !.origin = "active", !.state = "SynReceived"],
               {"SYN", "ACK"}, t.snd.iss, syn.rcv.nxt)

onSegmentSynSent(t, s) ==
    IF badAck(t, s) THEN IF "RST" \in s.flags THEN t ELSE sendRst(t, s.ack)
    ELSE IF "RST" \in s.flags
    THEN IF "ACK" \in s.flags THEN [t EXCEPT !.state = "Closed"] ELSE t
    ELSE IF "SYN" \notin s.flags THEN t
    ELSE IF "ACK" \in s.flags THEN synAckArrives(t, s) ELSE simultaneousOpen(t, s)

resetConnection(t) ==
    [t EXCEPT !.state = IF t.state = "SynReceived" /\ t.origin = "passive"
                        THEN "Listen" ELSE "Closed"]

handleRst(t, s) ==
    IF ~inWindow(t, s.seq) THEN t
    ELSE IF s.seq # t.rcv.nxt THEN sendChallengeAck(t)
    ELSE resetConnection(t)

\* A FIN is consumed at the left edge of the window and acknowledged at once.
handleFin(t) ==
    LET a == sendAck([t EXCEPT !.fin = [seen |-> TRUE, seq |-> t.rcv.nxt],
                               !.rcv.nxt = SeqAdd(@, 1)])
    IN [a EXCEPT !.state =
          CASE t.state \in {"Established", "SynReceived"} -> "CloseWait"
            [] t.state = "FinWait1" -> IF finAcked(t) THEN "TimeWait" ELSE "Closing"
            [] t.state = "FinWait2" -> "TimeWait"
            [] OTHER -> t.state]

hasTS(t, s) == t.opt.tsOK /\ s.opts # "none"
\* Mutant: a timestamp that did not move counts as stale.
pawsStaleOrEqual(t, s) == hasTS(t, s) /\ "RST" \notin s.flags /\ SeqLEQ(s.tsval, t.ts.recent)
pawsStale(t, s) == hasTS(t, s) /\ "RST" \notin s.flags /\ SeqLT(s.tsval, t.ts.recent)

\* Mutant: TS.Recent takes the receiver's own clock (tsNow) for that of the segment.
tsRecentUpdateOwnClock(t, s) ==
    IF hasTS(t, s) /\ SeqLEQ(s.seq, t.ts.lastAckSent) THEN [t EXCEPT !.ts.recent = t.ts.now] ELSE t

tsRecentUpdate(t, s) ==
    IF hasTS(t, s) /\ ~SeqLT(s.tsval, t.ts.recent) /\ SeqLEQ(s.seq, t.ts.lastAckSent)
    THEN [t EXCEPT !.ts.recent = s.tsval] ELSE t

\* Steps 4 to 6: ACK field, text, FIN.
processText(t, s) ==
    IF s.data = <<>> THEN t ELSE acceptText(t, s)

\* Mutant: a FIN is processed wherever it lies.
processFinAnywhere(t, s) == IF "FIN" \in s.flags THEN handleFin(t) ELSE t

processFin(t, s) ==
    IF "FIN" \in s.flags /\ SeqAdd(s.seq, segLen(s) - 1) = t.rcv.nxt THEN handleFin(t) ELSE t

processAck(t, s) ==
    IF "ACK" \notin s.flags THEN t
    ELSE IF ~ackOK(t, s) THEN refuseAck(t, s)
    ELSE processFin(processText(handleAck(t, s), s), s)

onSegmentSynchronized(t, s) ==
    IF \/ t.state = "TimeWait" /\ "FIN" \in s.flags /\ "RST" \notin s.flags
       \/ pawsStale(t, s)
       \/ ~acceptable(t, s) /\ "RST" \notin s.flags
    THEN sendAck(t)
    ELSE IF "RST" \in s.flags THEN handleRst(t, s)
    ELSE IF "SYN" \in s.flags THEN sendChallengeAck(t)
    ELSE processAck(tsRecentUpdate(t, s), s)

\* Mutant: what arrives does not reset the keepalive probes.
onSegmentStillProbing(t0, s) ==
    CASE t0.state = "Closed" -> onSegmentClosed(t0, s)
      [] t0.state = "Listen" -> onSegmentListen(t0, s)
      [] t0.state = "SynSent" -> onSegmentSynSent(t0, s)
      [] OTHER -> onSegmentSynchronized(t0, s)

onSegment(t0, s) ==
    LET t == [t0 EXCEPT !.keepaliveProbes = 0]
    IN CASE t.state = "Closed" -> onSegmentClosed(t, s)
         [] t.state = "Listen" -> onSegmentListen(t, s)
         [] t.state = "SynSent" -> onSegmentSynSent(t, s)
         [] OTHER -> onSegmentSynchronized(t, s)
=============================================================================
