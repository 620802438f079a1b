------------------------ MODULE StateMachineTheorems ------------------------
(***************************************************************************)
(* What each operation of the state machine does to a TCB: it stays well   *)
(* typed, a FIN appears only where Close sends it, the receive buffer and  *)
(* the acknowledgments owed keep their invariants, in the synchronized     *)
(* states the right edge of the receive window does not move left, and     *)
(* what is in flight stays in the retransmission queue.                    *)
(***************************************************************************)
EXTENDS StateMachine, DataTransferTheorems

\* A change of the state alone.
LEMMA StateKeepsRcv ==
    ASSUME NEW t \in TCB, NEW st \in State
    PROVE  LET u == [t EXCEPT !.state = st] IN
             /\ KeepsRcv(t, u) /\ NoNewFin(t, u) /\ SameSnd(t, u)
             /\ u.state = st /\ u.reached = t.reached
<1>1. SameSnd(t, [t EXCEPT !.state = st])
  BY DEF SameSnd, TCB
<1> QED BY <1>1 DEF KeepsRcv, SameRcv, Settled, NoNewFin, TCB

\* A change of the send variables, of the congestion state, of the options with
\* the timestamps, or of the send window with the persist timer.
LEMMA SndKeeps ==
    ASSUME NEW t \in TCB, NEW x \in SndVars
    PROVE  Keeps(t, [t EXCEPT !.snd = x])
  BY DEF Keeps, KeepsRcv, SameRcv, Settled, NoNewFin, TCB

LEMMA CongKeeps ==
    ASSUME NEW t \in TCB, NEW x \in Cong
    PROVE  Keeps(t, [t EXCEPT !.cong = x])
  BY DEF Keeps, KeepsRcv, SameRcv, Settled, NoNewFin, TCB

LEMMA QueueKeeps ==
    ASSUME NEW t \in TCB, NEW q \in Seq(RetxSeg),
           FinNums(t.out, q) \subseteq FinNums(t.out, t.retxQueue)
    PROVE  Keeps(t, [t EXCEPT !.retxQueue = q])
  BY DEF Keeps, KeepsRcv, SameRcv, Settled, NoNewFin, TCB

LEMMA OptKeeps ==
    ASSUME NEW t \in TCB, NEW x \in OptVars
    PROVE  Keeps(t, [t EXCEPT !.opt = x]) /\ SameSnd(t, [t EXCEPT !.opt = x])
<1>1. SameSnd(t, [t EXCEPT !.opt = x])
  BY DEF SameSnd, TCB
<1> QED BY <1>1 DEF Keeps, KeepsRcv, SameRcv, Settled, NoNewFin, TCB

LEMMA TsKeeps ==
    ASSUME NEW t \in TCB, NEW x \in TsVars, x.lastAckSent = t.ts.lastAckSent
    PROVE  Keeps(t, [t EXCEPT !.ts = x]) /\ SameSnd(t, [t EXCEPT !.ts = x])
<1> DEFINE u == [t EXCEPT !.ts = x]
<1>1. /\ SameRcv(t, u) /\ u.state = t.state /\ u.reached = t.reached /\ u.ts = x
      /\ u.tmr = t.tmr /\ NoNewFin(t, u)
  BY DEF SameRcv, NoNewFin, TCB
<1>2. SameSnd(t, u)
  BY DEF SameSnd, TCB
<1> HIDE DEF u
<1>3. Keeps(t, u)
  BY <1>1 DEF Keeps, KeepsRcv, Settled, SameRcv
<1> QED BY <1>2, <1>3 DEF u

\* One more than a sequence number is a sequence number.
LEMMA NextSeqNum ==
    ASSUME NEW a \in SeqNum
    PROVE  SeqAdd(a, 1) \in SeqNum
<1>1. 1 \in 0..SeqSize
  BY SmallSeqNums, TcbAssumption
<1> QED BY <1>1, SeqAddType

-----------------------------------------------------------------------------
(* User calls.                                                             *)

\* The receiving side but for the left edge and the width of the window.
SameBuffers(t, u) == u.rcvBuf = t.rcvBuf /\ u.oooSegs = t.oooSegs /\ u.fin = t.fin

LEMMA PassiveOpenEffect ==
    ASSUME NEW t \in TCB
    PROVE  LET u == PassiveOpen(t) IN
             /\ u \in TCB /\ u.state = "Listen" /\ u.reached = t.reached
             /\ SameBuffers(t, u) /\ u.rcv.wnd = RcvBuff
             /\ SameSnd(t, u) /\ NoNewFin(t, u)
<1> DEFINE x == [t.rcv EXCEPT !.wnd = RcvBuff]
           u == [t EXCEPT !.rcv = x, !.state = "Listen"]
<1>a. RcvBuff \in 0..RcvBuff
  BY TcbAssumption
<1>1. x \in RcvVars /\ x.wnd = RcvBuff
  BY <1>a, TcbParts DEF RcvVars
<1>2. PassiveOpen(t) = u
  BY DEF PassiveOpen, TCB, RcvVars
<1> HIDE DEF x
<1>3. u \in TCB /\ u.state = "Listen" /\ u.reached = t.reached /\ u.rcv = x
  BY <1>1 DEF TCB, State
<1>4. SameBuffers(t, u) /\ SameSnd(t, u) /\ NoNewFin(t, u)
  BY DEF TCB, SameBuffers, SameSnd, NoNewFin
<1> HIDE DEF u
<1> QED BY <1>1, <1>2, <1>3, <1>4

LEMMA ActiveOpenEffect ==
    ASSUME NEW t \in TCB, NEW iss \in SeqNum
    PROVE  LET u == ActiveOpen(t, iss) IN
             /\ u \in TCB /\ u.state = "SynSent" /\ u.reached = t.reached
             /\ SameBuffers(t, u) /\ u.rcv.wnd = RcvBuff /\ NoNewFin(t, u)
             /\ u.snd.una = iss /\ u.snd.iss = iss /\ u.snd.nxt = SeqAdd(iss, 1)
             /\ u.sndBuf = t.sndBuf /\ u.cong = t.cong
             /\ u.retxQueue = Append(t.retxQueue, queueEntry({"SYN"}, iss, <<>>))
<1> DEFINE x == [t.rcv EXCEPT !.wnd = RcvBuff]
           y == [t.snd EXCEPT !.iss = iss, !.una = iss, !.nxt = SeqAdd(iss, 1)]
           u == [t EXCEPT !.rcv = x, !.snd = y, !.state = "SynSent"]
           v == sendSyn(u, {"SYN"}, iss, 0)
           e == queueEntry({"SYN"}, iss, <<>>)
<1>a. RcvBuff \in 0..RcvBuff
  BY TcbAssumption
<1>1. x \in RcvVars /\ x.wnd = RcvBuff
  BY <1>a, TcbParts DEF RcvVars
<1>2. y \in SndVars /\ y.una = iss /\ y.iss = iss /\ y.nxt = SeqAdd(iss, 1)
  BY TcbParts, NextSeqNum DEF SndVars
<1>3. ActiveOpen(t, iss) = v
  <2>1. u = [t EXCEPT !.snd.iss = iss, !.snd.una = iss, !.snd.nxt = SeqAdd(iss, 1),
                      !.rcv.wnd = RcvBuff, !.state = "SynSent"]
    BY DEF TCB, RcvVars, SndVars
  <2> QED BY <2>1 DEF ActiveOpen
<1> HIDE DEF x, y
<1>4. /\ u \in TCB /\ u.state = "SynSent" /\ u.reached = t.reached /\ u.rcv = x /\ u.snd = y
      /\ u.sndBuf = t.sndBuf /\ u.cong = t.cong /\ u.retxQueue = t.retxQueue
  BY <1>1, <1>2 DEF TCB, State
<1>5. SameBuffers(t, u) /\ NoNewFin(t, u)
  BY DEF TCB, SameBuffers, NoNewFin
<1> HIDE DEF u
<1>6. Queued(u, v, e, 0)
  BY <1>4, SendSynForm, SmallSeqNums DEF Flags
<1> HIDE DEF v
<1>7. finsOf(e) = {}
  BY DEF finsOf, queueEntry
<1> HIDE DEF e
<1> QED BY <1>1, <1>2, <1>3, <1>4, <1>5, <1>6, <1>7
        DEF Queued, SameRcv, SameBuffers, NoNewFin, e

\* The FIN takes SND.NXT, whatever else waits to be sent.
FinSent(t, u) ==
    /\ KeepsRcv(t, u) /\ u.reached = t.reached
    /\ u.snd = [t.snd EXCEPT !.nxt = SeqAdd(t.snd.nxt, 1)]
    /\ u.sndBuf = t.sndBuf /\ u.cong = t.cong /\ u.tmr = t.tmr
    /\ u.retxQueue = Append(t.retxQueue, queueEntry({"FIN", "ACK"}, t.snd.nxt, <<>>))
    /\ FinNums(u.out, u.retxQueue) \subseteq FinNums(t.out, t.retxQueue) \cup {t.snd.nxt}

\* A segment with a FIN and no text is one number long.
LEMMA FinLength ==
    ASSUME NEW e, e.flags = {"FIN", "ACK"}, e.data = <<>>
    PROVE  segLen(e) = 1
<1>1. Len(e.data) = 0 /\ "SYN" \notin e.flags /\ "FIN" \in e.flags
  BY EmptySeq
<1> QED BY <1>1 DEF segLen

LEMMA SendFinEffect ==
    ASSUME NEW t \in TCB, NEW st \in State
    PROVE  FinSent(t, sendFin(t, st)) /\ sendFin(t, st).state = st
<1> DEFINE e == queueEntry({"FIN", "ACK"}, t.snd.nxt, <<>>)
           w == send(t, {"FIN", "ACK"}, t.snd.nxt, t.rcv.nxt)
           y == [t.snd EXCEPT !.nxt = SeqAdd(t.snd.nxt, 1)]
           u == [w EXCEPT !.snd = y, !.state = st]
<1>1. Queued(t, w, e, t.rcv.nxt)
  <2>1. segLen([flags |-> {"FIN", "ACK"}, data |-> <<>>]) = 1
    BY FinLength
  <2>2. {"FIN", "ACK"} \in Flags
    BY DEF Flags
  <2>3. <<>> \in Payload /\ t.snd.nxt \in SeqNum /\ t.rcv.nxt \in SeqNum
    BY EmptyPayload, SndParts, RcvParts
  <2>4. segLen([flags |-> {"FIN", "ACK"}, data |-> <<>>]) # 0
    BY <2>1
  <2>5. Queued(t, sendData(t, {"FIN", "ACK"}, t.snd.nxt, t.rcv.nxt, <<>>), e, t.rcv.nxt)
    BY ONLY <2>2, <2>3, <2>4, t \in TCB, SendDataForm
  <2> QED BY <2>5 DEF send
<1> HIDE DEF w
<1>2. e.flags = {"FIN", "ACK"} /\ e.seq = t.snd.nxt /\ e.data = <<>>
  BY DEF queueEntry
<1>3. finsOf(e) = {t.snd.nxt}
  <2>1. segLen(e) - 1 = 0
    BY <1>2, FinLength
  <2>2. SeqAdd(t.snd.nxt, 0) = t.snd.nxt
    BY SndParts, SeqNumNat, SmallSeqNums DEF SeqAdd
  <2> QED BY <1>2, <2>1, <2>2 DEF finsOf, finNum
<1>4. y \in SndVars
  BY TcbParts, SndParts, NextSeqNum DEF SndVars
<1>5. w \in TCB /\ w.snd = t.snd
  BY <1>1 DEF Queued, SameRcv
<1>6. sendFin(t, st) = u
  BY <1>5 DEF sendFin, w, TCB, SndVars
<1>y. y = [t.snd EXCEPT !.nxt = SeqAdd(t.snd.nxt, 1)]
  OBVIOUS
<1> HIDE DEF y
<1>7. /\ u \in TCB /\ u.rcv = w.rcv /\ u.fin = w.fin /\ u.rcvBuf = w.rcvBuf
      /\ u.oooSegs = w.oooSegs /\ u.state = st /\ u.reached = w.reached /\ u.snd = y
      /\ u.sndBuf = w.sndBuf /\ u.cong = w.cong /\ u.tmr = w.tmr /\ u.ts = w.ts
      /\ u.retxQueue = w.retxQueue /\ u.out = w.out
  BY <1>4, <1>5 DEF TCB
<1> HIDE DEF u
<1>8. KeepsRcv(t, u)
  <2>1. SameRcv(t, u)
    BY <1>1, <1>7 DEF Queued, SameRcv
  <2>2. u.ts.lastAckSent = t.rcv.nxt
    BY <1>1, <1>2, <1>7 DEF Queued
  <2> QED BY <2>1, <2>2 DEF KeepsRcv, SameRcv, Settled
<1>9. FinNums(u.out, u.retxQueue) \subseteq FinNums(t.out, t.retxQueue) \cup {t.snd.nxt}
  BY <1>1, <1>3, <1>7 DEF Queued
<1>10. u.retxQueue = Append(t.retxQueue, e)
  BY <1>1, <1>7 DEF Queued
<1> HIDE DEF e
<1>11. FinSent(t, u)
  BY <1>1, <1>7, <1>8, <1>9, <1>10, <1>y DEF FinSent, Queued, e
<1> QED BY <1>6, <1>7, <1>11

\* The states in which Close does something, and what it leads to.
CanClose == {"Listen", "SynSent", "SynReceived", "Established", "CloseWait"}

LEMMA CloseEffect ==
    ASSUME NEW t \in TCB, t.state \in CanClose
    PROVE  LET u == Close(t) IN
             /\ KeepsRcv(t, u) /\ u.reached = t.reached
             /\ \/ t.state \in {"Listen", "SynSent"} /\ u.state = "Closed" /\ NoNewFin(t, u)
                \/ /\ t.state \in {"Established", "SynReceived"} /\ u.state = "FinWait1"
                   /\ FinSent(t, u)
                \/ t.state = "CloseWait" /\ u.state = "LastAck" /\ FinSent(t, u)
<1> DEFINE v == [t EXCEPT !.state = "Closed"]
           w == [t EXCEPT !.state = "Closed", !.retxQueue = <<>>]
<1>1. /\ "Closed" \in State /\ "FinWait1" \in State /\ "LastAck" \in State
      /\ <<>> \in Seq(RetxSeg) /\ Len(<<>>) = 0
  BY EmptySeq DEF State
<1>2. KeepsRcv(t, v) /\ NoNewFin(t, v) /\ v.state = "Closed" /\ v.reached = t.reached
  BY <1>1, StateKeepsRcv
<1>3. KeepsRcv(t, w) /\ w.state = "Closed" /\ w.reached = t.reached /\ NoNewFin(t, w)
  <2>1. KeepsRcv(t, w) /\ w.state = "Closed" /\ w.reached = t.reached
    BY <1>1 DEF KeepsRcv, SameRcv, Settled, NoNewFin, TCB
  <2>2. w.out = t.out /\ w.retxQueue = <<>>
    BY DEF TCB
  <2>3. FinNums(t.out, <<>>) \subseteq FinNums(t.out, t.retxQueue)
    BY <1>1 DEF FinNums
  <2> QED BY <2>1, <2>2, <2>3 DEF NoNewFin
<1>4. /\ FinSent(t, sendFin(t, "FinWait1")) /\ sendFin(t, "FinWait1").state = "FinWait1"
      /\ FinSent(t, sendFin(t, "LastAck")) /\ sendFin(t, "LastAck").state = "LastAck"
  BY <1>1, SendFinEffect
<1>5. Close(t) = CASE t.state = "Listen" -> v
                   [] t.state = "SynSent" -> w
                   [] t.state \in {"Established", "SynReceived"} -> sendFin(t, "FinWait1")
                   [] t.state = "CloseWait" -> sendFin(t, "LastAck")
                   [] OTHER -> t
  BY DEF Close
<1> HIDE DEF v, w
<1>6. CASE t.state = "Listen"
  BY <1>2, <1>5, <1>6
<1>7. CASE t.state = "SynSent"
  BY <1>3, <1>5, <1>7
<1>8. CASE t.state \in {"Established", "SynReceived"}
  BY <1>4, <1>5, <1>8 DEF FinSent
<1>9. CASE t.state = "CloseWait"
  BY <1>4, <1>5, <1>9 DEF FinSent
<1> QED BY <1>6, <1>7, <1>8, <1>9 DEF CanClose

-----------------------------------------------------------------------------
(* Timers.  A timer leaves the state alone or closes the connection.       *)

KeepsOrCloses(t, u) == /\ KeepsRcv(t, u) /\ NoNewFin(t, u) /\ u.reached = t.reached
                       /\ u.state \in {t.state, "Closed"}

LEMMA KeepsOrClosesTrans ==
    ASSUME NEW t, NEW u, NEW v, KeepsOrCloses(t, u), KeepsOrCloses(u, v)
    PROVE  KeepsOrCloses(t, v)
  BY DEF KeepsOrCloses, KeepsRcv, SameRcv, NoNewFin

LEMMA KeepsImplies ==
    ASSUME NEW t, NEW u, Keeps(t, u)
    PROVE  KeepsOrCloses(t, u)
  BY DEF KeepsOrCloses, Keeps

\* The same segments are queued, whatever their retry counts.
SameQueue(q, r) ==
    /\ Len(r) = Len(q)
    /\ \A i \in 1..Len(q) : r[i].flags = q[i].flags /\ r[i].seq = q[i].seq /\ r[i].data = q[i].data

\* What a timer does to a connection that has nothing to send.
Calm(t, u) ==
    /\ u.sndBuf = t.sndBuf /\ u.snd = t.snd
    /\ SameQueue(t.retxQueue, u.retxQueue) \/ (u.state = "Closed" /\ u.retxQueue = <<>>)
    /\ u.cong.state = "FastRecovery" => t.cong.state = "FastRecovery"

LEMMA CalmTrans ==
    ASSUME NEW t \in TCB, NEW u \in TCB, NEW v \in TCB, Calm(t, u), Calm(u, v), KeepsOrCloses(u, v)
    PROVE  Calm(t, v)
<1>1. /\ t.retxQueue \in Seq(RetxSeg) /\ u.retxQueue \in Seq(RetxSeg) /\ v.retxQueue \in Seq(RetxSeg)
      /\ Len(<<>>) = 0
  BY TcbParts, EmptySeq
<1>2. CASE v.state = "Closed" /\ v.retxQueue = <<>>
  BY <1>2 DEF Calm
<1>3. CASE SameQueue(u.retxQueue, v.retxQueue) /\ u.state = "Closed" /\ u.retxQueue = <<>>
  <2>1. v.retxQueue = <<>> /\ v.state = "Closed"
    BY <1>1, <1>3, EmptySeq DEF SameQueue, KeepsOrCloses
  <2> QED BY <2>1 DEF Calm
<1>4. CASE SameQueue(u.retxQueue, v.retxQueue) /\ SameQueue(t.retxQueue, u.retxQueue)
  <2>1. SameQueue(t.retxQueue, v.retxQueue)
    BY <1>4 DEF SameQueue
  <2> QED BY <2>1 DEF Calm
<1> QED BY <1>2, <1>3, <1>4 DEF Calm

LEMMA SameSndCalm ==
    ASSUME NEW t, NEW u, SameSnd(t, u)
    PROVE  Calm(t, u)
  BY DEF SameSnd, Calm, SameQueue

\* An empty queue holds no FIN.
LEMMA FinNumsEmpty ==
    ASSUME NEW out, NEW queue
    PROVE  FinNums(out, <<>>) \subseteq FinNums(out, queue)
<1>1. Len(<<>>) = 0
  BY EmptySeq
<1> QED BY <1>1 DEF FinNums

LEMMA AbandonCloses ==
    ASSUME NEW t \in TCB
    PROVE  KeepsOrCloses(t, abandon(t)) /\ abandon(t).state = "Closed" /\ Calm(t, abandon(t))
<1> DEFINE u == [t EXCEPT !.state = "Closed", !.retxQueue = <<>>]
<1>1. <<>> \in Seq(RetxSeg)
  BY EmptySeq
<1>2. /\ u.out = t.out /\ u.retxQueue = <<>> /\ u.state = "Closed" /\ u.reached = t.reached
      /\ u.sndBuf = t.sndBuf /\ u.snd = t.snd /\ u.cong = t.cong
  BY DEF TCB
<1>3. KeepsRcv(t, u)
  BY <1>1 DEF KeepsRcv, SameRcv, Settled, TCB, State
<1> HIDE DEF u
<1>4. NoNewFin(t, u)
  BY <1>2, FinNumsEmpty DEF NoNewFin
<1>5. KeepsOrCloses(t, u) /\ u.state = "Closed" /\ Calm(t, u)
  BY <1>2, <1>3, <1>4 DEF KeepsOrCloses, Calm
<1> QED BY <1>5 DEF abandon, u

LEMMA ResendFrontKeeps ==
    ASSUME NEW t \in TCB, t.retxQueue # <<>>
    PROVE  Keeps(t, resendFront(t)) /\ SameSnd(t, resendFront(t))
<1> DEFINE e == Head(t.retxQueue)
           u == writeSegOpts(t, e.flags, e.seq, t.rcv.nxt, e.data, "none")
<1>0. resendFront(t) = u
  BY DEF resendFront, writeSeg
<1>1. e \in RetxSeg /\ e = t.retxQueue[1] /\ 1 \in 1..Len(t.retxQueue)
  BY TcbParts, HeadTailProperties, EmptySeq, LenProperties
<1> HIDE DEF e
<1>2. e.flags \in Flags /\ e.seq \in SeqNum /\ e.data \in Payload /\ t.rcv.nxt \in SeqNum
  BY <1>1, RcvParts DEF RetxSeg, Flags
<1>3. PICK s : /\ u.out = t.out \cup {s} /\ s.flags = e.flags /\ s.seq = e.seq /\ s.data = e.data
               /\ Wrote(t, u, e.flags, t.rcv.nxt)
  BY <1>2, WriteSegOptsForm, SMTT(30)
<1> HIDE DEF u
<1>4. finsOf(s) = finsOf(e)
  BY <1>3 DEF finsOf, finNum, segLen
<1>5. finsOf(e) \subseteq FinNums(t.out, t.retxQueue)
  BY <1>1 DEF finsOf, FinNums
<1>6. u.retxQueue = t.retxQueue
  BY <1>3 DEF Wrote, SameSnd
<1>7. FinNums(u.out, t.retxQueue) \subseteq FinNums(t.out, t.retxQueue) \cup finsOf(s)
  BY <1>3, FinAdded
<1>8. NoNewFin(t, u)
  BY <1>4, <1>5, <1>6, <1>7 DEF NoNewFin
<1>9. Keeps(t, u) /\ SameSnd(t, u)
  BY <1>3, <1>8 DEF Wrote, Keeps, KeepsRcv, SameRcv, Settled
<1> QED BY <1>0, <1>9

\* FIN numbers depend on what is queued alone.
LEMMA SameQueueFins ==
    ASSUME NEW out, NEW q, NEW r, SameQueue(q, r)
    PROVE  FinNums(out, r) \subseteq FinNums(out, q)
<1>1. \A i \in 1..Len(r) : /\ i \in 1..Len(q) /\ r[i].flags = q[i].flags
                            /\ finNum(r[i]) = finNum(q[i])
  BY DEF SameQueue, finNum, segLen
<1> QED BY <1>1 DEF FinNums

\* The effect of a retransmission timeout that does not give up.
Resent(t, u) ==
    /\ Keeps(t, u) /\ u.snd = t.snd /\ u.sndBuf = t.sndBuf
    /\ u.tmr.persist = t.tmr.persist /\ u.tmr.override = t.tmr.override
    /\ SameQueue(t.retxQueue, u.retxQueue)
    /\ u.cong.state # "FastRecovery" \/ u.cong = t.cong
    /\ CongLive(t.cong) => CongLive(u.cong)

\* R2: an entry is resent at most MaxRetransmits times before the connection is
\* given up.
LEMMA CheckRetransmitEffect ==
    ASSUME NEW t \in TCB
    PROVE  checkRetransmit(t) = abandon(t) \/ Resent(t, checkRetransmit(t))
<1>1. CASE t.retxQueue = <<>>
  BY <1>1, KeepsRefl DEF checkRetransmit, Resent, SameQueue
<1>2. CASE t.retxQueue # <<>> /\ Head(t.retxQueue).retries >= MaxRetransmits
  BY <1>2 DEF checkRetransmit
<1>3. CASE t.retxQueue # <<>> /\ ~(Head(t.retxQueue).retries >= MaxRetransmits)
  <2> DEFINE c == onRtoTimeout(t.cong, flightSize(t))
             q == t.retxQueue
             e == [q[1] EXCEPT !.retries = @ + 1]
             r == [q EXCEPT ![1] = e]
             u == [t EXCEPT !.cong = c, !.retxQueue = r]
             v == resendFront(u)
  <2>1. q \in Seq(RetxSeg) /\ q # <<>> /\ Head(q) = q[1] /\ q[1] \in RetxSeg /\ Len(q) \in Nat \ {0}
    BY <1>3, TcbParts, HeadTailProperties, EmptySeq, LenProperties, ElementOfSeq
  <2>2. q[1].retries \in 0..MaxRetransmits /\ ~(q[1].retries >= MaxRetransmits)
    BY <1>3, <2>1 DEF RetxSeg
  <2>3. q[1].retries + 1 \in 0..MaxRetransmits
    BY <2>2, TcbAssumption
  <2>4. /\ e \in RetxSeg /\ e.flags = q[1].flags /\ e.seq = q[1].seq /\ e.data = q[1].data
    BY <2>1, <2>3 DEF RetxSeg
  <2>5. checkRetransmit(t) = resendFront([t EXCEPT !.cong = c, !.retxQueue[1].retries = @ + 1])
    BY <1>3 DEF checkRetransmit
  <2>6. [t EXCEPT !.cong = c, !.retxQueue[1].retries = @ + 1] = u
    BY DEF TCB
  <2> HIDE DEF e
  <2>7. /\ r \in Seq(RetxSeg) /\ Len(r) = Len(q) /\ r[1] = e
        /\ \A i \in 1..Len(q) : i # 1 => r[i] = q[i]
    BY <2>1, <2>4, ExceptSeq, LenProperties
  <2>8. r # <<>>
    BY <2>1, <2>7, EmptySeq
  <2>9. c \in Cong /\ c.state = "SlowStart" /\ (CongLive(t.cong) => CongLive(c))
    BY TcbParts, FlightType, OnRtoTimeoutType, OnRtoTimeoutLive
  <2> HIDE DEF r, c
  <2>10. SameQueue(q, r)
    BY <2>4, <2>7 DEF SameQueue
  <2> HIDE DEF q
  <2>a. FinNums(t.out, r) \subseteq FinNums(t.out, t.retxQueue)
    BY <2>10, SameQueueFins DEF q
  <2>11. Keeps(t, u) /\ u.retxQueue = r
    BY <2>7, <2>9, <2>a DEF Keeps, KeepsRcv, SameRcv, Settled, NoNewFin, TCB
  <2>b. u.snd = t.snd /\ u.sndBuf = t.sndBuf /\ u.tmr = t.tmr /\ u.cong = c
    BY DEF TCB
  <2> HIDE DEF u
  <2>12. Keeps(u, v) /\ SameSnd(u, v)
    BY <2>8, <2>11, KeepsType, ResendFrontKeeps
  <2> HIDE DEF v
  <2>13. Keeps(t, v)
    BY <2>11, <2>12, KeepsTrans
  <2>14. Resent(t, v)
    BY <2>9, <2>10, <2>11, <2>12, <2>13, <2>b DEF Resent, SameSnd, q
  <2> QED BY <2>5, <2>6, <2>14 DEF v
<1> QED BY <1>1, <1>2, <1>3

LEMMA CheckRetransmitKeeps ==
    ASSUME NEW t \in TCB
    PROVE  KeepsOrCloses(t, checkRetransmit(t)) /\ Calm(t, checkRetransmit(t))
<1>1. CASE checkRetransmit(t) = abandon(t)
  BY <1>1, AbandonCloses
<1>2. CASE Resent(t, checkRetransmit(t))
  BY <1>2, KeepsImplies DEF Resent, Calm
<1> QED BY <1>1, <1>2, CheckRetransmitEffect

LEMMA CheckKeepAliveKeeps ==
    ASSUME NEW t \in TCB
    PROVE  /\ KeepsOrCloses(t, checkKeepAlive(t)) /\ Calm(t, checkKeepAlive(t))
           /\ ~synchronized(t.state) => checkKeepAlive(t) = t
<1> DEFINE off == ~KeepAlive \/ ~synchronized(t.state) \/ t.snd.una # t.snd.nxt
           w == writeSeg(t, {"ACK"}, SeqSub(t.snd.nxt, 1), t.rcv.nxt, <<>>)
<1>0. checkKeepAlive(t) = IF off THEN t
                          ELSE IF t.keepaliveProbes >= KeepaliveMaxProbes THEN abandon(t)
                          ELSE [w EXCEPT !.keepaliveProbes = @ + 1]
  BY DEF checkKeepAlive
<1>a. ~synchronized(t.state) => off
  OBVIOUS
<1> HIDE DEF off
<1>1. CASE off
  BY <1>0, <1>1, KeepsRefl, KeepsImplies, SameSndRefl, SameSndCalm
<1>2. CASE ~off /\ t.keepaliveProbes >= KeepaliveMaxProbes
  BY <1>0, <1>2, <1>a, AbandonCloses
<1>3. CASE ~off /\ ~(t.keepaliveProbes >= KeepaliveMaxProbes)
  <2>1. 1 \in SeqNum
    BY HalfSeqSpaceAssumption, TcbAssumption DEF SeqNum, SeqSize
  <2>a. {"ACK"} \in Flags /\ "FIN" \notin {"ACK"}
    BY DEF Flags
  <2>2. Keeps(t, w) /\ SameSnd(t, w)
    BY <2>1, <2>a, WriteSegOptsForm, WroteKeeps, SeqSubType, SndParts, RcvParts, EmptyPayload
       DEF writeSeg
  <2>3. w.keepaliveProbes = t.keepaliveProbes
    BY DEF writeSeg, writeSegOpts, TCB
  <2> HIDE DEF w
  <2>4. w.keepaliveProbes + 1 \in 0..KeepaliveMaxProbes
    BY <1>3, <2>3, TcbParts, TcbAssumption
  <2> DEFINE v == [w EXCEPT !.keepaliveProbes = @ + 1]
  <2>5. Keeps(w, v)
    BY <2>2, <2>4 DEF Keeps, KeepsRcv, SameRcv, Settled, NoNewFin, TCB
  <2>b. SameSnd(w, v)
    BY <2>2, KeepsType DEF SameSnd, TCB
  <2> HIDE DEF v
  <2>6. Keeps(t, v) /\ SameSnd(t, v)
    BY <2>2, <2>5, <2>b, KeepsTrans, SameSndTrans
  <2> QED BY <1>0, <1>3, <1>a, <2>6, KeepsImplies, SameSndCalm DEF v
<1> QED BY <1>1, <1>2, <1>3

\* Without bytes to send the persist and the override timer do nothing.
LEMMA NothingToSend ==
    ASSUME NEW t \in TCB, t.sndBuf = <<>>
    PROVE  Calm(t, probePersist(t)) /\ Calm(t, fireOverride(t))
<1>1. unsent(t) <= 0
  <2>1. Len(t.sndBuf) = 0
    BY EmptySeq
  <2> QED BY <2>1, UnsentType, FlightType
<1>2. probePersist(t) = t /\ fireOverride(t) = disarmOverride(t)
  BY <1>1 DEF probePersist, fireOverride
<1> DEFINE u == disarmOverride(t)
<1>3. u.sndBuf = t.sndBuf /\ u.snd = t.snd /\ u.retxQueue = t.retxQueue /\ u.cong = t.cong
  BY DEF disarmOverride, TCB
<1> HIDE DEF u
<1>4. Calm(t, u)
  BY <1>3 DEF Calm, SameQueue
<1> QED BY <1>2, <1>4, SameSndRefl, SameSndCalm DEF u

\* One part of Tick: it keeps the connection or closes it, calmly if there is
\* nothing to send.
TickPart(t, u) == KeepsOrCloses(t, u) /\ (t.sndBuf = <<>> => Calm(t, u))

LEMMA TickPartTrans ==
    ASSUME NEW t \in TCB, NEW u, NEW v, TickPart(t, u), TickPart(u, v)
    PROVE  TickPart(t, v)
<1>1. KeepsOrCloses(t, v)
  BY KeepsOrClosesTrans DEF TickPart
<1>2. u \in TCB /\ v \in TCB
  BY DEF TickPart, KeepsOrCloses, KeepsRcv, SameRcv
<1>3. ASSUME t.sndBuf = <<>> PROVE Calm(t, v)
  <2>1. Calm(t, u) /\ u.sndBuf = <<>>
    BY <1>3 DEF TickPart, Calm
  <2>2. Calm(u, v) /\ KeepsOrCloses(u, v)
    BY <2>1 DEF TickPart
  <2> QED BY <1>2, <2>1, <2>2, CalmTrans
<1> QED BY <1>1, <1>3 DEF TickPart

LEMMA TickEffect ==
    ASSUME NEW t \in TCB, NEW due \in SUBSET armed(t)
    PROVE  /\ TickPart(t, Tick(t, due))
           /\ t.state = "Listen" /\ t.retxQueue = <<>> => Tick(t, due).state = "Listen"
<1> DEFINE c == [t EXCEPT !.state = "Closed"]
           t1 == IF "timewait" \in due THEN c ELSE t
           t2 == IF "rtx" \in due THEN checkRetransmit(t1) ELSE t1
           t3 == IF "persist" \in due THEN probePersist(t2) ELSE t2
           t4 == IF "override" \in due THEN fireOverride(t3) ELSE t3
           t5 == IF "delack" \in due THEN sendAck(t4) ELSE t4
           t6 == IF "keepalive" \in due THEN checkKeepAlive(t5) ELSE t5
<1>0. Tick(t, due) = t6
  BY DEF Tick
<1>r. \A u \in TCB : TickPart(u, u)
  BY KeepsRefl, KeepsImplies, SameSndRefl, SameSndCalm DEF TickPart
<1>a. /\ "timewait" \in due => t.state = "TimeWait"
      /\ "rtx" \in due => t.retxQueue # <<>>
      /\ "keepalive" \in due => synchronized(t.state)
  <2>1. /\ "timewait" \in armed(t) => t.state = "TimeWait"
        /\ "rtx" \in armed(t) => t.retxQueue # <<>>
        /\ "keepalive" \in armed(t) => synchronized(t.state)
    BY DEF armed
  <2> QED BY <2>1
<1>k. \A u \in TCB : \A v : TickPart(u, v) => v \in TCB
  BY DEF TickPart, KeepsOrCloses, KeepsRcv, SameRcv
<1>c. TickPart(t, c)
  <2>1. /\ KeepsRcv(t, c) /\ NoNewFin(t, c) /\ SameSnd(t, c) /\ c.state = "Closed"
        /\ c.reached = t.reached
    BY StateKeepsRcv DEF State
  <2> HIDE DEF c
  <2> QED BY <2>1, SameSndCalm DEF TickPart, KeepsOrCloses
<1> HIDE DEF c
<1>1. TickPart(t, t1)
  BY <1>r, <1>c
<1>b. t.state = "Listen" => t1 = t
  BY <1>a
<1>t1. t1 \in TCB
  BY <1>1, <1>k
<1> HIDE DEF t1
<1>2. TickPart(t1, t2)
  BY <1>r, <1>t1, CheckRetransmitKeeps DEF TickPart
<1>d. t.state = "Listen" /\ t.retxQueue = <<>> => t2 = t
  BY <1>a, <1>b
<1>t2. t2 \in TCB
  BY <1>t1, <1>2, <1>k
<1> HIDE DEF t2
<1>3. TickPart(t2, t3) /\ t3.state = t2.state
  BY <1>r, <1>t2, ProbePersistKeeps, KeepsImplies, NothingToSend DEF TickPart, Keeps
<1>t3. t3 \in TCB
  BY <1>t2, <1>3, <1>k
<1> HIDE DEF t3
<1>4. TickPart(t3, t4) /\ t4.state = t3.state
  BY <1>r, <1>t3, FireOverrideKeeps, KeepsImplies, NothingToSend DEF TickPart, Keeps
<1>t4. t4 \in TCB
  BY <1>t3, <1>4, <1>k
<1> HIDE DEF t4
<1>5. TickPart(t4, t5) /\ t5.state = t4.state
  BY <1>r, <1>t4, SendAckKeeps, KeepsImplies, SameSndCalm DEF TickPart, Keeps
<1>t5. t5 \in TCB
  BY <1>t4, <1>5, <1>k
<1> HIDE DEF t5
<1>6. TickPart(t5, t6) /\ (~synchronized(t5.state) => t6 = t5)
  BY <1>r, <1>t5, CheckKeepAliveKeeps DEF TickPart
<1> HIDE DEF t6
<1>7. TickPart(t, t6)
  BY <1>1, <1>2, <1>3, <1>4, <1>5, <1>6, <1>t1, <1>t2, <1>t3, <1>t4, <1>t5, TickPartTrans
<1>8. t.state = "Listen" /\ t.retxQueue = <<>> => t6.state = "Listen"
  BY <1>d, <1>3, <1>4, <1>5, <1>6 DEF synchronized
<1> QED BY <1>0, <1>7, <1>8

-----------------------------------------------------------------------------
(* Acknowledgements.                                                       *)

\* What SubSeq(q, k + 1, Len(q)) holds.
LEMMA RestOfSeq ==
    ASSUME NEW S, NEW q \in Seq(S), NEW k \in Nat, k <= Len(q)
    PROVE  LET r == SubSeq(q, k + 1, Len(q)) IN
             /\ r \in Seq(S) /\ Len(r) = Len(q) - k
             /\ \A i \in 1..(Len(q) - k) : r[i] = q[k + i]
<1>1. Len(q) \in Nat
  BY LenProperties
<1>2. CASE k < Len(q)
  <2>1. k + 1 \in 1..(Len(q) + 1) /\ Len(q) \in (k+1-1)..Len(q) /\ k + 1 <= Len(q)
    BY <1>1, <1>2
  <2> QED BY <1>1, <1>2, <2>1, SubSeqProperties
<1>3. CASE k = Len(q)
  <2>1. SubSeq(q, k + 1, Len(q)) \in Seq(S) /\ Len(SubSeq(q, k + 1, Len(q))) = 0
    BY <1>1, <1>3, SubSeqProperties
  <2> QED BY <1>1, <1>3, <2>1
<1> QED BY <1>1, <1>2, <1>3

\* The rest of a queue holds no other FIN than the queue.
LEMMA SubSeqFins ==
    ASSUME NEW out, NEW q \in Seq(RetxSeg), NEW k \in 0..Len(q)
    PROVE  FinNums(out, SubSeq(q, k + 1, Len(q))) \subseteq FinNums(out, q)
<1> DEFINE n == Len(q)
           r == SubSeq(q, k + 1, n)
<1>1. n \in Nat /\ k \in Nat /\ k <= n
  BY LenProperties
<1>2. /\ Len(r) = n - k
      /\ \A i \in 1..(n - k) : r[i] = q[k + i] /\ k + i \in 1..n
  <2> HIDE DEF n
  <2>1. \A i \in 1..(n - k) : k + i = (k + 1) + i - 1 /\ k + i \in 1..n
    BY <1>1
  <2>2. k + 1 <= n => n - (k + 1) + 1 = n - k
    BY <1>1
  <2> QED BY <1>1, <2>1, <2>2, RestOfSeq DEF n
<1> HIDE DEF r, n
<1>3. \A i \in 1..Len(r) : \E j \in 1..Len(q) : r[i] = q[j]
  BY <1>1, <1>2 DEF n
<1>4. FinNums(out, r) \subseteq FinNums(out, q)
  BY <1>3 DEF FinNums
<1> QED BY <1>4 DEF r, n

LEMMA AckRetxQueueKeeps ==
    ASSUME NEW t \in TCB, NEW ack
    PROVE  Keeps(t, ackRetxQueue(t, ack))
<1> DEFINE n == Len(t.retxQueue)
           S == {i \in 0..(n - 1) : SeqLEQ(SeqAdd(t.retxQueue[i + 1].seq,
                                                  segLen(t.retxQueue[i + 1])), ack)}
           k == LoopCount(S, n)
           q == SubSeq(t.retxQueue, k + 1, n)
<1>1. t.retxQueue \in Seq(RetxSeg) /\ n \in Nat
  BY TcbParts, LenProperties
<1>2. k \in 0..n
  <2>1. S \in SUBSET (0..(n - 1))
    OBVIOUS
  <2> HIDE DEF S, n
  <2> QED BY <1>1, <2>1, LoopCountType
<1>3. ackRetxQueue(t, ack) = [t EXCEPT !.retxQueue = q]
  BY DEF ackRetxQueue
<1> HIDE DEF k
<1>4. q \in Seq(RetxSeg)
  <2>1. k + 1 \in Nat \ {0} /\ n <= Len(t.retxQueue)
    BY <1>1, <1>2
  <2> QED BY <1>1, <2>1, PartOfSeq
<1>5. FinNums(t.out, q) \subseteq FinNums(t.out, t.retxQueue)
  BY <1>1, <1>2, SubSeqFins
<1> HIDE DEF q
<1> QED BY <1>3, <1>4, <1>5, QueueKeeps

LEMMA OnDuplicateAckKeeps ==
    ASSUME NEW t \in TCB, NEW s, t.retxQueue # <<>>
    PROVE  Keeps(t, onDuplicateAck(t, s))
<1> DEFINE c == onDupAck(t.cong, flightSize(t))
           u == [t EXCEPT !.cong = c]
<1>1. onDuplicateAck(t, s) \in {t, u, resendFront(u)}
  BY DEF onDuplicateAck
<1>2. c \in Cong
  BY TcbParts, FlightType, OnDupAckType
<1> HIDE DEF c
<1>3. Keeps(t, u) /\ u.retxQueue = t.retxQueue
  BY <1>2, CongKeeps DEF TCB
<1> HIDE DEF u
<1>4. Keeps(u, resendFront(u))
  BY <1>3, KeepsType, ResendFrontKeeps
<1> QED BY <1>1, <1>3, <1>4, KeepsTrans, KeepsRefl

\* What an incoming segment looks like.
LEMMA SegmentParts ==
    ASSUME NEW s \in Segment
    PROVE  /\ s.seq \in SeqNum /\ s.ack \in SeqNum /\ s.win \in 0..MaxWindow
           /\ s.data \in Payload /\ s.tsval \in SeqNum /\ s.flags \in Flags
           /\ segLen(s) \in 0..(DefaultMSS + 2) /\ SeqAdd(s.seq, segLen(s)) \in SeqNum
<1>1. /\ s.seq \in SeqNum /\ s.ack \in SeqNum /\ s.win \in 0..MaxWindow
      /\ s.data \in Payload /\ s.tsval \in SeqNum /\ s.flags \in Flags
  BY DEF Segment, Flags
<1>2. Len(s.data) \in 0..DefaultMSS
  BY <1>1, LenProperties, TcbAssumption DEF Payload
<1>3. segLen(s) \in 0..(DefaultMSS + 2)
  <2> DEFINE b == IF "SYN" \in s.flags THEN 1 ELSE 0
             c == IF "FIN" \in s.flags THEN 1 ELSE 0
  <2>1. b \in 0..1 /\ c \in 0..1 /\ segLen(s) = Len(s.data) + b + c
    BY DEF segLen
  <2> HIDE DEF b, c
  <2> QED BY <1>2, <2>1, TcbAssumption
<1>4. segLen(s) \in 0..SeqSize
  BY <1>3, SmallSeqNums
<1> QED BY <1>1, <1>3, <1>4, SeqAddType

LEMMA NegotiateOptionsKeeps ==
    ASSUME NEW t \in TCB, NEW s \in Segment
    PROVE  Keeps(t, negotiateOptions(t, s)) /\ SameSnd(t, negotiateOptions(t, s))
<1>1. CASE s.opts = "syn"
  <2> DEFINE x == [scaled |-> TRUE, tsOK |-> TRUE, sendMSS |-> DefaultMSS]
             y == [t.ts EXCEPT !.recent = s.tsval]
             u == [t EXCEPT !.opt = x]
  <2>1. x \in OptVars /\ y \in TsVars /\ y.lastAckSent = t.ts.lastAckSent
    BY SegmentParts, TcbParts DEF OptVars, TsVars
  <2>2. negotiateOptions(t, s) = [[t EXCEPT !.opt = x] EXCEPT !.ts = y]
    BY <1>1 DEF negotiateOptions, TCB, TsVars
  <2> HIDE DEF x, y
  <2>3. Keeps(t, u) /\ SameSnd(t, u) /\ u.ts = t.ts
    BY <2>1, OptKeeps DEF TCB
  <2> DEFINE v == [u EXCEPT !.ts = y]
  <2>4. negotiateOptions(t, s) = v
    BY <2>2
  <2> HIDE DEF u
  <2>5. Keeps(u, v) /\ SameSnd(u, v)
    BY <2>1, <2>3, KeepsType, TsKeeps
  <2> HIDE DEF v
  <2> QED BY <2>3, <2>4, <2>5, KeepsTrans, SameSndTrans
<1>2. CASE s.opts # "syn"
  <2> DEFINE x == [t.opt EXCEPT !.sendMSS = DefaultSendMSS]
  <2>1. x \in OptVars
    BY TcbParts DEF OptVars
  <2>2. negotiateOptions(t, s) = [t EXCEPT !.opt = x]
    BY <1>2 DEF negotiateOptions, TCB, OptVars
  <2> HIDE DEF x
  <2> QED BY <2>1, <2>2, OptKeeps
<1> QED BY <1>1, <1>2

\* A window from the wire, scaled or not, fits SND.WND.
LEMMA WindowType ==
    ASSUME NEW w \in 0..MaxWindow
    PROVE  w \in 0..(MaxWindow * WScale) /\ w * WScale \in 0..(MaxWindow * WScale)
<1>1. w \in Nat /\ w <= MaxWindow /\ MaxWindow \in Nat /\ WScale \in Nat /\ WScale >= 1
  BY TcbAssumption
<1>2. /\ w * WScale \in Nat /\ MaxWindow * WScale \in Nat /\ w * WScale <= MaxWindow * WScale
      /\ w <= MaxWindow * WScale
  BY <1>1
<1> QED BY <1>1, <1>2

LEMMA InitSendWindowKeeps ==
    ASSUME NEW t \in TCB, NEW s \in Segment
    PROVE  LET u == initSendWindow(t, s) IN
             /\ Keeps(t, u) /\ u.snd.una = t.snd.una /\ u.snd.nxt = t.snd.nxt
             /\ u.snd.iss = t.snd.iss /\ u.sndBuf = t.sndBuf /\ u.cong = t.cong
             /\ u.tmr = t.tmr /\ u.out = t.out /\ u.retxQueue = t.retxQueue
<1> DEFINE x == [t.snd EXCEPT !.wnd = s.win, !.wl1 = s.seq, !.wl2 = s.ack,
                              !.maxWnd = maxU32(@, s.win)]
<1>1. s.win \in 0..(MaxWindow * WScale)
  BY SegmentParts, WindowType
<1>2. maxU32(t.snd.maxWnd, s.win) \in 0..(MaxWindow * WScale)
  BY <1>1, SndParts DEF maxU32
<1>3. x \in SndVars /\ x.una = t.snd.una /\ x.nxt = t.snd.nxt /\ x.iss = t.snd.iss
  BY <1>1, <1>2, TcbParts, SegmentParts DEF SndVars
<1>4. initSendWindow(t, s) = [t EXCEPT !.snd = x]
  BY DEF initSendWindow, TCB, SndVars
<1> HIDE DEF x
<1> DEFINE u == [t EXCEPT !.snd = x]
<1>5. /\ Keeps(t, u) /\ u.snd = x /\ u.sndBuf = t.sndBuf /\ u.cong = t.cong
      /\ u.tmr = t.tmr /\ u.out = t.out /\ u.retxQueue = t.retxQueue
  BY <1>3, SndKeeps DEF TCB
<1> HIDE DEF u
<1> QED BY <1>3, <1>4, <1>5 DEF u

LEMMA UpdateSendWindowForm ==
    ASSUME NEW t \in TCB, NEW s
    PROVE  LET w == IF t.opt.scaled THEN s.win * WScale ELSE s.win
               x == [t.snd EXCEPT !.maxWnd = maxU32(@, w)]
               y == [x EXCEPT !.wnd = w, !.wl1 = s.seq, !.wl2 = s.ack]
               z == [t.tmr EXCEPT !.persist = IF w > 0 THEN FALSE ELSE @]
           IN  updateSendWindow(t, s) \in {[t EXCEPT !.snd = x], [t EXCEPT !.snd = y, !.tmr = z]}
<1> DEFINE w == IF t.opt.scaled THEN s.win * WScale ELSE s.win
           x == [t.snd EXCEPT !.maxWnd = maxU32(@, w)]
           y == [x EXCEPT !.wnd = w, !.wl1 = s.seq, !.wl2 = s.ack]
           z == [t.tmr EXCEPT !.persist = IF w > 0 THEN FALSE ELSE @]
           u == [t EXCEPT !.snd = x]
           v == [t EXCEPT !.snd = y, !.tmr = z]
           m == [t EXCEPT !.snd.maxWnd = maxU32(@, w)]
           n == [m EXCEPT !.snd.wnd = w, !.snd.wl1 = s.seq, !.snd.wl2 = s.ack,
                          !.tmr.persist = IF w > 0 THEN FALSE ELSE @]
<1> SUFFICES updateSendWindow(t, s) \in {u, v}
  OBVIOUS
<1>1. m = u
  BY DEF TCB, SndVars
<1>2. n = v
  <2>1. u.snd = x /\ u.tmr = t.tmr /\ DOMAIN u = DOMAIN t /\ "snd" \in DOMAIN t /\ "tmr" \in DOMAIN t
    BY DEF TCB
  <2>2. n = [u EXCEPT !.snd.wnd = w, !.snd.wl1 = s.seq, !.snd.wl2 = s.ack,
                      !.tmr.persist = IF w > 0 THEN FALSE ELSE @]
    BY <1>1
  <2> HIDE DEF m, n, u, x
  <2>3. n = [u EXCEPT !.snd = y, !.tmr = z]
    BY <2>1, <2>2
  <2> HIDE DEF y, z
  <2>4. [u EXCEPT !.snd = y, !.tmr = z] = v
    BY DEF u, TCB
  <2> QED BY <2>3, <2>4
<1>3. updateSendWindow(t, s) \in {m, n}
  BY DEF updateSendWindow
<1> HIDE DEF m, n, u, v
<1> QED BY <1>1, <1>2, <1>3

LEMMA UpdateSendWindowKeeps ==
    ASSUME NEW t \in TCB, NEW s \in Segment
    PROVE  Keeps(t, updateSendWindow(t, s))
<1> DEFINE w == IF t.opt.scaled THEN s.win * WScale ELSE s.win
           x == [t.snd EXCEPT !.maxWnd = maxU32(@, w)]
           y == [x EXCEPT !.wnd = w, !.wl1 = s.seq, !.wl2 = s.ack]
           z == [t.tmr EXCEPT !.persist = IF w > 0 THEN FALSE ELSE @]
           u == [t EXCEPT !.snd = x]
           v == [t EXCEPT !.snd = y, !.tmr = z]
<1>1. w \in 0..(MaxWindow * WScale)
  BY SegmentParts, WindowType
<1>2. updateSendWindow(t, s) \in {u, v}
  BY UpdateSendWindowForm
<1> HIDE DEF w
<1>3. maxU32(t.snd.maxWnd, w) \in 0..(MaxWindow * WScale)
  BY <1>1, SndParts DEF maxU32
<1>4. x \in SndVars
  BY <1>3, TcbParts DEF SndVars
<1>5. y \in SndVars
  BY <1>1, <1>4, SegmentParts DEF SndVars
<1>6. z \in TmrVars /\ z.delAck = t.tmr.delAck
  BY TcbParts DEF TmrVars
<1> HIDE DEF x, y, z
<1>7. Keeps(t, u)
  BY <1>4, SndKeeps
<1>8. Keeps(t, v)
  <2>1. SameRcv(t, v) /\ v.ts = t.ts /\ v.tmr = z /\ v.state = t.state /\ v.reached = t.reached
    BY <1>5, <1>6 DEF SameRcv, TCB
  <2>2. NoNewFin(t, v)
    BY DEF NoNewFin, TCB
  <2> HIDE DEF v
  <2> QED BY <1>6, <2>1, <2>2 DEF Keeps, KeepsRcv, SameRcv, Settled
<1> QED BY <1>2, <1>7, <1>8

\* What an acceptable ACK does to the state.
AckStep(t, u) ==
    \/ t.state # "SynReceived" /\ u.state = t.state /\ u.reached = t.reached
    \/ t.state = "SynReceived" /\ u.state = "Established" /\ u.reached
    \/ /\ u.reached = t.reached
       /\ \/ t.state = "FinWait1" /\ u.state = "FinWait2"
          \/ t.state = "Closing" /\ u.state = "TimeWait"
          \/ t.state = "LastAck" /\ u.state = "Closed"

LEMMA AdvanceStateEffect ==
    ASSUME NEW t \in TCB
    PROVE  LET u == advanceStateOnAck(t) IN
             KeepsRcv(t, u) /\ NoNewFin(t, u) /\ AckStep(t, u) /\ SameSnd(t, u)
<1> DEFINE e == [t EXCEPT !.state = "Established", !.reached = TRUE]
           f(st) == [t EXCEPT !.state = st]
<1>1. \A st \in State : /\ KeepsRcv(t, f(st)) /\ NoNewFin(t, f(st)) /\ SameSnd(t, f(st))
                        /\ f(st).state = st /\ f(st).reached = t.reached
  BY StateKeepsRcv
<1>2. KeepsRcv(t, e) /\ NoNewFin(t, e) /\ e.state = "Established" /\ e.reached
  BY DEF KeepsRcv, SameRcv, Settled, NoNewFin, TCB, State
<1>3. SameSnd(t, e)
  BY DEF SameSnd, TCB
<1>4. KeepsRcv(t, t) /\ NoNewFin(t, t) /\ SameSnd(t, t)
  BY KeepsRefl, SameSndRefl DEF Keeps
<1>5. \/ t.state = "SynReceived" /\ advanceStateOnAck(t) = e
      \/ t.state = "FinWait1" /\ advanceStateOnAck(t) = f("FinWait2")
      \/ t.state = "Closing" /\ advanceStateOnAck(t) = f("TimeWait")
      \/ t.state = "LastAck" /\ advanceStateOnAck(t) = f("Closed")
      \/ t.state # "SynReceived" /\ advanceStateOnAck(t) = t
  BY DEF advanceStateOnAck
<1>6. {"FinWait2", "TimeWait", "Closed"} \subseteq State
  BY DEF State
<1> HIDE DEF e, f
<1> QED BY <1>1, <1>2, <1>3, <1>4, <1>5, <1>6 DEF AckStep

LEMMA HandleAckEffect ==
    ASSUME NEW t \in TCB, NEW s \in Segment
    PROVE  LET u == handleAck(t, s) IN KeepsRcv(t, u) /\ NoNewFin(t, u) /\ AckStep(t, u)
<1> DEFINE acked == SeqSub(s.ack, t.snd.una)
           u == [t EXCEPT !.snd.una = s.ack, !.cong = onNewAck(@, acked)]
           r == ackRetxQueue(u, s.ack)
           v == IF advances(t, s) THEN releaseAckedSend(r, acked)
                ELSE IF isDupAck(t, s) THEN onDuplicateAck(t, s)
                ELSE t
           w == updateSendWindow(v, s)
           a == advanceStateOnAck(w)
<1>0. handleAck(t, s) = flushSend(a)
  BY DEF handleAck
<1>1. acked \in Nat
  BY SegmentParts, SndParts, SeqSubType, SeqNumNat
<1>2. Keeps(t, u)
  <2> DEFINE x == [t.snd EXCEPT !.una = s.ack]
             c == onNewAck(t.cong, acked)
  <2>1. x \in SndVars
    BY TcbParts, SegmentParts DEF SndVars
  <2>2. c \in Cong
    BY <1>1, TcbParts, OnNewAckType
  <2>3. u = [t EXCEPT !.snd = x, !.cong = c]
    BY DEF TCB, SndVars
  <2> HIDE DEF x, c
  <2>4. Keeps(t, [t EXCEPT !.snd = x, !.cong = c])
    BY <2>1, <2>2 DEF Keeps, KeepsRcv, SameRcv, Settled, NoNewFin, TCB
  <2> QED BY <2>3, <2>4
<1> HIDE DEF acked, u
<1>3. Keeps(u, r)
  BY <1>2, KeepsType, AckRetxQueueKeeps
<1> HIDE DEF r
<1>4. Keeps(t, releaseAckedSend(r, acked))
  BY <1>1, <1>2, <1>3, KeepsType, KeepsTrans, ReleaseAckedSendKeeps
<1>5. isDupAck(t, s) => Keeps(t, onDuplicateAck(t, s))
  BY OnDuplicateAckKeeps DEF isDupAck
<1>6. Keeps(t, v)
  BY <1>4, <1>5, KeepsRefl
<1> HIDE DEF v
<1>7. Keeps(v, w)
  BY <1>6, KeepsType, UpdateSendWindowKeeps
<1> HIDE DEF w
<1>8. KeepsRcv(w, a) /\ NoNewFin(w, a) /\ AckStep(w, a)
  BY <1>7, KeepsType, AdvanceStateEffect
<1> HIDE DEF a
<1>9. a \in TCB
  BY <1>8 DEF KeepsRcv, SameRcv
<1>10. Keeps(a, flushSend(a))
  BY <1>9, FlushSendKeeps
<1> DEFINE z == flushSend(a)
<1> HIDE DEF z
<1>11. Keeps(t, w) /\ Keeps(a, z)
  BY <1>6, <1>7, <1>10, KeepsTrans DEF z
<1>12. KeepsRcv(t, z)
  BY <1>8, <1>11, KeepsType, KeepsRcvTrans
<1>13. NoNewFin(t, z) /\ AckStep(t, z)
  BY <1>8, <1>11 DEF Keeps, NoNewFin, AckStep
<1> QED BY <1>0, <1>12, <1>13 DEF z

-----------------------------------------------------------------------------
(* Segment arrival.                                                        *)

\* A reply that leaves the connection as it was, but perhaps for Last.ACK.sent.
Replied(t, u) == /\ SameRcv(t, u) /\ SameSnd(t, u) /\ NoNewFin(t, u)
                 /\ u.state = t.state /\ u.reached = t.reached

LEMMA KeepsReplied ==
    ASSUME NEW t, NEW u, Keeps(t, u), SameSnd(t, u)
    PROVE  Replied(t, u)
  BY DEF Replied, Keeps, KeepsRcv

\* A closed connection stays closed.
LEMMA OnSegmentClosedEffect ==
    ASSUME NEW t \in TCB, NEW s \in Segment
    PROVE  Replied(t, onSegmentClosed(t, s))
<1> DEFINE r == sendRst(t, 0)
           ack == SeqAdd(s.seq, segLen(s))
           u == send(r, {"RST", "ACK"}, 0, ack)
<1>1. Replied(t, sendRst(t, s.ack)) /\ Replied(t, r) /\ Replied(t, t)
  BY SendRstKeeps, SegmentParts, SmallSeqNums, KeepsReplied, KeepsRefl, SameSndRefl
<1>2. r \in TCB
  BY <1>1 DEF Replied, SameRcv
<1> HIDE DEF r
<1>3. ack \in SeqNum /\ 0 \in SeqNum
  BY SegmentParts, SmallSeqNums
<1> HIDE DEF ack
<1>4. {"RST", "ACK"} \in Flags /\ "SYN" \notin {"RST", "ACK"} /\ "FIN" \notin {"RST", "ACK"}
  BY DEF Flags
<1>5. Wrote(r, u, {"RST", "ACK"}, ack)
  BY <1>2, <1>3, <1>4, SendEmptyForm
<1> HIDE DEF u
<1>6. Replied(t, u)
  BY <1>1, <1>4, <1>5 DEF Wrote, Replied, SameRcv, SameSnd, NoNewFin
<1> QED BY <1>1, <1>6 DEF onSegmentClosed, u, ack, r

\* A SYN was taken and answered by a SYN-ACK that is queued.
SynTaken(t, u) ==
    /\ u \in TCB /\ u.state = "SynReceived" /\ u.reached = t.reached
    /\ SameBuffers(t, u) /\ u.rcv.wnd = t.rcv.wnd /\ Settled(u) /\ NoNewFin(t, u)
    /\ u.sndBuf = t.sndBuf /\ u.cong = t.cong
    /\ u.tmr.persist = t.tmr.persist /\ u.tmr.override = t.tmr.override
    /\ u.snd.iss = t.snd.iss
    /\ u.retxQueue = Append(t.retxQueue, queueEntry({"SYN", "ACK"}, t.snd.iss, <<>>))

\* sendSyn of a SYN-ACK after the variables were set up in v.
LEMMA SynAckSent ==
    ASSUME NEW t \in TCB, NEW v \in TCB, v.state = "SynReceived", v.reached = t.reached,
           SameBuffers(t, v), v.rcv.wnd = t.rcv.wnd, v.out = t.out, v.retxQueue = t.retxQueue,
           v.sndBuf = t.sndBuf, v.cong = t.cong, v.tmr = t.tmr, v.snd.iss = t.snd.iss
    PROVE  LET u == sendSyn(v, {"SYN", "ACK"}, t.snd.iss, v.rcv.nxt) IN
             SynTaken(t, u) /\ u.snd = v.snd
<1> DEFINE u == sendSyn(v, {"SYN", "ACK"}, t.snd.iss, v.rcv.nxt)
           e == queueEntry({"SYN", "ACK"}, t.snd.iss, <<>>)
<1>1. {"SYN", "ACK"} \in Flags /\ t.snd.iss \in SeqNum /\ v.rcv.nxt \in SeqNum
  BY SndParts, RcvParts DEF Flags
<1>2. Queued(v, u, e, v.rcv.nxt)
  BY <1>1, SendSynForm
<1> HIDE DEF u
<1>3. finsOf(e) = {} /\ "ACK" \in e.flags
  BY DEF finsOf, queueEntry
<1>4. u.retxQueue = Append(t.retxQueue, e)
  BY <1>2 DEF Queued
<1>5. NoNewFin(t, u)
  BY <1>2, <1>3 DEF Queued, NoNewFin
<1>6. Settled(u)
  BY <1>2, <1>3 DEF Queued, Settled, SameRcv
<1>7. SameBuffers(t, u) /\ u.rcv.wnd = t.rcv.wnd /\ u \in TCB
  BY <1>2 DEF Queued, SameRcv, SameBuffers
<1> HIDE DEF e
<1>8. SynTaken(t, u) /\ u.snd = v.snd
  BY <1>2, <1>4, <1>5, <1>6, <1>7 DEF Queued, SynTaken, e
<1> QED BY <1>8 DEF u

LEMMA OnSegmentListenEffect ==
    ASSUME NEW t \in TCB, NEW s \in Segment
    PROVE  LET u == onSegmentListen(t, s) IN
             \/ Replied(t, u)
             \/ SynTaken(t, u) /\ u.snd.una = t.snd.iss /\ u.snd.nxt = SeqAdd(t.snd.iss, 1)
<1> DEFINE x == [t.rcv EXCEPT !.irs = s.seq, !.nxt = SeqAdd(s.seq, 1)]
           y == [t.snd EXCEPT !.una = t.snd.iss, !.nxt = SeqAdd(t.snd.iss, 1)]
           syn == [t EXCEPT !.rcv = x, !.snd = y, !.origin = "passive", !.state = "SynReceived"]
           n == negotiateOptions(syn, s)
           i == initSendWindow(n, s)
           u == sendSyn(i, {"SYN", "ACK"}, t.snd.iss, SeqAdd(s.seq, 1))
<1>1. x \in RcvVars /\ x.wnd = t.rcv.wnd /\ x.nxt = SeqAdd(s.seq, 1)
  BY TcbParts, SegmentParts, NextSeqNum DEF RcvVars
<1>2. /\ y \in SndVars /\ y.una = t.snd.iss /\ y.nxt = SeqAdd(t.snd.iss, 1)
      /\ y.iss = t.snd.iss
  BY TcbParts, SndParts, NextSeqNum DEF SndVars
<1>3. onSegmentListen(t, s) \in {t, sendRst(t, s.ack), u}
  <2>1. syn = [t EXCEPT !.rcv.irs = s.seq, !.rcv.nxt = SeqAdd(s.seq, 1),
                        !.snd.una = t.snd.iss, !.snd.nxt = SeqAdd(t.snd.iss, 1),
                        !.origin = "passive", !.state = "SynReceived"]
    BY DEF TCB, RcvVars, SndVars
  <2> HIDE DEF syn
  <2> QED BY <2>1 DEF onSegmentListen
<1> HIDE DEF x, y
<1>4. /\ syn \in TCB /\ syn.state = "SynReceived" /\ syn.reached = t.reached /\ syn.rcv = x
      /\ SameBuffers(t, syn) /\ syn.out = t.out /\ syn.retxQueue = t.retxQueue
      /\ syn.sndBuf = t.sndBuf /\ syn.cong = t.cong /\ syn.tmr = t.tmr /\ syn.snd = y
  BY <1>1, <1>2 DEF TCB, State, SameBuffers
<1> HIDE DEF syn
<1>5. Keeps(syn, n) /\ SameSnd(syn, n) /\ n.out = syn.out /\ n.tmr = syn.tmr
  BY <1>4, NegotiateOptionsKeeps DEF negotiateOptions, TCB
<1> HIDE DEF n
<1>6. /\ Keeps(n, i) /\ i.snd.una = n.snd.una /\ i.snd.nxt = n.snd.nxt /\ i.snd.iss = n.snd.iss
      /\ i.sndBuf = n.sndBuf /\ i.cong = n.cong /\ i.tmr = n.tmr /\ i.out = n.out
      /\ i.retxQueue = n.retxQueue
  BY <1>5, KeepsType, InitSendWindowKeeps
<1> HIDE DEF i
<1>7. /\ i \in TCB /\ i.state = "SynReceived" /\ i.reached = t.reached /\ SameBuffers(t, i)
      /\ i.rcv = x
  BY <1>4, <1>5, <1>6 DEF Keeps, KeepsRcv, SameRcv, SameBuffers
<1>8. /\ i.out = t.out /\ i.retxQueue = t.retxQueue /\ i.sndBuf = t.sndBuf /\ i.cong = t.cong
      /\ i.tmr = t.tmr /\ i.snd.una = y.una /\ i.snd.nxt = y.nxt /\ i.snd.iss = y.iss
  BY <1>4, <1>5, <1>6 DEF SameSnd
<1>9. u = sendSyn(i, {"SYN", "ACK"}, t.snd.iss, i.rcv.nxt)
  BY <1>1, <1>7
<1>10. SynTaken(t, u) /\ u.snd = i.snd
  BY <1>1, <1>2, <1>7, <1>8, <1>9, SynAckSent
<1>11. Replied(t, t) /\ Replied(t, sendRst(t, s.ack))
  BY SendRstKeeps, SegmentParts, KeepsReplied, KeepsRefl, SameSndRefl
<1> HIDE DEF u
<1> QED BY <1>2, <1>3, <1>8, <1>10, <1>11

\* u has the SYN of t acknowledged by ack.
Answered(t, u, ack) == /\ u.snd.una = ack /\ u.snd.nxt = t.snd.nxt
                       /\ u.sndBuf = t.sndBuf /\ u.cong = t.cong

\* What a segment does in SYN-SENT: nothing, the reset, the SYN-ACK, or a SYN.
LEMMA OnSegmentSynSentEffect ==
    ASSUME NEW t \in TCB, NEW s \in Segment
    PROVE  LET u == onSegmentSynSent(t, s) IN
             \/ Replied(t, u)
             \/ /\ SameRcv(t, u) /\ SameSnd(t, u) /\ NoNewFin(t, u)
                /\ u.state = "Closed" /\ u.reached = t.reached
             \/ /\ u \in TCB /\ u.state = "Established" /\ u.reached /\ Settled(u)
                /\ SameBuffers(t, u) /\ u.rcv.wnd = t.rcv.wnd /\ NoNewFin(t, u)
                /\ "ACK" \in s.flags /\ ~badAck(t, s) /\ Answered(t, u, s.ack)
             \/ SynTaken(t, u) /\ u.snd = t.snd
<1> DEFINE x == [t.rcv EXCEPT !.irs = s.seq, !.nxt = SeqAdd(s.seq, 1)]
           r == [t EXCEPT !.rcv = x]
           syn == negotiateOptions(r, s)
           u == [syn EXCEPT !.snd.una = s.ack]
           q == ackRetxQueue(u, s.ack)
           i == initSendWindow(q, s)
           e == [i EXCEPT !.state = "Established", !.reached = TRUE]
           a == sendAck(e)
           v == [syn EXCEPT !.origin = "active", !.state = "SynReceived"]
           both == sendSyn(v, {"SYN", "ACK"}, t.snd.iss, syn.rcv.nxt)
           c == [t EXCEPT !.state = "Closed"]
<1>1. x \in RcvVars /\ x.wnd = t.rcv.wnd
  BY TcbParts, SegmentParts, NextSeqNum DEF RcvVars
<1>2. \/ onSegmentSynSent(t, s) \in {t, sendRst(t, s.ack), c, both}
      \/ onSegmentSynSent(t, s) = a /\ "ACK" \in s.flags /\ ~badAck(t, s)
  <2>1. [t EXCEPT !.rcv.irs = s.seq, !.rcv.nxt = SeqAdd(s.seq, 1)] = r
    BY DEF TCB, RcvVars
  <2>2. takeSyn(t, s) = syn
    BY <2>1 DEF takeSyn
  <2> HIDE DEF syn
  <2>3. synAckArrives(t, s) = a /\ simultaneousOpen(t, s) = both
    BY <2>2 DEF synAckArrives, simultaneousOpen
  <2> HIDE DEF a, both
  <2> QED BY <2>3 DEF onSegmentSynSent
<1> HIDE DEF x
<1>3. /\ r \in TCB /\ SameBuffers(t, r) /\ r.rcv = x /\ NoNewFin(t, r) /\ SameSnd(t, r)
      /\ r.reached = t.reached /\ r.out = t.out /\ r.tmr = t.tmr
  BY <1>1 DEF TCB, SameBuffers, NoNewFin, SameSnd
<1> HIDE DEF r
<1>4. Keeps(r, syn) /\ SameSnd(r, syn) /\ syn.out = r.out /\ syn.tmr = r.tmr
  BY <1>3, NegotiateOptionsKeeps DEF negotiateOptions, TCB
<1> HIDE DEF syn
<1>s. syn \in TCB
  BY <1>4, KeepsType
<1>5. Keeps(syn, u)
  <2> DEFINE y == [syn.snd EXCEPT !.una = s.ack]
  <2>1. y \in SndVars
    BY <1>s, TcbParts, SegmentParts DEF SndVars
  <2>2. u = [syn EXCEPT !.snd = y]
    BY <1>s DEF TCB, SndVars
  <2> HIDE DEF y
  <2> QED BY <1>s, <2>1, <2>2, SndKeeps
<1>a. Answered(syn, u, s.ack)
  BY <1>s DEF TCB, SndVars, Answered
<1> HIDE DEF u
<1>b. q.snd = u.snd /\ q.sndBuf = u.sndBuf /\ q.cong = u.cong
  BY <1>5 DEF ackRetxQueue, Keeps, KeepsRcv, SameRcv, TCB
<1>6. Keeps(u, q)
  BY <1>5, AckRetxQueueKeeps, KeepsType
<1> HIDE DEF q
<1>7. Keeps(q, i)
  BY <1>6, InitSendWindowKeeps, KeepsType
<1>c. i.snd.una = q.snd.una /\ i.snd.nxt = q.snd.nxt /\ i.sndBuf = q.sndBuf /\ i.cong = q.cong
  BY <1>6, InitSendWindowKeeps, KeepsType
<1> HIDE DEF i
<1>8. Keeps(r, i)
  BY <1>4, <1>5, <1>6, <1>7, KeepsTrans
<1>9. e \in TCB /\ e.state = "Established" /\ e.reached /\ SameBuffers(i, e) /\ e.rcv = i.rcv
      /\ NoNewFin(i, e) /\ e.snd = i.snd /\ e.sndBuf = i.sndBuf /\ e.cong = i.cong
  <2>1. i \in TCB
    BY <1>8, KeepsType
  <2> QED BY <2>1 DEF TCB, State, SameBuffers, NoNewFin
<1> HIDE DEF e
<1>10. Keeps(e, a) /\ Settled(a) /\ SameSnd(e, a)
  BY <1>9, SendAckKeeps
<1> HIDE DEF a
<1>11. /\ a \in TCB /\ a.state = "Established" /\ a.reached /\ Settled(a)
       /\ SameBuffers(t, a) /\ a.rcv.wnd = t.rcv.wnd /\ NoNewFin(t, a)
  BY <1>1, <1>3, <1>8, <1>9, <1>10 DEF Keeps, KeepsRcv, SameRcv, SameBuffers, NoNewFin
<1>d. Answered(t, a, s.ack)
  <2>1. Answered(syn, a, s.ack)
    BY <1>a, <1>b, <1>c, <1>9, <1>10 DEF Answered, SameSnd
  <2> QED BY <1>3, <1>4, <2>1 DEF Answered, SameSnd
<1>12. /\ v \in TCB /\ v.state = "SynReceived" /\ v.reached = syn.reached /\ v.rcv = syn.rcv
       /\ SameBuffers(syn, v) /\ v.out = syn.out /\ SameSnd(syn, v) /\ v.tmr = syn.tmr
  BY <1>s DEF TCB, State, SameBuffers, SameSnd
<1> HIDE DEF v
<1>13. /\ v.reached = t.reached /\ SameBuffers(t, v) /\ v.rcv.wnd = t.rcv.wnd /\ v.out = t.out
       /\ SameSnd(t, v) /\ v.tmr = t.tmr
  BY <1>1, <1>3, <1>4, <1>12 DEF Keeps, KeepsRcv, SameRcv, SameBuffers, SameSnd
<1>14. both = sendSyn(v, {"SYN", "ACK"}, t.snd.iss, v.rcv.nxt)
  BY <1>12
<1>15. SynTaken(t, both) /\ both.snd = t.snd
  BY <1>12, <1>13, <1>14, SynAckSent DEF SameSnd
<1> HIDE DEF both
<1>16. Replied(t, t) /\ Replied(t, sendRst(t, s.ack))
  BY SendRstKeeps, SegmentParts, KeepsReplied, KeepsRefl, SameSndRefl
<1>17. /\ SameRcv(t, c) /\ SameSnd(t, c) /\ NoNewFin(t, c)
       /\ c.state = "Closed" /\ c.reached = t.reached
  BY StateKeepsRcv DEF KeepsRcv, State
<1> HIDE DEF c
<1> QED BY <1>2, <1>11, <1>d, <1>15, <1>16, <1>17

\* A reset in the window ends the connection; SYN-RECEIVED may go back to LISTEN.
LEMMA HandleRstEffect ==
    ASSUME NEW t \in TCB, NEW s
    PROVE  LET u == handleRst(t, s) IN
             /\ KeepsRcv(t, u) /\ NoNewFin(t, u) /\ SameSnd(t, u) /\ u.reached = t.reached
             /\ \/ u.state \in {t.state, "Closed"}
                \/ t.state = "SynReceived" /\ u.state = "Listen"
<1> DEFINE f(st) == [t EXCEPT !.state = st]
<1>1. \A st \in State : /\ KeepsRcv(t, f(st)) /\ NoNewFin(t, f(st)) /\ SameSnd(t, f(st))
                        /\ f(st).state = st /\ f(st).reached = t.reached
  BY StateKeepsRcv
<1>2. /\ Keeps(t, t) /\ SameSnd(t, t)
      /\ Keeps(t, sendChallengeAck(t)) /\ SameSnd(t, sendChallengeAck(t))
  BY KeepsRefl, SameSndRefl, SendChallengeAckKeeps
<1>3. \/ handleRst(t, s) \in {t, sendChallengeAck(t), f("Closed")}
      \/ t.state = "SynReceived" /\ handleRst(t, s) = f("Listen")
  BY DEF handleRst, resetConnection
<1>4. "Closed" \in State /\ "Listen" \in State
  BY DEF State
<1> HIDE DEF f
<1> QED BY <1>1, <1>2, <1>3, <1>4 DEF Keeps

\* u is a well-typed successor of t whose window's right edge is at most k further.
Advances(t, u, k) == u \in TCB /\ EdgeMoves(t, u, k)

LEMMA KeepsRcvAdvances ==
    ASSUME NEW t \in TCB, NEW u, KeepsRcv(t, u), NEW k \in Nat
    PROVE  Advances(t, u, k)
  BY EdgeStays DEF KeepsRcv, SameRcv, Advances

\* Distances up to the buffer and one FIN.
LEMMA BuffAndFin ==
    /\ RcvBuff \in Nat /\ RcvBuff + 1 \in Nat
    /\ 0 + (RcvBuff + 1) \in SeqNum /\ RcvBuff + 1 \in SeqNum /\ 0 + (RcvBuff + 1) = RcvBuff + 1
  BY TcbAssumption, HalfSeqSpaceAssumption DEF SeqNum, SeqSize

\* What a FIN does to the state.
FinStep(a, b) == \/ b = a
                 \/ a \in {"Established", "SynReceived"} /\ b = "CloseWait"
                 \/ a = "FinWait1" /\ b \in {"TimeWait", "Closing"}
                 \/ a = "FinWait2" /\ b = "TimeWait"

\* A FIN takes one number, leaves the window as wide as it was and is acknowledged.
LEMMA HandleFinEffect ==
    ASSUME NEW t \in TCB
    PROVE  LET u == handleFin(t) IN
             /\ u \in TCB /\ u.rcv.nxt = SeqAdd(t.rcv.nxt, 1) /\ u.rcv.wnd = t.rcv.wnd
             /\ u.rcv.irs = t.rcv.irs /\ u.fin = [seen |-> TRUE, seq |-> t.rcv.nxt]
             /\ u.rcvBuf = t.rcvBuf /\ u.oooSegs = t.oooSegs
             /\ Settled(u) /\ SameSnd(t, u) /\ NoNewFin(t, u) /\ u.reached = t.reached
             /\ FinStep(t.state, u.state)
<1> DEFINE f == [seen |-> TRUE, seq |-> t.rcv.nxt]
           x == [t.rcv EXCEPT !.nxt = SeqAdd(@, 1)]
           u == [t EXCEPT !.fin = f, !.rcv = x]
           a == sendAck(u)
           st == CASE t.state \in {"Established", "SynReceived"} -> "CloseWait"
                   [] t.state = "FinWait1" -> IF finAcked(t) THEN "TimeWait" ELSE "Closing"
                   [] t.state = "FinWait2" -> "TimeWait"
                   [] OTHER -> t.state
<1>1. f \in FinVars
  BY RcvParts DEF FinVars
<1>2. x \in RcvVars /\ x.nxt = SeqAdd(t.rcv.nxt, 1) /\ x.wnd = t.rcv.wnd /\ x.irs = t.rcv.irs
  BY TcbParts, RcvParts, NextSeqNum DEF RcvVars
<1>3. handleFin(t) = [a EXCEPT !.state = st]
  <2>1. [t EXCEPT !.fin = f, !.rcv.nxt = SeqAdd(@, 1)] = u
    BY DEF TCB, RcvVars
  <2> HIDE DEF u
  <2> QED BY <2>1 DEF handleFin
<1>4. st \in State
  <2>1. t.state \in State
    BY TcbParts
  <2> QED BY <2>1 DEF State
<1> HIDE DEF f, x, st
<1>f. st \in State /\ FinStep(t.state, st)
  BY <1>4 DEF st, FinStep
<1>5. /\ u \in TCB /\ u.rcv = x /\ u.fin = f /\ u.rcvBuf = t.rcvBuf /\ u.oooSegs = t.oooSegs
      /\ u.state = t.state /\ u.reached = t.reached /\ SameSnd(t, u) /\ NoNewFin(t, u)
  BY <1>1, <1>2 DEF TCB, SameSnd, NoNewFin
<1> HIDE DEF u
<1>6. Keeps(u, a) /\ Settled(a) /\ SameSnd(u, a)
  BY <1>5, SendAckKeeps
<1> HIDE DEF a
<1>7. a \in TCB
  BY <1>6, KeepsType
<1> DEFINE z == [a EXCEPT !.state = st]
<1>8. /\ KeepsRcv(a, z) /\ NoNewFin(a, z) /\ SameSnd(a, z) /\ z.state = st
      /\ z.reached = a.reached
  BY <1>f, <1>7, StateKeepsRcv
<1> HIDE DEF z
<1>9. /\ z \in TCB /\ z.rcv = x /\ z.fin = f /\ z.rcvBuf = t.rcvBuf /\ z.oooSegs = t.oooSegs
      /\ Settled(z) /\ z.reached = t.reached
  BY <1>5, <1>6, <1>8 DEF Keeps, KeepsRcv, SameRcv
<1>10. SameSnd(t, z) /\ NoNewFin(t, z)
  BY <1>5, <1>6, <1>8, SameSndTrans DEF Keeps, NoNewFin
<1> QED BY <1>2, <1>3, <1>8, <1>9, <1>10, <1>f DEF f, z

LEMMA HandleFinEdge ==
    ASSUME NEW t \in TCB
    PROVE  Advances(t, handleFin(t), 1)
<1> DEFINE w == t.rcv.wnd
<1>7. /\ handleFin(t) \in TCB /\ handleFin(t).rcv.nxt = SeqAdd(t.rcv.nxt, 1)
      /\ handleFin(t).rcv.wnd = w
  BY HandleFinEffect
<1>8. w \in Nat /\ 1 \in Nat /\ w + 1 \in SeqNum /\ 1 + w \in SeqNum /\ w + 1 = 1 + w
  BY RcvParts, TcbAssumption, HalfSeqSpaceAssumption DEF SeqNum, SeqSize
<1>9. SeqAdd(SeqAdd(t.rcv.nxt, 1), w) = SeqAdd(SeqAdd(t.rcv.nxt, w), 1)
  <2> HIDE DEF w
  <2>1. SeqAdd(SeqAdd(t.rcv.nxt, 1), w) = SeqAdd(t.rcv.nxt, 1 + w)
    BY <1>8, RcvParts, SeqAddAdd
  <2>2. SeqAdd(SeqAdd(t.rcv.nxt, w), 1) = SeqAdd(t.rcv.nxt, w + 1)
    BY <1>8, RcvParts, SeqAddAdd
  <2> QED BY <1>8, <2>1, <2>2
<1>10. Edge(handleFin(t)) = SeqAdd(Edge(t), 1)
  BY <1>7, <1>9 DEF Edge
<1> QED BY <1>7, <1>10 DEF Advances, EdgeMoves

LEMMA ProcessTextEdge ==
    ASSUME NEW t \in TCB, NEW s \in Segment
    PROVE  Advances(t, processText(t, s), RcvBuff)
<1>1. Advances(t, t, RcvBuff)
  BY BuffAndFin, EdgeStays DEF Advances
<1>2. Advances(t, acceptText(t, s), RcvBuff)
  BY SegmentParts, AcceptTextEdge DEF Advances
<1> QED BY <1>1, <1>2 DEF processText

LEMMA ProcessFinEdge ==
    ASSUME NEW t \in TCB, NEW s
    PROVE  Advances(t, processFin(t, s), 1)
<1>1. Advances(t, t, 1)
  BY EdgeStays DEF Advances
<1> QED BY <1>1, HandleFinEdge DEF processFin

LEMMA ProcessAckEdge ==
    ASSUME NEW t \in TCB, NEW s \in Segment
    PROVE  Advances(t, processAck(t, s), RcvBuff + 1)
<1> DEFINE h == handleAck(t, s)
           x == processText(h, s)
           f == processFin(x, s)
<1>0. processAck(t, s) \in {t, sendRst(t, s.ack), sendChallengeAck(t), f}
  BY DEF processAck, refuseAck
<1>1. KeepsRcv(t, t) /\ KeepsRcv(t, sendRst(t, s.ack)) /\ KeepsRcv(t, sendChallengeAck(t))
  BY KeepsRefl, SendRstKeeps, SendChallengeAckKeeps, SegmentParts, KeepsType
<1>2. KeepsRcv(t, h)
  BY HandleAckEffect
<1>h. h \in TCB /\ EdgeMoves(t, h, 0)
  BY <1>2, KeepsRcvAdvances DEF Advances
<1> HIDE DEF h
<1>3. x \in TCB /\ EdgeMoves(h, x, RcvBuff)
  BY <1>h, ProcessTextEdge DEF Advances
<1> HIDE DEF x
<1>4. f \in TCB /\ EdgeMoves(x, f, 1)
  BY <1>3, ProcessFinEdge DEF Advances
<1> HIDE DEF f
<1>5. EdgeMoves(h, f, RcvBuff + 1)
  BY <1>h, <1>3, <1>4, BuffAndFin, EdgeTrans
<1>6. EdgeMoves(t, f, 0 + (RcvBuff + 1))
  BY <1>h, <1>4, <1>5, BuffAndFin, EdgeTrans
<1>7. Advances(t, f, RcvBuff + 1)
  BY <1>4, <1>6, BuffAndFin DEF Advances
<1> QED BY <1>0, <1>1, <1>7, BuffAndFin, KeepsRcvAdvances

LEMMA TsRecentUpdateKeeps ==
    ASSUME NEW t \in TCB, NEW s \in Segment
    PROVE  Keeps(t, tsRecentUpdate(t, s)) /\ SameSnd(t, tsRecentUpdate(t, s))
<1> DEFINE x == [t.ts EXCEPT !.recent = s.tsval]
<1>1. x \in TsVars /\ x.lastAckSent = t.ts.lastAckSent
  BY TcbParts, SegmentParts DEF TsVars
<1>2. tsRecentUpdate(t, s) \in {t, [t EXCEPT !.ts = x]}
  BY DEF tsRecentUpdate, TCB, TsVars
<1> HIDE DEF x
<1> QED BY <1>1, <1>2, TsKeeps, KeepsRefl, SameSndRefl

LEMMA OnSegmentSynchronizedEdge ==
    ASSUME NEW t \in TCB, NEW s \in Segment
    PROVE  Advances(t, onSegmentSynchronized(t, s), RcvBuff + 1)
<1> DEFINE u == tsRecentUpdate(t, s)
           v == processAck(u, s)
<1>0. onSegmentSynchronized(t, s) \in {sendAck(t), handleRst(t, s), sendChallengeAck(t), v}
  BY DEF onSegmentSynchronized
<1>1. KeepsRcv(t, sendAck(t)) /\ KeepsRcv(t, handleRst(t, s)) /\ KeepsRcv(t, sendChallengeAck(t))
  BY SendAckKeeps, HandleRstEffect, SendChallengeAckKeeps, KeepsType
<1>2. KeepsRcv(t, u)
  BY TsRecentUpdateKeeps, KeepsType
<1>u. u \in TCB /\ EdgeMoves(t, u, 0)
  BY <1>2, KeepsRcvAdvances DEF Advances
<1> HIDE DEF u
<1>3. v \in TCB /\ EdgeMoves(u, v, RcvBuff + 1)
  BY <1>u, ProcessAckEdge DEF Advances
<1> HIDE DEF v
<1>4. EdgeMoves(t, v, 0 + (RcvBuff + 1))
  BY <1>u, <1>3, BuffAndFin, EdgeTrans
<1>5. Advances(t, v, RcvBuff + 1)
  BY <1>3, <1>4, BuffAndFin DEF Advances
<1> QED BY <1>0, <1>1, <1>5, BuffAndFin, KeepsRcvAdvances

\* The whole of onSegment: well typed, closed connections stay closed, and in a
\* synchronized state the right edge moves right if it moves.
LEMMA OnSegmentEffect ==
    ASSUME NEW t \in TCB, NEW s \in Segment
    PROVE  LET u == onSegment(t, s) IN
             /\ u \in TCB
             /\ t.state = "Closed" => u.state = "Closed"
             /\ synchronized(t.state) => SeqLEQ(Edge(t), Edge(u))
<1> DEFINE k == [t EXCEPT !.keepaliveProbes = 0]
<1>1. k \in TCB /\ k.state = t.state /\ k.rcv = t.rcv /\ Edge(k) = Edge(t)
  <2>1. 0 \in 0..KeepaliveMaxProbes
    BY TcbAssumption
  <2>2. k \in TCB /\ k.state = t.state /\ k.rcv = t.rcv
    BY <2>1 DEF TCB
  <2> QED BY <2>2 DEF Edge
<1>2. onSegment(t, s) = CASE k.state = "Closed" -> onSegmentClosed(k, s)
                          [] k.state = "Listen" -> onSegmentListen(k, s)
                          [] k.state = "SynSent" -> onSegmentSynSent(k, s)
                          [] OTHER -> onSegmentSynchronized(k, s)
  BY DEF onSegment
<1> HIDE DEF k
<1>3. CASE t.state = "Closed"
  <2>1. Replied(k, onSegmentClosed(k, s)) /\ onSegment(t, s) = onSegmentClosed(k, s)
    BY <1>1, <1>2, <1>3, OnSegmentClosedEffect
  <2> QED BY <1>1, <1>3, <2>1 DEF Replied, SameRcv, synchronized
<1>4. CASE t.state = "Listen"
  <2>1. onSegment(t, s) = onSegmentListen(k, s)
    BY <1>1, <1>2, <1>4
  <2> QED BY <1>1, <1>4, <2>1, OnSegmentListenEffect DEF synchronized, Replied, SynTaken, SameRcv
<1>5. CASE t.state = "SynSent"
  <2>1. onSegment(t, s) = onSegmentSynSent(k, s)
    BY <1>1, <1>2, <1>5
  <2> QED BY <1>1, <1>5, <2>1, OnSegmentSynSentEffect DEF synchronized, Replied, SynTaken, SameRcv
<1>6. CASE t.state \notin {"Closed", "Listen", "SynSent"}
  <2>1. onSegment(t, s) = onSegmentSynchronized(k, s)
    BY <1>1, <1>2, <1>6
  <2>2. Advances(k, onSegment(t, s), RcvBuff + 1)
    BY <1>1, <2>1, OnSegmentSynchronizedEdge
  <2>3. onSegment(t, s) \in TCB /\ SeqLEQ(Edge(k), Edge(onSegment(t, s)))
    BY <1>1, <2>2, EdgeOrder DEF Advances
  <2> QED BY <1>1, <1>6, <2>3
<1> QED BY <1>3, <1>4, <1>5, <1>6

-----------------------------------------------------------------------------
(* Segment arrival: the receive buffer, the acknowledgements owed, the FIN *)
(* and the state.                                                          *)

\* An acceptable segment with text has its first or its last number in the window.
LEMMA AcceptableText ==
    ASSUME NEW t \in TCB, NEW s \in Segment, acceptable(t, s), s.data # <<>>
    PROVE  /\ t.rcv.wnd > 0
           /\ \E extra \in 0..2 :
                LET q == SeqAdd(s.seq, Len(s.data) + extra - 1)
                    right == SeqAdd(t.rcv.nxt, t.rcv.wnd)
                IN \/ SeqLEQ(t.rcv.nxt, s.seq) /\ SeqLT(s.seq, right)
                   \/ SeqLEQ(t.rcv.nxt, q) /\ SeqLT(q, right)
<1> DEFINE b == IF "SYN" \in s.flags THEN 1 ELSE 0
           c == IF "FIN" \in s.flags THEN 1 ELSE 0
<1>1. s.data \in Seq(Nat)
  BY SegmentParts DEF Payload
<1>2. Len(s.data) \in Nat \ {0}
  BY <1>1, LenProperties, EmptySeq
<1>3. b \in 0..1 /\ c \in 0..1 /\ segLen(s) = Len(s.data) + b + c
  BY DEF segLen
<1> HIDE DEF b, c
<1> DEFINE extra == b + c
<1>a. segLen(s) = Len(s.data) + extra /\ extra \in 0..2
  <2> DEFINE len == Len(s.data)
  <2>1. len \in Nat /\ segLen(s) = len + b + c
    BY <1>2, <1>3
  <2> HIDE DEF len
  <2>2. len + b + c = len + extra /\ extra \in 0..2
    BY ONLY <1>3, <2>1
  <2> QED BY <2>1, <2>2 DEF len
<1> HIDE DEF extra
<1>4. segLen(s) # 0 /\ segLen(s) - 1 = Len(s.data) + extra - 1
  BY <1>2, <1>a
<1>5. /\ t.rcv.wnd > 0
      /\ inWindow(t, s.seq) \/ inWindow(t, SeqAdd(s.seq, Len(s.data) + extra - 1))
  BY <1>4 DEF acceptable
<1>6. t.rcv.wnd # 0
  BY <1>5, RcvParts
<1> QED BY <1>5, <1>6, <1>a DEF inWindow

LEMMA AcceptTextInv ==
    ASSUME NEW t \in TCB, NEW s \in Segment, RcvInv(t), acceptable(t, s), s.data # <<>>
    PROVE  LET u == acceptText(t, s) IN
             /\ u \in TCB /\ RcvInv(u) /\ Settled(u) /\ SameSnd(t, u) /\ NoNewFin(t, u)
             /\ u.fin = t.fin /\ u.state = t.state /\ u.reached = t.reached
<1> DEFINE f == trimToWindow(t, s)
           u == acceptText(t, s)
<1>1. s.seq \in SeqNum /\ s.data \in Payload
  BY SegmentParts
<1>2. /\ Settled(u) /\ SameSnd(t, u) /\ u.reached = t.reached /\ NoNewFin(t, u)
      /\ \/ f.data = <<>> /\ Keeps(t, u)
         \/ /\ f.data # <<>> /\ f.seq = t.rcv.nxt /\ Len(f.data) <= t.rcv.wnd
            /\ \E n \in 0..RcvBuff : TextTaken(t, u, Len(f.data), n)
         \/ /\ f.data # <<>> /\ f.seq # t.rcv.nxt
            /\ u \in TCB /\ u.rcv = t.rcv /\ u.fin = t.fin /\ u.rcvBuf = t.rcvBuf
            /\ u.state = t.state /\ u.oooSegs \subseteq t.oooSegs \cup {f}
  BY <1>1, AcceptTextEffect
<1>3. f.data # <<>> /\ f.seq # t.rcv.nxt => FragmentFits(t.rcv.nxt, t.rcv.wnd, f)
  BY <1>1, AcceptableText, TrimFits
<1>4. f \in Fragment
  BY <1>1, TrimType
<1> HIDE DEF u, f
<1>5. CASE f.data = <<>> /\ Keeps(t, u)
  BY <1>2, <1>5, SameRcvInv DEF Keeps, KeepsRcv, SameRcv, u
<1>6. CASE /\ f.data # <<>> /\ f.seq = t.rcv.nxt /\ Len(f.data) <= t.rcv.wnd
           /\ \E n \in 0..RcvBuff : TextTaken(t, u, Len(f.data), n)
  <2>1. PICK n \in 0..RcvBuff : TextTaken(t, u, Len(f.data), n)
    BY <1>6
  <2>2. Len(f.data) \in Nat
    BY <1>4, FragmentParts
  <2>3. RcvInv(u)
    BY <1>6, <2>1, <2>2, TextTakenInv
  <2> QED BY <1>2, <2>1, <2>3 DEF TextTaken, u
<1>7. CASE /\ f.data # <<>> /\ f.seq # t.rcv.nxt
           /\ u \in TCB /\ u.rcv = t.rcv /\ u.fin = t.fin /\ u.rcvBuf = t.rcvBuf
           /\ u.state = t.state /\ u.oooSegs \subseteq t.oooSegs \cup {f}
  <2>1. RcvOK(u)
    BY <1>3, <1>7 DEF RcvInv, RcvOK
  <2>2. \A g \in u.oooSegs : g.data # <<>>
    BY <1>7 DEF RcvInv
  <2>3. Ahead(u) \/ AfterFin(u)
    BY <1>7 DEF RcvInv, Ahead, AfterFin
  <2> QED BY <1>2, <1>7, <2>1, <2>2, <2>3 DEF RcvInv, u
<1> QED BY <1>2, <1>5, <1>6, <1>7

\* What lay in the window beyond the FIN still does once the FIN is taken.
LEMMA FinFitsArithmetic ==
    ASSUME NEW nxt \in SeqNum, NEW seq \in SeqNum, NEW wnd \in 0..RcvBuff, NEW len \in Nat,
           SeqSub(seq, nxt) + len <= wnd, seq # nxt
    PROVE  SeqSub(seq, SeqAdd(nxt, 1)) + len <= wnd
  BY HalfSeqSpaceAssumption, TcbAssumption DEF SeqAdd, SeqSub, SeqNum, SeqSize

LEMMA HandleFinInv ==
    ASSUME NEW t \in TCB, RcvInv(t), Ahead(t)
    PROVE  RcvInv(handleFin(t))
<1> DEFINE u == handleFin(t)
<1>1. /\ u \in TCB /\ u.rcv.nxt = SeqAdd(t.rcv.nxt, 1) /\ u.rcv.wnd = t.rcv.wnd
      /\ u.fin = [seen |-> TRUE, seq |-> t.rcv.nxt]
      /\ u.rcvBuf = t.rcvBuf /\ u.oooSegs = t.oooSegs
  BY HandleFinEffect
<1> HIDE DEF u
<1>2. ASSUME NEW f \in t.oooSegs PROVE FragmentFits(u.rcv.nxt, u.rcv.wnd, f)
  <2>1. f.seq \in SeqNum /\ Len(f.data) \in Nat
    BY TcbParts, FragmentParts
  <2>2. FragmentFits(t.rcv.nxt, t.rcv.wnd, f) /\ f.seq # t.rcv.nxt
    BY DEF RcvInv, RcvOK, Ahead
  <2> QED BY <1>1, <2>1, <2>2, RcvParts, FinFitsArithmetic DEF FragmentFits
<1>3. AfterFin(u)
  BY <1>1 DEF AfterFin
<1>4. RcvInv(u)
  BY <1>1, <1>2, <1>3 DEF RcvInv, RcvOK
<1> QED BY <1>4 DEF u

\* A number and the one after it differ.
LEMMA NextDiffers ==
    ASSUME NEW a \in SeqNum
    PROVE  SeqAdd(a, 1) # a
  BY HalfSeqSpaceAssumption DEF SeqAdd, SeqNum, SeqSize

\* What a segment does to the state of a connection past SYN-SENT.
SegStep(t, u) ==
    \/ u.state \in {t.state, "Closed"} /\ u.reached = t.reached
    \/ t.state = "SynReceived" /\ u.state = "Listen" /\ u.reached = t.reached
    \/ t.state = "SynReceived" /\ u.state \in {"Established", "CloseWait"} /\ u.reached
    \/ /\ u.reached = t.reached
       /\ \/ t.state = "Established" /\ u.state = "CloseWait"
          \/ t.state = "FinWait1" /\ u.state \in {"FinWait2", "TimeWait", "Closing"}
          \/ t.state \in {"FinWait2", "Closing"} /\ u.state = "TimeWait"

\* The whole effect.  A FIN is taken only where its number is RCV.NXT.
SegEffect(t, u, s) ==
    /\ u \in TCB /\ RcvInv(u) /\ Settled(u) /\ NoNewFin(t, u) /\ SegStep(t, u)
    /\ u.fin = t.fin \/ ("FIN" \in s.flags /\ u.fin = [seen |-> TRUE, seq |-> finNum(s)])
    /\ u.state \in {"SynReceived", "Listen"} => SameSnd(t, u) /\ SameRcv(t, u)

\* An answer that leaves the connection alone.
LEMMA KeepsEffect ==
    ASSUME NEW t, NEW u, NEW s, RcvInv(t), Settled(t), Keeps(t, u), SameSnd(t, u)
    PROVE  SegEffect(t, u, s)
<1>1. RcvInv(u)
  BY SameRcvInv DEF Keeps, KeepsRcv
<1> QED BY <1>1 DEF SegEffect, Keeps, KeepsRcv, SameRcv, SegStep

\* The FIN a peer sends has one number, whichever segment carries it.
SameFin(t, s) == "FIN" \in s.flags /\ t.fin.seen => t.fin.seq = finNum(s)

LEMMA ProcessAckEffect ==
    ASSUME NEW t \in TCB, NEW s \in Segment, RcvInv(t), Settled(t), acceptable(t, s),
           SameFin(t, s), t.state \notin {"Closed", "Listen", "SynSent"}
    PROVE  SegEffect(t, processAck(t, s), s)
<1> DEFINE h == handleAck(t, s)
           x == processText(h, s)
           f == processFin(x, s)
<1>0. processAck(t, s) \in {t, sendRst(t, s.ack), sendChallengeAck(t), f}
  BY DEF processAck, refuseAck
<1>1. /\ SegEffect(t, t, s) /\ SegEffect(t, sendRst(t, s.ack), s)
      /\ SegEffect(t, sendChallengeAck(t), s)
  BY KeepsRefl, SameSndRefl, SendRstKeeps, SendChallengeAckKeeps, SegmentParts, KeepsEffect
<1>2. KeepsRcv(t, h) /\ NoNewFin(t, h) /\ AckStep(t, h)
  BY HandleAckEffect
<1> HIDE DEF h
<1>3. h \in TCB /\ h.rcv = t.rcv /\ h.fin = t.fin /\ RcvInv(h) /\ Settled(h)
  BY <1>2, SameRcvInv DEF KeepsRcv, SameRcv
<1>4. acceptable(h, s)
  BY <1>3 DEF acceptable, inWindow
<1>5. /\ x \in TCB /\ RcvInv(x) /\ Settled(x) /\ NoNewFin(h, x)
      /\ x.fin = h.fin /\ x.state = h.state /\ x.reached = h.reached
  <2>1. CASE s.data = <<>>
    BY <1>3, <2>1 DEF processText, NoNewFin
  <2>2. CASE s.data # <<>>
    BY <1>3, <1>4, <2>2, AcceptTextInv DEF processText
  <2> QED BY <2>1, <2>2
<1> HIDE DEF x
<1>6. /\ f \in TCB /\ RcvInv(f) /\ Settled(f) /\ NoNewFin(x, f) /\ f.reached = x.reached
      /\ FinStep(x.state, f.state)
      /\ f.fin = x.fin \/ ("FIN" \in s.flags /\ f.fin = [seen |-> TRUE, seq |-> finNum(s)])
  <2>1. CASE ~("FIN" \in s.flags /\ finNum(s) = x.rcv.nxt)
    BY <1>5, <2>1 DEF processFin, finNum, NoNewFin, FinStep
  <2>2. CASE "FIN" \in s.flags /\ finNum(s) = x.rcv.nxt
    <3>1. Ahead(x)
      <4>1. ~AfterFin(x)
        <5> SUFFICES ASSUME AfterFin(x) PROVE FALSE
          OBVIOUS
        <5>1. x.fin.seq = finNum(s) /\ x.rcv.nxt = SeqAdd(x.fin.seq, 1)
          BY <1>3, <1>5, <2>2 DEF AfterFin, SameFin
        <5>2. x.rcv.nxt \in SeqNum
          BY <1>5, RcvParts
        <5> QED BY <2>2, <5>1, <5>2, NextDiffers
      <4> QED BY <1>5, <4>1 DEF RcvInv
    <3>2. f = handleFin(x)
      BY <2>2 DEF processFin, finNum
    <3> HIDE DEF f
    <3> QED BY <1>5, <2>2, <3>1, <3>2, HandleFinInv, HandleFinEffect
  <2> QED BY <2>1, <2>2
<1> HIDE DEF f
<1>7. NoNewFin(t, f)
  BY <1>2, <1>5, <1>6 DEF NoNewFin
<1>8. SegStep(t, f) /\ f.state \notin {"SynReceived", "Listen"}
  BY <1>2, <1>5, <1>6 DEF AckStep, FinStep, SegStep
<1> QED BY <1>0, <1>1, <1>3, <1>5, <1>6, <1>7, <1>8 DEF SegEffect

LEMMA SynchronizedEffect ==
    ASSUME NEW t \in TCB, NEW s \in Segment, RcvInv(t), Settled(t), SameFin(t, s),
           t.state \notin {"Closed", "Listen", "SynSent"}
    PROVE  SegEffect(t, onSegmentSynchronized(t, s), s)
<1> DEFINE u == tsRecentUpdate(t, s)
           v == processAck(u, s)
           r == handleRst(t, s)
<1>0. \/ onSegmentSynchronized(t, s) \in {sendAck(t), r, sendChallengeAck(t)}
      \/ acceptable(t, s) /\ onSegmentSynchronized(t, s) = v
  BY DEF onSegmentSynchronized
<1>1. SegEffect(t, sendAck(t), s) /\ SegEffect(t, sendChallengeAck(t), s)
  BY SendAckKeeps, SendChallengeAckKeeps, KeepsEffect
<1>2. SegEffect(t, r, s)
  <2>1. /\ KeepsRcv(t, r) /\ NoNewFin(t, r) /\ SameSnd(t, r) /\ r.reached = t.reached
        /\ \/ r.state \in {t.state, "Closed"}
           \/ t.state = "SynReceived" /\ r.state = "Listen"
    BY HandleRstEffect
  <2> HIDE DEF r
  <2> QED BY <2>1, SameRcvInv DEF KeepsRcv, SameRcv, SegEffect, SegStep
<1>3. CASE acceptable(t, s) /\ onSegmentSynchronized(t, s) = v
  <2>1. Keeps(t, u) /\ SameSnd(t, u)
    BY TsRecentUpdateKeeps
  <2> HIDE DEF u
  <2>2. /\ u \in TCB /\ u.rcv = t.rcv /\ u.fin = t.fin /\ u.state = t.state /\ u.reached = t.reached
        /\ RcvInv(u) /\ Settled(u) /\ NoNewFin(t, u) /\ SameRcv(t, u)
    BY <2>1, SameRcvInv DEF Keeps, KeepsRcv, SameRcv
  <2>3. acceptable(u, s) /\ SameFin(u, s)
    BY <1>3, <2>2 DEF acceptable, inWindow, SameFin
  <2>4. SegEffect(u, v, s)
    BY <2>2, <2>3, ProcessAckEffect
  <2> HIDE DEF v
  <2>5. NoNewFin(t, v) /\ SegStep(t, v)
    BY <2>2, <2>4 DEF SegEffect, NoNewFin, SegStep
  <2>6. v.state \in {"SynReceived", "Listen"} => SameSnd(t, v) /\ SameRcv(t, v)
    BY <2>1, <2>2, <2>4, SameSndTrans DEF SegEffect, SameRcv
  <2>7. SegEffect(t, v, s)
    BY <2>2, <2>4, <2>5, <2>6 DEF SegEffect
  <2> QED BY <1>3, <2>7
<1> HIDE DEF r, v
<1> QED BY <1>0, <1>1, <1>2, <1>3

-----------------------------------------------------------------------------
(* Sending: what is in flight can be resent.                               *)

\* Entry e of the queue has the number x, and the queue has every number from
\* una to nxt.
covers(e, x) == SeqSub(x, e.seq) < segLen(e)
Covered(una, nxt, q) ==
    \A j \in 0..(SeqSub(nxt, una) - 1) : \E i \in 1..Len(q) : covers(q[i], SeqAdd(una, j))

LEMMA FlightGrows ==
    ASSUME NEW una \in SeqNum, NEW nxt \in SeqNum, NEW n \in Nat, SeqSub(nxt, una) + n < SeqSize
    PROVE  /\ SeqSub(SeqAdd(nxt, n), una) = SeqSub(nxt, una) + n
           /\ SeqSub(nxt, una) \in Nat /\ SeqAdd(nxt, n) \in SeqNum
           /\ \A j \in 0..n : SeqAdd(una, SeqSub(nxt, una) + j) = SeqAdd(nxt, j)
  BY HalfSeqSpaceAssumption DEF SeqSub, SeqAdd, SeqNum, SeqSize

\* An ACK for something in flight.
LEMMA AckShrinks ==
    ASSUME NEW una \in SeqNum, NEW ack \in SeqNum, NEW nxt \in SeqNum,
           SeqSub(nxt, una) < HalfSeqSpace, AcceptableAck(una, ack, nxt)
    PROVE  /\ SeqSub(ack, una) \in Nat \ {0} /\ SeqSub(nxt, una) \in Nat
           /\ SeqSub(nxt, ack) = SeqSub(nxt, una) - SeqSub(ack, una) /\ SeqSub(nxt, ack) \in Nat
           /\ \A j \in Nat : SeqSub(ack, una) + j < SeqSize
                => SeqAdd(una, SeqSub(ack, una) + j) = SeqAdd(ack, j)
  BY HalfSeqSpaceAssumption DEF AcceptableAck, SeqLT, SeqLEQ, SeqSub, SeqAdd, SeqNum, SeqSize

\* What ends before ack has no number at or after ack.
LEMMA EndedBefore ==
    ASSUME NEW seq \in SeqNum, NEW ack \in SeqNum, NEW len \in Nat, NEW j \in Nat,
           j + len <= HalfSeqSpace, SeqLEQ(SeqAdd(seq, len), ack)
    PROVE  ~(SeqSub(SeqAdd(ack, j), seq) < len)
  BY HalfSeqSpaceAssumption DEF SeqLT, SeqLEQ, SeqSub, SeqAdd, SeqNum, SeqSize

LEMMA RetxParts ==
    ASSUME NEW e \in RetxSeg
    PROVE  /\ e.seq \in SeqNum /\ e.data \in Payload /\ e.flags \in Flags
           /\ segLen(e) \in 0..(DefaultMSS + 2)
<1>1. e.seq \in SeqNum /\ e.data \in Payload /\ e.flags \in Flags
  BY DEF RetxSeg, Flags
<1>2. Len(e.data) \in 0..DefaultMSS
  BY <1>1, LenProperties, TcbAssumption DEF Payload
<1> DEFINE b == IF "SYN" \in e.flags THEN 1 ELSE 0
           c == IF "FIN" \in e.flags THEN 1 ELSE 0
<1>3. b \in 0..1 /\ c \in 0..1 /\ segLen(e) = Len(e.data) + b + c
  BY DEF segLen
<1> HIDE DEF b, c
<1>4. segLen(e) \in 0..(DefaultMSS + 2)
  BY <1>2, <1>3, TcbAssumption
<1> QED BY <1>1, <1>4

\* Every entry of q is one of r.
Contains(r, q) == \A i \in 1..Len(q) : \E l \in 1..Len(r) : r[l] = q[i]

LEMMA CoverMore ==
    ASSUME NEW una \in SeqNum, NEW nxt \in SeqNum, NEW n \in Nat, SeqSub(nxt, una) + n < SeqSize,
           NEW q, NEW r, Contains(r, q), Covered(una, nxt, q),
           \A j \in 0..(n - 1) : \E i \in 1..Len(r) : covers(r[i], SeqAdd(nxt, j))
    PROVE  Covered(una, SeqAdd(nxt, n), r)
<1> DEFINE f == SeqSub(nxt, una)
<1>1. /\ SeqSub(SeqAdd(nxt, n), una) = f + n /\ f \in Nat
      /\ \A j \in 0..n : SeqAdd(una, f + j) = SeqAdd(nxt, j)
  BY FlightGrows
<1> HIDE DEF f
<1>2. SUFFICES ASSUME NEW j \in 0..(f + n - 1)
               PROVE  \E i \in 1..Len(r) : covers(r[i], SeqAdd(una, j))
  BY <1>1 DEF Covered
<1>3. CASE j < f
  <2>1. j \in 0..(f - 1)
    BY <1>1, <1>3
  <2>2. PICK i \in 1..Len(q) : covers(q[i], SeqAdd(una, j))
    BY <2>1 DEF Covered, f
  <2> QED BY <2>2 DEF Contains
<1>4. CASE ~(j < f)
  <2> DEFINE k == j - f
  <2>1. k \in 0..(n - 1) /\ k \in 0..n /\ f + k = j
    BY <1>1, <1>4
  <2> HIDE DEF k
  <2>2. SeqAdd(una, j) = SeqAdd(nxt, k)
    BY <1>1, <2>1
  <2> QED BY <2>1, <2>2
<1> QED BY <1>3, <1>4

\* ackRetxQueue: what it drops is acknowledged.
LEMMA CoverLess ==
    ASSUME NEW una \in SeqNum, NEW nxt \in SeqNum, NEW ack \in SeqNum,
           SeqSub(nxt, una) + DefaultMSS + 2 <= HalfSeqSpace, AcceptableAck(una, ack, nxt),
           NEW q \in Seq(RetxSeg), NEW r, Covered(una, nxt, q),
           \A i \in 1..Len(q) : \/ SeqLEQ(SeqAdd(q[i].seq, segLen(q[i])), ack)
                                \/ \E l \in 1..Len(r) : r[l] = q[i]
    PROVE  Covered(ack, nxt, r)
<1> DEFINE f == SeqSub(nxt, una)
           d == SeqSub(ack, una)
<1>0. DefaultMSS \in Nat /\ HalfSeqSpace \in Nat /\ SeqSize = 2 * HalfSeqSpace /\ f \in Nat
  BY TcbAssumption, HalfSeqSpaceAssumption, SeqSubType, SeqNumNat DEF SeqSize
<1>1. /\ d \in Nat \ {0} /\ f \in Nat /\ SeqSub(nxt, ack) = f - d /\ f - d \in Nat
      /\ \A j \in Nat : d + j < SeqSize => SeqAdd(una, d + j) = SeqAdd(ack, j)
  <2>1. f < HalfSeqSpace
    BY <1>0
  <2> QED BY <2>1, AckShrinks
<1>f. f + DefaultMSS + 2 <= HalfSeqSpace
  OBVIOUS
<1> HIDE DEF f, d
<1>2. SUFFICES ASSUME NEW j \in 0..(f - d - 1)
               PROVE  \E l \in 1..Len(r) : covers(r[l], SeqAdd(ack, j))
  BY <1>1 DEF Covered
<1>3. d + j \in 0..(f - 1) /\ d + j < SeqSize /\ j \in Nat /\ j + DefaultMSS + 2 <= HalfSeqSpace
  BY <1>0, <1>1, <1>f
<1>4. PICK i \in 1..Len(q) : covers(q[i], SeqAdd(una, d + j))
  BY <1>3 DEF Covered, f
<1>5. covers(q[i], SeqAdd(ack, j))
  BY <1>1, <1>3, <1>4
<1>6. q[i] \in RetxSeg
  BY ElementOfSeq
<1>7. q[i].seq \in SeqNum /\ segLen(q[i]) \in 0..(DefaultMSS + 2)
  BY <1>6, RetxParts
<1>8. segLen(q[i]) \in Nat /\ j + segLen(q[i]) <= HalfSeqSpace
  BY <1>0, <1>3, <1>7
<1>9. ~SeqLEQ(SeqAdd(q[i].seq, segLen(q[i])), ack)
  BY <1>3, <1>5, <1>7, <1>8, EndedBefore DEF covers
<1> QED BY <1>5, <1>9

\* u is t after the next n numbers were sent and queued.
MoreSent(t, u, n) ==
    /\ u.snd.una = t.snd.una /\ u.snd.wnd = t.snd.wnd /\ u.snd.nxt = SeqAdd(t.snd.nxt, n)
    /\ u.sndBuf = t.sndBuf /\ u.cong = t.cong
    /\ Contains(u.retxQueue, t.retxQueue)
    /\ \A j \in 0..(n - 1) : \E i \in 1..Len(u.retxQueue) :
          covers(u.retxQueue[i], SeqAdd(t.snd.nxt, j))

\* The sender of a connection that has at most c numbers of SYN and FIN in flight.
SndOK(t, c) == /\ Covered(t.snd.una, t.snd.nxt, t.retxQueue)
               /\ flightSize(t) <= Len(t.sndBuf) + c
               /\ t.cong.state = "FastRecovery" => flightSize(t) > 0

\* The send buffer is short beside the sequence space.
Small(t) == Len(t.sndBuf) + DefaultMSS + 4 <= HalfSeqSpace

LEMMA MoreSentOK ==
    ASSUME NEW t \in TCB, NEW u \in TCB, NEW n \in Nat, MoreSent(t, u, n), NEW c, SndOK(t, c),
           NEW d \in 0..2, flightSize(t) + n <= Len(t.sndBuf) + d, Small(t)
    PROVE  SndOK(u, d)
<1>1. /\ t.snd.una \in SeqNum /\ t.snd.nxt \in SeqNum /\ flightSize(t) \in Nat
      /\ Len(t.sndBuf) \in Nat /\ DefaultMSS \in Nat /\ HalfSeqSpace \in Nat
      /\ SeqSize = 2 * HalfSeqSpace
  BY SndParts, FlightType, TcbParts, LenProperties, TcbAssumption, HalfSeqSpaceAssumption DEF SeqSize
<1>2. flightSize(t) + n < SeqSize
  BY <1>1 DEF Small
<1>3. Covered(u.snd.una, u.snd.nxt, u.retxQueue)
  BY <1>1, <1>2, CoverMore DEF MoreSent, SndOK, flightSize
<1>4. flightSize(u) = flightSize(t) + n
  BY <1>1, <1>2, FlightGrows DEF MoreSent, flightSize
<1> QED BY <1>1, <1>3, <1>4 DEF MoreSent, SndOK

LEMMA MoreSentQueue ==
    ASSUME NEW t, NEW u, NEW n \in Nat \ {0}, MoreSent(t, u, n)
    PROVE  u.retxQueue # <<>>
<1>1. 0 \in 0..(n - 1)
  OBVIOUS
<1>2. PICK i \in 1..Len(u.retxQueue) : TRUE
  BY <1>1 DEF MoreSent
<1>3. Len(<<>>) = 0
  OBVIOUS
<1> QED BY <1>2, <1>3

LEMMA CutLen ==
    ASSUME NEW t \in TCB, NEW skip \in Nat, NEW n \in Nat, skip + n <= unsent(t)
    PROVE  Len(cut(t, skip, n)) = n
<1> DEFINE b == flightSize(t) + skip + 1
           e == flightSize(t) + skip + n
<1>1. flightSize(t) \in Nat
  BY FlightType
<1>2. unsent(t) \in Int /\ unsent(t) + flightSize(t) = Len(t.sndBuf)
  BY UnsentType
<1>3. b \in Nat \ {0} /\ e \in Nat /\ e - b + 1 = n
  BY <1>1
<1>4. e <= Len(t.sndBuf)
  BY <1>1, <1>2
<1>5. t.sndBuf \in Seq(Nat)
  BY TcbParts
<1> HIDE DEF b, e
<1>6. Len(SubSeq(t.sndBuf, b, e)) = IF b <= e THEN e - b + 1 ELSE 0
  BY <1>3, <1>4, <1>5, PartOfSeq
<1>7. Len(SubSeq(t.sndBuf, b, e)) = n
  BY <1>3, <1>4, <1>6
<1> QED BY <1>7 DEF cut, b, e

\* A queued entry covers the numbers it has.
LEMMA EntryCovers ==
    ASSUME NEW q \in Seq(RetxSeg), NEW e \in RetxSeg
    PROVE  LET r == Append(q, e) IN
             /\ Contains(r, q)
             /\ \A j \in 0..(segLen(e) - 1) : \E i \in 1..Len(r) : covers(r[i], SeqAdd(e.seq, j))
<1> DEFINE r == Append(q, e)
<1>1. /\ Len(r) = Len(q) + 1 /\ Len(q) \in Nat /\ r[Len(q) + 1] = e
      /\ \A i \in 1..Len(q) : r[i] = q[i]
  BY LenProperties, AppendProperties
<1>2. Len(q) + 1 \in 1..Len(r) /\ \A i \in 1..Len(q) : i \in 1..Len(r)
  BY <1>1
<1> HIDE DEF r
<1>3. Contains(r, q)
  BY <1>1, <1>2 DEF Contains
<1>4. e.seq \in SeqNum /\ segLen(e) \in 0..(DefaultMSS + 2)
  BY RetxParts
<1>5. ASSUME NEW j \in 0..(segLen(e) - 1)
      PROVE  covers(e, SeqAdd(e.seq, j))
  <2>1. j \in SeqNum /\ j < segLen(e)
    BY <1>4, TcbAssumption, HalfSeqSpaceAssumption DEF SeqNum, SeqSize
  <2>2. SeqSub(SeqAdd(e.seq, j), e.seq) = j
    BY <1>4, <2>1, SeqSubAdd
  <2> QED BY <2>1, <2>2 DEF covers
<1> QED BY <1>1, <1>2, <1>3, <1>5 DEF r

\* Queueing an entry of n numbers at SND.NXT and moving SND.NXT past it.
LEMMA QueuedSent ==
    ASSUME NEW t \in TCB, NEW m, NEW u, NEW e, NEW ack, Queued(t, m, e, ack), e.seq = t.snd.nxt,
           u.snd = [t.snd EXCEPT !.nxt = SeqAdd(@, segLen(e))], u.retxQueue = m.retxQueue,
           u.sndBuf = m.sndBuf, u.cong = m.cong
    PROVE  MoreSent(t, u, segLen(e))
<1>1. e \in RetxSeg /\ m.retxQueue = Append(t.retxQueue, e) /\ t.retxQueue \in Seq(RetxSeg)
  BY TcbParts DEF Queued
<1>2. /\ u.snd.una = t.snd.una /\ u.snd.wnd = t.snd.wnd
      /\ u.snd.nxt = SeqAdd(t.snd.nxt, segLen(e))
  BY TcbParts DEF SndVars
<1>3. /\ Contains(u.retxQueue, t.retxQueue)
      /\ \A j \in 0..(segLen(e) - 1) : \E i \in 1..Len(u.retxQueue) :
            covers(u.retxQueue[i], SeqAdd(t.snd.nxt, j))
  BY <1>1, EntryCovers
<1> QED BY <1>2, <1>3 DEF MoreSent, Queued

\* A segment that carries the next n bytes.
LEMMA DataSent ==
    ASSUME NEW t \in TCB, NEW n \in 1..DefaultMSS, n <= unsent(t)
    PROVE  LET m == sendData(t, {"ACK"}, t.snd.nxt, t.rcv.nxt, cut(t, 0, n))
           IN m \in TCB /\ MoreSent(t, [m EXCEPT !.snd.nxt = SeqAdd(@, n)], n)
<1> DEFINE d == cut(t, 0, n)
           e == queueEntry({"ACK"}, t.snd.nxt, d)
           m == sendData(t, {"ACK"}, t.snd.nxt, t.rcv.nxt, d)
           u == [m EXCEPT !.snd.nxt = SeqAdd(@, n)]
<1>1. n \in Nat /\ n \in 0..DefaultMSS /\ 0 + n <= unsent(t) /\ n # 0
  BY TcbAssumption, UnsentType
<1>2. d \in Payload /\ Len(d) = n
  BY <1>1, CutType, CutLen
<1> HIDE DEF d
<1>3. segLen([flags |-> {"ACK"}, data |-> d]) = n
  BY <1>1, <1>2 DEF segLen
<1>4. segLen(e) = n /\ e.seq = t.snd.nxt
  BY <1>1, <1>2 DEF segLen, queueEntry
<1>5. {"ACK"} \in Flags /\ t.snd.nxt \in SeqNum /\ t.rcv.nxt \in SeqNum
  BY SndParts, RcvParts DEF Flags
<1>6. Queued(t, m, e, t.rcv.nxt)
  BY <1>1, <1>2, <1>3, <1>5, SendDataForm
<1> HIDE DEF m, e
<1>7. m \in TCB /\ m.snd = t.snd
  BY <1>6 DEF Queued, SameRcv
<1>8. /\ u.snd = [t.snd EXCEPT !.nxt = SeqAdd(@, n)] /\ u.retxQueue = m.retxQueue
      /\ u.sndBuf = m.sndBuf /\ u.cong = m.cong
  BY <1>7 DEF TCB, SndVars
<1> HIDE DEF u
<1>9. MoreSent(t, u, n)
  BY <1>4, <1>6, <1>8, QueuedSent
<1> QED BY <1>7, <1>9 DEF m, u, d

LEMMA EmitSegmentSent ==
    ASSUME NEW t \in TCB, NEW n \in Nat \ {0}, n <= unsent(t)
    PROVE  MoreSent(t, emitSegment(t, n), minU32(n, DefaultMSS))
<1> DEFINE len == minU32(n, DefaultMSS)
           m == sendData(t, {"ACK"}, t.snd.nxt, t.rcv.nxt, cut(t, 0, len))
           u == [m EXCEPT !.snd.nxt = SeqAdd(@, len)]
           v == disarmOverride(u)
<1>1. len \in 1..DefaultMSS /\ len <= unsent(t)
  BY TcbAssumption, UnsentType DEF minU32
<1> HIDE DEF len
<1>2. m \in TCB /\ MoreSent(t, u, len)
  BY <1>1, DataSent
<1> HIDE DEF m
<1>3. /\ v.snd = u.snd /\ v.sndBuf = u.sndBuf /\ v.cong = u.cong /\ v.retxQueue = u.retxQueue
  BY <1>2 DEF disarmOverride, TCB
<1> HIDE DEF u, v
<1>4. MoreSent(t, v, len)
  BY <1>2, <1>3 DEF MoreSent
<1> QED BY <1>4 DEF emitSegment, v, u, m, len

\* The piece of a run of segments that a number falls into.
LEMMA PieceOf ==
    ASSUME NEW mss \in Nat \ {0}, NEW k \in Nat, NEW j \in Nat, j < k * mss
    PROVE  \E i \in 1..k : (i - 1) * mss <= j /\ j < (i - 1) * mss + mss
<1> DEFINE d == j \div mss
           r == j % mss
<1>1. d \in Int /\ r \in 0..(mss - 1) /\ j = mss * d + r
  BY SMTT(30)
<1> HIDE DEF d, r
<1>2. d >= 0
  BY <1>1, SMTT(30)
<1>3. d < k
  BY <1>1, <1>2, SMTT(30)
<1>4. d * mss = mss * d /\ d * mss \in Nat
  BY <1>1, <1>2, SMTT(30)
<1>5. d + 1 \in 1..k /\ (d + 1) - 1 = d
  BY <1>1, <1>2, <1>3
<1>6. d * mss <= j /\ j < d * mss + mss
  BY <1>1, <1>4
<1> QED BY <1>5, <1>6

LEMMA SeqSubPiece ==
    ASSUME NEW a \in SeqNum, NEW o \in Nat, NEW j \in Nat, o <= j, j \in SeqNum
    PROVE  SeqSub(SeqAdd(a, j), SeqAdd(a, o)) = j - o
  BY HalfSeqSpaceAssumption DEF SeqSub, SeqAdd, SeqNum, SeqSize

LEMMA NoneSent ==
    ASSUME NEW t \in TCB, NEW u, u.snd = t.snd, u.sndBuf = t.sndBuf, u.cong = t.cong,
           u.retxQueue = t.retxQueue
    PROVE  MoreSent(t, u, 0)
<1>1. \A x \in SeqNum : SeqAdd(x, 0) = x
  BY HalfSeqSpaceAssumption DEF SeqAdd, SeqNum, SeqSize
<1>2. u.snd.nxt = SeqAdd(t.snd.nxt, 0)
  BY <1>1, SndParts
<1>3. Contains(u.retxQueue, t.retxQueue)
  BY DEF Contains
<1>4. \A j \in 0..(0 - 1) : FALSE
  OBVIOUS
<1> QED BY <1>2, <1>3, <1>4 DEF MoreSent

\* Where the elements of two sequences are in their concatenation.
LEMMA ConcatParts ==
    ASSUME NEW S, NEW a \in Seq(S), NEW b \in Seq(S)
    PROVE  /\ \A i \in 1..Len(a) : i \in 1..Len(a \o b) /\ (a \o b)[i] = a[i]
           /\ \A i \in 1..Len(b) : Len(a) + i \in 1..Len(a \o b) /\ (a \o b)[Len(a) + i] = b[i]
<1> DEFINE q == a \o b
<1>1. /\ Len(a) \in Nat /\ Len(b) \in Nat /\ Len(q) = Len(a) + Len(b)
      /\ \A j \in 1..(Len(a) + Len(b)) : q[j] = IF j <= Len(a) THEN a[j] ELSE b[j - Len(a)]
  BY ConcatProperties, LenProperties
<1> SUFFICES /\ \A i \in 1..Len(a) : i \in 1..Len(q) /\ q[i] = a[i]
             /\ \A i \in 1..Len(b) : Len(a) + i \in 1..Len(q) /\ q[Len(a) + i] = b[i]
  OBVIOUS
<1> HIDE DEF q
<1>2. ASSUME NEW i \in 1..Len(a) PROVE i \in 1..Len(q) /\ q[i] = a[i]
  <2>1. i \in 1..(Len(a) + Len(b)) /\ i <= Len(a)
    BY <1>1
  <2> QED BY <1>1, <2>1
<1>3. ASSUME NEW i \in 1..Len(b) PROVE Len(a) + i \in 1..Len(q) /\ q[Len(a) + i] = b[i]
  <2>1. /\ Len(a) + i \in 1..(Len(a) + Len(b)) /\ ~(Len(a) + i <= Len(a))
        /\ (Len(a) + i) - Len(a) = i
    BY <1>1
  <2> QED BY <1>1, <2>1
<1> QED BY <1>2, <1>3

LEMMA EmitSegmentsSent ==
    ASSUME NEW t \in TCB, NEW n \in Nat, n <= unsent(t), n \in SeqNum
    PROVE  \E m \in 0..n : MoreSent(t, emitSegments(t, n), m)
<1> DEFINE idle == t.snd.nxt = t.snd.una
           S == {i \in 0..(n - 1) : canSend(t, n - i * DefaultMSS, idle)}
           k == LoopCount(S, n)
           piece(i) == cut(t, (i - 1) * DefaultMSS, minU32(n - (i - 1) * DefaultMSS, DefaultMSS))
           entry(i) == [flags |-> {"ACK"}, seq |-> SeqAdd(t.snd.nxt, (i - 1) * DefaultMSS),
                        data |-> piece(i), retries |-> 0]
           wire(i) == [flags |-> {"ACK"}, seq |-> entry(i).seq, ack |-> t.rcv.nxt,
                       win |-> advertised(t, {"ACK"}), data |-> piece(i),
                       opts |-> IF t.opt.tsOK THEN "ts" ELSE "none",
                       tsval |-> IF t.opt.tsOK THEN t.ts.now ELSE 0]
           out == t.out \cup {wire(i) : i \in 1..k}
           new == [i \in 1..k |-> entry(i)]
           q == t.retxQueue \o new
           m == minU32(n, k * DefaultMSS)
           u == [t EXCEPT !.out = out, !.retxQueue = q, !.snd.nxt = SeqAdd(@, m),
                          !.ts.lastAckSent = t.rcv.nxt, !.tmr.override = FALSE]
<1>0. emitSegments(t, n) = IF k = 0 THEN t ELSE u
  BY DEF emitSegments
<1>1. k \in 0..n /\ \A i \in 0..(k - 1) : i \in S
  <2>1. S \in SUBSET (0..(n - 1))
    OBVIOUS
  <2> HIDE DEF S
  <2> QED BY <2>1, LoopCountType
<1>2. \A i \in 1..k : (i - 1) * DefaultMSS \in Nat /\ (i - 1) * DefaultMSS < n
  <2> TAKE i \in 1..k
  <2>1. i - 1 \in 0..(k - 1) /\ i - 1 \in Nat
    BY <1>1
  <2>2. canSend(t, n - (i - 1) * DefaultMSS, idle)
    BY <1>1, <2>1
  <2>3. (i - 1) * DefaultMSS \in Nat
    BY <2>1, TcbAssumption
  <2> QED BY <2>2, <2>3 DEF canSend
<1> HIDE DEF k
<1>3. k \in Nat /\ DefaultMSS \in Nat \ {0} /\ k * DefaultMSS \in Nat
  BY <1>1, TcbAssumption
<1>4. m \in 0..n /\ m <= k * DefaultMSS
  BY <1>3 DEF minU32
<1>5. CASE k = 0
  <2>1. m = 0 /\ m \in 0..n
    BY <1>3, <1>4, <1>5 DEF minU32
  <2>4. MoreSent(t, t, 0)
    BY NoneSent
  <2> QED BY <1>0, <1>5, <2>1, <2>4
<1>6. CASE k # 0
  <2>1. \A i \in 1..k : /\ piece(i) \in Payload
                        /\ Len(piece(i)) = minU32(n - (i - 1) * DefaultMSS, DefaultMSS)
                        /\ SeqAdd(t.snd.nxt, (i - 1) * DefaultMSS) \in SeqNum
    <3> TAKE i \in 1..k
    <3> DEFINE o == (i - 1) * DefaultMSS
               l == minU32(n - o, DefaultMSS)
    <3>1. o \in Nat /\ o < n
      BY <1>2
    <3> HIDE DEF o
    <3>2. l \in 0..DefaultMSS /\ l \in Nat /\ o + l <= unsent(t)
      BY <3>1, UnsentType, TcbAssumption DEF minU32
    <3>3. o \in 0..SeqSize
      BY <3>1, SmallSeqNums DEF SeqNum
    <3> HIDE DEF l
    <3>4. cut(t, o, l) \in Payload /\ Len(cut(t, o, l)) = l
      BY <3>1, <3>2, CutType, CutLen
    <3>5. SeqAdd(t.snd.nxt, o) \in SeqNum
      BY <3>3, SndParts, SeqAddType
    <3> QED BY <3>4, <3>5 DEF o, l
  <2>2. \A i \in 1..k : entry(i) \in RetxSeg
    <3>1. 0 \in 0..MaxRetransmits
      BY TcbAssumption
    <3> HIDE DEF piece
    <3> QED BY <2>1, <3>1 DEF RetxSeg
  <2>3. \A i \in 1..k : /\ segLen(entry(i)) = minU32(n - (i - 1) * DefaultMSS, DefaultMSS)
                        /\ entry(i).seq = SeqAdd(t.snd.nxt, (i - 1) * DefaultMSS)
    <3> TAKE i \in 1..k
    <3> HIDE DEF piece
    <3>1. segLen(entry(i)) = Len(piece(i)) + 0 + 0
      BY DEF segLen
    <3>2. Len(piece(i)) \in Nat
      BY <2>1, LenProperties DEF Payload
    <3> QED BY <2>1, <3>1, <3>2
  <2>4. /\ t.retxQueue \in Seq(RetxSeg) /\ Len(t.retxQueue) \in Nat
        /\ new \in Seq(RetxSeg) /\ Len(new) = k /\ \A i \in 1..k : new[i] = entry(i)
    <3> HIDE DEF entry
    <3>1. new \in [1..k -> RetxSeg] /\ \A i \in 1..k : new[i] = entry(i)
      BY <2>2
    <3> HIDE DEF new
    <3> QED BY <1>3, <3>1, FcnIsSeq, TcbParts, LenProperties
  <2> HIDE DEF new, entry
  <2>5. /\ \A i \in 1..Len(t.retxQueue) : i \in 1..Len(q) /\ q[i] = t.retxQueue[i]
        /\ \A i \in 1..Len(new) :
              Len(t.retxQueue) + i \in 1..Len(q) /\ q[Len(t.retxQueue) + i] = new[i]
    BY <2>4, ConcatParts
  <2> HIDE DEF q
  <2>6. \A i \in 1..Len(t.retxQueue) : i \in 1..Len(q) /\ q[i] = t.retxQueue[i]
    BY <2>5
  <2>7. \A i \in 1..k : Len(t.retxQueue) + i \in 1..Len(q) /\ q[Len(t.retxQueue) + i] = entry(i)
    BY <2>4, <2>5
  <2>8. Contains(q, t.retxQueue)
    BY <2>6 DEF Contains
  <2>9. ASSUME NEW j \in 0..(m - 1)
        PROVE  \E i \in 1..Len(q) : covers(q[i], SeqAdd(t.snd.nxt, j))
    <3>1. j \in Nat /\ j < n /\ j < k * DefaultMSS /\ j \in SeqNum
      BY <1>3, <1>4, SmallSeqNums DEF SeqNum
    <3>2. PICK i \in 1..k : (i - 1) * DefaultMSS <= j /\ j < (i - 1) * DefaultMSS + DefaultMSS
      BY <1>3, <3>1, PieceOf
    <3> DEFINE o == (i - 1) * DefaultMSS
    <3>3. o \in Nat /\ o <= j /\ j < o + DefaultMSS
      BY <1>2, <3>2
    <3>4. segLen(entry(i)) = minU32(n - o, DefaultMSS) /\ entry(i).seq = SeqAdd(t.snd.nxt, o)
      BY <2>3
    <3> HIDE DEF o
    <3>5. SeqSub(SeqAdd(t.snd.nxt, j), SeqAdd(t.snd.nxt, o)) = j - o
      BY <3>1, <3>3, SndParts, SeqSubPiece
    <3>6. j - o < minU32(n - o, DefaultMSS)
      BY <1>3, <3>1, <3>3 DEF minU32
    <3>7. covers(entry(i), SeqAdd(t.snd.nxt, j))
      BY <3>4, <3>5, <3>6 DEF covers
    <3> QED BY <2>7, <3>7
  <2> HIDE DEF out, m
  <2>10. /\ u.snd.una = t.snd.una /\ u.snd.wnd = t.snd.wnd /\ u.snd.nxt = SeqAdd(t.snd.nxt, m)
         /\ u.sndBuf = t.sndBuf /\ u.cong = t.cong
         /\ u.retxQueue = q
    BY DEF TCB, SndVars
  <2> HIDE DEF u
  <2>11. MoreSent(t, u, m)
    BY <2>8, <2>9, <2>10 DEF MoreSent
  <2> QED BY <1>0, <1>4, <1>6, <2>11
<1> QED BY <1>5, <1>6

\* Unsent bytes will be seen to: by what is in flight or by a timer.
Woken(t) == unsent(t) > 0 =>
    t.retxQueue # <<>> \/ t.tmr.persist \/ (t.tmr.override /\ t.snd.wnd # 0)

\* u is t after some of the unsent bytes, or none, were sent.
SomeSent(t, u) == \E m \in Nat : MoreSent(t, u, m) /\ (m = 0 \/ m <= unsent(t))

LEMMA SomeSentOK ==
    ASSUME NEW t \in TCB, NEW u \in TCB, SomeSent(t, u), NEW c \in 0..2, SndOK(t, c), Small(t)
    PROVE  SndOK(u, c)
<1>1. PICK m \in Nat : MoreSent(t, u, m) /\ (m = 0 \/ m <= unsent(t))
  BY DEF SomeSent
<1>2. flightSize(t) \in Nat /\ unsent(t) \in Int /\ unsent(t) + flightSize(t) = Len(t.sndBuf)
  BY FlightType, UnsentType
<1>3. flightSize(t) + m <= Len(t.sndBuf) + c
  BY <1>1, <1>2 DEF SndOK
<1> QED BY <1>1, <1>3, MoreSentOK

LEMMA SomeSentSame ==
    ASSUME NEW t, NEW u, SomeSent(t, u)
    PROVE  u.sndBuf = t.sndBuf /\ u.cong = t.cong
  BY DEF SomeSent, MoreSent

\* Only the timers differ.
LEMMA TmrSame ==
    ASSUME NEW t \in TCB
    PROVE  /\ \A u \in {disarmOverride(t), disarmPersist(t), armOverride(t), armPersist(t),
                        disarmPersist(disarmOverride(t))} :
                 /\ u \in TCB /\ u.snd = t.snd /\ u.sndBuf = t.sndBuf /\ u.cong = t.cong
                 /\ u.retxQueue = t.retxQueue /\ flightSize(u) = flightSize(t)
                 /\ unsent(u) = unsent(t)
           /\ armOverride(t).tmr.override /\ armPersist(t).tmr.persist
           /\ disarmOverride(t).tmr.persist = t.tmr.persist
<1> DEFINE Same(u, v) == /\ v.snd = u.snd /\ v.sndBuf = u.sndBuf /\ v.cong = u.cong
                         /\ v.retxQueue = u.retxQueue /\ flightSize(v) = flightSize(u)
                         /\ unsent(v) = unsent(u)
<1>1. ASSUME NEW u \in TCB, NEW v, v.snd = u.snd, v.sndBuf = u.sndBuf, v.cong = u.cong,
             v.retxQueue = u.retxQueue
      PROVE  Same(u, v)
  BY <1>1 DEF flightSize, unsent
<1>2. ASSUME NEW u \in TCB,
             NEW v \in {disarmOverride(u), disarmPersist(u), armOverride(u), armPersist(u)}
      PROVE  v.snd = u.snd /\ v.sndBuf = u.sndBuf /\ v.cong = u.cong /\ v.retxQueue = u.retxQueue
  BY <1>2 DEF disarmOverride, disarmPersist, armOverride, armPersist, TCB
<1>3. ASSUME NEW u \in TCB
      PROVE  /\ Same(u, disarmOverride(u)) /\ Same(u, disarmPersist(u))
             /\ Same(u, armOverride(u)) /\ Same(u, armPersist(u))
             /\ disarmOverride(u) \in TCB /\ disarmPersist(u) \in TCB
             /\ armOverride(u) \in TCB /\ armPersist(u) \in TCB
  <2>1. /\ Same(u, disarmOverride(u)) /\ Same(u, disarmPersist(u))
        /\ Same(u, armOverride(u)) /\ Same(u, armPersist(u))
    <3> HIDE DEF Same
    <3> QED BY <1>1, <1>2, <1>3
  <2> HIDE DEF Same
  <2> QED BY <1>3, <2>1, TmrKeeps DEF Keeps, KeepsRcv, SameRcv
<1>4. Same(t, disarmPersist(disarmOverride(t))) /\ disarmPersist(disarmOverride(t)) \in TCB
  BY <1>3
<1>5. /\ armOverride(t).tmr.override /\ armPersist(t).tmr.persist
      /\ disarmOverride(t).tmr.persist = t.tmr.persist
  BY TcbParts DEF armOverride, armPersist, disarmOverride, TCB, TmrVars
<1> QED BY <1>3, <1>4, <1>5

\* flushSend leaves nothing unsent that nothing will wake.
LEMMA FlushSendSent ==
    ASSUME NEW t \in TCB
    PROVE  SomeSent(t, flushSend(t)) /\ Woken(flushSend(t))
<1> DEFINE n == minU32(unsent(t), sendUsable(t))
           sent == emitSegments(t, n)
<1>1. CASE unsent(t) <= 0
  <2> DEFINE u == disarmPersist(disarmOverride(t))
  <2>1. /\ u.snd = t.snd /\ u.sndBuf = t.sndBuf /\ u.cong = t.cong
        /\ u.retxQueue = t.retxQueue /\ unsent(u) = unsent(t)
    BY TmrSame
  <2>2. flushSend(t) = u
    BY <1>1 DEF flushSend
  <2> HIDE DEF u
  <2>3. MoreSent(t, u, 0)
    BY <2>1, NoneSent
  <2>4. Woken(u)
    BY <1>1, <2>1, UnsentType DEF Woken
  <2> QED BY <2>2, <2>3, <2>4 DEF SomeSent
<1>2. CASE ~(unsent(t) <= 0) /\ t.snd.wnd = 0
  <2>1. flushSend(t) = armPersist(t)
    BY <1>2 DEF flushSend
  <2>2. MoreSent(t, armPersist(t), 0)
    BY TmrSame, NoneSent
  <2>3. Woken(armPersist(t))
    BY TmrSame DEF Woken
  <2> QED BY <2>1, <2>2, <2>3 DEF SomeSent
<1>3. CASE ~(unsent(t) <= 0) /\ t.snd.wnd # 0
  <2>1. unsent(t) > 0
    BY <1>3, UnsentType
  <2>2. n \in Nat /\ n \in SeqNum /\ n <= unsent(t)
    BY <2>1, SendableType
  <2> HIDE DEF n
  <2>3. PICK m \in 0..n : MoreSent(t, sent, m)
    BY <2>2, EmitSegmentsSent
  <2>4. sent \in TCB
    BY <2>2, EmitSegmentsKeeps DEF Keeps, KeepsRcv, SameRcv
  <2>5. m \in Nat /\ m <= unsent(t)
    BY <2>2, <2>3, UnsentType
  <2>6. flushSend(t) = IF unsent(sent) <= 0 THEN disarmPersist(disarmOverride(sent))
                       ELSE armOverride(sent)
    BY <1>3 DEF flushSend, n
  <2> HIDE DEF sent
  <2>7. ASSUME NEW u, u.snd = sent.snd, u.sndBuf = sent.sndBuf, u.cong = sent.cong,
               u.retxQueue = sent.retxQueue
        PROVE  MoreSent(t, u, m)
    BY <2>3, <2>7 DEF MoreSent
  <2>8. sent.snd.wnd # 0
    BY <1>3, <2>3 DEF MoreSent
  <2>9. CASE unsent(sent) <= 0
    <3> DEFINE u == disarmPersist(disarmOverride(sent))
    <3>1. /\ u.snd = sent.snd /\ u.sndBuf = sent.sndBuf /\ u.cong = sent.cong
          /\ u.retxQueue = sent.retxQueue /\ unsent(u) = unsent(sent)
      BY <2>4, TmrSame
    <3> HIDE DEF u
    <3>2. MoreSent(t, u, m)
      BY <2>7, <3>1
    <3>3. Woken(u)
      BY <2>4, <2>9, <3>1, UnsentType DEF Woken
    <3> QED BY <2>5, <2>6, <2>9, <3>2, <3>3 DEF SomeSent, u
  <2>10. CASE ~(unsent(sent) <= 0)
    <3> DEFINE u == armOverride(sent)
    <3>1. /\ u.snd = sent.snd /\ u.sndBuf = sent.sndBuf /\ u.cong = sent.cong
          /\ u.retxQueue = sent.retxQueue /\ u.tmr.override
      BY <2>4, TmrSame
    <3> HIDE DEF u
    <3>2. MoreSent(t, u, m)
      BY <2>7, <3>1
    <3>3. Woken(u)
      BY <2>8, <3>1 DEF Woken
    <3> QED BY <2>5, <2>6, <2>10, <3>2, <3>3 DEF SomeSent, u
  <2> QED BY <2>9, <2>10
<1> QED BY <1>1, <1>2, <1>3

\* A probe leaves something in flight.
LEMMA ProbePersistSent ==
    ASSUME NEW t \in TCB
    PROVE  LET u == probePersist(t) IN u = t \/ (SomeSent(t, u) /\ u.retxQueue # <<>>)
<1>1. CASE unsent(t) <= 0 \/ t.snd.wnd # 0
  BY <1>1 DEF probePersist
<1>2. CASE ~(unsent(t) <= 0 \/ t.snd.wnd # 0)
  <2> DEFINE m == sendData(t, {"ACK"}, t.snd.nxt, t.rcv.nxt, cut(t, 0, 1))
             u == [m EXCEPT !.snd.nxt = SeqAdd(@, 1)]
  <2>1. 1 \in 1..DefaultMSS /\ 1 <= unsent(t) /\ 1 \in Nat
    BY <1>2, UnsentType, TcbAssumption
  <2>2. MoreSent(t, u, 1)
    BY <2>1, DataSent
  <2>3. probePersist(t) = u
    BY <1>2 DEF probePersist
  <2> HIDE DEF u
  <2>4. u.retxQueue # <<>>
    BY <2>2, MoreSentQueue
  <2> QED BY <2>1, <2>2, <2>3, <2>4 DEF SomeSent
<1> QED BY <1>1, <1>2

LEMMA FireOverrideSent ==
    ASSUME NEW t \in TCB
    PROVE  LET u == fireOverride(t) IN
             \/ u = disarmOverride(t) /\ (unsent(t) <= 0 \/ sendUsable(t) = 0)
             \/ SomeSent(t, u) /\ u.retxQueue # <<>>
<1>1. CASE unsent(t) <= 0 \/ sendUsable(t) = 0
  BY <1>1 DEF fireOverride
<1>2. CASE ~(unsent(t) <= 0 \/ sendUsable(t) = 0)
  <2> DEFINE n == minU32(unsent(t), sendUsable(t))
             m == minU32(n, DefaultMSS)
             u == emitSegment(t, n)
  <2>1. unsent(t) > 0
    BY <1>2, UnsentType
  <2>2. n \in Nat \ {0} /\ n <= unsent(t)
    BY <1>2, <2>1, SendableType
  <2>3. fireOverride(t) = u
    BY <1>2 DEF fireOverride
  <2> HIDE DEF n
  <2>4. m \in Nat \ {0} /\ m <= unsent(t)
    BY <2>2, UnsentType, TcbAssumption DEF minU32
  <2>5. MoreSent(t, u, m)
    BY <2>2, EmitSegmentSent
  <2> HIDE DEF u, m
  <2>6. u.retxQueue # <<>>
    BY <2>4, <2>5, MoreSentQueue
  <2> QED BY <2>3, <2>4, <2>5, <2>6 DEF SomeSent
<1> QED BY <1>1, <1>2

\* The invariant of the sender: the SYN or the FIN, later both, may be in flight
\* beside what the send buffer holds.
Control(st) == IF st \in {"SynSent", "SynReceived", "Established", "CloseWait"} THEN 1 ELSE 2
SynOnly(t) == /\ t.snd.una = t.snd.iss /\ t.snd.nxt = SeqAdd(t.snd.iss, 1)
              /\ t.sndBuf = <<>> /\ t.cong.state # "FastRecovery"
SndInv(t) == /\ CongLive(t.cong)
             /\ t.state \notin {"Closed", "Listen"} => SndOK(t, Control(t.state)) /\ Woken(t)
             /\ t.state = "SynSent" => SynOnly(t)

\* A step that keeps it, and that gives the sender no more to do.
SndStep(t, u) == /\ u \in TCB /\ Len(u.sndBuf) <= Len(t.sndBuf)
                 /\ Small(t) /\ SndInv(t) => SndInv(u)

LEMMA BufLen ==
    ASSUME NEW t \in TCB
    PROVE  Len(t.sndBuf) \in Nat /\ DefaultMSS \in Nat /\ HalfSeqSpace \in Nat
  BY TcbParts, LenProperties, TcbAssumption, HalfSeqSpaceAssumption

LEMMA SmallStays ==
    ASSUME NEW t \in TCB, NEW u \in TCB, Len(u.sndBuf) <= Len(t.sndBuf), Small(t)
    PROVE  Small(u)
  BY BufLen DEF Small

LEMMA SndStepTrans ==
    ASSUME NEW t \in TCB, NEW u, NEW v, SndStep(t, u), SndStep(u, v)
    PROVE  SndStep(t, v)
<1>1. u \in TCB /\ v \in TCB
  BY DEF SndStep
<1>2. Len(v.sndBuf) <= Len(t.sndBuf)
  BY <1>1, BufLen DEF SndStep
<1>3. Small(t) => Small(u)
  BY <1>1, SmallStays DEF SndStep
<1> QED BY <1>1, <1>2, <1>3 DEF SndStep

\* A step to a state with as much room for SYN and FIN.
StateUp(a, b) == \/ b \in {a, "Closed", "Listen"}
                 \/ /\ a \notin {"Closed", "Listen"} /\ b # "SynSent"
                    /\ Control(a) <= Control(b)

LEMMA ControlType == \A st : Control(st) \in 1..2 /\ Control(st) \in 0..2
  BY DEF Control

LEMMA OKUp ==
    ASSUME NEW t \in TCB, NEW c \in 0..2, NEW d \in 0..2, c <= d, SndOK(t, c)
    PROVE  SndOK(t, d)
<1>1. flightSize(t) \in Nat
  BY FlightType
<1> QED BY <1>1, BufLen DEF SndOK

LEMMA SameSndStep ==
    ASSUME NEW t \in TCB, NEW u \in TCB, SameSnd(t, u), StateUp(t.state, u.state)
    PROVE  SndStep(t, u)
<1>1. Len(u.sndBuf) <= Len(t.sndBuf)
  BY BufLen DEF SameSnd
<1>2. flightSize(u) = flightSize(t) /\ unsent(u) = unsent(t)
  BY DEF SameSnd, flightSize, unsent
<1>3. \A c : SndOK(t, c) => SndOK(u, c)
  BY <1>2 DEF SameSnd, SndOK
<1>4. Woken(t) => Woken(u)
  BY <1>2 DEF SameSnd, Woken
<1>5. SynOnly(t) => SynOnly(u)
  BY DEF SameSnd, SynOnly
<1>6. CongLive(t.cong) => CongLive(u.cong)
  BY DEF SameSnd
<1>7. ASSUME SndInv(t), u.state \notin {"Closed", "Listen"}
      PROVE  SndOK(u, Control(u.state)) /\ Woken(u)
  <2>1. t.state \notin {"Closed", "Listen"}
    BY <1>7 DEF StateUp
  <2>2. SndOK(t, Control(t.state)) /\ Woken(t)
    BY <1>7, <2>1 DEF SndInv
  <2>3. Control(t.state) <= Control(u.state)
    BY <1>7, ControlType DEF StateUp
  <2>4. SndOK(t, Control(u.state))
    BY <2>2, <2>3, ControlType, OKUp
  <2> QED BY <1>3, <1>4, <2>2, <2>4
<1>8. u.state = "SynSent" => t.state = "SynSent"
  BY DEF StateUp
<1> QED BY <1>1, <1>5, <1>6, <1>7, <1>8 DEF SndStep, SndInv

-----------------------------------------------------------------------------
(* The timers and the sender.                                              *)

\* Sending some of the unsent bytes.
LEMMA SomeSentStep ==
    ASSUME NEW t \in TCB, NEW u \in TCB, SomeSent(t, u), u.state = t.state,
           t.sndBuf = <<>> => Calm(t, u),
           SndOK(t, Control(t.state)) /\ CongLive(t.cong) /\ Woken(t) => Woken(u)
    PROVE  SndStep(t, u)
<1>1. u.sndBuf = t.sndBuf /\ u.cong = t.cong
  BY SomeSentSame
<1>2. Len(u.sndBuf) <= Len(t.sndBuf)
  BY <1>1, BufLen
<1>3. ASSUME Small(t), SndInv(t), t.state \notin {"Closed", "Listen"}
      PROVE  SndOK(u, Control(u.state)) /\ Woken(u)
  <2>1. SndOK(t, Control(t.state)) /\ Woken(t) /\ CongLive(t.cong)
    BY <1>3 DEF SndInv
  <2>2. SndOK(u, Control(t.state))
    BY <1>3, <2>1, SomeSentOK, ControlType
  <2> QED BY <2>1, <2>2
<1>4. SynOnly(t) => SynOnly(u)
  BY <1>1 DEF SynOnly, Calm
<1>5. CongLive(t.cong) => CongLive(u.cong)
  BY <1>1
<1> QED BY <1>2, <1>3, <1>4, <1>5 DEF SndStep, SndInv

LEMMA SndStepRefl == ASSUME NEW t \in TCB PROVE SndStep(t, t)
  BY SameSndStep, SameSndRefl DEF StateUp

LEMMA ProbePersistStep ==
    ASSUME NEW t \in TCB
    PROVE  SndStep(t, probePersist(t))
<1> DEFINE u == probePersist(t)
<1>1. u \in TCB /\ u.state = t.state
  BY ProbePersistKeeps DEF Keeps, KeepsRcv, SameRcv
<1>2. t.sndBuf = <<>> => Calm(t, u)
  BY NothingToSend
<1>3. u = t \/ (SomeSent(t, u) /\ u.retxQueue # <<>>)
  BY ProbePersistSent
<1> HIDE DEF u
<1>4. u.retxQueue # <<>> => Woken(u)
  BY DEF Woken
<1>5. SndStep(t, u)
  BY <1>1, <1>2, <1>3, <1>4, SomeSentStep, SndStepRefl
<1> QED BY <1>5 DEF u

\* With nothing in flight an open window can be used.
LEMMA IdleArithmetic ==
    ASSUME NEW una \in SeqNum, NEW wnd \in 1..(MaxWindow * WScale)
    PROVE  /\ ~SeqGT(una, SeqAdd(una, wnd)) /\ SeqSub(SeqAdd(una, wnd), una) = wnd
           /\ SeqSub(una, una) = 0
<1>1. wnd \in Nat /\ wnd > 0 /\ wnd < HalfSeqSpace
  <2>1. MaxWindow * WScale \in Nat /\ MaxWindow * WScale < HalfSeqSpace
    BY TcbAssumption
  <2> DEFINE w == MaxWindow * WScale
  <2>2. wnd \in 1..w /\ w \in Nat /\ w < HalfSeqSpace
    BY <2>1
  <2> HIDE DEF w
  <2> QED BY <2>2, HalfSeqSpaceAssumption
<1> QED BY <1>1, HalfSeqSpaceAssumption DEF SeqGT, SeqLT, SeqSub, SeqAdd, SeqNum, SeqSize

LEMMA IdleUsable ==
    ASSUME NEW t \in TCB, CongLive(t.cong), t.snd.wnd # 0,
           Covered(t.snd.una, t.snd.nxt, t.retxQueue), t.retxQueue = <<>>
    PROVE  sendUsable(t) # 0
<1>1. /\ t.snd.una \in SeqNum /\ t.snd.nxt \in SeqNum /\ flightSize(t) \in Nat
      /\ t.snd.wnd \in 1..(MaxWindow * WScale)
  <2>1. t.snd.wnd \in 0..(MaxWindow * WScale) /\ MaxWindow * WScale \in Nat
    BY SndParts, TcbAssumption
  <2> QED BY <2>1, SndParts, FlightType
<1>2. flightSize(t) = 0
  <2>1. Len(<<>>) = 0
    OBVIOUS
  <2>2. ASSUME flightSize(t) # 0 PROVE FALSE
    <3>1. 0 \in 0..(flightSize(t) - 1)
      BY <1>1, <2>2
    <3>2. PICK i \in 1..Len(t.retxQueue) : TRUE
      BY <3>1 DEF Covered, flightSize
    <3> QED BY <2>1, <3>2
  <2> QED BY <2>2
<1>3. t.snd.nxt = t.snd.una
  BY <1>1, <1>2, HalfSeqSpaceAssumption DEF flightSize, SeqSub, SeqNum, SeqSize
<1> DEFINE w == t.snd.wnd
           cwnd == t.cong.cwnd
<1>4. sendUsable(t) = minU32(maxU32(0, cwnd - 0), w)
  BY <1>1, <1>2, <1>3, IdleArithmetic DEF sendUsable
<1>5. cwnd \in Nat /\ cwnd > 0
  BY TcbParts DEF CongLive, Cong
<1>6. w \in Nat /\ w > 0
  BY <1>1, TcbAssumption
<1> HIDE DEF w, cwnd
<1> QED BY <1>4, <1>5, <1>6 DEF minU32, maxU32

LEMMA FireOverrideStep ==
    ASSUME NEW t \in TCB
    PROVE  SndStep(t, fireOverride(t))
<1> DEFINE u == fireOverride(t)
<1>1. u \in TCB /\ u.state = t.state
  BY FireOverrideKeeps DEF Keeps, KeepsRcv, SameRcv
<1>2. t.sndBuf = <<>> => Calm(t, u)
  BY NothingToSend
<1>3. \/ u = disarmOverride(t) /\ (unsent(t) <= 0 \/ sendUsable(t) = 0)
      \/ SomeSent(t, u) /\ u.retxQueue # <<>>
  BY FireOverrideSent
<1> SUFFICES SndStep(t, u)
  OBVIOUS
<1> HIDE DEF u
<1>4. CASE SomeSent(t, u) /\ u.retxQueue # <<>>
  <2>1. SndOK(t, Control(t.state)) /\ CongLive(t.cong) /\ Woken(t) => Woken(u)
    BY <1>4 DEF Woken
  <2> QED BY <1>1, <1>2, <1>4, <2>1, SomeSentStep
<1>5. CASE u = disarmOverride(t) /\ (unsent(t) <= 0 \/ sendUsable(t) = 0)
  <2>1. /\ u.snd = t.snd /\ u.sndBuf = t.sndBuf /\ u.cong = t.cong
        /\ u.retxQueue = t.retxQueue /\ unsent(u) = unsent(t) /\ u.tmr.persist = t.tmr.persist
    BY <1>5, TmrSame
  <2>2. MoreSent(t, u, 0)
    BY <2>1, NoneSent
  <2>3. SomeSent(t, u)
    BY <2>2 DEF SomeSent
  <2>4. ASSUME SndOK(t, Control(t.state)), CongLive(t.cong), Woken(t), unsent(u) > 0
        PROVE  u.retxQueue # <<>> \/ u.tmr.persist
    <3>1. unsent(t) > 0 /\ sendUsable(t) = 0
      BY <1>5, <2>1, <2>4, UnsentType
    <3>2. CASE t.retxQueue # <<>> \/ t.tmr.persist
      BY <2>1, <3>2
    <3>3. CASE t.retxQueue = <<>> /\ ~t.tmr.persist
      <4>1. t.snd.wnd # 0
        BY <2>4, <3>1, <3>3 DEF Woken
      <4> QED BY <2>4, <3>1, <3>3, <4>1, IdleUsable DEF SndOK
    <3> QED BY <3>2, <3>3
  <2>5. SndOK(t, Control(t.state)) /\ CongLive(t.cong) /\ Woken(t) => Woken(u)
    BY <2>4 DEF Woken
  <2> QED BY <1>1, <1>2, <2>3, <2>5, SomeSentStep
<1> QED BY <1>3, <1>4, <1>5

LEMMA AbandonStep ==
    ASSUME NEW t \in TCB
    PROVE  SndStep(t, abandon(t))
<1> DEFINE u == abandon(t)
<1>1. u \in TCB /\ u.state = "Closed"
  BY AbandonCloses DEF KeepsOrCloses, KeepsRcv, SameRcv
<1>2. u.sndBuf = t.sndBuf /\ u.cong = t.cong
  BY DEF abandon, TCB
<1> HIDE DEF u
<1>3. SndStep(t, u)
  BY <1>1, <1>2, BufLen DEF SndStep, SndInv
<1> QED BY <1>3 DEF u

LEMMA SameQueueCovers ==
    ASSUME NEW una, NEW nxt, NEW q, NEW r, SameQueue(q, r), Covered(una, nxt, q)
    PROVE  Covered(una, nxt, r)
<1>1. \A i \in 1..Len(q) : i \in 1..Len(r) /\ \A x : covers(q[i], x) => covers(r[i], x)
  BY DEF SameQueue, covers, segLen
<1> QED BY <1>1 DEF Covered

LEMMA CheckRetransmitStep ==
    ASSUME NEW t \in TCB
    PROVE  SndStep(t, checkRetransmit(t))
<1> DEFINE u == checkRetransmit(t)
<1>1. CASE u = abandon(t)
  BY <1>1, AbandonStep
<1>2. CASE Resent(t, u)
  <2> HIDE DEF u
  <2>1. u \in TCB /\ u.state = t.state
    BY <1>2 DEF Resent, Keeps, KeepsRcv, SameRcv
  <2>2. /\ u.snd = t.snd /\ u.sndBuf = t.sndBuf /\ flightSize(u) = flightSize(t)
        /\ unsent(u) = unsent(t) /\ Len(u.sndBuf) <= Len(t.sndBuf)
        /\ u.tmr.persist = t.tmr.persist /\ u.tmr.override = t.tmr.override
        /\ SameQueue(t.retxQueue, u.retxQueue)
    BY <1>2, BufLen DEF Resent, flightSize, unsent
  <2>3. t.retxQueue # <<>> => u.retxQueue # <<>>
    <3>1. t.retxQueue \in Seq(RetxSeg) /\ u.retxQueue \in Seq(RetxSeg)
      BY <2>1, TcbParts
    <3> QED BY <2>2, <3>1, EmptySeq DEF SameQueue
  <2>4. u.cong.state = "FastRecovery" => t.cong.state = "FastRecovery"
    BY <1>2 DEF Resent
  <2>5. \A c : SndOK(t, c) => SndOK(u, c)
    BY <2>2, <2>4, SameQueueCovers DEF SndOK
  <2>6. Woken(t) => Woken(u)
    BY <2>2, <2>3 DEF Woken
  <2>7. SynOnly(t) => SynOnly(u)
    BY <2>2, <2>4 DEF SynOnly
  <2>8. CongLive(t.cong) => CongLive(u.cong)
    BY <1>2 DEF Resent
  <2>9. SndStep(t, u)
    BY <2>1, <2>2, <2>5, <2>6, <2>7, <2>8 DEF SndStep, SndInv
  <2> QED BY <2>9 DEF u
<1> QED BY <1>1, <1>2, CheckRetransmitEffect

LEMMA CheckKeepAliveStep ==
    ASSUME NEW t \in TCB
    PROVE  SndStep(t, checkKeepAlive(t))
<1> DEFINE off == ~KeepAlive \/ ~synchronized(t.state) \/ t.snd.una # t.snd.nxt
           w == writeSeg(t, {"ACK"}, SeqSub(t.snd.nxt, 1), t.rcv.nxt, <<>>)
           u == [w EXCEPT !.keepaliveProbes = @ + 1]
<1>0. checkKeepAlive(t) \in {t, abandon(t), u}
  BY DEF checkKeepAlive
<1>1. checkKeepAlive(t) \in TCB
  BY CheckKeepAliveKeeps DEF KeepsOrCloses, KeepsRcv, SameRcv
<1>2. CASE checkKeepAlive(t) = u
  <2>1. SeqSub(t.snd.nxt, 1) \in SeqNum /\ {"ACK"} \in Flags /\ t.rcv.nxt \in SeqNum
    <3>1. 1 \in SeqNum
      BY TcbAssumption, HalfSeqSpaceAssumption DEF SeqNum, SeqSize
    <3> QED BY <3>1, SndParts, RcvParts, SeqSubType DEF Flags
  <2>2. Wrote(t, w, {"ACK"}, t.rcv.nxt)
    BY <2>1, EmptyPayload, WriteSegOptsForm DEF writeSeg
  <2> HIDE DEF w
  <2>3. w \in TCB /\ SameSnd(t, w) /\ w.state = t.state
    BY <2>2 DEF Wrote, SameRcv
  <2>4. /\ u.snd = w.snd /\ u.sndBuf = w.sndBuf /\ u.retxQueue = w.retxQueue
        /\ u.cong = w.cong /\ u.tmr = w.tmr /\ u.state = w.state
    BY <2>3 DEF TCB
  <2>5. u \in TCB
    BY <1>1, <1>2
  <2> HIDE DEF u
  <2>6. SameSnd(t, u) /\ u.state = t.state
    BY <2>3, <2>4 DEF SameSnd
  <2> QED BY <1>2, <2>5, <2>6, SameSndStep DEF StateUp
<1> QED BY <1>0, <1>2, AbandonStep, SndStepRefl

LEMMA TickStep ==
    ASSUME NEW t \in TCB, NEW due
    PROVE  SndStep(t, Tick(t, due))
<1> DEFINE c == [t EXCEPT !.state = "Closed"]
           t1 == IF "timewait" \in due THEN c ELSE t
           t2 == IF "rtx" \in due THEN checkRetransmit(t1) ELSE t1
           t3 == IF "persist" \in due THEN probePersist(t2) ELSE t2
           t4 == IF "override" \in due THEN fireOverride(t3) ELSE t3
           t5 == IF "delack" \in due THEN sendAck(t4) ELSE t4
           t6 == IF "keepalive" \in due THEN checkKeepAlive(t5) ELSE t5
<1>0. Tick(t, due) = t6
  BY DEF Tick
<1>k. \A u, v : SndStep(u, v) => v \in TCB
  BY DEF SndStep
<1>c. SndStep(t, c)
  <2>1. SameSnd(t, c) /\ c.state = "Closed" /\ c \in TCB
    BY StateKeepsRcv DEF State, KeepsRcv, SameRcv
  <2> HIDE DEF c
  <2> QED BY <2>1, SameSndStep DEF StateUp
<1> HIDE DEF c
<1>1. SndStep(t, t1) /\ t1 \in TCB
  BY <1>c, <1>k, SndStepRefl
<1> HIDE DEF t1
<1>2. SndStep(t1, t2) /\ t2 \in TCB
  BY <1>1, <1>k, SndStepRefl, CheckRetransmitStep
<1> HIDE DEF t2
<1>3. SndStep(t2, t3) /\ t3 \in TCB
  BY <1>2, <1>k, SndStepRefl, ProbePersistStep
<1> HIDE DEF t3
<1>4. SndStep(t3, t4) /\ t4 \in TCB
  BY <1>3, <1>k, SndStepRefl, FireOverrideStep
<1> HIDE DEF t4
<1>5. SndStep(t4, t5) /\ t5 \in TCB
  <2>1. SndStep(t4, sendAck(t4))
    BY <1>4, SendAckKeeps, SameSndStep DEF Keeps, KeepsRcv, SameRcv, StateUp
  <2> QED BY <1>4, <1>k, <2>1, SndStepRefl
<1> HIDE DEF t5
<1>6. SndStep(t5, t6)
  BY <1>5, SndStepRefl, CheckKeepAliveStep
<1> HIDE DEF t6
<1>7. SndStep(t, t6)
  BY <1>1, <1>2, <1>3, <1>4, <1>5, <1>6, SndStepTrans
<1> QED BY <1>0, <1>7

-----------------------------------------------------------------------------
(* A segment that arrives and the sender.                                  *)

\* A connection that has its SYN at the end of the queue, and nothing else in flight.
LEMMA SynInFlight ==
    ASSUME NEW t \in TCB, NEW u \in TCB, u.snd.una = u.snd.iss, u.snd.nxt = SeqAdd(u.snd.iss, 1),
           NEW flags \in Flags, "SYN" \in flags, "FIN" \notin flags, "RST" \notin flags,
           u.retxQueue = Append(t.retxQueue, queueEntry(flags, u.snd.iss, <<>>)),
           u.state \in {"SynSent", "SynReceived"}
    PROVE  SndOK(u, Control(u.state)) /\ Woken(u) /\ flightSize(u) = 1
<1> DEFINE e == queueEntry(flags, u.snd.iss, <<>>)
           q == t.retxQueue
           r == Append(q, e)
<1>1. u.snd.iss \in SeqNum /\ q \in Seq(RetxSeg)
  BY SndParts, TcbParts
<1>2. e \in RetxSeg /\ e.seq = u.snd.iss /\ segLen(e) = 1
  <2>1. 0 \in 0..MaxRetransmits
    BY TcbAssumption
  <2>2. e \in RetxSeg /\ e.seq = u.snd.iss /\ e.data = <<>> /\ e.flags = flags
    BY <1>1, <2>1, EmptyPayload DEF RetxSeg, Flags, queueEntry
  <2> HIDE DEF e
  <2> QED BY <2>2 DEF segLen
<1> HIDE DEF e
<1>3. SeqSub(u.snd.nxt, u.snd.una) = 1 /\ SeqAdd(u.snd.una, 0) = u.snd.iss /\ SeqAdd(u.snd.iss, 0) = u.snd.iss
  BY <1>1, HalfSeqSpaceAssumption, TcbAssumption DEF SeqSub, SeqAdd, SeqNum, SeqSize
<1>4. \E i \in 1..Len(r) : covers(r[i], SeqAdd(e.seq, 0))
  <2>1. \A j \in 0..(segLen(e) - 1) : \E i \in 1..Len(r) : covers(r[i], SeqAdd(e.seq, j))
    BY <1>1, <1>2, EntryCovers
  <2>2. 0 \in 0..(segLen(e) - 1)
    BY <1>2
  <2> QED BY <2>1, <2>2
<1>5. Covered(u.snd.una, u.snd.nxt, r)
  <2> SUFFICES ASSUME NEW j \in 0..0 PROVE \E i \in 1..Len(r) : covers(r[i], SeqAdd(u.snd.una, j))
    BY <1>3 DEF Covered
  <2> QED BY <1>2, <1>3, <1>4
<1>6. r # <<>>
  <2>1. Len(r) = Len(q) + 1 /\ Len(q) \in Nat /\ Len(<<>>) = 0
    BY <1>1, <1>2, AppendProperties, LenProperties, EmptySeq
  <2> HIDE DEF r, q
  <2>2. Len(r) # Len(<<>>)
    BY <2>1
  <2> QED BY <2>2
<1>7. u.retxQueue = r
  BY DEF e
<1> HIDE DEF r
<1>8. Woken(u)
  BY <1>6, <1>7 DEF Woken
<1>9. flightSize(u) = 1 /\ Control(u.state) = 1
  BY <1>3 DEF flightSize, Control
<1>10. SndOK(u, Control(u.state))
  <2>1. Covered(u.snd.una, u.snd.nxt, u.retxQueue)
    BY <1>5, <1>7
  <2>2. Len(u.sndBuf) \in Nat
    BY BufLen
  <2>3. flightSize(u) <= Len(u.sndBuf) + Control(u.state) /\ flightSize(u) > 0
    BY <1>9, <2>2
  <2> QED BY <2>1, <2>3 DEF SndOK
<1> QED BY <1>8, <1>9, <1>10

\* A SYN taken in LISTEN or SYN-SENT.
LEMMA SynTakenStep ==
    ASSUME NEW t \in TCB, NEW u, SynTaken(t, u),
           \/ u.snd.una = t.snd.iss /\ u.snd.nxt = SeqAdd(t.snd.iss, 1)
           \/ t.state = "SynSent" /\ u.snd = t.snd
    PROVE  SndStep(t, u)
<1>1. /\ u \in TCB /\ u.state = "SynReceived" /\ u.snd.iss = t.snd.iss /\ u.cong = t.cong
      /\ u.sndBuf = t.sndBuf
      /\ u.retxQueue = Append(t.retxQueue, queueEntry({"SYN", "ACK"}, u.snd.iss, <<>>))
  BY DEF SynTaken
<1>2. SndInv(t) => u.snd.una = u.snd.iss /\ u.snd.nxt = SeqAdd(u.snd.iss, 1)
  BY <1>1 DEF SndInv, SynOnly
<1>3. {"SYN", "ACK"} \in Flags /\ "SYN" \in {"SYN", "ACK"} /\ "FIN" \notin {"SYN", "ACK"}
  BY DEF Flags
<1>4. SndInv(t) => SndOK(u, Control(u.state)) /\ Woken(u)
  BY <1>1, <1>2, <1>3, SynInFlight
<1> QED BY <1>1, <1>4, BufLen DEF SndStep, SndInv

LEMMA OnSegmentListenStep ==
    ASSUME NEW t \in TCB, NEW s \in Segment
    PROVE  SndStep(t, onSegmentListen(t, s))
<1> DEFINE u == onSegmentListen(t, s)
<1>1. \/ Replied(t, u)
      \/ SynTaken(t, u) /\ u.snd.una = t.snd.iss /\ u.snd.nxt = SeqAdd(t.snd.iss, 1)
  BY OnSegmentListenEffect
<1> SUFFICES SndStep(t, u)
  OBVIOUS
<1> HIDE DEF u
<1>2. CASE Replied(t, u)
  BY <1>2, SameSndStep DEF Replied, SameRcv, StateUp
<1>3. CASE SynTaken(t, u) /\ u.snd.una = t.snd.iss /\ u.snd.nxt = SeqAdd(t.snd.iss, 1)
  BY <1>3, SynTakenStep
<1> QED BY <1>1, <1>2, <1>3

\* In SYN-SENT only the number after the SYN is a good ACK.
LEMMA GoodAck ==
    ASSUME NEW t \in TCB, NEW s \in Segment, "ACK" \in s.flags, ~badAck(t, s),
           t.snd.nxt = SeqAdd(t.snd.iss, 1)
    PROVE  s.ack = t.snd.nxt
<1>1. /\ ~SeqLEQ(s.ack, t.snd.iss) /\ ~SeqGT(s.ack, t.snd.nxt)
      /\ s.ack \in SeqNum /\ t.snd.iss \in SeqNum
  BY SegmentParts, SndParts DEF badAck
<1> DEFINE a == s.ack
           i == t.snd.iss
<1>2. ~SeqLEQ(a, i) /\ ~SeqGT(a, SeqAdd(i, 1)) /\ a \in SeqNum /\ i \in SeqNum
  BY <1>1
<1> HIDE DEF a, i
<1>3. a = SeqAdd(i, 1)
  BY <1>2, HalfSeqSpaceAssumption, TcbAssumption
     DEF SeqLEQ, SeqGT, SeqLT, SeqSub, SeqAdd, SeqNum, SeqSize
<1> QED BY <1>3 DEF a, i

LEMMA OnSegmentSynSentStep ==
    ASSUME NEW t \in TCB, NEW s \in Segment, t.state = "SynSent"
    PROVE  SndStep(t, onSegmentSynSent(t, s))
<1> DEFINE u == onSegmentSynSent(t, s)
<1>1. \/ Replied(t, u)
      \/ SameRcv(t, u) /\ SameSnd(t, u) /\ u.state = "Closed"
      \/ /\ u \in TCB /\ u.state = "Established" /\ "ACK" \in s.flags /\ ~badAck(t, s)
         /\ Answered(t, u, s.ack)
      \/ SynTaken(t, u) /\ u.snd = t.snd
  BY OnSegmentSynSentEffect
<1> SUFFICES SndStep(t, u)
  OBVIOUS
<1> HIDE DEF u
<1>2. CASE Replied(t, u)
  BY <1>2, SameSndStep DEF Replied, SameRcv, StateUp
<1>3. CASE SameRcv(t, u) /\ SameSnd(t, u) /\ u.state = "Closed"
  BY <1>3, SameSndStep DEF SameRcv, StateUp
<1>4. CASE SynTaken(t, u) /\ u.snd = t.snd
  BY <1>4, SynTakenStep
<1>5. CASE /\ u \in TCB /\ u.state = "Established" /\ "ACK" \in s.flags /\ ~badAck(t, s)
           /\ Answered(t, u, s.ack)
  <2>1. u.sndBuf = t.sndBuf /\ u.cong = t.cong
    BY <1>5 DEF Answered
  <2>2. ASSUME SndInv(t) PROVE SndInv(u)
    <3>1. SynOnly(t) /\ CongLive(t.cong)
      BY <2>2 DEF SndInv
    <3>2. s.ack = t.snd.nxt
      BY <1>5, <3>1, GoodAck DEF SynOnly
    <3>3. u.snd.una = u.snd.nxt /\ u.snd.nxt \in SeqNum
      BY <1>5, <3>2, SndParts DEF Answered
    <3>4. flightSize(u) = 0
      BY <3>3, SeqNumNat DEF flightSize, SeqSub
    <3>5. u.sndBuf = <<>> /\ Len(<<>>) = 0
      BY <2>1, <3>1 DEF SynOnly
    <3>6. \A j \in 0..(flightSize(u) - 1) : FALSE
      BY <3>4
    <3>7. Covered(u.snd.una, u.snd.nxt, u.retxQueue)
      BY <3>6 DEF Covered, flightSize
    <3>8. SndOK(u, Control(u.state))
      BY <1>5, <2>1, <3>1, <3>4, <3>5, <3>7, ControlType DEF SndOK, SynOnly
    <3>9. Woken(u)
      BY <3>4, <3>5 DEF Woken, unsent
    <3> QED BY <1>5, <2>1, <3>1, <3>8, <3>9 DEF SndInv
  <2> QED BY <1>5, <2>1, <2>2, BufLen DEF SndStep
<1> QED BY <1>1, <1>2, <1>3, <1>4, <1>5

\* ackRetxQueue drops nothing that is not acknowledged.
LEMMA AckRetxQueueForm ==
    ASSUME NEW t \in TCB, NEW ack
    PROVE  LET u == ackRetxQueue(t, ack) IN
             /\ u.snd = t.snd /\ u.sndBuf = t.sndBuf /\ u.cong = t.cong
             /\ \A i \in 1..Len(t.retxQueue) :
                   \/ SeqLEQ(SeqAdd(t.retxQueue[i].seq, segLen(t.retxQueue[i])), ack)
                   \/ \E l \in 1..Len(u.retxQueue) : u.retxQueue[l] = t.retxQueue[i]
<1> DEFINE n == Len(t.retxQueue)
           acked(i) == SeqLEQ(SeqAdd(t.retxQueue[i].seq, segLen(t.retxQueue[i])), ack)
           S == {i \in 0..(n - 1) : acked(i + 1)}
           k == LoopCount(S, n)
           q == SubSeq(t.retxQueue, k + 1, n)
           u == ackRetxQueue(t, ack)
<1>1. t.retxQueue \in Seq(RetxSeg) /\ n \in Nat
  BY TcbParts, LenProperties
<1>2. k \in 0..n /\ \A i \in 0..(k - 1) : i \in S
  <2>1. S \in SUBSET (0..(n - 1))
    OBVIOUS
  <2> HIDE DEF S, n
  <2> QED BY <1>1, <2>1, LoopCountType
<1>3. u = [t EXCEPT !.retxQueue = q]
  BY DEF ackRetxQueue
<1>4. \A i \in 0..(k - 1) : acked(i + 1)
  BY <1>2
<1> HIDE DEF k, acked, S
<1>5. /\ k \in Nat /\ k <= n /\ Len(q) = n - k
      /\ \A i \in 1..(n - k) : q[i] = t.retxQueue[k + i]
  BY <1>1, <1>2, RestOfSeq
<1> HIDE DEF q
<1>6. u.snd = t.snd /\ u.sndBuf = t.sndBuf /\ u.cong = t.cong /\ u.retxQueue = q
  BY <1>3 DEF TCB
<1> HIDE DEF u
<1>7. ASSUME NEW i \in 1..n
      PROVE  acked(i) \/ \E l \in 1..Len(q) : q[l] = t.retxQueue[i]
  <2>1. CASE i <= k
    <3>1. i - 1 \in 0..(k - 1) /\ (i - 1) + 1 = i
      BY <1>5, <2>1
    <3>2. acked((i - 1) + 1)
      BY <1>4, <3>1
    <3> QED BY <3>1, <3>2
  <2>2. CASE ~(i <= k)
    <3>1. i - k \in 1..(n - k) /\ k + (i - k) = i /\ i - k \in 1..Len(q)
      BY <1>1, <1>5, <2>2
    <3>2. q[i - k] = t.retxQueue[k + (i - k)]
      BY <1>5, <3>1
    <3> QED BY <3>1, <3>2
  <2> QED BY <2>1, <2>2
<1> QED BY <1>6, <1>7 DEF acked, u, n

LEMMA ReleasedLen ==
    ASSUME NEW t \in TCB, NEW acked \in Nat
    PROVE  LET u == releaseAckedSend(t, acked) IN
             /\ u.snd = t.snd /\ u.cong = t.cong /\ u.retxQueue = t.retxQueue
             /\ Len(u.sndBuf) = Len(t.sndBuf) - minU32(acked, Len(t.sndBuf))
<1> DEFINE m == minU32(acked, Len(t.sndBuf))
           b == SubSeq(t.sndBuf, m + 1, Len(t.sndBuf))
           u == releaseAckedSend(t, acked)
<1>1. t.sndBuf \in Seq(Nat) /\ Len(t.sndBuf) \in Nat
  BY TcbParts, LenProperties
<1>2. m \in Nat /\ m <= Len(t.sndBuf)
  BY <1>1 DEF minU32
<1>3. u = [t EXCEPT !.sndBuf = b]
  BY DEF releaseAckedSend
<1> HIDE DEF m
<1>4. Len(b) = Len(t.sndBuf) - m
  BY <1>1, <1>2, RestOfSeq
<1> HIDE DEF b
<1>5. /\ u.snd = t.snd /\ u.cong = t.cong /\ u.retxQueue = t.retxQueue /\ u.sndBuf = b
  BY <1>3 DEF TCB
<1> HIDE DEF u
<1> QED BY <1>4, <1>5 DEF u, m

\* An ACK that moves SND.UNA.
newlyAcked(t, s) ==
    LET acked == SeqSub(s.ack, t.snd.una)
        u == [t EXCEPT !.snd.una = s.ack, !.cong = onNewAck(@, acked)]
    IN releaseAckedSend(ackRetxQueue(u, s.ack), acked)

LEMMA AckShrinksFlight ==
    ASSUME NEW len \in Nat, NEW flight \in Nat, NEW acked \in Nat, acked <= flight,
           NEW c \in Nat, flight <= len + c
    PROVE  /\ flight - acked <= (len - minU32(acked, len)) + c
           /\ len - minU32(acked, len) <= len
  BY DEF minU32

LEMMA NewAckOK ==
    ASSUME NEW t \in TCB, NEW s \in Segment
    PROVE  LET v == newlyAcked(t, s) IN
             /\ Keeps(t, v) /\ Len(v.sndBuf) <= Len(t.sndBuf)
             /\ CongLive(t.cong) => CongLive(v.cong)
             /\ \A c \in 0..2 : advances(t, s) /\ SndOK(t, c) /\ Small(t) => SndOK(v, c)
<1> DEFINE acked == SeqSub(s.ack, t.snd.una)
           x == [t.snd EXCEPT !.una = s.ack]
           c0 == onNewAck(t.cong, acked)
           u == [t EXCEPT !.snd = x, !.cong = c0]
           r == ackRetxQueue(u, s.ack)
           v == releaseAckedSend(r, acked)
<1>0. newlyAcked(t, s) = v
  <2>1. [t EXCEPT !.snd.una = s.ack, !.cong = onNewAck(@, acked)] = u
    BY DEF TCB, SndVars
  <2> QED BY <2>1 DEF newlyAcked
<1>1. acked \in Nat /\ s.ack \in SeqNum
  BY SegmentParts, SndParts, SeqSubType, SeqNumNat
<1>2. x \in SndVars /\ x.una = s.ack /\ x.nxt = t.snd.nxt
  BY <1>1, TcbParts DEF SndVars
<1>3. c0 \in Cong /\ c0.state # "FastRecovery" /\ (CongLive(t.cong) => CongLive(c0))
  BY <1>1, TcbParts, OnNewAckType, OnNewAckLive
<1>f. acked = SeqSub(s.ack, t.snd.una)
  OBVIOUS
<1> HIDE DEF acked, x, c0
<1>4. Keeps(t, u) /\ u.snd = x /\ u.cong = c0 /\ u.sndBuf = t.sndBuf /\ u.retxQueue = t.retxQueue
  BY <1>2, <1>3 DEF Keeps, KeepsRcv, SameRcv, Settled, NoNewFin, TCB
<1> HIDE DEF u
<1>5. u \in TCB
  BY <1>4, KeepsType
<1>6. Keeps(u, r) /\ r \in TCB
  BY <1>5, AckRetxQueueKeeps, KeepsType
<1>7. /\ r.snd = x /\ r.sndBuf = t.sndBuf /\ r.cong = c0
      /\ \A i \in 1..Len(t.retxQueue) :
            \/ SeqLEQ(SeqAdd(t.retxQueue[i].seq, segLen(t.retxQueue[i])), s.ack)
            \/ \E l \in 1..Len(r.retxQueue) : r.retxQueue[l] = t.retxQueue[i]
  BY <1>4, <1>5, AckRetxQueueForm
<1> HIDE DEF r
<1>8. Keeps(r, v)
  BY <1>1, <1>6, ReleaseAckedSendKeeps
<1>9. /\ v.snd = x /\ v.cong = c0 /\ v.retxQueue = r.retxQueue
      /\ Len(v.sndBuf) = Len(t.sndBuf) - minU32(acked, Len(t.sndBuf))
  BY <1>1, <1>6, <1>7, ReleasedLen
<1> HIDE DEF v
<1>10. Keeps(t, v)
  BY <1>4, <1>6, <1>8, KeepsTrans
<1>b. Len(t.sndBuf) \in Nat /\ flightSize(t) \in Nat /\ DefaultMSS \in Nat /\ HalfSeqSpace \in Nat
  BY BufLen, FlightType
<1>11. Len(v.sndBuf) <= Len(t.sndBuf)
  <2> DEFINE l == Len(t.sndBuf)
  <2>1. l \in Nat
    BY <1>b
  <2> HIDE DEF l
  <2>2. l - minU32(acked, l) <= l
    BY <1>1, <2>1 DEF minU32
  <2> QED BY <1>9, <2>2 DEF l
<1>12. ASSUME NEW c \in 0..2, advances(t, s), SndOK(t, c), Small(t)
       PROVE  SndOK(v, c)
  <2>1. /\ t.snd.una \in SeqNum /\ t.snd.nxt \in SeqNum /\ t.retxQueue \in Seq(RetxSeg)
        /\ AcceptableAck(t.snd.una, s.ack, t.snd.nxt)
    BY <1>12, SndParts, TcbParts DEF advances
  <2>2. flightSize(t) + DefaultMSS + 2 <= HalfSeqSpace /\ flightSize(t) < HalfSeqSpace
    BY <1>12, <1>b DEF Small, SndOK
  <2>3. Covered(s.ack, t.snd.nxt, r.retxQueue)
    BY <1>1, <1>7, <1>12, <2>1, <2>2, CoverLess DEF SndOK, flightSize
  <2>4. SeqSub(t.snd.nxt, s.ack) = flightSize(t) - acked /\ acked <= flightSize(t)
    <3>1. /\ SeqSub(t.snd.nxt, s.ack) = SeqSub(t.snd.nxt, t.snd.una) - SeqSub(s.ack, t.snd.una)
          /\ SeqSub(t.snd.nxt, s.ack) \in Nat
      BY <1>1, <2>1, <2>2, AckShrinks DEF flightSize
    <3> QED BY <1>1, <1>b, <1>f, <3>1 DEF flightSize
  <2>5. flightSize(v) = flightSize(t) - acked
    BY <1>2, <1>9, <2>4 DEF flightSize
  <2>6. flightSize(t) - acked <= (Len(t.sndBuf) - minU32(acked, Len(t.sndBuf))) + c
    <3>1. c \in Nat /\ flightSize(t) <= Len(t.sndBuf) + c
      BY <1>12 DEF SndOK
    <3> QED BY <1>1, <1>b, <2>4, <3>1, AckShrinksFlight
  <2>7. Covered(v.snd.una, v.snd.nxt, v.retxQueue)
    BY <1>2, <1>9, <2>3
  <2> QED BY <1>3, <1>9, <2>5, <2>6, <2>7 DEF SndOK
<1> QED BY <1>0, <1>3, <1>9, <1>10, <1>11, <1>12

\* A duplicate ACK changes the congestion window, and only while something is
\* in flight.
LEMMA DupAckOK ==
    ASSUME NEW t \in TCB, NEW s, t.retxQueue # <<>>
    PROVE  LET v == onDuplicateAck(t, s) IN
             /\ Keeps(t, v) /\ v.sndBuf = t.sndBuf
             /\ CongLive(t.cong) => CongLive(v.cong)
             /\ \A c : SndOK(t, c) => SndOK(v, c)
<1> DEFINE c0 == onDupAck(t.cong, flightSize(t))
           u == [t EXCEPT !.cong = c0]
           v == onDuplicateAck(t, s)
<1>1. v = t \/ (flightSize(t) # 0 /\ v \in {u, resendFront(u)})
  BY DEF onDuplicateAck
<1>2. c0 \in Cong /\ (CongLive(t.cong) => CongLive(c0)) /\ flightSize(t) \in Nat
  BY TcbParts, FlightType, OnDupAckType, OnDupAckLive
<1>k. Keeps(t, v)
  BY OnDuplicateAckKeeps
<1> HIDE DEF c0
<1>3. /\ u \in TCB /\ u.retxQueue = t.retxQueue /\ u.snd = t.snd /\ u.sndBuf = t.sndBuf
      /\ u.cong = c0
  BY <1>2 DEF TCB
<1> HIDE DEF u
<1>4. SameSnd(u, resendFront(u)) /\ SameSnd(u, u)
  BY <1>3, ResendFrontKeeps, SameSndRefl
<1> HIDE DEF v
<1>5. CASE v = t
  BY <1>5, <1>k DEF v
<1>6. CASE flightSize(t) # 0 /\ v \in {u, resendFront(u)}
  <2>1. SameSnd(u, v)
    BY <1>4, <1>6
  <2>2. v.retxQueue = t.retxQueue /\ v.snd = t.snd /\ v.sndBuf = t.sndBuf /\ v.cong = c0
    BY <1>3, <2>1 DEF SameSnd
  <2>3. flightSize(v) = flightSize(t) /\ flightSize(t) > 0
    BY <1>2, <1>6, <2>2 DEF flightSize
  <2>4. \A c : SndOK(t, c) => SndOK(v, c)
    BY <2>2, <2>3 DEF SndOK
  <2> QED BY <1>2, <1>k, <2>2, <2>4 DEF v
<1> QED BY <1>1, <1>5, <1>6

LEMMA UpdateSendWindowSame ==
    ASSUME NEW t \in TCB, NEW s
    PROVE  LET u == updateSendWindow(t, s) IN
             /\ u.snd.una = t.snd.una /\ u.snd.nxt = t.snd.nxt /\ u.sndBuf = t.sndBuf
             /\ u.cong = t.cong /\ u.retxQueue = t.retxQueue
<1> DEFINE w == IF t.opt.scaled THEN s.win * WScale ELSE s.win
           x == [t.snd EXCEPT !.maxWnd = maxU32(@, w)]
           y == [x EXCEPT !.wnd = w, !.wl1 = s.seq, !.wl2 = s.ack]
           z == [t.tmr EXCEPT !.persist = IF w > 0 THEN FALSE ELSE @]
           Same(b) == /\ b.snd.una = t.snd.una /\ b.snd.nxt = t.snd.nxt
                      /\ b.sndBuf = t.sndBuf /\ b.cong = t.cong /\ b.retxQueue = t.retxQueue
<1>1. updateSendWindow(t, s) \in {[t EXCEPT !.snd = x], [t EXCEPT !.snd = y, !.tmr = z]}
  BY UpdateSendWindowForm
<1>2. /\ x.una = t.snd.una /\ x.nxt = t.snd.nxt
      /\ y.una = t.snd.una /\ y.nxt = t.snd.nxt
  BY DEF TCB, SndVars
<1> HIDE DEF w, x, y, z
<1>3. Same([t EXCEPT !.snd = x]) /\ Same([t EXCEPT !.snd = y, !.tmr = z])
  BY <1>2 DEF TCB
<1>4. Same(updateSendWindow(t, s))
  BY <1>1, <1>3
<1> QED BY <1>4

\* The states an ACK leads to have as much room for SYN and FIN.
LEMMA AckStateUp ==
    ASSUME NEW a, NEW b,
           \/ b = a
           \/ a = "SynReceived" /\ b = "Established"
           \/ a = "FinWait1" /\ b = "FinWait2"
           \/ a = "Closing" /\ b = "TimeWait"
           \/ a = "LastAck" /\ b = "Closed"
    PROVE  Control(a) <= Control(b)
  BY DEF Control

LEMMA HandleAckStep ==
    ASSUME NEW t \in TCB, NEW s \in Segment, t.state \notin {"Closed", "Listen", "SynSent"}
    PROVE  SndStep(t, handleAck(t, s))
<1> DEFINE v == IF advances(t, s) THEN newlyAcked(t, s)
                ELSE IF isDupAck(t, s) THEN onDuplicateAck(t, s)
                ELSE t
           w == updateSendWindow(v, s)
           a == advanceStateOnAck(w)
           z == flushSend(a)
<1>0. handleAck(t, s) = z
  BY DEF handleAck, newlyAcked
<1>t. Keeps(t, t) /\ Len(t.sndBuf) <= Len(t.sndBuf)
  BY KeepsRefl, BufLen
<1>1. /\ Keeps(t, v) /\ Len(v.sndBuf) <= Len(t.sndBuf)
      /\ CongLive(t.cong) => CongLive(v.cong)
      /\ \A c \in 0..2 : SndOK(t, c) /\ Small(t) => SndOK(v, c)
  <2>1. CASE advances(t, s)
    BY <2>1, NewAckOK
  <2>2. CASE ~advances(t, s) /\ isDupAck(t, s)
    <3> DEFINE d == onDuplicateAck(t, s)
    <3>1. /\ Keeps(t, d) /\ d.sndBuf = t.sndBuf
          /\ CongLive(t.cong) => CongLive(d.cong)
          /\ \A c : SndOK(t, c) => SndOK(d, c)
      BY <2>2, DupAckOK DEF isDupAck
    <3>2. v = d
      BY <2>2
    <3> HIDE DEF d, v
    <3> QED BY <1>t, <3>1, <3>2
  <2>3. CASE ~advances(t, s) /\ ~isDupAck(t, s)
    BY <1>t, <2>3
  <2> QED BY <2>1, <2>2, <2>3
<1> HIDE DEF v
<1>2. v \in TCB /\ v.state = t.state
  BY <1>1, KeepsType DEF Keeps
<1>3. /\ w \in TCB /\ w.state = t.state
      /\ w.snd.una = v.snd.una /\ w.snd.nxt = v.snd.nxt /\ w.sndBuf = v.sndBuf
      /\ w.cong = v.cong /\ w.retxQueue = v.retxQueue
  BY <1>2, UpdateSendWindowKeeps, UpdateSendWindowSame DEF Keeps, KeepsRcv, SameRcv
<1> HIDE DEF w
<1>4. a \in TCB /\ AckStep(w, a) /\ SameSnd(w, a)
  BY <1>3, AdvanceStateEffect DEF KeepsRcv, SameRcv
<1> HIDE DEF a
<1>5. /\ a.snd.una = v.snd.una /\ a.snd.nxt = v.snd.nxt /\ a.sndBuf = v.sndBuf
      /\ a.cong = v.cong /\ a.retxQueue = v.retxQueue
  BY <1>3, <1>4 DEF SameSnd
<1>6. \A c : SndOK(v, c) => SndOK(a, c)
  BY <1>5 DEF SndOK, flightSize
<1>7. z \in TCB /\ z.state = a.state /\ SomeSent(a, z) /\ Woken(z)
  BY <1>4, FlushSendKeeps, FlushSendSent DEF Keeps, KeepsRcv, SameRcv
<1> HIDE DEF z
<1>8. z.sndBuf = v.sndBuf /\ z.cong = v.cong
  BY <1>5, <1>7, SomeSentSame
<1>9. Control(t.state) <= Control(z.state) /\ z.state # "SynSent"
  <2>1. AckStep(w, a) /\ w.state = t.state /\ z.state = a.state
    BY <1>3, <1>4, <1>7
  <2> QED BY <2>1, AckStateUp DEF AckStep
<1>10. ASSUME Small(t), SndInv(t) PROVE SndInv(z)
  <2>1. SndOK(t, Control(t.state)) /\ CongLive(t.cong)
    BY <1>10 DEF SndInv
  <2>2. SndOK(a, Control(t.state))
    BY <1>1, <1>6, <1>10, <2>1, ControlType
  <2>3. Small(a)
    BY <1>1, <1>4, <1>5, <1>10, SmallStays
  <2>4. SndOK(z, Control(t.state))
    BY <1>4, <1>7, <2>2, <2>3, SomeSentOK, ControlType
  <2>5. SndOK(z, Control(z.state))
    BY <1>7, <1>9, <2>4, ControlType, OKUp
  <2> QED BY <1>1, <1>7, <1>8, <1>9, <2>1, <2>5 DEF SndInv
<1>11. SndStep(t, z)
  BY <1>1, <1>7, <1>8, <1>10 DEF SndStep
<1> QED BY <1>0, <1>11

\* Text and FIN leave the sender alone.
LEMMA ProcessTextStep ==
    ASSUME NEW t \in TCB, NEW s \in Segment
    PROVE  SndStep(t, processText(t, s))
<1>1. s.seq \in SeqNum /\ s.data \in Payload
  BY SegmentParts
<1> DEFINE u == acceptText(t, s)
<1>2. SameSnd(t, u) /\ u \in TCB /\ u.state = t.state
  BY <1>1, AcceptTextEffect, AcceptTextEdge
<1> HIDE DEF u
<1>3. SndStep(t, u)
  BY <1>2, SameSndStep DEF StateUp
<1> QED BY <1>3, SndStepRefl DEF processText, u

LEMMA ProcessFinStep ==
    ASSUME NEW t \in TCB, NEW s
    PROVE  SndStep(t, processFin(t, s))
<1> DEFINE u == handleFin(t)
<1>1. u \in TCB /\ SameSnd(t, u) /\ FinStep(t.state, u.state)
  BY HandleFinEffect
<1> HIDE DEF u
<1>2. StateUp(t.state, u.state)
  BY <1>1 DEF FinStep, StateUp, Control
<1>3. SndStep(t, u)
  BY <1>1, <1>2, SameSndStep
<1> QED BY <1>3, SndStepRefl DEF processFin, u

\* A reply without data.
LEMMA KeepsStep ==
    ASSUME NEW t \in TCB, NEW u, Keeps(t, u), SameSnd(t, u)
    PROVE  SndStep(t, u)
  BY SameSndStep DEF Keeps, KeepsRcv, SameRcv, StateUp

LEMMA ProcessAckStep ==
    ASSUME NEW t \in TCB, NEW s \in Segment, t.state \notin {"Closed", "Listen", "SynSent"}
    PROVE  SndStep(t, processAck(t, s))
<1> DEFINE a == handleAck(t, s)
           b == processText(a, s)
           c == processFin(b, s)
<1>1. SndStep(t, a)
  BY HandleAckStep
<1> HIDE DEF a
<1>2. a \in TCB
  BY <1>1 DEF SndStep
<1>3. SndStep(a, b)
  BY <1>2, ProcessTextStep
<1> HIDE DEF b
<1>4. b \in TCB
  BY <1>3 DEF SndStep
<1>5. SndStep(b, c)
  BY <1>4, ProcessFinStep
<1> HIDE DEF c
<1>6. SndStep(t, c)
  BY <1>1, <1>2, <1>3, <1>4, <1>5, SndStepTrans
<1>7. SndStep(t, refuseAck(t, s))
  BY SendRstKeeps, SendChallengeAckKeeps, SegmentParts, KeepsStep DEF refuseAck
<1> QED BY <1>6, <1>7, SndStepRefl DEF processAck, a, b, c

LEMMA OnSegmentSynchronizedStep ==
    ASSUME NEW t \in TCB, NEW s \in Segment, t.state \notin {"Closed", "Listen", "SynSent"}
    PROVE  SndStep(t, onSegmentSynchronized(t, s))
<1> DEFINE r == handleRst(t, s)
           x == tsRecentUpdate(t, s)
           p == processAck(x, s)
<1>1. SndStep(t, sendAck(t)) /\ SndStep(t, sendChallengeAck(t))
  BY SendAckKeeps, SendChallengeAckKeeps, KeepsStep
<1>2. SndStep(t, r)
  <2>1. /\ r \in TCB /\ SameSnd(t, r)
        /\ r.state \in {t.state, "Closed"} \/ r.state = "Listen"
    BY HandleRstEffect DEF KeepsRcv, SameRcv
  <2> HIDE DEF r
  <2> QED BY <2>1, SameSndStep DEF StateUp
<1>3. Keeps(t, x) /\ SameSnd(t, x)
  BY TsRecentUpdateKeeps
<1> HIDE DEF x
<1>4. x \in TCB /\ x.state = t.state /\ SndStep(t, x)
  BY <1>3, KeepsType, KeepsStep DEF Keeps
<1>5. SndStep(x, p)
  BY <1>4, ProcessAckStep
<1> HIDE DEF p
<1>6. SndStep(t, p)
  BY <1>4, <1>5, SndStepTrans
<1> HIDE DEF r
<1> QED BY <1>1, <1>2, <1>6 DEF onSegmentSynchronized, r, x, p

LEMMA OnSegmentStep ==
    ASSUME NEW t \in TCB, NEW s \in Segment
    PROVE  SndStep(t, onSegment(t, s))
<1> DEFINE k == [t EXCEPT !.keepaliveProbes = 0]
<1>1. k \in TCB /\ SameSnd(t, k) /\ k.state = t.state
  <2>1. 0 \in 0..KeepaliveMaxProbes
    BY TcbAssumption
  <2>2. k \in TCB
    BY <2>1 DEF TCB
  <2>3. SameSnd(t, k) /\ k.state = t.state
    BY DEF TCB, SameSnd
  <2> QED BY <2>2, <2>3
<1>2. onSegment(t, s) = CASE k.state = "Closed" -> onSegmentClosed(k, s)
                          [] k.state = "Listen" -> onSegmentListen(k, s)
                          [] k.state = "SynSent" -> onSegmentSynSent(k, s)
                          [] OTHER -> onSegmentSynchronized(k, s)
  BY DEF onSegment
<1> HIDE DEF k
<1>3. SndStep(t, k)
  BY <1>1, SameSndStep DEF StateUp
<1>4. SndStep(k, onSegmentClosed(k, s))
  <2> DEFINE u == onSegmentClosed(k, s)
  <2>1. Replied(k, u)
    BY <1>1, OnSegmentClosedEffect
  <2> HIDE DEF u
  <2>2. SndStep(k, u)
    BY <1>1, <2>1, SameSndStep DEF Replied, SameRcv, StateUp
  <2> QED BY <2>2 DEF u
<1>5. SndStep(k, onSegmentListen(k, s))
  BY <1>1, OnSegmentListenStep
<1>6. k.state = "SynSent" => SndStep(k, onSegmentSynSent(k, s))
  BY <1>1, OnSegmentSynSentStep
<1>7. k.state \notin {"Closed", "Listen", "SynSent"} => SndStep(k, onSegmentSynchronized(k, s))
  BY <1>1, OnSegmentSynchronizedStep
<1>8. SndStep(k, onSegment(t, s))
  BY <1>2, <1>4, <1>5, <1>6, <1>7
<1> QED BY <1>1, <1>3, <1>8, SndStepTrans

-----------------------------------------------------------------------------
(* The user calls and the sender.                                          *)

LEMMA RecvStep ==
    ASSUME NEW t \in TCB, NEW n \in 1..Len(t.rcvBuf)
    PROVE  SndStep(t, Recv(t, n))
<1> DEFINE u == Recv(t, n)
<1>1. u \in TCB /\ u.state = t.state /\ SameSnd(t, u)
  BY RecvEdge, RecvInv
<1> HIDE DEF u
<1>2. SndStep(t, u)
  BY <1>1, SameSndStep DEF StateUp
<1> QED BY <1>2 DEF u

\* Send: more to send, and the same sender otherwise.
LEMMA SendStep ==
    ASSUME NEW t \in TCB, NEW data \in Seq(Nat), t.state \in {"Established", "CloseWait"}
    PROVE  LET u == Send(t, data) IN
             /\ u \in TCB /\ Len(u.sndBuf) = Len(t.sndBuf) + Len(data)
             /\ SndInv(t) /\ Small(u) => SndInv(u)
<1> DEFINE b == t.sndBuf \o data
           v == [t EXCEPT !.sndBuf = b]
           u == flushSend(v)
<1>1. b \in Seq(Nat) /\ Len(b) = Len(t.sndBuf) + Len(data) /\ Len(data) \in Nat
  BY TcbParts, ConcatProperties, LenProperties
<1> HIDE DEF b
<1>2. /\ v \in TCB /\ v.snd = t.snd /\ v.sndBuf = b /\ v.cong = t.cong
      /\ v.retxQueue = t.retxQueue /\ v.state = t.state
  BY <1>1 DEF TCB
<1>3. Send(t, data) = u
  BY DEF Send, b
<1> HIDE DEF v
<1>4. u \in TCB /\ u.state = t.state /\ SomeSent(v, u) /\ Woken(u)
  BY <1>2, FlushSendKeeps, FlushSendSent DEF Keeps, KeepsRcv, SameRcv
<1> HIDE DEF u
<1>5. u.sndBuf = b /\ u.cong = t.cong
  BY <1>2, <1>4, SomeSentSame
<1>6. ASSUME SndInv(t), Small(u) PROVE SndInv(u)
  <2>1. SndOK(t, Control(t.state)) /\ CongLive(t.cong)
    BY <1>6 DEF SndInv
  <2>2. SndOK(v, Control(t.state))
    <3>1. Len(t.sndBuf) \in Nat /\ flightSize(t) \in Nat /\ flightSize(v) = flightSize(t)
      BY <1>2, BufLen, FlightType DEF flightSize
    <3>2. flightSize(v) <= Len(v.sndBuf) + Control(t.state)
      BY <1>1, <1>2, <2>1, <3>1, ControlType DEF SndOK
    <3> QED BY <1>2, <2>1, <3>1, <3>2 DEF SndOK
  <2>3. Small(v)
    BY <1>2, <1>5, <1>6 DEF Small
  <2>4. SndOK(u, Control(u.state))
    BY <1>2, <1>4, <2>2, <2>3, SomeSentOK, ControlType
  <2> QED BY <1>4, <1>5, <2>1, <2>4 DEF SndInv
<1> QED BY <1>1, <1>3, <1>4, <1>5, <1>6

LEMMA FinSentStep ==
    ASSUME NEW t \in TCB, NEW u, FinSent(t, u),
           t.state \in {"SynReceived", "Established", "CloseWait"}, u.state \in {"FinWait1", "LastAck"}
    PROVE  SndStep(t, u)
<1> DEFINE e == queueEntry({"FIN", "ACK"}, t.snd.nxt, <<>>)
<1>1. /\ u \in TCB /\ u.snd = [t.snd EXCEPT !.nxt = SeqAdd(t.snd.nxt, 1)]
      /\ u.sndBuf = t.sndBuf /\ u.cong = t.cong /\ u.retxQueue = Append(t.retxQueue, e)
  BY DEF FinSent, KeepsRcv, SameRcv
<1>2. e \in RetxSeg /\ e.seq = t.snd.nxt /\ segLen(e) = 1 /\ t.retxQueue \in Seq(RetxSeg)
  <2>1. 0 \in 0..MaxRetransmits /\ t.snd.nxt \in SeqNum
    BY TcbAssumption, SndParts
  <2>2. e \in RetxSeg /\ e.seq = t.snd.nxt /\ e.data = <<>> /\ e.flags = {"FIN", "ACK"}
    BY <2>1, EmptyPayload DEF RetxSeg, queueEntry
  <2> HIDE DEF e
  <2> QED BY <2>2, FinLength, TcbParts
<1> HIDE DEF e
<1>3. MoreSent(t, u, 1)
  <2>1. /\ Contains(u.retxQueue, t.retxQueue)
        /\ \A j \in 0..(1 - 1) : \E i \in 1..Len(u.retxQueue) :
              covers(u.retxQueue[i], SeqAdd(t.snd.nxt, j))
    BY <1>1, <1>2, EntryCovers
  <2>2. /\ u.snd.una = t.snd.una /\ u.snd.wnd = t.snd.wnd /\ u.snd.nxt = SeqAdd(t.snd.nxt, 1)
    BY <1>1, TcbParts DEF SndVars
  <2> QED BY <1>1, <2>1, <2>2 DEF MoreSent
<1>4. u.retxQueue # <<>>
  BY <1>3, MoreSentQueue
<1>5. ASSUME Small(t), SndInv(t) PROVE SndInv(u)
  <2>1. SndOK(t, 1) /\ CongLive(t.cong)
    BY <1>5 DEF SndInv, Control
  <2>2. flightSize(t) + 1 <= Len(t.sndBuf) + 2
    BY <2>1, BufLen, FlightType DEF SndOK
  <2>3. SndOK(u, 2)
    BY <1>1, <1>3, <1>5, <2>1, <2>2, MoreSentOK
  <2> QED BY <1>1, <1>4, <2>1, <2>3 DEF SndInv, Control, Woken
<1> QED BY <1>1, <1>5, BufLen DEF SndStep

LEMMA CloseStep ==
    ASSUME NEW t \in TCB, t.state \in CanClose
    PROVE  SndStep(t, Close(t))
<1> DEFINE u == Close(t)
<1>1. /\ KeepsRcv(t, u)
      /\ \/ t.state \in {"Listen", "SynSent"} /\ u.state = "Closed"
         \/ t.state \in {"Established", "SynReceived"} /\ u.state = "FinWait1" /\ FinSent(t, u)
         \/ t.state = "CloseWait" /\ u.state = "LastAck" /\ FinSent(t, u)
  BY CloseEffect
<1>2. t.state \in {"Listen", "SynSent"} => u.sndBuf = t.sndBuf /\ u.cong = t.cong
  BY DEF Close, TCB
<1> SUFFICES SndStep(t, u)
  OBVIOUS
<1> HIDE DEF u
<1>3. CASE t.state \in {"Listen", "SynSent"}
  BY <1>1, <1>2, <1>3, BufLen DEF SndStep, SndInv, KeepsRcv, SameRcv
<1>4. CASE t.state \notin {"Listen", "SynSent"}
  BY <1>1, <1>4, FinSentStep
<1> QED BY <1>3, <1>4

\* Opening a connection that has sent nothing.
LEMMA OpenSteps ==
    ASSUME NEW t \in TCB, t.sndBuf = <<>>, t.cong.state # "FastRecovery", CongLive(t.cong)
    PROVE  /\ SndInv(PassiveOpen(t)) /\ PassiveOpen(t).sndBuf = t.sndBuf
           /\ \A iss \in SeqNum :
                 SndInv(ActiveOpen(t, iss)) /\ ActiveOpen(t, iss).sndBuf = t.sndBuf
<1>1. SndInv(PassiveOpen(t)) /\ PassiveOpen(t).sndBuf = t.sndBuf
  <2> DEFINE u == PassiveOpen(t)
  <2>1. u.state = "Listen" /\ SameSnd(t, u)
    BY PassiveOpenEffect
  <2> HIDE DEF u
  <2>2. SndInv(u) /\ u.sndBuf = t.sndBuf
    BY <2>1 DEF SndInv, SameSnd
  <2> QED BY <2>2 DEF u
<1>2. ASSUME NEW iss \in SeqNum
      PROVE  SndInv(ActiveOpen(t, iss)) /\ ActiveOpen(t, iss).sndBuf = t.sndBuf
  <2> DEFINE u == ActiveOpen(t, iss)
  <2>1. /\ u \in TCB /\ u.state = "SynSent"
        /\ u.snd.una = iss /\ u.snd.iss = iss /\ u.snd.nxt = SeqAdd(iss, 1)
        /\ u.sndBuf = t.sndBuf /\ u.cong = t.cong
        /\ u.retxQueue = Append(t.retxQueue, queueEntry({"SYN"}, iss, <<>>))
    BY ActiveOpenEffect
  <2> HIDE DEF u
  <2>2. {"SYN"} \in Flags /\ "SYN" \in {"SYN"} /\ "FIN" \notin {"SYN"}
    BY DEF Flags
  <2>3. SndOK(u, Control(u.state)) /\ Woken(u)
    BY <2>1, <2>2, SynInFlight
  <2>4. SynOnly(u)
    BY <2>1 DEF SynOnly
  <2>5. SndInv(u)
    BY <2>1, <2>3, <2>4 DEF SndInv
  <2> QED BY <2>1, <2>5 DEF u
<1> QED BY <1>1, <1>2

-----------------------------------------------------------------------------
(* What a connection says: the bytes of its stream at their numbers.       *)

\* The numbers sent are counted from the ISS: 0 is the SYN, 1..n the n bytes
\* given to Send and n + 1 the FIN.
Una(t) == SeqSub(t.snd.una, t.snd.iss)
Nxt(t) == SeqSub(t.snd.nxt, t.snd.iss)

\* The bytes of d are those of the stream from number v on.
Text(d, v) == \A i \in 1..Len(d) : d[i] + 1 = v + i

\* Segment or queue entry s is part of the stream of n bytes, begins at number
\* v of it and ends before number x.
TextAt(s, v, n, x) ==
    /\ v + segLen(s) <= x
    /\ Text(s.data, v)
    /\ s.data # <<>> => v + Len(s.data) <= n + 1
    /\ "SYN" \in s.flags => v = 0 /\ s.data = <<>>
    /\ "FIN" \in s.flags => v = n + 1 /\ s.data = <<>>
OwnText(s, iss, n, x) == TextAt(s, SeqSub(s.seq, iss), n, x)

\* Where SND.UNA and SND.NXT (u and x) can be in each state.
Early == {"Listen", "SynSent", "SynReceived"}
Ending == {"FinWait1", "FinWait2", "Closing", "LastAck", "TimeWait"}
Phase(st, reached, u, x, n) ==
    /\ st \in Early => u = 0 /\ x = 1 /\ n = 0
    /\ st \in {"Established", "CloseWait"} => u >= 1 /\ x <= n + 1
    /\ st \in Ending => x = n + 2
    /\ st \in {"FinWait2", "TimeWait"} => u = x
    /\ reached => u >= 1

\* sndBuf holds the bytes from SND.UNA on, and the queue parts of the stream.
Counts(u, x, n, len) ==
    /\ u <= x /\ 1 <= x /\ x <= n + 2 /\ (u = 0 => n = 0)
    /\ len = IF u \in 1..(n + 1) THEN n + 1 - u ELSE 0
Body(t, n) ==
    /\ Counts(Una(t), Nxt(t), n, Len(t.sndBuf))
    /\ Text(t.sndBuf, Una(t))
    /\ \A i \in 1..Len(t.retxQueue) : OwnText(t.retxQueue[i], t.snd.iss, n, Nxt(t))
Numbered(t, n) == Body(t, n) /\ Phase(t.state, t.reached, Una(t), Nxt(t), n)

\* A stream is far shorter than the sequence space.
Fits(n) == n \in Nat /\ n + DefaultMSS + 4 <= HalfSeqSpace

\* What a step from t to u says: resets, and parts of the stream whose ACK field
\* is one of the numbers in acks.
Quotes(s, acks) == "ACK" \in s.flags => s.ack \in acks
Spoken(s, u, n, acks) ==
    "RST" \notin s.flags /\ OwnText(s, u.snd.iss, n, Nxt(u)) /\ Quotes(s, acks)
Says(t, u, n, acks) ==
    /\ u \in TCB /\ u.snd.iss = t.snd.iss
    /\ Numbered(t, n) =>
         /\ Numbered(u, n) /\ Nxt(t) <= Nxt(u)
         /\ \A s \in u.out : s \in t.out \/ Spoken(s, u, n, acks)

LEMMA OffTypes ==
    ASSUME NEW t \in TCB
    PROVE  /\ Una(t) \in SeqNum /\ Nxt(t) \in SeqNum /\ Una(t) \in Nat /\ Nxt(t) \in Nat
           /\ Len(t.sndBuf) \in Nat
<1>1. t.snd.una \in SeqNum /\ t.snd.nxt \in SeqNum /\ t.snd.iss \in SeqNum
  BY SndParts
<1>2. Una(t) \in SeqNum /\ Nxt(t) \in SeqNum
  BY <1>1, SeqSubType DEF Una, Nxt
<1> QED BY <1>2, SeqNumNat, TcbParts, LenProperties

\* What lies before a number lies before a later one.
LEMMA OwnTextMore ==
    ASSUME NEW s, NEW iss, NEW n, NEW x \in Int, NEW y \in Int, x <= y, OwnText(s, iss, n, x),
           SeqSub(s.seq, iss) \in Nat, segLen(s) \in Nat
    PROVE  OwnText(s, iss, n, y)
  BY DEF OwnText, TextAt

LEMMA OwnLen ==
    ASSUME NEW s, s.seq \in SeqNum, s.data \in Payload, NEW iss \in SeqNum
    PROVE  /\ SeqSub(s.seq, iss) \in Nat /\ segLen(s) \in Nat /\ Len(s.data) \in Nat
           /\ Len(s.data) <= segLen(s)
<1>1. SeqSub(s.seq, iss) \in Nat
  BY SeqSubType, SeqNumNat
<1>2. Len(s.data) \in Nat
  BY LenProperties DEF Payload
<1> DEFINE a == IF "SYN" \in s.flags THEN 1 ELSE 0
           b == IF "FIN" \in s.flags THEN 1 ELSE 0
           l == Len(s.data)
<1>a. a \in Nat /\ b \in Nat /\ segLen(s) = l + a + b /\ l \in Nat
  BY <1>2 DEF segLen
<1> HIDE DEF a, b, l
<1>b. segLen(s) \in Nat /\ l <= segLen(s)
  BY <1>a
<1>3. segLen(s) \in Nat /\ Len(s.data) <= segLen(s)
  BY <1>b DEF l
<1> QED BY <1>1, <1>2, <1>3

LEMMA SpokenMore ==
    ASSUME NEW u \in TCB, NEW v \in TCB, v.snd.iss = u.snd.iss, Nxt(u) <= Nxt(v),
           NEW n, NEW acks, NEW s \in u.out, Spoken(s, u, n, acks)
    PROVE  Spoken(s, v, n, acks)
<1>1. s \in Segment /\ Nxt(u) \in Int /\ Nxt(v) \in Int /\ u.snd.iss \in SeqNum
  BY TcbParts, OffTypes, SndParts
<1>2. s.seq \in SeqNum /\ s.data \in Payload
  BY <1>1, SegmentParts
<1>3. SeqSub(s.seq, u.snd.iss) \in Nat /\ segLen(s) \in Nat
  BY <1>1, <1>2, OwnLen
<1> QED BY <1>1, <1>3, OwnTextMore DEF Spoken

LEMMA SaysRefl ==
    ASSUME NEW t \in TCB, NEW n, NEW acks
    PROVE  Says(t, t, n, acks)
  BY OffTypes DEF Says

LEMMA SaysTrans ==
    ASSUME NEW t \in TCB, NEW u, NEW v, NEW n, NEW acks, Says(t, u, n, acks), Says(u, v, n, acks)
    PROVE  Says(t, v, n, acks)
<1>1. u \in TCB /\ v \in TCB /\ v.snd.iss = t.snd.iss /\ v.snd.iss = u.snd.iss
  BY DEF Says
<1>2. ASSUME Numbered(t, n)
      PROVE  /\ Numbered(v, n) /\ Nxt(t) <= Nxt(v)
             /\ \A s \in v.out : s \in t.out \/ Spoken(s, v, n, acks)
  <2>1. /\ Numbered(u, n) /\ Nxt(t) <= Nxt(u) /\ Numbered(v, n) /\ Nxt(u) <= Nxt(v)
    BY <1>2 DEF Says
  <2>2. Nxt(t) <= Nxt(v)
    BY <1>1, <2>1, OffTypes
  <2>3. ASSUME NEW s \in v.out PROVE s \in t.out \/ Spoken(s, v, n, acks)
    <3>1. s \in u.out \/ Spoken(s, v, n, acks)
      BY <2>1 DEF Says
    <3>2. CASE s \in u.out /\ Spoken(s, u, n, acks)
      BY <1>1, <2>1, <3>2, SpokenMore
    <3>3. CASE s \in u.out /\ s \in t.out
      BY <3>3
    <3> QED BY <1>2, <3>1, <3>2, <3>3 DEF Says
  <2> QED BY <2>1, <2>2, <2>3
<1> QED BY <1>1, <1>2 DEF Says

LEMMA SaysMore ==
    ASSUME NEW t, NEW u, NEW n, NEW a, NEW b, Says(t, u, n, a), a \subseteq b
    PROVE  Says(t, u, n, b)
  BY DEF Says, Spoken, Quotes

\* A segment is written.
Adds(t, u, flags, seq, ack, data) ==
    \E s : /\ u.out = t.out \cup {s}
           /\ s.flags = flags /\ s.seq = seq /\ s.ack = ack /\ s.data = data

LEMMA WriteAdds ==
    ASSUME NEW t \in TCB, NEW flags, NEW seq, NEW ack, NEW data, NEW o
    PROVE  Adds(t, writeSegOpts(t, flags, seq, ack, data, o), flags, seq, ack, data)
<1> DEFINE opts == IF o = "none" /\ t.opt.tsOK /\ "SYN" \notin flags /\ "RST" \notin flags
                   THEN "ts" ELSE o
           seg == [flags |-> flags, seq |-> seq, ack |-> ack, win |-> advertised(t, flags),
                   data |-> data, opts |-> opts,
                   tsval |-> IF opts = "none" THEN 0 ELSE t.ts.now]
<1>1. writeSegOpts(t, flags, seq, ack, data, o).out = t.out \cup {seg}
  BY DEF writeSegOpts, TCB
<1>2. seg.flags = flags /\ seg.seq = seq /\ seg.ack = ack /\ seg.data = data
  OBVIOUS
<1> HIDE DEF seg
<1> QED BY <1>1, <1>2 DEF Adds

LEMMA SendDataAdds ==
    ASSUME NEW t \in TCB, NEW flags \in Flags, NEW seq \in SeqNum, NEW ack \in SeqNum,
           NEW data \in Payload
    PROVE  Adds(t, sendData(t, flags, seq, ack, data), flags, seq, ack, data)
<1> DEFINE w == writeSegOpts(t, flags, seq, ack, data, "none")
<1>1. Adds(t, w, flags, seq, ack, data) /\ Wrote(t, w, flags, ack)
  BY WriteAdds, WriteSegOptsForm
<1>2. sendData(t, flags, seq, ack, data) \in {w, enqueue(w, flags, seq, data)}
  BY DEF sendData, writeSeg
<1> HIDE DEF w
<1>3. enqueue(w, flags, seq, data).out = w.out
  BY <1>1 DEF Wrote, SameRcv, enqueue, TCB
<1> QED BY <1>1, <1>2, <1>3 DEF Adds

LEMMA SendAdds ==
    ASSUME NEW t \in TCB, NEW flags \in Flags, NEW seq \in SeqNum, NEW ack \in SeqNum
    PROVE  Adds(t, send(t, flags, seq, ack), flags, seq, ack, <<>>)
  BY SendDataAdds, EmptyPayload DEF send

LEMMA SendSynAdds ==
    ASSUME NEW t \in TCB, NEW flags \in Flags, NEW seq \in SeqNum, NEW ack \in SeqNum
    PROVE  Adds(t, sendSyn(t, flags, seq, ack), flags, seq, ack, <<>>)
<1> DEFINE w == writeSegOpts(t, flags, seq, ack, <<>>, "syn")
<1>1. Adds(t, w, flags, seq, ack, <<>>) /\ Wrote(t, w, flags, ack)
  BY WriteAdds, WriteSegOptsForm, EmptyPayload
<1>2. sendSyn(t, flags, seq, ack) = enqueue(w, flags, seq, <<>>)
  BY DEF sendSyn
<1> HIDE DEF w
<1>3. enqueue(w, flags, seq, <<>>).out = w.out
  BY <1>1 DEF Wrote, SameRcv, enqueue, TCB
<1> QED BY <1>1, <1>2, <1>3 DEF Adds

\* A segment that tells nothing new: an empty ACK at SND.NXT or just before it, or
\* a copy of a queued segment.
Bare(s, t) == s.flags = {"ACK"} /\ s.data = <<>> /\ s.seq \in {t.snd.nxt, SeqSub(t.snd.nxt, 1)}
CopyOf(s, q) == \E i \in 1..Len(q) : s.flags = q[i].flags /\ s.seq = q[i].seq /\ s.data = q[i].data
Word(s, t) == (Bare(s, t) \/ CopyOf(s, t.retxQueue)) /\ Quotes(s, {t.rcv.nxt})
Utters(t, u) == \A s \in u.out : s \in t.out \/ Word(s, t)

LEMMA AddsUtters ==
    ASSUME NEW t, NEW u, NEW flags, NEW seq, NEW ack, NEW data, Adds(t, u, flags, seq, ack, data),
           \/ flags = {"ACK"} /\ data = <<>> /\ seq \in {t.snd.nxt, SeqSub(t.snd.nxt, 1)}
              /\ ack = t.rcv.nxt
           \/ /\ ack = t.rcv.nxt
              /\ \E i \in 1..Len(t.retxQueue) :
                    /\ flags = t.retxQueue[i].flags /\ seq = t.retxQueue[i].seq
                    /\ data = t.retxQueue[i].data
    PROVE  Utters(t, u)
  BY DEF Adds, Utters, Word, Bare, CopyOf, Quotes

LEMMA SameOutUtters == \A t, u : u.out = t.out => Utters(t, u)
  BY DEF Utters

LEMMA UttersTrans ==
    ASSUME NEW t, NEW u, NEW v, Utters(t, u), Utters(u, v),
           u.snd = t.snd, u.rcv = t.rcv, SameQueue(t.retxQueue, u.retxQueue)
    PROVE  Utters(t, v)
<1>1. \A s : CopyOf(s, u.retxQueue) => CopyOf(s, t.retxQueue)
  BY DEF CopyOf, SameQueue
<1> QED BY <1>1 DEF Utters, Word, Bare

LEMMA SameQueueRefl == \A q : SameQueue(q, q)
  BY DEF SameQueue

LEMMA PrevOffset ==
    ASSUME NEW a \in SeqNum, NEW iss \in SeqNum, SeqSub(a, iss) >= 1
    PROVE  SeqSub(SeqSub(a, 1), iss) = SeqSub(a, iss) - 1
  BY HalfSeqSpaceAssumption DEF SeqSub, SeqNum, SeqSize

LEMMA EmptyText == \A v : Text(<<>>, v)
<1>1. Len(<<>>) = 0
  BY EmptySeq
<1> QED BY <1>1 DEF Text

LEMMA WordSpoken ==
    ASSUME NEW t \in TCB, NEW n, Body(t, n), NEW s, Word(s, t)
    PROVE  Spoken(s, t, n, {t.rcv.nxt})
<1>1. CASE Bare(s, t) /\ Quotes(s, {t.rcv.nxt})
  <2>1. s.flags = {"ACK"} /\ s.data = <<>> /\ s.seq \in {t.snd.nxt, SeqSub(t.snd.nxt, 1)}
    BY <1>1 DEF Bare
  <2>2. Nxt(t) \in Nat /\ Nxt(t) >= 1
    BY OffTypes DEF Body, Counts
  <2>3. SeqSub(s.seq, t.snd.iss) \in {Nxt(t), Nxt(t) - 1}
    BY <2>1, <2>2, PrevOffset, SndParts DEF Nxt
  <2>4. segLen(s) = 0 /\ Text(s.data, SeqSub(s.seq, t.snd.iss))
    BY <2>1, EmptySeq, EmptyText DEF segLen
  <2> DEFINE v == SeqSub(s.seq, t.snd.iss)
  <2>5. v \in Nat /\ v + 0 <= Nxt(t)
    BY <2>2, <2>3
  <2> HIDE DEF v
  <2>6. TextAt(s, v, n, Nxt(t))
    BY <2>1, <2>4, <2>5 DEF TextAt, v
  <2> QED BY <1>1, <2>1, <2>6 DEF Spoken, OwnText, v
<1>2. CASE CopyOf(s, t.retxQueue) /\ Quotes(s, {t.rcv.nxt})
  <2>1. PICK i \in 1..Len(t.retxQueue) : LET e == t.retxQueue[i] IN
                s.flags = e.flags /\ s.seq = e.seq /\ s.data = e.data
    BY <1>2 DEF CopyOf
  <2>2. OwnText(t.retxQueue[i], t.snd.iss, n, Nxt(t))
    BY <2>1 DEF Body
  <2>3. OwnText(s, t.snd.iss, n, Nxt(t))
    BY <2>1, <2>2 DEF OwnText, TextAt, segLen
  <2>4. t.retxQueue[i] \in RetxSeg
    BY <2>1, TcbParts, ElementOfSeq
  <2>5. "RST" \notin s.flags
    BY <2>1, <2>4 DEF RetxSeg
  <2> QED BY <1>2, <2>3, <2>5 DEF Spoken
<1> QED BY <1>1, <1>2 DEF Word

\* What is queued stays part of the stream whoever counts the retries.
LEMMA SameQueueBody ==
    ASSUME NEW q, NEW r, SameQueue(q, r), NEW iss, NEW n, NEW x,
           \A i \in 1..Len(q) : OwnText(q[i], iss, n, x)
    PROVE  \A i \in 1..Len(r) : OwnText(r[i], iss, n, x)
<1> TAKE i \in 1..Len(r)
<1>1. /\ i \in 1..Len(q) /\ r[i].flags = q[i].flags /\ r[i].seq = q[i].seq /\ r[i].data = q[i].data
  BY DEF SameQueue
<1>2. OwnText(q[i], iss, n, x)
  BY <1>1
<1> QED BY <1>1, <1>2 DEF OwnText, TextAt, segLen

\* A step that leaves the sending side alone.
QuietState(a, b) == b \in {a, "Closed"} \/ (a = "SynReceived" /\ b = "Listen")
LEMMA QuietNumbered ==
    ASSUME NEW t \in TCB, NEW u \in TCB, Calm(t, u), u.reached = t.reached,
           QuietState(t.state, u.state), NEW n
    PROVE  /\ u.snd = t.snd /\ Nxt(u) = Nxt(t) /\ Nxt(t) <= Nxt(u)
           /\ Numbered(t, n) => Numbered(u, n)
<1>1. u.snd = t.snd /\ u.sndBuf = t.sndBuf /\ Una(u) = Una(t) /\ Nxt(u) = Nxt(t) /\ Nxt(t) \in Nat
  BY OffTypes DEF Calm, Una, Nxt
<1>2. ASSUME Numbered(t, n) PROVE Body(u, n)
  <2>1. \A i \in 1..Len(t.retxQueue) : OwnText(t.retxQueue[i], t.snd.iss, n, Nxt(t))
    BY <1>2 DEF Numbered, Body
  <2>2. CASE SameQueue(t.retxQueue, u.retxQueue)
    <3>1. \A i \in 1..Len(u.retxQueue) : OwnText(u.retxQueue[i], t.snd.iss, n, Nxt(t))
      BY <2>1, <2>2, SameQueueBody
    <3> QED BY <1>1, <1>2, <3>1 DEF Numbered, Body
  <2>3. CASE u.retxQueue = <<>>
    <3>1. Len(u.retxQueue) = 0
      BY <2>3, EmptySeq
    <3> QED BY <1>1, <1>2, <3>1 DEF Numbered, Body
  <2> QED BY <2>2, <2>3 DEF Calm
<1>3. ASSUME Numbered(t, n) PROVE Phase(u.state, u.reached, Una(u), Nxt(u), n)
  BY <1>1, <1>3 DEF Numbered, Phase, Early, Ending, QuietState
<1>4. Nxt(t) <= Nxt(u)
  BY <1>1
<1> QED BY <1>1, <1>2, <1>3, <1>4 DEF Numbered

LEMMA QuietSays ==
    ASSUME NEW t \in TCB, NEW u \in TCB, Calm(t, u), u.reached = t.reached,
           QuietState(t.state, u.state), Utters(t, u), NEW n
    PROVE  Says(t, u, n, {t.rcv.nxt})
<1>1. /\ u.snd = t.snd /\ Nxt(u) = Nxt(t) /\ Nxt(t) <= Nxt(u)
      /\ Numbered(t, n) => Numbered(u, n)
  BY QuietNumbered
<1>2. ASSUME Numbered(t, n), NEW s \in u.out PROVE s \in t.out \/ Spoken(s, u, n, {t.rcv.nxt})
  <2>1. s \in t.out \/ Spoken(s, t, n, {t.rcv.nxt})
    BY <1>2, WordSpoken DEF Numbered, Utters
  <2> QED BY <1>1, <2>1 DEF Spoken
<1> QED BY <1>1, <1>2 DEF Says

\* The same when the ACK it sends is for what it has just taken.
LEMMA QuietSaysAfter ==
    ASSUME NEW t \in TCB, NEW u \in TCB, Calm(t, u), u.reached = t.reached,
           QuietState(t.state, u.state), \A s \in u.out : s \in t.out \/ Word(s, u), NEW n
    PROVE  Says(t, u, n, {u.rcv.nxt})
<1>1. /\ u.snd = t.snd /\ Nxt(u) = Nxt(t) /\ Nxt(t) <= Nxt(u)
      /\ Numbered(t, n) => Numbered(u, n)
  BY QuietNumbered
<1>2. ASSUME Numbered(t, n), NEW s \in u.out PROVE s \in t.out \/ Spoken(s, u, n, {u.rcv.nxt})
  BY <1>1, <1>2, WordSpoken DEF Numbered
<1> QED BY <1>1, <1>2 DEF Says

LEMMA AckFlags ==
    /\ {"ACK"} \in Flags /\ {"RST"} \in Flags /\ {"RST", "ACK"} \in Flags
    /\ {"SYN"} \in Flags /\ {"SYN", "ACK"} \in Flags /\ {"FIN", "ACK"} \in Flags
  BY DEF Flags

LEMMA SendAckUtters ==
    ASSUME NEW t \in TCB
    PROVE  Utters(t, sendAck(t))
<1> DEFINE x == [t.tmr EXCEPT !.delAck = FALSE, !.delAckCount = 0]
           u == [t EXCEPT !.tmr = x]
           v == send(u, {"ACK"}, t.snd.nxt, t.rcv.nxt)
<1>1. x \in TmrVars
  BY TcbParts DEF TmrVars
<1>2. sendAck(t) = v
  BY DEF sendAck, TCB, TmrVars
<1> HIDE DEF x
<1>3. /\ u \in TCB /\ u.out = t.out /\ u.snd = t.snd /\ u.rcv = t.rcv /\ u.retxQueue = t.retxQueue
  BY <1>1 DEF TCB
<1> HIDE DEF u
<1>4. Adds(u, v, {"ACK"}, t.snd.nxt, t.rcv.nxt, <<>>)
  BY <1>3, AckFlags, SendAdds, SndParts, RcvParts
<1> HIDE DEF v
<1>5. Adds(t, v, {"ACK"}, t.snd.nxt, t.rcv.nxt, <<>>)
  BY <1>3, <1>4 DEF Adds
<1> QED BY <1>2, <1>5, AddsUtters

LEMMA ChallengeUtters ==
    ASSUME NEW t \in TCB
    PROVE  Utters(t, sendChallengeAck(t))
<1>1. CASE t.challengeCount >= ChallengeAckLimit
  BY <1>1, SameOutUtters DEF sendChallengeAck
<1>2. CASE ~(t.challengeCount >= ChallengeAckLimit)
  <2> DEFINE u == [t EXCEPT !.challengeCount = @ + 1]
             v == send(u, {"ACK"}, t.snd.nxt, t.rcv.nxt)
  <2>1. t.challengeCount + 1 \in 0..ChallengeAckLimit
    BY <1>2, TcbParts, TcbAssumption
  <2>2. u \in TCB /\ u.out = t.out
    BY <2>1 DEF TCB
  <2> HIDE DEF u
  <2>3. Adds(u, v, {"ACK"}, t.snd.nxt, t.rcv.nxt, <<>>)
    BY <2>2, AckFlags, SendAdds, SndParts, RcvParts
  <2>4. sendChallengeAck(t) = v
    BY <1>2 DEF sendChallengeAck, u
  <2> HIDE DEF v
  <2>5. Adds(t, v, {"ACK"}, t.snd.nxt, t.rcv.nxt, <<>>)
    BY <2>2, <2>3 DEF Adds
  <2> QED BY <2>4, <2>5, AddsUtters
<1> QED BY <1>1, <1>2

LEMMA ResendUtters ==
    ASSUME NEW t \in TCB, t.retxQueue # <<>>
    PROVE  Utters(t, resendFront(t))
<1> DEFINE e == Head(t.retxQueue)
<1>1. e \in RetxSeg /\ e = t.retxQueue[1] /\ 1 \in 1..Len(t.retxQueue)
  BY TcbParts, HeadTailProperties, EmptySeq, LenProperties
<1>2. Adds(t, resendFront(t), e.flags, e.seq, t.rcv.nxt, e.data)
  BY WriteAdds DEF resendFront, writeSeg
<1> HIDE DEF e
<1> QED BY <1>1, <1>2, AddsUtters

LEMMA CheckRetransmitUtters ==
    ASSUME NEW t \in TCB
    PROVE  Utters(t, checkRetransmit(t))
<1>1. CASE t.retxQueue = <<>>
  BY <1>1, SameOutUtters DEF checkRetransmit
<1>2. CASE t.retxQueue # <<>> /\ Head(t.retxQueue).retries >= MaxRetransmits
  <2>1. abandon(t).out = t.out
    BY DEF abandon, TCB
  <2> QED BY <1>2, <2>1, SameOutUtters DEF checkRetransmit
<1>3. CASE t.retxQueue # <<>> /\ ~(Head(t.retxQueue).retries >= MaxRetransmits)
  <2> DEFINE c == onRtoTimeout(t.cong, flightSize(t))
             q == t.retxQueue
             e == [q[1] EXCEPT !.retries = @ + 1]
             r == [q EXCEPT ![1] = e]
             u == [t EXCEPT !.cong = c, !.retxQueue = r]
  <2>1. q \in Seq(RetxSeg) /\ q # <<>> /\ Head(q) = q[1] /\ q[1] \in RetxSeg /\ Len(q) \in Nat \ {0}
    BY <1>3, TcbParts, HeadTailProperties, EmptySeq, LenProperties, ElementOfSeq
  <2>2. q[1].retries \in 0..MaxRetransmits /\ ~(q[1].retries >= MaxRetransmits)
    BY <1>3, <2>1 DEF RetxSeg
  <2>3. q[1].retries + 1 \in 0..MaxRetransmits
    BY <2>2, TcbAssumption
  <2>4. /\ e \in RetxSeg /\ e.flags = q[1].flags /\ e.seq = q[1].seq /\ e.data = q[1].data
    BY <2>1, <2>3 DEF RetxSeg
  <2>5. checkRetransmit(t) = resendFront(u)
    BY <1>3 DEF checkRetransmit, TCB
  <2> HIDE DEF e
  <2>7. /\ r \in Seq(RetxSeg) /\ Len(r) = Len(q) /\ r[1] = e
        /\ \A i \in 1..Len(q) : i # 1 => r[i] = q[i]
    BY <2>1, <2>4, ExceptSeq, LenProperties
  <2>8. r # <<>>
    BY <2>1, <2>7, EmptySeq
  <2>9. c \in Cong
    BY TcbParts, FlightType, OnRtoTimeoutType
  <2> HIDE DEF r, c
  <2>10. SameQueue(q, r)
    BY <2>4, <2>7 DEF SameQueue
  <2> HIDE DEF q
  <2>11. u \in TCB /\ u.retxQueue = r /\ u.out = t.out /\ u.snd = t.snd /\ u.rcv = t.rcv
    BY <2>7, <2>9 DEF TCB
  <2> HIDE DEF u
  <2>12. Utters(u, resendFront(u))
    BY <2>8, <2>11, ResendUtters
  <2>13. Utters(t, u)
    BY <2>11, SameOutUtters
  <2> QED BY <2>5, <2>10, <2>11, <2>12, <2>13, UttersTrans DEF q
<1> QED BY <1>1, <1>2, <1>3

LEMMA CheckKeepAliveUtters ==
    ASSUME NEW t \in TCB
    PROVE  Utters(t, checkKeepAlive(t))
<1> DEFINE w == writeSeg(t, {"ACK"}, SeqSub(t.snd.nxt, 1), t.rcv.nxt, <<>>)
           v == [w EXCEPT !.keepaliveProbes = @ + 1]
<1>0. checkKeepAlive(t) \in {t, abandon(t), v}
  BY DEF checkKeepAlive
<1>1. Adds(t, w, {"ACK"}, SeqSub(t.snd.nxt, 1), t.rcv.nxt, <<>>)
  BY WriteAdds DEF writeSeg
<1>2. v.out = w.out
  BY DEF writeSeg, writeSegOpts, TCB
<1> HIDE DEF w, v
<1>3. Adds(t, v, {"ACK"}, SeqSub(t.snd.nxt, 1), t.rcv.nxt, <<>>)
  BY <1>1, <1>2 DEF Adds
<1>4. Utters(t, v)
  BY <1>3, AddsUtters
<1>5. abandon(t).out = t.out
  BY DEF abandon, TCB
<1> QED BY <1>0, <1>4, <1>5, SameOutUtters

LEMMA OnDuplicateAckUtters ==
    ASSUME NEW t \in TCB, NEW s, t.retxQueue # <<>>
    PROVE  /\ Utters(t, onDuplicateAck(t, s)) /\ onDuplicateAck(t, s).snd = t.snd
           /\ onDuplicateAck(t, s).sndBuf = t.sndBuf /\ onDuplicateAck(t, s).retxQueue = t.retxQueue
<1> DEFINE c == onDupAck(t.cong, flightSize(t))
           u == [t EXCEPT !.cong = c]
<1>1. onDuplicateAck(t, s) \in {t, u, resendFront(u)}
  BY DEF onDuplicateAck
<1>2. c \in Cong
  BY TcbParts, FlightType, OnDupAckType
<1> HIDE DEF c
<1>3. /\ u \in TCB /\ u.retxQueue = t.retxQueue /\ u.out = t.out /\ u.snd = t.snd /\ u.rcv = t.rcv
      /\ u.sndBuf = t.sndBuf
  BY <1>2 DEF TCB
<1> HIDE DEF u
<1>4. Utters(u, resendFront(u)) /\ SameSnd(u, resendFront(u))
  BY <1>3, ResendUtters, ResendFrontKeeps
<1>5. Utters(t, u) /\ Utters(t, t)
  BY <1>3, SameOutUtters
<1>6. Utters(t, resendFront(u))
  BY <1>3, <1>4, <1>5, UttersTrans, SameQueueRefl
<1> QED BY <1>1, <1>3, <1>4, <1>5, <1>6 DEF SameSnd

\* A segment with a valid ACK field.
Acks(s) == "ACK" \in s.flags /\ "RST" \notin s.flags

LEMMA OnSegmentClosedUtters ==
    ASSUME NEW t \in TCB, NEW s \in Segment
    PROVE  \A x \in onSegmentClosed(t, s).out :
             \/ x \in t.out
             \/ "RST" \in x.flags /\ (x.seq = 0 \/ (x.seq = s.ack /\ Acks(s)))
<1> DEFINE r == sendRst(t, 0)
           ack == SeqAdd(s.seq, segLen(s))
           u == send(r, {"RST", "ACK"}, 0, ack)
<1>1. /\ Adds(t, sendRst(t, s.ack), {"RST"}, s.ack, 0, <<>>) /\ Adds(t, r, {"RST"}, 0, 0, <<>>)
  BY SendAdds, AckFlags, SmallSeqNums, SegmentParts DEF sendRst
<1>2. r \in TCB
  BY SendRstKeeps, SmallSeqNums DEF Keeps, KeepsRcv, SameRcv
<1> HIDE DEF r
<1>3. Adds(r, u, {"RST", "ACK"}, 0, ack, <<>>)
  BY <1>2, SendAdds, AckFlags, SmallSeqNums, SegmentParts
<1>4. \/ onSegmentClosed(t, s) \in {t, u}
      \/ onSegmentClosed(t, s) = sendRst(t, s.ack) /\ Acks(s)
  BY DEF onSegmentClosed, r, Acks
<1> HIDE DEF u
<1> QED BY <1>1, <1>3, <1>4 DEF Adds

LEMMA OnDelayableUtters ==
    ASSUME NEW t \in TCB
    PROVE  Utters(t, onDelayableSegment(t))
<1>1. [t EXCEPT !.tmr.delAckCount = @ + 1, !.tmr.delAck = TRUE].out = t.out
  BY DEF TCB
<1> QED BY <1>1, SendAckUtters, SameOutUtters DEF onDelayableSegment

LEMMA HandleRstUtters ==
    ASSUME NEW t \in TCB, NEW s
    PROVE  Utters(t, handleRst(t, s))
<1>1. resetConnection(t).out = t.out
  BY DEF resetConnection, TCB
<1> QED BY <1>1, ChallengeUtters, SameOutUtters DEF handleRst

LEMMA RefuseAckUtters ==
    ASSUME NEW t \in TCB, NEW s
    PROVE  \/ Utters(t, refuseAck(t, s))
           \/ /\ t.state = "SynReceived" /\ ackOutOfRange(t, s)
              /\ refuseAck(t, s) = sendRst(t, s.ack)
  BY ChallengeUtters DEF refuseAck

LEMMA TsRecentUtters ==
    ASSUME NEW t \in TCB, NEW s
    PROVE  Utters(t, tsRecentUpdate(t, s))
<1>1. [t EXCEPT !.ts.recent = s.tsval].out = t.out
  BY DEF TCB
<1> QED BY <1>1, SameOutUtters DEF tsRecentUpdate

LEMMA RecvUtters ==
    ASSUME NEW t \in TCB, NEW n \in 1..Len(t.rcvBuf)
    PROVE  Utters(t, Recv(t, n))
<1> DEFINE b == SubSeq(t.rcvBuf, n + 1, Len(t.rcvBuf))
           read == [t EXCEPT !.rcvBuf = b]
           w == advertiseWindow(read)
           rcv == [t.rcv EXCEPT !.wnd = w]
           open == [read EXCEPT !.rcv = rcv]
<1>0. t.rcvBuf \in Seq(Nat) /\ Len(t.rcvBuf) \in Nat /\ n + 1 \in Nat \ {0}
  BY TcbParts, LenProperties
<1>1. b \in Seq(Nat)
  BY <1>0, PartOfSeq
<1>2. Recv(t, n) \in {sendAck(open), open}
  BY DEF Recv, TCB, RcvVars
<1> HIDE DEF b
<1>3. read \in TCB /\ read.rcv = t.rcv
  BY <1>1 DEF TCB
<1>4. w \in 0..RcvBuff
  BY <1>3, AdvertiseWindowType
<1> HIDE DEF w
<1>6. rcv \in RcvVars /\ rcv.nxt = t.rcv.nxt
  BY <1>4, TcbParts DEF RcvVars
<1> HIDE DEF rcv
<1>7. /\ open \in TCB /\ open.rcv = rcv /\ open.snd = t.snd /\ open.retxQueue = t.retxQueue
      /\ open.out = t.out
  BY <1>1, <1>6 DEF TCB
<1> HIDE DEF open
<1>8. Utters(open, sendAck(open))
  BY <1>7, SendAckUtters
<1>9. Utters(t, open) /\ Utters(t, sendAck(open))
  BY <1>6, <1>7, <1>8, SameOutUtters DEF Utters, Word, Bare
<1> QED BY <1>2, <1>9

\* The segments of new data: pieces of the first m unsent bytes.
Piece(e, t, m) ==
    /\ e.flags = {"ACK"}
    /\ \E o \in Nat, l \in Nat \ {0} :
          o + l <= m /\ e.seq = SeqAdd(t.snd.nxt, o) /\ e.data = cut(t, o, l)
Pieces(t, u) ==
    /\ u \in TCB /\ u.sndBuf = t.sndBuf /\ u.state = t.state /\ u.reached = t.reached
    /\ u.snd.una = t.snd.una /\ u.snd.iss = t.snd.iss
    /\ \E m \in Nat :
          /\ m = 0 \/ m <= unsent(t)
          /\ u.snd.nxt = SeqAdd(t.snd.nxt, m)
          /\ \A i \in 1..Len(u.retxQueue) :
                \/ \E j \in 1..Len(t.retxQueue) : u.retxQueue[i] = t.retxQueue[j]
                \/ Piece(u.retxQueue[i], t, m)
          /\ \A s \in u.out : s \in t.out \/ (Piece(s, t, m) /\ s.ack = t.rcv.nxt)

LEMMA OffFlight ==
    ASSUME NEW una \in SeqNum, NEW nxt \in SeqNum, NEW iss \in SeqNum,
           SeqSub(una, iss) <= SeqSub(nxt, iss)
    PROVE  SeqSub(nxt, una) = SeqSub(nxt, iss) - SeqSub(una, iss)
  BY HalfSeqSpaceAssumption DEF SeqSub, SeqNum, SeqSize

LEMMA BodyFlight ==
    ASSUME NEW t \in TCB, NEW n, Body(t, n)
    PROVE  flightSize(t) = Nxt(t) - Una(t)
  BY SndParts, OffFlight DEF Body, Counts, Una, Nxt, flightSize

\* Unsent bytes are the last of the stream.
LEMMA UnsentRoom ==
    ASSUME NEW t \in TCB, NEW n \in Nat, Body(t, n), unsent(t) > 0
    PROVE  Una(t) >= 1 /\ Nxt(t) + unsent(t) = n + 1
<1>1. Una(t) \in Nat /\ Nxt(t) \in Nat /\ Len(t.sndBuf) \in Nat
  BY OffTypes
<1>2. unsent(t) = Len(t.sndBuf) - (Nxt(t) - Una(t))
  BY BodyFlight DEF unsent
<1>3. Counts(Una(t), Nxt(t), n, Len(t.sndBuf))
  BY DEF Body
<1> QED BY <1>1, <1>2, <1>3 DEF Counts

LEMMA PartAt ==
    ASSUME NEW S, NEW q \in Seq(S), NEW m \in Nat \ {0}, NEW n \in Nat, n <= Len(q)
    PROVE  \A i \in 1..(n - m + 1) : SubSeq(q, m, n)[i] = q[m + i - 1]
<1>1. \A i \in m..n : i \in 1..Len(q)
  BY LenProperties
<1>2. \A i \in m..n : q[i] \in S
  BY <1>1, ElementOfSeq
<1> QED BY <1>2, SubSeqProperties

LEMMA CutText ==
    ASSUME NEW t \in TCB, NEW n, Body(t, n), NEW o \in Nat, NEW l \in Nat, o + l <= unsent(t)
    PROVE  cut(t, o, l) \in Seq(Nat) /\ Len(cut(t, o, l)) = l /\ Text(cut(t, o, l), Nxt(t) + o)
<1> DEFINE f == flightSize(t)
           b == t.sndBuf
           d == cut(t, o, l)
           u == Una(t)
           x == Nxt(t)
           len == Len(b)
<1>1. b \in Seq(Nat)
  BY TcbParts
<1>2. len \in Nat /\ f \in Nat /\ u \in Nat /\ x \in Nat
  BY FlightType, OffTypes
<1>3. f + (o + l) <= len
  BY <1>2, UnsentType
<1>4. f = x - u
  BY BodyFlight
<1>5. d = SubSeq(b, f + o + 1, f + o + l)
  BY DEF cut
<1>6. \A j \in 1..len : b[j] + 1 = u + j
  BY DEF Body, Text
<1>0. SUFFICES d \in Seq(Nat) /\ Len(d) = l /\ Text(d, x + o)
  OBVIOUS
<1> HIDE DEF f, b, d, u, x
<1>7. f + o + 1 \in Nat \ {0} /\ f + o + l \in Nat /\ f + o + l <= len
  BY <1>2, <1>3
<1>8. d \in Seq(Nat) /\ Len(d) = IF f + o + 1 <= f + o + l THEN (f + o + l) - (f + o + 1) + 1 ELSE 0
  BY <1>1, <1>5, <1>7, PartOfSeq
<1>9. Len(d) = l
  BY <1>2, <1>8
<1>10. ASSUME NEW i \in 1..l PROVE d[i] + 1 = (x + o) + i
  <2>1. f + o + i \in 1..len /\ f + o + 1 + i - 1 = f + o + i /\ i \in 1..((f + o + l) - (f + o + 1) + 1)
    BY <1>2, <1>3
  <2>2. d[i] = b[f + o + 1 + i - 1]
    BY <1>1, <1>5, <1>7, <2>1, PartAt
  <2>3. b[f + o + i] + 1 = u + (f + o + i)
    BY <1>6, <2>1
  <2>4. d[i] + 1 = u + (f + o + i)
    BY <2>1, <2>2, <2>3
  <2> QED BY <1>2, <1>4, <2>4
<1> QED BY <1>8, <1>9, <1>10 DEF Text

LEMMA PieceText ==
    ASSUME NEW t \in TCB, NEW n, Fits(n), Body(t, n), NEW m \in Nat, m = 0 \/ m <= unsent(t),
           NEW e, Piece(e, t, m)
    PROVE  OwnText(e, t.snd.iss, n, Nxt(t) + m)
<1>1. PICK o \in Nat, l \in Nat \ {0} :
           o + l <= m /\ e.seq = SeqAdd(t.snd.nxt, o) /\ e.data = cut(t, o, l)
  BY DEF Piece
<1>2. e.flags = {"ACK"} /\ n \in Nat /\ Nxt(t) \in Nat /\ unsent(t) \in Int
  BY OffTypes, UnsentType DEF Piece, Fits
<1>3. m # 0 /\ m <= unsent(t) /\ unsent(t) > 0 /\ o + l <= unsent(t)
  BY <1>1, <1>2
<1>4. Nxt(t) + unsent(t) = n + 1
  BY <1>2, <1>3, UnsentRoom
<1>5. Nxt(t) + m <= n + 1
  BY <1>2, <1>3, <1>4
<1>6. SeqSub(e.seq, t.snd.iss) = Nxt(t) + o
  <2>1. Nxt(t) + o < SeqSize
    BY <1>1, <1>2, <1>5, HalfSeqSpaceAssumption, TcbAssumption DEF Fits, SeqSize
  <2> QED BY <1>1, <2>1, SndParts, FlightGrows DEF Nxt
<1>7. Len(e.data) = l /\ Text(e.data, Nxt(t) + o)
  <2>1. l \in Nat
    BY <1>1
  <2>2. Len(cut(t, o, l)) = l /\ Text(cut(t, o, l), Nxt(t) + o)
    BY <1>1, <1>3, <2>1, CutText
  <2> QED BY <1>1, <2>2
<1>8. segLen(e) = l
  BY <1>2, <1>7 DEF segLen
<1> DEFINE v == Nxt(t) + o
<1>9. v + l <= Nxt(t) + m /\ v + l <= n + 1
  BY <1>1, <1>2, <1>5
<1> HIDE DEF v
<1>11. TextAt(e, v, n, Nxt(t) + m)
  BY <1>2, <1>7, <1>8, <1>9 DEF TextAt, v
<1> QED BY <1>6, <1>11 DEF OwnText, v

LEMMA PiecesSay ==
    ASSUME NEW t \in TCB, NEW u, Pieces(t, u), NEW n, Fits(n)
    PROVE  Says(t, u, n, {t.rcv.nxt})
<1>1. PICK m \in Nat :
          /\ m = 0 \/ m <= unsent(t)
          /\ u.snd.nxt = SeqAdd(t.snd.nxt, m)
          /\ \A i \in 1..Len(u.retxQueue) :
                \/ \E j \in 1..Len(t.retxQueue) : u.retxQueue[i] = t.retxQueue[j]
                \/ Piece(u.retxQueue[i], t, m)
          /\ \A s \in u.out : s \in t.out \/ (Piece(s, t, m) /\ s.ack = t.rcv.nxt)
  BY DEF Pieces
<1>2. /\ u \in TCB /\ u.sndBuf = t.sndBuf /\ u.state = t.state /\ u.reached = t.reached
      /\ u.snd.una = t.snd.una /\ u.snd.iss = t.snd.iss /\ Una(u) = Una(t)
  BY DEF Pieces, Una
<1>3. SUFFICES ASSUME Numbered(t, n)
               PROVE  /\ Numbered(u, n) /\ Nxt(t) <= Nxt(u)
                      /\ \A s \in u.out : s \in t.out \/ Spoken(s, u, n, {t.rcv.nxt})
  BY <1>2 DEF Says
<1>4. /\ Body(t, n) /\ Counts(Una(t), Nxt(t), n, Len(t.sndBuf))
      /\ Phase(t.state, t.reached, Una(t), Nxt(t), n)
  BY <1>3 DEF Numbered, Body
<1>5. /\ n \in Nat /\ Nxt(t) \in Nat /\ Una(t) \in Nat /\ Len(t.sndBuf) \in Nat /\ unsent(t) \in Int
  BY OffTypes, UnsentType DEF Fits
<1>6. m = 0 \/ (Una(t) >= 1 /\ Nxt(t) + m <= n + 1)
  <2>1. ASSUME m # 0 PROVE unsent(t) > 0 /\ m <= unsent(t)
    BY <1>1, <1>5, <2>1
  <2>2. ASSUME m # 0 PROVE Una(t) >= 1 /\ Nxt(t) + unsent(t) = n + 1
    BY <1>4, <1>5, <2>1, <2>2, UnsentRoom
  <2> QED BY <1>5, <2>1, <2>2
<1>7. Nxt(u) = Nxt(t) + m
  <2>1. Nxt(t) + m < SeqSize
    BY <1>4, <1>5, <1>6, HalfSeqSpaceAssumption, TcbAssumption DEF Fits, SeqSize, Counts
  <2> QED BY <1>1, <1>2, <2>1, SndParts, FlightGrows DEF Nxt
<1>8. Counts(Una(t), Nxt(t) + m, n, Len(t.sndBuf))
  BY <1>4, <1>5, <1>6 DEF Counts
<1>9. Phase(t.state, t.reached, Una(t), Nxt(t) + m, n)
  <2>1. CASE m = 0
    BY <1>4, <1>5, <2>1
  <2>2. CASE Una(t) >= 1 /\ Nxt(t) + m <= n + 1
    BY <1>4, <1>5, <2>2 DEF Phase, Ending
  <2> QED BY <1>6, <2>1, <2>2
<1>10. \A e : Piece(e, t, m) => OwnText(e, t.snd.iss, n, Nxt(t) + m)
  BY <1>1, <1>4, PieceText
<1>11. ASSUME NEW i \in 1..Len(u.retxQueue) PROVE OwnText(u.retxQueue[i], t.snd.iss, n, Nxt(t) + m)
  <2>1. CASE Piece(u.retxQueue[i], t, m)
    BY <1>10, <2>1
  <2>2. CASE \E j \in 1..Len(t.retxQueue) : u.retxQueue[i] = t.retxQueue[j]
    <3>1. PICK j \in 1..Len(t.retxQueue) : u.retxQueue[i] = t.retxQueue[j]
      BY <2>2
    <3> DEFINE e == t.retxQueue[j]
    <3>2. e \in RetxSeg
      BY <3>1, TcbParts, ElementOfSeq
    <3>3. OwnText(e, t.snd.iss, n, Nxt(t))
      BY <1>4, <3>1 DEF Body
    <3> HIDE DEF e
    <3>4. SeqSub(e.seq, t.snd.iss) \in Nat /\ segLen(e) \in Nat
      BY <3>2, RetxParts, OwnLen, SndParts
    <3>5. OwnText(e, t.snd.iss, n, Nxt(t) + m)
      BY <1>5, <3>3, <3>4, OwnTextMore
    <3> QED BY <3>1, <3>5 DEF e
  <2> QED BY <1>1, <2>1, <2>2
<1>12. Numbered(u, n)
  BY <1>2, <1>4, <1>7, <1>8, <1>9, <1>11 DEF Numbered, Body
<1>13. ASSUME NEW s \in u.out PROVE s \in t.out \/ Spoken(s, u, n, {t.rcv.nxt})
  <2>1. s \in t.out \/ (Piece(s, t, m) /\ s.ack = t.rcv.nxt)
    BY <1>1
  <2>2. ASSUME Piece(s, t, m), s.ack = t.rcv.nxt PROVE Spoken(s, u, n, {t.rcv.nxt})
    <3>1. OwnText(s, u.snd.iss, n, Nxt(u))
      BY <1>2, <1>7, <1>10, <2>2
    <3> QED BY <2>2, <3>1 DEF Spoken, Quotes, Piece
  <2> QED BY <2>1, <2>2
<1>14. Nxt(t) <= Nxt(u)
  BY <1>1, <1>5, <1>7
<1> QED BY <1>12, <1>13, <1>14

LEMMA DataPieces ==
    ASSUME NEW t \in TCB, NEW n \in 1..DefaultMSS, n <= unsent(t)
    PROVE  LET m == sendData(t, {"ACK"}, t.snd.nxt, t.rcv.nxt, cut(t, 0, n))
           IN Pieces(t, [m EXCEPT !.snd.nxt = SeqAdd(@, n)])
<1> DEFINE d == cut(t, 0, n)
           e == queueEntry({"ACK"}, t.snd.nxt, d)
           m == sendData(t, {"ACK"}, t.snd.nxt, t.rcv.nxt, d)
           x == [t.snd EXCEPT !.nxt = SeqAdd(t.snd.nxt, n)]
           u == [m EXCEPT !.snd.nxt = SeqAdd(@, n)]
<1>1. n \in Nat \ {0} /\ n \in 0..DefaultMSS /\ 0 + n <= unsent(t) /\ n \in 0..SeqSize
  BY TcbAssumption, UnsentType, SmallSeqNums
<1>2. d \in Payload /\ Len(d) = n
  BY <1>1, CutType, CutLen
<1>3. t.snd.nxt \in SeqNum /\ t.rcv.nxt \in SeqNum /\ t.snd \in SndVars /\ SeqAdd(t.snd.nxt, 0) = t.snd.nxt
  BY SndParts, RcvParts, TcbParts, SeqNumNat DEF SeqAdd
<1>p. Piece(e, t, n) /\ \A s : s.flags = {"ACK"} /\ s.seq = t.snd.nxt /\ s.data = d => Piece(s, t, n)
  <2>1. 0 \in Nat /\ n \in Nat \ {0} /\ 0 + n <= n
    BY <1>1
  <2> QED BY <1>3, <2>1 DEF Piece, queueEntry
<1> HIDE DEF d
<1>4. segLen([flags |-> {"ACK"}, data |-> d]) # 0
  BY <1>1, <1>2 DEF segLen
<1>5. Queued(t, m, e, t.rcv.nxt) /\ Adds(t, m, {"ACK"}, t.snd.nxt, t.rcv.nxt, d)
  BY <1>2, <1>3, <1>4, AckFlags, SendDataForm, SendDataAdds
<1> HIDE DEF m, e
<1>6. /\ m \in TCB /\ m.snd = t.snd /\ m.sndBuf = t.sndBuf /\ m.state = t.state
      /\ m.reached = t.reached /\ m.retxQueue = Append(t.retxQueue, e) /\ e \in RetxSeg
  BY <1>5 DEF Queued, SameRcv
<1>7. x \in SndVars /\ x.una = t.snd.una /\ x.iss = t.snd.iss /\ x.nxt = SeqAdd(t.snd.nxt, n)
  BY <1>1, <1>3, SeqAddType DEF SndVars
<1>8. u = [m EXCEPT !.snd = x]
  BY <1>3, <1>6 DEF TCB, SndVars
<1> HIDE DEF x
<1>9. /\ u \in TCB /\ u.snd = x /\ u.sndBuf = t.sndBuf /\ u.state = t.state
      /\ u.reached = t.reached /\ u.retxQueue = Append(t.retxQueue, e) /\ u.out = m.out
  BY <1>6, <1>7, <1>8 DEF TCB
<1> HIDE DEF u
<1>10. ASSUME NEW i \in 1..Len(u.retxQueue)
       PROVE  \/ \E j \in 1..Len(t.retxQueue) : u.retxQueue[i] = t.retxQueue[j]
              \/ Piece(u.retxQueue[i], t, n)
  <2>1. /\ t.retxQueue \in Seq(RetxSeg) /\ Len(t.retxQueue) \in Nat
        /\ Len(u.retxQueue) = Len(t.retxQueue) + 1
        /\ u.retxQueue[Len(t.retxQueue) + 1] = e
        /\ \A j \in 1..Len(t.retxQueue) : u.retxQueue[j] = t.retxQueue[j]
    BY <1>6, <1>9, TcbParts, AppendProperties, LenProperties
  <2>2. i = Len(t.retxQueue) + 1 \/ i \in 1..Len(t.retxQueue)
    BY <2>1
  <2> QED BY <1>p, <2>1, <2>2
<1>11. \A s \in u.out : s \in t.out \/ (Piece(s, t, n) /\ s.ack = t.rcv.nxt)
  BY <1>5, <1>9, <1>p DEF Adds
<1>12. Pieces(t, u)
  <2>1. n \in Nat
    BY <1>1
  <2> QED BY <1>7, <1>9, <1>10, <1>11, <2>1 DEF Pieces
<1> QED BY <1>12 DEF u, m, d

\* Timers and buffers apart, u is t.
LEMMA PiecesSame ==
    ASSUME NEW t, NEW u, NEW v, Pieces(t, u), v \in TCB, v.snd = u.snd, v.sndBuf = u.sndBuf,
           v.state = u.state, v.reached = u.reached, v.retxQueue = u.retxQueue, v.out = u.out
    PROVE  Pieces(t, v)
  BY DEF Pieces

LEMMA NoPieces ==
    ASSUME NEW t \in TCB, NEW u \in TCB, u.snd = t.snd, u.sndBuf = t.sndBuf,
           u.state = t.state, u.reached = t.reached, u.retxQueue = t.retxQueue, u.out = t.out
    PROVE  Pieces(t, u)
<1>1. SeqAdd(t.snd.nxt, 0) = t.snd.nxt /\ 0 \in Nat
  BY SndParts, SeqNumNat DEF SeqAdd
<1>2. Len(t.retxQueue) \in Nat
  BY TcbParts, LenProperties
<1> QED BY <1>1, <1>2 DEF Pieces

LEMMA TmrAlso ==
    ASSUME NEW t \in TCB
    PROVE  \A u \in {disarmOverride(t), disarmPersist(t), armOverride(t), armPersist(t),
                     disarmPersist(disarmOverride(t))} :
              u.state = t.state /\ u.reached = t.reached /\ u.out = t.out /\ u.rcv = t.rcv
  BY DEF disarmOverride, disarmPersist, armOverride, armPersist, TCB

LEMMA EmitSegmentPieces ==
    ASSUME NEW t \in TCB, NEW n \in Nat \ {0}, n <= unsent(t)
    PROVE  Pieces(t, emitSegment(t, n))
<1> DEFINE len == minU32(n, DefaultMSS)
           m == sendData(t, {"ACK"}, t.snd.nxt, t.rcv.nxt, cut(t, 0, len))
           u == [m EXCEPT !.snd.nxt = SeqAdd(@, len)]
           v == disarmOverride(u)
<1>1. len \in 1..DefaultMSS /\ len <= unsent(t)
  BY TcbAssumption, UnsentType DEF minU32
<1> HIDE DEF len
<1>2. Pieces(t, u)
  BY <1>1, DataPieces
<1> HIDE DEF u
<1>3. u \in TCB
  BY <1>2 DEF Pieces
<1>4. /\ v \in TCB /\ v.snd = u.snd /\ v.sndBuf = u.sndBuf /\ v.retxQueue = u.retxQueue
      /\ v.state = u.state /\ v.reached = u.reached /\ v.out = u.out
  BY <1>3, TmrSame, TmrAlso
<1> HIDE DEF v
<1>5. Pieces(t, v)
  BY <1>2, <1>4, PiecesSame
<1> QED BY <1>5 DEF emitSegment, v, u, m, len

LEMMA ProbePersistPieces ==
    ASSUME NEW t \in TCB
    PROVE  Pieces(t, probePersist(t))
<1>1. CASE unsent(t) <= 0 \/ t.snd.wnd # 0
  BY <1>1, NoPieces DEF probePersist
<1>2. CASE ~(unsent(t) <= 0 \/ t.snd.wnd # 0)
  <2>1. 1 \in 1..DefaultMSS /\ 1 <= unsent(t)
    BY <1>2, UnsentType, TcbAssumption
  <2> QED BY <1>2, <2>1, DataPieces DEF probePersist
<1> QED BY <1>1, <1>2

LEMMA FireOverridePieces ==
    ASSUME NEW t \in TCB
    PROVE  Pieces(t, fireOverride(t))
<1>1. CASE unsent(t) <= 0 \/ sendUsable(t) = 0
  BY <1>1, NoPieces, TmrSame, TmrAlso DEF fireOverride
<1>2. CASE ~(unsent(t) <= 0 \/ sendUsable(t) = 0)
  <2> DEFINE n == minU32(unsent(t), sendUsable(t))
  <2>1. unsent(t) > 0
    BY <1>2, UnsentType
  <2>2. n \in Nat \ {0} /\ n <= unsent(t)
    BY <1>2, <2>1, SendableType
  <2> HIDE DEF n
  <2> QED BY <1>2, <2>2, EmitSegmentPieces DEF fireOverride, n
<1> QED BY <1>1, <1>2

LEMMA PieceEnds ==
    ASSUME NEW mss \in Nat \ {0}, NEW k \in Nat, NEW i \in 1..k
    PROVE  (i - 1) * mss + mss <= k * mss
<1>1. i * mss <= k * mss /\ (i - 1) * mss + mss = i * mss
  OBVIOUS
<1> QED BY <1>1

LEMMA EmitSegmentsPieces ==
    ASSUME NEW t \in TCB, NEW n \in Nat, n <= unsent(t), n \in SeqNum
    PROVE  Pieces(t, emitSegments(t, n))
<1> DEFINE idle == t.snd.nxt = t.snd.una
           S == {i \in 0..(n - 1) : canSend(t, n - i * DefaultMSS, idle)}
           k == LoopCount(S, n)
           piece(i) == cut(t, (i - 1) * DefaultMSS, minU32(n - (i - 1) * DefaultMSS, DefaultMSS))
           entry(i) == [flags |-> {"ACK"}, seq |-> SeqAdd(t.snd.nxt, (i - 1) * DefaultMSS),
                        data |-> piece(i), retries |-> 0]
           wire(i) == [flags |-> {"ACK"}, seq |-> entry(i).seq, ack |-> t.rcv.nxt,
                       win |-> advertised(t, {"ACK"}), data |-> piece(i),
                       opts |-> IF t.opt.tsOK THEN "ts" ELSE "none",
                       tsval |-> IF t.opt.tsOK THEN t.ts.now ELSE 0]
           out == t.out \cup {wire(i) : i \in 1..k}
           new == [i \in 1..k |-> entry(i)]
           q == t.retxQueue \o new
           m == minU32(n, k * DefaultMSS)
           u == [t EXCEPT !.out = out, !.retxQueue = q, !.snd.nxt = SeqAdd(@, m),
                          !.ts.lastAckSent = t.rcv.nxt, !.tmr.override = FALSE]
<1>0. emitSegments(t, n) = IF k = 0 THEN t ELSE u
  BY DEF emitSegments
<1>k. Keeps(t, emitSegments(t, n))
  BY EmitSegmentsKeeps
<1>1. k \in 0..n /\ \A i \in 0..(k - 1) : i \in S
  <2>1. S \in SUBSET (0..(n - 1))
    OBVIOUS
  <2> HIDE DEF S
  <2> QED BY <2>1, LoopCountType
<1>2. \A i \in 1..k : (i - 1) * DefaultMSS \in Nat /\ (i - 1) * DefaultMSS < n
  <2> TAKE i \in 1..k
  <2>1. i - 1 \in 0..(k - 1) /\ i - 1 \in Nat
    BY <1>1
  <2>2. canSend(t, n - (i - 1) * DefaultMSS, idle)
    BY <1>1, <2>1
  <2>3. (i - 1) * DefaultMSS \in Nat
    BY <2>1, TcbAssumption
  <2> QED BY <2>2, <2>3 DEF canSend
<1> HIDE DEF k
<1>3. k \in Nat /\ DefaultMSS \in Nat \ {0} /\ k * DefaultMSS \in Nat
  BY <1>1, TcbAssumption
<1>4. m \in Nat /\ m <= n /\ m <= unsent(t)
  BY <1>3, UnsentType DEF minU32
<1>5. CASE k = 0
  BY <1>0, <1>5, NoPieces
<1>6. CASE k # 0
  <2>1. ASSUME NEW i \in 1..k
        PROVE  \A e : e.flags = {"ACK"} /\ e.seq = entry(i).seq /\ e.data = piece(i)
                        => Piece(e, t, m)
    <3> DEFINE o == (i - 1) * DefaultMSS
               l == minU32(n - o, DefaultMSS)
    <3>1. o \in Nat /\ o < n /\ o + DefaultMSS <= k * DefaultMSS
      BY <1>2, <1>3, PieceEnds
    <3>2. piece(i) = cut(t, o, l) /\ entry(i).seq = SeqAdd(t.snd.nxt, o)
      OBVIOUS
    <3> HIDE DEF o, piece, entry
    <3>3. l \in Nat \ {0} /\ o + l <= m
      BY <1>3, <3>1 DEF minU32
    <3> HIDE DEF l
    <3> QED BY <3>1, <3>2, <3>3 DEF Piece
  <2>2. ASSUME NEW i \in 1..k PROVE Piece(entry(i), t, m)
    <3>1. entry(i).flags = {"ACK"} /\ entry(i).data = piece(i)
      OBVIOUS
    <3> HIDE DEF entry, piece, m
    <3> QED BY <2>1, <3>1
  <2>3. ASSUME NEW i \in 1..k PROVE Piece(wire(i), t, m) /\ wire(i).ack = t.rcv.nxt
    <3>1. wire(i).flags = {"ACK"} /\ wire(i).seq = entry(i).seq /\ wire(i).data = piece(i)
          /\ wire(i).ack = t.rcv.nxt
      OBVIOUS
    <3> HIDE DEF entry, piece, m, wire
    <3> QED BY <2>1, <3>1
  <2>4. \A i \in 1..k : new[i] = entry(i)
    OBVIOUS
  <2> HIDE DEF entry, wire, m
  <2>5. new \in [1..k -> {new[i] : i \in 1..k}]
    OBVIOUS
  <2> HIDE DEF new
  <2>6. \A s \in out : s \in t.out \/ (Piece(s, t, m) /\ s.ack = t.rcv.nxt)
    BY <2>3
  <2>7. /\ u.snd.una = t.snd.una /\ u.snd.iss = t.snd.iss /\ u.snd.nxt = SeqAdd(t.snd.nxt, m)
        /\ u.sndBuf = t.sndBuf /\ u.retxQueue = q /\ u.out = out
    <3> HIDE DEF out, q
    <3> QED BY DEF TCB, SndVars
  <2>8. u \in TCB /\ u.state = t.state /\ u.reached = t.reached
    BY <1>0, <1>6, <1>k DEF Keeps, KeepsRcv, SameRcv
  <2> HIDE DEF u, out
  <2>9. \A i \in 1..Len(q) : \/ \E j \in 1..Len(t.retxQueue) : q[i] = t.retxQueue[j]
                             \/ \E j \in 1..k : q[i] = entry(j)
    <3> DEFINE T == RetxSeg \cup {new[i] : i \in 1..k}
    <3>1. t.retxQueue \in Seq(T) /\ Len(t.retxQueue) \in Nat
      BY TcbParts, LenProperties
    <3>2. new \in [1..k -> T]
      BY <2>5
    <3> HIDE DEF T
    <3>3. new \in Seq(T) /\ Len(new) = k
      BY <1>3, <3>2, FcnIsSeq
    <3>4. /\ Len(q) = Len(t.retxQueue) + k
          /\ \A i \in 1..Len(q) : q[i] = IF i <= Len(t.retxQueue) THEN t.retxQueue[i]
                                         ELSE new[i - Len(t.retxQueue)]
      BY <3>1, <3>3, ConcatProperties
    <3> HIDE DEF q
    <3> TAKE i \in 1..Len(q)
    <3>5. CASE i <= Len(t.retxQueue)
      BY <3>1, <3>4, <3>5
    <3>6. CASE ~(i <= Len(t.retxQueue))
      <4>1. i - Len(t.retxQueue) \in 1..k
        BY <1>3, <3>1, <3>4, <3>6
      <4> QED BY <2>4, <3>4, <3>6, <4>1
    <3> QED BY <3>5, <3>6
  <2> HIDE DEF q
  <2>10. \A i \in 1..Len(u.retxQueue) :
             \/ \E j \in 1..Len(t.retxQueue) : u.retxQueue[i] = t.retxQueue[j]
             \/ Piece(u.retxQueue[i], t, m)
    BY <2>2, <2>7, <2>9
  <2>11. Pieces(t, u)
    BY <1>4, <2>6, <2>7, <2>8, <2>10 DEF Pieces
  <2> QED BY <1>0, <1>6, <2>11
<1> QED BY <1>5, <1>6

LEMMA FlushSendPieces ==
    ASSUME NEW t \in TCB
    PROVE  Pieces(t, flushSend(t))
<1> DEFINE n == minU32(unsent(t), sendUsable(t))
           sent == emitSegments(t, n)
<1>1. CASE unsent(t) <= 0
  BY <1>1, NoPieces, TmrSame, TmrAlso DEF flushSend
<1>2. CASE ~(unsent(t) <= 0) /\ t.snd.wnd = 0
  BY <1>2, NoPieces, TmrSame, TmrAlso DEF flushSend
<1>3. CASE ~(unsent(t) <= 0) /\ t.snd.wnd # 0
  <2>1. unsent(t) > 0
    BY <1>3, UnsentType
  <2>2. n \in Nat /\ n \in SeqNum /\ n <= unsent(t)
    BY <2>1, SendableType
  <2> HIDE DEF n
  <2>3. Pieces(t, sent)
    BY <2>2, EmitSegmentsPieces
  <2>4. flushSend(t) \in {disarmPersist(disarmOverride(sent)), armOverride(sent)}
    BY <1>3 DEF flushSend, n
  <2> HIDE DEF sent
  <2>5. sent \in TCB
    BY <2>3 DEF Pieces
  <2>6. ASSUME NEW u \in {disarmPersist(disarmOverride(sent)), armOverride(sent)}
        PROVE  Pieces(t, u)
    <3>1. /\ u \in TCB /\ u.snd = sent.snd /\ u.sndBuf = sent.sndBuf /\ u.retxQueue = sent.retxQueue
          /\ u.state = sent.state /\ u.reached = sent.reached /\ u.out = sent.out
      <4>1. u \in {disarmOverride(sent), disarmPersist(sent), armOverride(sent), armPersist(sent),
                   disarmPersist(disarmOverride(sent))}
        OBVIOUS
      <4>2. /\ u \in TCB /\ u.snd = sent.snd /\ u.sndBuf = sent.sndBuf
            /\ u.retxQueue = sent.retxQueue
        BY <2>5, <4>1, TmrSame
      <4>3. u.state = sent.state /\ u.reached = sent.reached /\ u.out = sent.out
        BY <2>5, <4>1, TmrAlso
      <4> QED BY <4>2, <4>3
    <3> QED BY <2>3, <3>1, PiecesSame
  <2> QED BY <2>4, <2>6
<1> QED BY <1>1, <1>2, <1>3

LEMMA AckOffset ==
    ASSUME NEW una \in SeqNum, NEW ack \in SeqNum, NEW nxt \in SeqNum, NEW iss \in SeqNum,
           SeqSub(una, iss) <= SeqSub(nxt, iss), SeqSub(nxt, iss) < HalfSeqSpace,
           AcceptableAck(una, ack, nxt)
    PROVE  /\ SeqSub(una, iss) < SeqSub(ack, iss) /\ SeqSub(ack, iss) <= SeqSub(nxt, iss)
           /\ SeqSub(ack, una) = SeqSub(ack, iss) - SeqSub(una, iss)
  BY HalfSeqSpaceAssumption DEF AcceptableAck, SeqLEQ, SeqLT, SeqSub, SeqNum, SeqSize

\* What stays queued was queued.
LEMMA AckRetxQueuePart ==
    ASSUME NEW t \in TCB, NEW ack
    PROVE  LET u == ackRetxQueue(t, ack) IN
             /\ u.out = t.out
             /\ \A i \in 1..Len(u.retxQueue) :
                   \E j \in 1..Len(t.retxQueue) : u.retxQueue[i] = t.retxQueue[j]
<1> DEFINE q == t.retxQueue
           n == Len(q)
           S == {i \in 0..(n - 1) : SeqLEQ(SeqAdd(q[i + 1].seq, segLen(q[i + 1])), ack)}
           k == LoopCount(S, n)
           r == SubSeq(q, k + 1, n)
<1>1. q \in Seq(RetxSeg) /\ n \in Nat
  BY TcbParts, LenProperties
<1>2. k \in 0..n
  <2>1. S \in SUBSET (0..(n - 1))
    OBVIOUS
  <2> HIDE DEF S, n
  <2> QED BY <1>1, <2>1, LoopCountType
<1>3. ackRetxQueue(t, ack) = [t EXCEPT !.retxQueue = r]
  BY DEF ackRetxQueue
<1> HIDE DEF k
<1>4. k \in Nat /\ k <= Len(q)
  BY <1>1, <1>2
<1>5. Len(r) = n - k /\ \A i \in 1..(n - k) : r[i] = q[k + i]
  BY <1>1, <1>4, RestOfSeq
<1>6. \A i \in 1..(n - k) : k + i \in 1..n
  BY <1>1, <1>4
<1> HIDE DEF r
<1>7. [t EXCEPT !.retxQueue = r].retxQueue = r /\ [t EXCEPT !.retxQueue = r].out = t.out
  BY DEF TCB
<1> HIDE DEF q, n
<1>8. \A i \in 1..Len(r) : \E j \in 1..n : r[i] = q[j]
  BY <1>5, <1>6
<1> QED BY <1>3, <1>7, <1>8 DEF q, n

LEMMA ReleasedText ==
    ASSUME NEW t \in TCB, NEW acked \in Nat
    PROVE  LET u == releaseAckedSend(t, acked)
               m == minU32(acked, Len(t.sndBuf))
           IN  /\ u.out = t.out /\ u.snd = t.snd /\ u.retxQueue = t.retxQueue
               /\ Len(u.sndBuf) = Len(t.sndBuf) - m
               /\ \A i \in 1..(Len(t.sndBuf) - m) : u.sndBuf[i] = t.sndBuf[m + i]
<1> DEFINE b == t.sndBuf
           m == minU32(acked, Len(b))
           r == SubSeq(b, m + 1, Len(b))
           u == [t EXCEPT !.sndBuf = r]
<1>1. b \in Seq(Nat) /\ Len(b) \in Nat
  BY TcbParts, LenProperties
<1>2. m \in Nat /\ m <= Len(b)
  BY <1>1 DEF minU32
<1>3. releaseAckedSend(t, acked) = u
  BY DEF releaseAckedSend
<1>4. SUFFICES /\ u.out = t.out /\ u.snd = t.snd /\ u.retxQueue = t.retxQueue
               /\ Len(u.sndBuf) = Len(b) - m
               /\ \A i \in 1..(Len(b) - m) : u.sndBuf[i] = b[m + i]
  BY <1>3
<1> HIDE DEF m
<1>5. Len(r) = Len(b) - m /\ \A i \in 1..(Len(b) - m) : r[i] = b[m + i]
  BY <1>1, <1>2, RestOfSeq
<1> HIDE DEF r
<1>6. u.sndBuf = r /\ u.out = t.out /\ u.snd = t.snd /\ u.retxQueue = t.retxQueue
  BY DEF TCB
<1> QED BY <1>5, <1>6

\* A new ACK moves SND.UNA to the number it names.
LEMMA NewlyAckedForm ==
    ASSUME NEW t \in TCB, NEW s \in Segment
    PROVE  LET v == newlyAcked(t, s)
               m == minU32(SeqSub(s.ack, t.snd.una), Len(t.sndBuf))
           IN  /\ Keeps(t, v) /\ v.snd = [t.snd EXCEPT !.una = s.ack] /\ v.out = t.out
               /\ Len(v.sndBuf) = Len(t.sndBuf) - m
               /\ \A i \in 1..(Len(t.sndBuf) - m) : v.sndBuf[i] = t.sndBuf[m + i]
               /\ \A i \in 1..Len(v.retxQueue) :
                     \E j \in 1..Len(t.retxQueue) : v.retxQueue[i] = t.retxQueue[j]
<1> DEFINE acked == SeqSub(s.ack, t.snd.una)
           c == onNewAck(t.cong, acked)
           x == [t.snd EXCEPT !.una = s.ack]
           u == [t EXCEPT !.snd = x, !.cong = c]
           w == ackRetxQueue(u, s.ack)
           v == releaseAckedSend(w, acked)
           m == minU32(acked, Len(t.sndBuf))
<1>0. newlyAcked(t, s) = v /\ Keeps(t, newlyAcked(t, s))
  BY NewAckOK DEF newlyAcked, TCB
<1>1. acked \in SeqNum /\ acked \in Nat /\ s.ack \in SeqNum
  BY SegmentParts, SndParts, SeqSubType, SeqNumNat
<1> HIDE DEF acked
<1>2. c \in Cong
  BY <1>1, TcbParts, OnNewAckType
<1>3. x \in SndVars
  BY <1>1, TcbParts DEF SndVars
<1> HIDE DEF c, x
<1>4. /\ u \in TCB /\ u.snd = x /\ u.out = t.out /\ u.sndBuf = t.sndBuf /\ u.retxQueue = t.retxQueue
  BY <1>2, <1>3 DEF TCB
<1> HIDE DEF u
<1>5. /\ w \in TCB /\ w.snd = u.snd /\ w.out = u.out /\ w.sndBuf = u.sndBuf
      /\ \A i \in 1..Len(w.retxQueue) :
            \E j \in 1..Len(u.retxQueue) : w.retxQueue[i] = u.retxQueue[j]
  BY <1>4, AckRetxQueuePart, AckRetxQueueForm, AckRetxQueueKeeps DEF Keeps, KeepsRcv, SameRcv
<1> HIDE DEF w
<1>6. /\ v.out = w.out /\ v.snd = w.snd /\ v.retxQueue = w.retxQueue
      /\ Len(v.sndBuf) = Len(w.sndBuf) - minU32(acked, Len(w.sndBuf))
      /\ \A i \in 1..(Len(w.sndBuf) - minU32(acked, Len(w.sndBuf))) :
            v.sndBuf[i] = w.sndBuf[minU32(acked, Len(w.sndBuf)) + i]
  BY <1>1, <1>5, ReleasedText
<1> HIDE DEF v
<1> QED BY <1>0, <1>4, <1>5, <1>6 DEF x, acked

LEMMA NewlyAckedBody ==
    ASSUME NEW t \in TCB, NEW s \in Segment, advances(t, s), NEW n, Fits(n), Body(t, n)
    PROVE  LET v == newlyAcked(t, s)
           IN  Body(v, n) /\ Una(t) < Una(v) /\ Nxt(v) = Nxt(t) /\ v.out = t.out
<1> DEFINE v == newlyAcked(t, s)
           acked == SeqSub(s.ack, t.snd.una)
           len == Len(t.sndBuf)
           m == minU32(acked, len)
           a == Una(t)
           b == Una(v)
           x == Nxt(t)
<1>1. /\ Keeps(t, v) /\ v.snd = [t.snd EXCEPT !.una = s.ack] /\ v.out = t.out
      /\ Len(v.sndBuf) = len - m
      /\ \A i \in 1..(len - m) : v.sndBuf[i] = t.sndBuf[m + i]
      /\ \A i \in 1..Len(v.retxQueue) :
            \E j \in 1..Len(t.retxQueue) : v.retxQueue[i] = t.retxQueue[j]
  BY NewlyAckedForm
<1> HIDE DEF v
<1>2. /\ v \in TCB /\ v.snd.una = s.ack /\ v.snd.nxt = t.snd.nxt /\ v.snd.iss = t.snd.iss
  BY <1>1, TcbParts DEF Keeps, KeepsRcv, SameRcv, SndVars
<1>3. /\ Counts(a, x, n, len) /\ Text(t.sndBuf, a) /\ n \in Nat
      /\ a \in Nat /\ b \in Nat /\ x \in Nat /\ len \in Nat
  BY <1>2, OffTypes DEF Body, Fits
<1>4. b = SeqSub(s.ack, t.snd.iss) /\ Nxt(v) = x
  BY <1>2 DEF Una, Nxt
<1>5. a <= x /\ x < HalfSeqSpace
  BY <1>3, TcbAssumption, HalfSeqSpaceAssumption DEF Counts, Fits
<1>6. a < b /\ b <= x /\ acked = b - a
  <2>1. AcceptableAck(t.snd.una, s.ack, t.snd.nxt)
    BY DEF advances
  <2>2. SeqSub(t.snd.una, t.snd.iss) <= SeqSub(t.snd.nxt, t.snd.iss)
        /\ SeqSub(t.snd.nxt, t.snd.iss) < HalfSeqSpace
    BY <1>5 DEF Una, Nxt
  <2>3. /\ SeqSub(t.snd.una, t.snd.iss) < SeqSub(s.ack, t.snd.iss)
        /\ SeqSub(s.ack, t.snd.iss) <= SeqSub(t.snd.nxt, t.snd.iss)
        /\ SeqSub(s.ack, t.snd.una) = SeqSub(s.ack, t.snd.iss) - SeqSub(t.snd.una, t.snd.iss)
    BY <2>1, <2>2, SndParts, SegmentParts, AckOffset
  <2> QED BY <1>4, <2>3 DEF Una, Nxt
<1> HIDE DEF acked, len, a, b, x
<1>7. Counts(b, x, n, len - m)
  BY <1>3, <1>6 DEF Counts, minU32
<1>8. Text(v.sndBuf, b)
  <2> SUFFICES ASSUME NEW i \in 1..Len(v.sndBuf) PROVE v.sndBuf[i] + 1 = b + i
    BY DEF Text
  <2>1. Len(v.sndBuf) = len - m /\ len \in Nat /\ len # 0
    BY <1>1, <1>3, <1>6 DEF minU32
  <2>2. m = b - a /\ m + i \in 1..len /\ i \in 1..(len - m)
    BY <1>3, <1>6, <2>1 DEF minU32
  <2>3. v.sndBuf[i] = t.sndBuf[m + i]
    BY <1>1, <2>2
  <2>4. t.sndBuf[m + i] + 1 = a + (m + i)
    BY <1>3, <2>2 DEF Text, len
  <2> HIDE DEF m
  <2> QED BY <1>3, <2>2, <2>3, <2>4
<1>9. \A i \in 1..Len(v.retxQueue) : OwnText(v.retxQueue[i], v.snd.iss, n, x)
  BY <1>1, <1>2 DEF Body, x
<1> QED BY <1>1, <1>4, <1>6, <1>7, <1>8, <1>9 DEF Body, a, b, x, v, len

LEMMA UpdateSendWindowQuiet ==
    ASSUME NEW t \in TCB, NEW s
    PROVE  LET u == updateSendWindow(t, s) IN
             /\ u.snd.una = t.snd.una /\ u.snd.nxt = t.snd.nxt /\ u.snd.iss = t.snd.iss
             /\ u.sndBuf = t.sndBuf /\ u.retxQueue = t.retxQueue /\ u.out = t.out
<1> DEFINE w == IF t.opt.scaled THEN s.win * WScale ELSE s.win
           x == [t.snd EXCEPT !.maxWnd = maxU32(@, w)]
           y == [x EXCEPT !.wnd = w, !.wl1 = s.seq, !.wl2 = s.ack]
           z == [t.tmr EXCEPT !.persist = IF w > 0 THEN FALSE ELSE @]
<1>1. updateSendWindow(t, s) \in {[t EXCEPT !.snd = x], [t EXCEPT !.snd = y, !.tmr = z]}
  BY UpdateSendWindowForm
<1>2. x.iss = t.snd.iss /\ y.iss = t.snd.iss
  BY TcbParts DEF SndVars
<1> HIDE DEF x, y, z
<1>3. updateSendWindow(t, s).snd.iss = t.snd.iss /\ updateSendWindow(t, s).out = t.out
  BY <1>1, <1>2 DEF TCB
<1> QED BY <1>3, UpdateSendWindowSame

\* What an ACK does to SND.UNA allows the state it leads to.
LEMMA AdvancePhase ==
    ASSUME NEW t \in TCB, NEW n \in Nat, NEW a \in Nat, Phase(t.state, t.reached, a, Nxt(t), n),
           Counts(Una(t), Nxt(t), n, Len(t.sndBuf)), a <= Una(t),
           t.state \notin {"Closed", "Listen", "SynSent"}, t.state = "SynReceived" => Una(t) >= 1
    PROVE  LET u == advanceStateOnAck(t) IN
             Phase(u.state, u.reached, Una(t), Nxt(t), n) /\ u.out = t.out
<1> DEFINE x == Nxt(t)
           b == Una(t)
           u == advanceStateOnAck(t)
<1>1. x \in Nat /\ b \in Nat
  BY OffTypes
<1>2. finAcked(t) => b = x
  BY DEF finAcked, Una, Nxt
<1>3. b <= x
  BY DEF Counts
<1>4. \/ t.state = "SynReceived" /\ u = [t EXCEPT !.state = "Established", !.reached = TRUE]
      \/ t.state = "FinWait1" /\ finAcked(t) /\ u = [t EXCEPT !.state = "FinWait2"]
      \/ t.state = "Closing" /\ finAcked(t) /\ u = [t EXCEPT !.state = "TimeWait"]
      \/ t.state = "LastAck" /\ finAcked(t) /\ u = [t EXCEPT !.state = "Closed"]
      \/ t.state # "SynReceived" /\ u = t
  BY DEF advanceStateOnAck
<1>5. \/ t.state = "SynReceived" /\ u.state = "Established"
      \/ t.state = "FinWait1" /\ b = x /\ u.state = "FinWait2" /\ u.reached = t.reached
      \/ t.state = "Closing" /\ b = x /\ u.state = "TimeWait" /\ u.reached = t.reached
      \/ t.state = "LastAck" /\ u.state = "Closed" /\ u.reached = t.reached
      \/ t.state # "SynReceived" /\ u.state = t.state /\ u.reached = t.reached
  BY <1>2, <1>4 DEF TCB
<1>6. u.out = t.out
  BY <1>4 DEF TCB
<1> HIDE DEF x, b, u
<1>7. Phase(t.state, t.reached, a, x, n)
  BY DEF x
<1>8. Phase(u.state, u.reached, b, x, n)
  <2>1. a <= b /\ (t.state = "SynReceived" => b >= 1)
    BY DEF b
  <2> QED BY <1>1, <1>3, <1>5, <1>7, <2>1 DEF Phase, Early, Ending
<1> QED BY <1>6, <1>8 DEF x, b, u

LEMMA HandleAckSays ==
    ASSUME NEW t \in TCB, NEW s \in Segment, t.state \notin {"Closed", "Listen", "SynSent"},
           t.state = "SynReceived" => advances(t, s), NEW n, Fits(n)
    PROVE  Says(t, handleAck(t, s), n, {t.rcv.nxt})
<1> DEFINE v == IF advances(t, s) THEN newlyAcked(t, s)
                ELSE IF isDupAck(t, s) THEN onDuplicateAck(t, s)
                ELSE t
           w == updateSendWindow(v, s)
           a == advanceStateOnAck(w)
           z == flushSend(a)
<1>0. handleAck(t, s) = z
  BY DEF handleAck, newlyAcked
<1>1. /\ Keeps(t, v) /\ v.snd.iss = t.snd.iss /\ v.snd.nxt = t.snd.nxt
      /\ Body(t, n) => /\ Body(v, n) /\ Una(t) <= Una(v)
                       /\ advances(t, s) => Una(v) >= 1
                       /\ \A e \in v.out : e \in t.out \/ Spoken(e, t, n, {t.rcv.nxt})
  <2>1. CASE advances(t, s)
    <3>1. v = newlyAcked(t, s)
      BY <2>1
    <3> HIDE DEF v
    <3>2. Keeps(t, v) /\ v.snd = [t.snd EXCEPT !.una = s.ack]
      BY <3>1, NewlyAckedForm
    <3>3. v.snd.iss = t.snd.iss /\ v.snd.nxt = t.snd.nxt
      BY <3>2, TcbParts DEF SndVars
    <3>4. ASSUME Body(t, n) PROVE Body(v, n) /\ Una(t) < Una(v) /\ v.out = t.out
      BY <2>1, <3>1, <3>4, NewlyAckedBody
    <3>5. v \in TCB
      BY <3>2 DEF Keeps, KeepsRcv, SameRcv
    <3>6. Una(t) < Una(v) => Una(t) <= Una(v) /\ Una(v) >= 1
      BY <3>5, OffTypes
    <3> QED BY <3>2, <3>3, <3>4, <3>6
  <2>2. CASE ~advances(t, s) /\ isDupAck(t, s)
    <3>1. v = onDuplicateAck(t, s) /\ t.retxQueue # <<>>
      BY <2>2 DEF isDupAck
    <3> HIDE DEF v
    <3>2. /\ Keeps(t, v) /\ Utters(t, v) /\ v.snd = t.snd /\ v.sndBuf = t.sndBuf
          /\ v.retxQueue = t.retxQueue
      BY <3>1, OnDuplicateAckKeeps, OnDuplicateAckUtters
    <3>3. Body(t, n) => Body(v, n)
      BY <3>2 DEF Body, Una, Nxt
    <3>4. ASSUME Body(t, n), NEW e \in v.out PROVE e \in t.out \/ Spoken(e, t, n, {t.rcv.nxt})
      BY <3>2, <3>4, WordSpoken DEF Utters
    <3>5. Una(v) = Una(t) /\ Una(t) <= Una(v)
      BY <3>2, OffTypes DEF Una
    <3> QED BY <2>2, <3>2, <3>3, <3>4, <3>5
  <2>3. CASE ~advances(t, s) /\ ~isDupAck(t, s)
    <3>1. v = t
      BY <2>3
    <3> HIDE DEF v
    <3> QED BY <2>3, <3>1, KeepsRefl, OffTypes
  <2> QED BY <2>1, <2>2, <2>3
<1> HIDE DEF v
<1>2. v \in TCB /\ v.state = t.state /\ v.reached = t.reached /\ v.rcv = t.rcv
  BY <1>1 DEF Keeps, KeepsRcv, SameRcv
<1>3. /\ w \in TCB /\ w.state = t.state /\ w.reached = t.reached /\ w.rcv = t.rcv
      /\ w.snd.una = v.snd.una /\ w.snd.nxt = v.snd.nxt /\ w.snd.iss = v.snd.iss
      /\ w.sndBuf = v.sndBuf /\ w.retxQueue = v.retxQueue /\ w.out = v.out
  BY <1>2, UpdateSendWindowKeeps, UpdateSendWindowQuiet DEF Keeps, KeepsRcv, SameRcv
<1> HIDE DEF w
<1>4. a \in TCB /\ SameSnd(w, a) /\ a.rcv = t.rcv
  BY <1>3, AdvanceStateEffect DEF KeepsRcv, SameRcv
<1>5. /\ a.snd = w.snd /\ a.sndBuf = w.sndBuf /\ a.retxQueue = w.retxQueue
      /\ a.snd.iss = t.snd.iss /\ Nxt(a) = Nxt(t) /\ Nxt(w) = Nxt(t)
      /\ Una(a) = Una(v) /\ Una(w) = Una(v)
  BY <1>1, <1>3, <1>4 DEF SameSnd, Una, Nxt
<1>6. ASSUME Numbered(t, n)
      PROVE  /\ Numbered(a, n)
             /\ \A e \in a.out : e \in t.out \/ Spoken(e, a, n, {t.rcv.nxt})
  <2>1. /\ Body(t, n) /\ Body(v, n) /\ Una(t) <= Una(v) /\ n \in Nat
        /\ Phase(t.state, t.reached, Una(t), Nxt(t), n)
    BY <1>1, <1>6 DEF Numbered, Fits
  <2>2. Body(w, n) /\ Body(a, n)
    BY <1>1, <1>3, <1>5, <2>1 DEF Body, Una, Nxt
  <2>3. w.state = "SynReceived" => Una(w) >= 1
    BY <1>1, <1>3, <1>5, <2>1
  <2>4. Una(t) \in Nat /\ Una(t) <= Una(w) /\ Phase(w.state, w.reached, Una(t), Nxt(w), n)
    BY <1>3, <1>5, <2>1, OffTypes
  <2>5. Counts(Una(w), Nxt(w), n, Len(w.sndBuf))
    BY <2>2 DEF Body
  <2>6. Phase(a.state, a.reached, Una(w), Nxt(w), n) /\ a.out = w.out
    BY <1>3, <2>1, <2>3, <2>4, <2>5, AdvancePhase
  <2>7. Numbered(a, n)
    BY <1>5, <2>2, <2>6 DEF Numbered
  <2>8. \A e : Spoken(e, t, n, {t.rcv.nxt}) => Spoken(e, a, n, {t.rcv.nxt})
    BY <1>5 DEF Spoken
  <2> QED BY <1>1, <1>3, <2>1, <2>6, <2>7, <2>8
<1> HIDE DEF a
<1>7. Says(t, a, n, {t.rcv.nxt})
  <2>1. Nxt(t) <= Nxt(a)
    BY <1>5, OffTypes
  <2> QED BY <1>4, <1>5, <1>6, <2>1 DEF Says
<1>8. Says(a, z, n, {t.rcv.nxt})
  <2>1. Pieces(a, z)
    BY <1>4, FlushSendPieces
  <2> HIDE DEF z
  <2>2. Says(a, z, n, {a.rcv.nxt})
    BY <1>4, <2>1, PiecesSay
  <2> QED BY <1>4, <2>2
<1>9. Says(t, z, n, {t.rcv.nxt})
  BY <1>7, <1>8, SaysTrans
<1> QED BY <1>0, <1>9

\* u is t after it has said something, its receiving side unchanged.
Tells(t, u, n) == Says(t, u, n, {t.rcv.nxt}) /\ u.rcv = t.rcv

LEMMA TellsTrans ==
    ASSUME NEW t \in TCB, NEW u, NEW v, NEW n, Tells(t, u, n), Tells(u, v, n)
    PROVE  Tells(t, v, n)
  BY SaysTrans DEF Tells

LEMMA TellsType ==
    ASSUME NEW t, NEW u, NEW n, Tells(t, u, n)
    PROVE  u \in TCB
  BY DEF Tells, Says

LEMMA TickTells ==
    ASSUME NEW t \in TCB, NEW due, NEW n, Fits(n)
    PROVE  Tells(t, Tick(t, due), n)
<1> DEFINE t1 == IF "timewait" \in due THEN [t EXCEPT !.state = "Closed"] ELSE t
           t2 == IF "rtx" \in due THEN checkRetransmit(t1) ELSE t1
           t3 == IF "persist" \in due THEN probePersist(t2) ELSE t2
           t4 == IF "override" \in due THEN fireOverride(t3) ELSE t3
           t5 == IF "delack" \in due THEN sendAck(t4) ELSE t4
           t6 == IF "keepalive" \in due THEN checkKeepAlive(t5) ELSE t5
<1>0. Tick(t, due) = t6
  BY DEF Tick
<1>a. ASSUME NEW u \in TCB PROVE Tells(u, u, n)
  BY SaysRefl DEF Tells
<1>1. Tells(t, t1, n)
  <2> DEFINE u == [t EXCEPT !.state = "Closed"]
  <2>1. "Closed" \in State
    BY DEF State
  <2>2. KeepsRcv(t, u) /\ SameSnd(t, u) /\ u.state = "Closed" /\ u.reached = t.reached /\ u.out = t.out
    BY <2>1, StateKeepsRcv DEF TCB
  <2>3. u \in TCB /\ u.rcv = t.rcv
    BY <2>2 DEF KeepsRcv, SameRcv
  <2> HIDE DEF u
  <2>4. Calm(t, u) /\ Utters(t, u) /\ QuietState(t.state, u.state)
    BY <2>2, SameSndCalm, SameOutUtters DEF QuietState
  <2>5. Tells(t, u, n)
    BY <2>2, <2>3, <2>4, QuietSays DEF Tells
  <2> QED BY <1>a, <2>5 DEF u
<1>b. t1 \in TCB
  BY <1>1, TellsType
<1> HIDE DEF t1
<1>2. Tells(t1, t2, n)
  <2> DEFINE u == checkRetransmit(t1)
  <2>1. KeepsOrCloses(t1, u) /\ Calm(t1, u) /\ Utters(t1, u)
    BY <1>b, CheckRetransmitKeeps, CheckRetransmitUtters
  <2> HIDE DEF u
  <2>2. /\ u \in TCB /\ u.rcv = t1.rcv /\ QuietState(t1.state, u.state) /\ u.reached = t1.reached
    BY <2>1 DEF KeepsOrCloses, KeepsRcv, SameRcv, QuietState
  <2>3. Tells(t1, u, n)
    BY <1>b, <2>1, <2>2, QuietSays DEF Tells
  <2> QED BY <1>a, <1>b, <2>3 DEF u
<1>c. t2 \in TCB
  BY <1>2, TellsType
<1> HIDE DEF t2
<1>3. Tells(t2, t3, n)
  <2>1. Pieces(t2, probePersist(t2)) /\ probePersist(t2).rcv = t2.rcv
    BY <1>c, ProbePersistPieces, ProbePersistKeeps DEF Keeps, KeepsRcv, SameRcv
  <2>2. Tells(t2, probePersist(t2), n)
    BY <1>c, <2>1, PiecesSay DEF Tells
  <2> QED BY <1>a, <1>c, <2>2
<1>d. t3 \in TCB
  BY <1>3, TellsType
<1> HIDE DEF t3
<1>4. Tells(t3, t4, n)
  <2>1. Pieces(t3, fireOverride(t3)) /\ fireOverride(t3).rcv = t3.rcv
    BY <1>d, FireOverridePieces, FireOverrideKeeps DEF Keeps, KeepsRcv, SameRcv
  <2>2. Tells(t3, fireOverride(t3), n)
    BY <1>d, <2>1, PiecesSay DEF Tells
  <2> QED BY <1>a, <1>d, <2>2
<1>e. t4 \in TCB
  BY <1>4, TellsType
<1> HIDE DEF t4
<1>5. Tells(t4, t5, n)
  <2> DEFINE u == sendAck(t4)
  <2>1. Keeps(t4, u) /\ SameSnd(t4, u) /\ Utters(t4, u)
    BY <1>e, SendAckKeeps, SendAckUtters
  <2> HIDE DEF u
  <2>2. /\ u \in TCB /\ u.rcv = t4.rcv /\ QuietState(t4.state, u.state) /\ u.reached = t4.reached
    BY <2>1 DEF Keeps, KeepsRcv, SameRcv, QuietState
  <2>3. Tells(t4, u, n)
    BY <1>e, <2>1, <2>2, QuietSays, SameSndCalm DEF Tells
  <2> QED BY <1>a, <1>e, <2>3 DEF u
<1>f. t5 \in TCB
  BY <1>5, TellsType
<1> HIDE DEF t5
<1>6. Tells(t5, t6, n)
  <2> DEFINE u == checkKeepAlive(t5)
  <2>1. KeepsOrCloses(t5, u) /\ Calm(t5, u) /\ Utters(t5, u)
    BY <1>f, CheckKeepAliveKeeps, CheckKeepAliveUtters
  <2> HIDE DEF u
  <2>2. /\ u \in TCB /\ u.rcv = t5.rcv /\ QuietState(t5.state, u.state) /\ u.reached = t5.reached
    BY <2>1 DEF KeepsOrCloses, KeepsRcv, SameRcv, QuietState
  <2>3. Tells(t5, u, n)
    BY <1>f, <2>1, <2>2, QuietSays DEF Tells
  <2> QED BY <1>a, <1>f, <2>3 DEF u
<1> HIDE DEF t6
<1>7. Tells(t, t2, n)
  BY <1>1, <1>2, TellsTrans
<1>8. Tells(t, t3, n)
  BY <1>7, <1>3, TellsTrans
<1>9. Tells(t, t4, n)
  BY <1>8, <1>4, TellsTrans
<1>10. Tells(t, t5, n)
  BY <1>9, <1>5, TellsTrans
<1>11. Tells(t, t6, n)
  BY <1>10, <1>6, TellsTrans
<1> QED BY <1>0, <1>11

\* The FIN follows the last byte when nothing is left to send.
LEMMA SendFinTells ==
    ASSUME NEW t \in TCB, NEW st \in {"FinWait1", "LastAck"}, NEW n, Fits(n),
           t.state \in {"SynReceived", "Established", "CloseWait"}, unsent(t) <= 0
    PROVE  Tells(t, sendFin(t, st), n)
<1> DEFINE m == send(t, {"FIN", "ACK"}, t.snd.nxt, t.rcv.nxt)
           u == sendFin(t, st)
           e == queueEntry({"FIN", "ACK"}, t.snd.nxt, <<>>)
           x == Nxt(t)
           a == Una(t)
<1>1. FinSent(t, u) /\ u.state = st
  BY SendFinEffect DEF State
<1>2. Adds(t, m, {"FIN", "ACK"}, t.snd.nxt, t.rcv.nxt, <<>>)
  BY SendAdds, AckFlags, SndParts, RcvParts
<1>3. u.out = m.out
  <2>1. m \in TCB
    <3>1. segLen([flags |-> {"FIN", "ACK"}, data |-> <<>>]) # 0
      BY FinLength
    <3>2. Queued(t, m, e, t.rcv.nxt)
      BY <3>1, SendDataForm, AckFlags, SndParts, RcvParts, EmptyPayload DEF send
    <3> QED BY <3>2 DEF Queued, SameRcv
  <2> HIDE DEF m
  <2> QED BY <2>1 DEF sendFin, TCB, m
<1> HIDE DEF m, u
<1>4. /\ u \in TCB /\ u.rcv = t.rcv /\ u.reached = t.reached /\ u.sndBuf = t.sndBuf
      /\ u.snd.una = t.snd.una /\ u.snd.iss = t.snd.iss /\ u.snd.nxt = SeqAdd(t.snd.nxt, 1)
      /\ u.retxQueue = Append(t.retxQueue, e)
  BY <1>1, TcbParts DEF FinSent, KeepsRcv, SameRcv, SndVars
<1>5. x \in Nat /\ a \in Nat /\ Len(t.sndBuf) \in Nat /\ n \in Nat /\ unsent(t) \in Int
  BY OffTypes, UnsentType DEF Fits
<1>6. SUFFICES ASSUME Numbered(t, n)
               PROVE  /\ Numbered(u, n) /\ Nxt(t) <= Nxt(u)
                      /\ \A s \in u.out : s \in t.out \/ Spoken(s, u, n, {t.rcv.nxt})
  BY <1>4 DEF Tells, Says, u
<1>7. /\ Body(t, n) /\ Counts(a, x, n, Len(t.sndBuf)) /\ Phase(t.state, t.reached, a, x, n)
  BY <1>6 DEF Numbered, Body
<1>8. unsent(t) = Len(t.sndBuf) - (x - a)
  BY <1>7, BodyFlight DEF unsent
<1> HIDE DEF x, a
<1>9. x = n + 1
  BY <1>5, <1>7, <1>8 DEF Counts, Phase, Early
<1>10. Nxt(u) = x + 1 /\ Una(u) = a
  <2>1. SeqSub(t.snd.nxt, t.snd.iss) + 1 < SeqSize
    BY <1>5, <1>9, HalfSeqSpaceAssumption, TcbAssumption DEF Fits, SeqSize, Nxt, x
  <2> QED BY <1>4, <2>1, SndParts, FlightGrows DEF Nxt, Una, x, a
<1>11. Counts(a, x + 1, n, Len(t.sndBuf)) /\ Phase(st, t.reached, a, x + 1, n)
  BY <1>5, <1>7, <1>9 DEF Counts, Phase, Early, Ending
<1>12. \A s : s.flags = {"FIN", "ACK"} /\ s.seq = t.snd.nxt /\ s.data = <<>>
                => OwnText(s, t.snd.iss, n, x + 1)
  <2> TAKE s
  <2> HAVE s.flags = {"FIN", "ACK"} /\ s.seq = t.snd.nxt /\ s.data = <<>>
  <2>1. segLen(s) = 1 /\ Text(s.data, x) /\ SeqSub(s.seq, t.snd.iss) = x
    BY FinLength, EmptyText DEF x, Nxt
  <2>2. TextAt(s, x, n, x + 1)
    BY <1>5, <1>9, <2>1 DEF TextAt
  <2> QED BY <2>1, <2>2 DEF OwnText
<1>13. ASSUME NEW i \in 1..Len(u.retxQueue) PROVE OwnText(u.retxQueue[i], t.snd.iss, n, x + 1)
  <2>0. e \in RetxSeg
    BY <1>1, SndParts, EmptyPayload, TcbAssumption DEF queueEntry, RetxSeg
  <2>e. e.flags = {"FIN", "ACK"} /\ e.seq = t.snd.nxt /\ e.data = <<>>
    BY DEF queueEntry
  <2> HIDE DEF e
  <2>1. /\ t.retxQueue \in Seq(RetxSeg) /\ Len(t.retxQueue) \in Nat
        /\ Len(u.retxQueue) = Len(t.retxQueue) + 1
        /\ u.retxQueue[Len(t.retxQueue) + 1] = e
        /\ \A j \in 1..Len(t.retxQueue) : u.retxQueue[j] = t.retxQueue[j]
    BY <1>4, <2>0, TcbParts, AppendProperties, LenProperties
  <2>2. CASE i = Len(t.retxQueue) + 1
    BY <1>12, <2>1, <2>2, <2>e
  <2>3. CASE i \in 1..Len(t.retxQueue)
    <3> DEFINE g == t.retxQueue[i]
    <3>1. g \in RetxSeg /\ OwnText(g, t.snd.iss, n, x) /\ u.retxQueue[i] = g
      BY <1>7, <2>1, <2>3, ElementOfSeq DEF Body, x
    <3> HIDE DEF g
    <3>2. SeqSub(g.seq, t.snd.iss) \in Nat /\ segLen(g) \in Nat
      BY <3>1, RetxParts, OwnLen, SndParts
    <3>3. OwnText(g, t.snd.iss, n, x + 1)
      BY <1>5, <3>1, <3>2, OwnTextMore
    <3> QED BY <3>1, <3>3
  <2> QED BY <2>1, <2>2, <2>3
<1>14. Numbered(u, n)
  BY <1>1, <1>4, <1>7, <1>10, <1>11, <1>13 DEF Numbered, Body, a
<1>15. ASSUME NEW s \in u.out PROVE s \in t.out \/ Spoken(s, u, n, {t.rcv.nxt})
  <2>1. s \in t.out \/ (/\ s.flags = {"FIN", "ACK"} /\ s.seq = t.snd.nxt /\ s.data = <<>>
                        /\ s.ack = t.rcv.nxt)
    BY <1>2, <1>3 DEF Adds
  <2> QED BY <1>4, <1>10, <1>12, <2>1 DEF Spoken, Quotes
<1>16. Nxt(t) <= Nxt(u)
  BY <1>5, <1>10 DEF x
<1> QED BY <1>14, <1>15, <1>16

LEMMA CloseTells ==
    ASSUME NEW t \in TCB, t.state \in CanClose, unsent(t) <= 0, NEW n, Fits(n)
    PROVE  Tells(t, Close(t), n)
<1>1. CASE t.state \in {"Listen", "SynSent"}
  <2> DEFINE u == Close(t)
  <2>1. KeepsRcv(t, u) /\ u.reached = t.reached /\ u.state = "Closed"
    BY <1>1, CloseEffect
  <2>2. u \in {[t EXCEPT !.state = "Closed"], [t EXCEPT !.state = "Closed", !.retxQueue = <<>>]}
    BY <1>1 DEF Close
  <2>3. /\ u.out = t.out /\ u.snd = t.snd /\ u.sndBuf = t.sndBuf /\ u.retxQueue \in {t.retxQueue, <<>>}
        /\ u.cong = t.cong
    BY <2>2 DEF TCB
  <2> HIDE DEF u
  <2>4. Calm(t, u)
    BY <2>1, <2>3, SameQueueRefl DEF Calm
  <2>5. u \in TCB /\ u.rcv = t.rcv /\ QuietState(t.state, u.state) /\ Utters(t, u)
    BY <2>1, <2>3, SameOutUtters DEF KeepsRcv, SameRcv, QuietState
  <2> QED BY <2>1, <2>4, <2>5, QuietSays DEF Tells, u
<1>2. CASE t.state \in {"Established", "SynReceived"}
  BY <1>2, SendFinTells DEF Close
<1>3. CASE t.state = "CloseWait"
  BY <1>3, SendFinTells DEF Close
<1> QED BY <1>1, <1>2, <1>3 DEF CanClose

\* u has taken the SYN s and answered it.
Greets(t, u, s) ==
    /\ SynTaken(t, u) /\ "SYN" \in s.flags /\ "RST" \notin s.flags
    /\ u.rcv.nxt = SeqAdd(s.seq, 1) /\ u.rcv.irs = s.seq /\ u.tmr = t.tmr
    /\ Adds(t, u, {"SYN", "ACK"}, t.snd.iss, u.rcv.nxt, <<>>)

\* What the reset answers: no connection is there, or the ACK is none of its own.
Refuses(t, s) == \/ t.state \in {"Closed", "Listen"}
                 \/ t.state = "SynSent" /\ badAck(t, s)
                 \/ t.state = "SynReceived" /\ ackOutOfRange(t, s)
ResetOf(x, t, s) ==
    "RST" \in x.flags /\ (x.seq = 0 \/ (x.seq = s.ack /\ Acks(s) /\ Refuses(t, s)))
Rejects(t, u, s) == Replied(t, u) /\ \A x \in u.out : x \in t.out \/ ResetOf(x, t, s)

LEMMA SendRstOnly ==
    ASSUME NEW t \in TCB, NEW seq \in SeqNum
    PROVE  LET u == sendRst(t, seq) IN
             /\ Replied(t, u) /\ u.tmr = t.tmr
             /\ \A x \in u.out : x \in t.out \/ ("RST" \in x.flags /\ x.seq = seq)
<1> DEFINE u == sendRst(t, seq)
<1>1. Adds(t, u, {"RST"}, seq, 0, <<>>)
  BY SendAdds, AckFlags, SmallSeqNums DEF sendRst
<1>2. Wrote(t, u, {"RST"}, 0)
  BY SendEmptyForm, AckFlags, SmallSeqNums DEF sendRst
<1>3. Replied(t, u)
  BY SendRstKeeps, KeepsReplied
<1> HIDE DEF u
<1>4. u.tmr = t.tmr /\ \A x \in u.out : x \in t.out \/ ("RST" \in x.flags /\ x.seq = seq)
  BY <1>1, <1>2 DEF Adds, Wrote
<1> QED BY <1>3, <1>4 DEF u

LEMMA SendRstRejects ==
    ASSUME NEW t \in TCB, NEW s \in Segment, Acks(s), Refuses(t, s)
    PROVE  LET u == sendRst(t, s.ack) IN Rejects(t, u, s) /\ u.tmr = t.tmr
<1> DEFINE u == sendRst(t, s.ack)
<1>1. /\ Replied(t, u) /\ u.tmr = t.tmr
      /\ \A x \in u.out : x \in t.out \/ ("RST" \in x.flags /\ x.seq = s.ack)
  BY SendRstOnly, SegmentParts
<1> HIDE DEF u
<1>2. Rejects(t, u, s)
  BY <1>1 DEF Rejects, ResetOf
<1> QED BY <1>1, <1>2 DEF u

LEMMA RejectsRefl ==
    ASSUME NEW t \in TCB, NEW s
    PROVE  Rejects(t, t, s)
  BY KeepsReplied, KeepsRefl, SameSndRefl DEF Rejects

\* What a reset answers is the same after a step that writes nothing.
LEMMA RejectsFrom ==
    ASSUME NEW t, NEW k, NEW u, NEW s, Replied(t, k), k.out = t.out, Rejects(k, u, s)
    PROVE  Rejects(t, u, s)
<1>1. k.snd = t.snd /\ k.state = t.state
  BY DEF Replied, SameSnd
<1>2. Refuses(k, s) => Refuses(t, s)
  BY <1>1 DEF Refuses, badAck, ackOutOfRange
<1>3. Replied(t, u)
  BY DEF Replied, Rejects, SameRcv, SameSnd, NoNewFin
<1> QED BY <1>2, <1>3 DEF Rejects, ResetOf

LEMMA ClosedRejects ==
    ASSUME NEW t \in TCB, NEW s \in Segment, t.state = "Closed"
    PROVE  Rejects(t, onSegmentClosed(t, s), s)
  BY OnSegmentClosedEffect, OnSegmentClosedUtters DEF Rejects, ResetOf, Refuses

LEMMA GreetsForm ==
    ASSUME NEW t \in TCB, NEW v \in TCB, v.state = "SynReceived", v.reached = t.reached,
           SameBuffers(t, v), v.rcv.wnd = t.rcv.wnd, v.out = t.out, v.retxQueue = t.retxQueue,
           v.sndBuf = t.sndBuf, v.cong = t.cong, v.tmr = t.tmr, v.snd.iss = t.snd.iss,
           NEW s, "SYN" \in s.flags, "RST" \notin s.flags,
           v.rcv.nxt = SeqAdd(s.seq, 1), v.rcv.irs = s.seq
    PROVE  LET u == sendSyn(v, {"SYN", "ACK"}, t.snd.iss, v.rcv.nxt) IN
             Greets(t, u, s) /\ u.snd = v.snd
<1> DEFINE u == sendSyn(v, {"SYN", "ACK"}, t.snd.iss, v.rcv.nxt)
<1>1. SynTaken(t, u) /\ u.snd = v.snd
  BY SynAckSent
<1>2. t.snd.iss \in SeqNum /\ v.rcv.nxt \in SeqNum
  BY SndParts, RcvParts
<1>3. Adds(v, u, {"SYN", "ACK"}, t.snd.iss, v.rcv.nxt, <<>>)
  BY <1>2, SendSynAdds, AckFlags
<1>4. Queued(v, u, queueEntry({"SYN", "ACK"}, t.snd.iss, <<>>), v.rcv.nxt)
  BY <1>2, SendSynForm, AckFlags
<1> HIDE DEF u
<1>5. u.rcv = v.rcv /\ u.tmr = t.tmr
  BY <1>4 DEF Queued, SameRcv
<1>6. Adds(t, u, {"SYN", "ACK"}, t.snd.iss, u.rcv.nxt, <<>>)
  BY <1>3, <1>5 DEF Adds
<1>7. Greets(t, u, s)
  BY <1>1, <1>5, <1>6 DEF Greets
<1> QED BY <1>1, <1>7 DEF u

LEMMA ListenForm ==
    ASSUME NEW t \in TCB, NEW s \in Segment, t.state = "Listen"
    PROVE  LET u == onSegmentListen(t, s) IN
             \/ Rejects(t, u, s) /\ u.tmr = t.tmr
             \/ /\ Greets(t, u, s) /\ "ACK" \notin s.flags
                /\ u.snd.una = t.snd.iss /\ u.snd.nxt = SeqAdd(t.snd.iss, 1)
<1> DEFINE x == [t.rcv EXCEPT !.irs = s.seq, !.nxt = SeqAdd(s.seq, 1)]
           y == [t.snd EXCEPT !.una = t.snd.iss, !.nxt = SeqAdd(t.snd.iss, 1)]
           syn == [t EXCEPT !.rcv = x, !.snd = y, !.origin = "passive", !.state = "SynReceived"]
           n == negotiateOptions(syn, s)
           i == initSendWindow(n, s)
           u == sendSyn(i, {"SYN", "ACK"}, t.snd.iss, SeqAdd(s.seq, 1))
<1>1. x \in RcvVars /\ x.wnd = t.rcv.wnd /\ x.nxt = SeqAdd(s.seq, 1) /\ x.irs = s.seq
  BY TcbParts, SegmentParts, NextSeqNum DEF RcvVars
<1>2. /\ y \in SndVars /\ y.una = t.snd.iss /\ y.nxt = SeqAdd(t.snd.iss, 1)
      /\ y.iss = t.snd.iss
  BY TcbParts, SndParts, NextSeqNum DEF SndVars
<1>3. \/ onSegmentListen(t, s) = t
      \/ onSegmentListen(t, s) = sendRst(t, s.ack) /\ Acks(s)
      \/ /\ onSegmentListen(t, s) = u
         /\ "SYN" \in s.flags /\ "RST" \notin s.flags /\ "ACK" \notin s.flags
  <2>1. syn = [t EXCEPT !.rcv.irs = s.seq, !.rcv.nxt = SeqAdd(s.seq, 1),
                        !.snd.una = t.snd.iss, !.snd.nxt = SeqAdd(t.snd.iss, 1),
                        !.origin = "passive", !.state = "SynReceived"]
    BY DEF TCB, RcvVars, SndVars
  <2> HIDE DEF syn
  <2> QED BY <2>1 DEF onSegmentListen, Acks
<1> HIDE DEF x, y
<1>4. /\ syn \in TCB /\ syn.state = "SynReceived" /\ syn.reached = t.reached /\ syn.rcv = x
      /\ SameBuffers(t, syn) /\ syn.out = t.out /\ syn.retxQueue = t.retxQueue
      /\ syn.sndBuf = t.sndBuf /\ syn.cong = t.cong /\ syn.tmr = t.tmr /\ syn.snd = y
  BY <1>1, <1>2 DEF TCB, State, SameBuffers
<1> HIDE DEF syn
<1>5. Keeps(syn, n) /\ SameSnd(syn, n) /\ n.out = syn.out /\ n.tmr = syn.tmr
  BY <1>4, NegotiateOptionsKeeps DEF negotiateOptions, TCB
<1> HIDE DEF n
<1>6. /\ Keeps(n, i) /\ i.snd.una = n.snd.una /\ i.snd.nxt = n.snd.nxt /\ i.snd.iss = n.snd.iss
      /\ i.sndBuf = n.sndBuf /\ i.cong = n.cong /\ i.tmr = n.tmr /\ i.out = n.out
      /\ i.retxQueue = n.retxQueue
  BY <1>5, KeepsType, InitSendWindowKeeps
<1> HIDE DEF i
<1>7. /\ i \in TCB /\ i.state = "SynReceived" /\ i.reached = t.reached /\ SameBuffers(t, i)
      /\ i.rcv = x
  BY <1>4, <1>5, <1>6 DEF Keeps, KeepsRcv, SameRcv, SameBuffers
<1>8. /\ i.out = t.out /\ i.retxQueue = t.retxQueue /\ i.sndBuf = t.sndBuf /\ i.cong = t.cong
      /\ i.tmr = t.tmr /\ i.snd.una = y.una /\ i.snd.nxt = y.nxt /\ i.snd.iss = y.iss
  BY <1>4, <1>5, <1>6 DEF SameSnd
<1>9. u = sendSyn(i, {"SYN", "ACK"}, t.snd.iss, i.rcv.nxt)
  BY <1>1, <1>7
<1> HIDE DEF u
<1>10. "SYN" \in s.flags /\ "RST" \notin s.flags => Greets(t, u, s) /\ u.snd = i.snd
  BY <1>1, <1>2, <1>7, <1>8, <1>9, GreetsForm
<1>11. Rejects(t, t, s) /\ t.tmr = t.tmr
  BY RejectsRefl
<1>12. Acks(s) => Rejects(t, sendRst(t, s.ack), s) /\ sendRst(t, s.ack).tmr = t.tmr
  BY SendRstRejects DEF Refuses
<1> QED BY <1>2, <1>3, <1>8, <1>10, <1>11, <1>12

\* u is t connected by the SYN-ACK s.
Connects(t, u, s) ==
    /\ u \in TCB /\ u.state = "Established" /\ SameBuffers(t, u)
    /\ u.rcv.nxt = SeqAdd(s.seq, 1) /\ u.rcv.irs = s.seq
    /\ "SYN" \in s.flags /\ "RST" \notin s.flags /\ "ACK" \in s.flags /\ ~badAck(t, s)
    /\ u.snd.una = s.ack /\ u.snd.nxt = t.snd.nxt /\ u.snd.iss = t.snd.iss /\ u.sndBuf = t.sndBuf
    /\ \A j \in 1..Len(u.retxQueue) : \E k \in 1..Len(t.retxQueue) : u.retxQueue[j] = t.retxQueue[k]
    /\ \A e \in u.out : e \in t.out \/ Word(e, u)

LEMMA SynSentForm ==
    ASSUME NEW t \in TCB, NEW s \in Segment, t.state = "SynSent"
    PROVE  LET u == onSegmentSynSent(t, s) IN
             \/ Rejects(t, u, s) /\ u.tmr = t.tmr
             \/ /\ SameRcv(t, u) /\ SameSnd(t, u) /\ u.state = "Closed" /\ u.reached = t.reached
                /\ u.out = t.out /\ u.tmr = t.tmr
             \/ Connects(t, u, s)
             \/ Greets(t, u, s) /\ u.snd = t.snd /\ u.origin = "active"
<1> DEFINE x == [t.rcv EXCEPT !.irs = s.seq, !.nxt = SeqAdd(s.seq, 1)]
           r == [t EXCEPT !.rcv = x]
           syn == negotiateOptions(r, s)
           y == [syn.snd EXCEPT !.una = s.ack]
           u == [syn EXCEPT !.snd.una = s.ack]
           q == ackRetxQueue(u, s.ack)
           i == initSendWindow(q, s)
           e == [i EXCEPT !.state = "Established", !.reached = TRUE]
           a == sendAck(e)
           v == [syn EXCEPT !.origin = "active", !.state = "SynReceived"]
           both == sendSyn(v, {"SYN", "ACK"}, t.snd.iss, syn.rcv.nxt)
           c == [t EXCEPT !.state = "Closed"]
<1>1. x \in RcvVars /\ x.wnd = t.rcv.wnd /\ x.nxt = SeqAdd(s.seq, 1) /\ x.irs = s.seq
  BY TcbParts, SegmentParts, NextSeqNum DEF RcvVars
<1>2. \/ onSegmentSynSent(t, s) \in {t, c}
      \/ onSegmentSynSent(t, s) = sendRst(t, s.ack) /\ Acks(s) /\ badAck(t, s)
      \/ /\ "SYN" \in s.flags /\ "RST" \notin s.flags
         /\ \/ onSegmentSynSent(t, s) = a /\ "ACK" \in s.flags /\ ~badAck(t, s)
            \/ onSegmentSynSent(t, s) = both
  <2>1. [t EXCEPT !.rcv.irs = s.seq, !.rcv.nxt = SeqAdd(s.seq, 1)] = r
    BY DEF TCB, RcvVars
  <2>2. takeSyn(t, s) = syn
    BY <2>1 DEF takeSyn
  <2> HIDE DEF syn
  <2>3. synAckArrives(t, s) = a /\ simultaneousOpen(t, s) = both
    BY <2>2 DEF synAckArrives, simultaneousOpen
  <2> HIDE DEF a, both
  <2>4. badAck(t, s) => "ACK" \in s.flags
    BY DEF badAck
  <2> QED BY <2>3, <2>4 DEF onSegmentSynSent, Acks
<1> HIDE DEF x
<1>3. /\ r \in TCB /\ SameBuffers(t, r) /\ r.rcv = x /\ SameSnd(t, r)
      /\ r.reached = t.reached /\ r.out = t.out /\ r.tmr = t.tmr
  BY <1>1 DEF TCB, SameBuffers, SameSnd
<1> HIDE DEF r
<1>4. Keeps(r, syn) /\ SameSnd(r, syn) /\ syn.out = r.out /\ syn.tmr = r.tmr
  BY <1>3, NegotiateOptionsKeeps DEF negotiateOptions, TCB
<1> HIDE DEF syn
<1>s. /\ syn \in TCB /\ syn.snd = t.snd /\ syn.sndBuf = t.sndBuf /\ syn.retxQueue = t.retxQueue
      /\ syn.rcv = x /\ SameBuffers(t, syn)
  BY <1>3, <1>4 DEF Keeps, KeepsRcv, SameRcv, SameSnd, SameBuffers
<1>5. /\ u \in TCB /\ u.snd = y /\ u.sndBuf = t.sndBuf /\ u.retxQueue = t.retxQueue
      /\ u.out = t.out /\ u.rcv = x /\ SameBuffers(t, u)
      /\ y.una = s.ack /\ y.nxt = t.snd.nxt /\ y.iss = t.snd.iss
  <2>1. y \in SndVars /\ y.una = s.ack /\ y.nxt = t.snd.nxt /\ y.iss = t.snd.iss
    BY <1>s, TcbParts, SegmentParts DEF SndVars
  <2>2. u = [syn EXCEPT !.snd = y]
    BY <1>s DEF TCB, SndVars
  <2> HIDE DEF y, u
  <2> QED BY <1>s, <1>3, <1>4, <2>1, <2>2 DEF TCB, SameBuffers
<1> HIDE DEF u, y
<1>6. /\ Keeps(u, q) /\ q.snd = u.snd /\ q.sndBuf = u.sndBuf /\ q.out = u.out
      /\ \A j \in 1..Len(q.retxQueue) : \E k \in 1..Len(u.retxQueue) : q.retxQueue[j] = u.retxQueue[k]
  BY <1>5, AckRetxQueuePart, AckRetxQueueForm, AckRetxQueueKeeps
<1> HIDE DEF q
<1>7. /\ Keeps(q, i) /\ i.snd.una = q.snd.una /\ i.snd.nxt = q.snd.nxt /\ i.snd.iss = q.snd.iss
      /\ i.sndBuf = q.sndBuf /\ i.out = q.out /\ i.retxQueue = q.retxQueue
  BY <1>6, InitSendWindowKeeps, KeepsType
<1> HIDE DEF i
<1>8. i \in TCB /\ i.rcv = x /\ SameBuffers(t, i)
  BY <1>5, <1>6, <1>7 DEF Keeps, KeepsRcv, SameRcv, SameBuffers
<1>9. e \in TCB /\ e.state = "Established" /\ SameBuffers(t, e) /\ e.rcv = x
      /\ e.snd = i.snd /\ e.sndBuf = i.sndBuf /\ e.out = i.out /\ e.retxQueue = i.retxQueue
  BY <1>8 DEF TCB, State, SameBuffers
<1> HIDE DEF e
<1>10. Keeps(e, a) /\ SameSnd(e, a) /\ Utters(e, a)
  BY <1>9, SendAckKeeps, SendAckUtters
<1> HIDE DEF a
<1>11. /\ a \in TCB /\ a.state = "Established" /\ SameBuffers(t, a) /\ a.rcv = x
  BY <1>9, <1>10 DEF Keeps, KeepsRcv, SameRcv, SameBuffers
<1>12. /\ a.snd = i.snd /\ a.sndBuf = i.sndBuf /\ a.retxQueue = i.retxQueue
       /\ \A z \in a.out : z \in i.out \/ Word(z, a)
  BY <1>9, <1>10, <1>11 DEF SameSnd, Utters, Word, Bare
<1>13. "SYN" \in s.flags /\ "RST" \notin s.flags /\ "ACK" \in s.flags /\ ~badAck(t, s)
         => Connects(t, a, s)
  BY <1>1, <1>5, <1>6, <1>7, <1>11, <1>12 DEF Connects
<1>t. v.origin = "active"
  BY <1>s DEF TCB
<1>14. /\ v \in TCB /\ v.state = "SynReceived" /\ v.reached = syn.reached /\ v.rcv = syn.rcv
       /\ SameBuffers(syn, v) /\ v.out = syn.out /\ SameSnd(syn, v) /\ v.tmr = syn.tmr
  BY <1>s DEF TCB, State, SameBuffers, SameSnd
<1> HIDE DEF v
<1>15. /\ v.reached = t.reached /\ SameBuffers(t, v) /\ v.rcv.wnd = t.rcv.wnd /\ v.out = t.out
       /\ SameSnd(t, v) /\ v.tmr = t.tmr
  BY <1>1, <1>3, <1>4, <1>14 DEF Keeps, KeepsRcv, SameRcv, SameBuffers, SameSnd
<1>16. both = sendSyn(v, {"SYN", "ACK"}, t.snd.iss, v.rcv.nxt) /\ v.rcv = x
  BY <1>s, <1>14
<1>o. both.origin = "active"
  BY <1>14, <1>t DEF sendSyn, enqueue, writeSegOpts, TCB
<1> HIDE DEF both
<1>17. "SYN" \in s.flags /\ "RST" \notin s.flags => Greets(t, both, s) /\ both.snd = t.snd /\ both.origin = "active"
  BY <1>1, <1>14, <1>15, <1>16, <1>o, GreetsForm DEF SameSnd
<1>18. Rejects(t, t, s) /\ t.tmr = t.tmr
  BY RejectsRefl
<1>20. Acks(s) /\ badAck(t, s) => Rejects(t, sendRst(t, s.ack), s) /\ sendRst(t, s.ack).tmr = t.tmr
  BY SendRstRejects DEF Refuses
<1>19. /\ SameRcv(t, c) /\ SameSnd(t, c) /\ c.out = t.out /\ c.tmr = t.tmr
       /\ c.state = "Closed" /\ c.reached = t.reached
  BY StateKeepsRcv DEF KeepsRcv, State, TCB
<1> HIDE DEF c
<1> QED BY <1>2, <1>13, <1>17, <1>18, <1>19, <1>20

LEMMA SynNumbers ==
    ASSUME NEW iss \in SeqNum
    PROVE  /\ SeqSub(iss, iss) = 0 /\ SeqSub(SeqAdd(iss, 1), iss) = 1
           /\ \A a \in SeqNum : SeqSub(a, iss) = 0 => a = iss
           /\ \A a \in SeqNum : SeqSub(a, iss) = 1 => a = SeqAdd(iss, 1)
  BY HalfSeqSpaceAssumption DEF SeqSub, SeqAdd, SeqNum, SeqSize

LEMMA SynText ==
    ASSUME NEW s, "SYN" \in s.flags, "FIN" \notin s.flags, NEW iss \in SeqNum, s.seq = iss, s.data = <<>>
    PROVE  OwnText(s, iss, 0, 1)
<1>1. segLen(s) = 1 /\ Text(s.data, 0) /\ SeqSub(s.seq, iss) = 0
  BY EmptySeq, EmptyText, SynNumbers DEF segLen
<1>2. TextAt(s, 0, 0, 1)
  BY <1>1 DEF TextAt
<1> QED BY <1>1, <1>2 DEF OwnText

\* A connection whose SYN is all it has sent.
LEMMA SynOut ==
    ASSUME NEW t \in TCB, NEW u \in TCB, u.snd.una = u.snd.iss, u.snd.nxt = SeqAdd(u.snd.iss, 1),
           NEW flags \in Flags, "SYN" \in flags, "FIN" \notin flags, "RST" \notin flags, t.sndBuf = <<>>, u.sndBuf = t.sndBuf,
           \A i \in 1..Len(t.retxQueue) : OwnText(t.retxQueue[i], u.snd.iss, 0, 1),
           u.retxQueue = Append(t.retxQueue, queueEntry(flags, u.snd.iss, <<>>)),
           u.state \in {"SynSent", "SynReceived"}, ~u.reached
    PROVE  Numbered(u, 0) /\ Nxt(u) = 1 /\ Una(u) = 0
<1> DEFINE e == queueEntry(flags, u.snd.iss, <<>>)
<1>1. Una(u) = 0 /\ Nxt(u) = 1 /\ u.snd.iss \in SeqNum
  BY SndParts, SynNumbers DEF Una, Nxt
<1>2. Len(u.sndBuf) = 0 /\ Text(u.sndBuf, 0)
  BY EmptySeq, EmptyText
<1>3. e \in RetxSeg
  BY <1>1, EmptyPayload, TcbAssumption DEF queueEntry, RetxSeg, Flags
<1>4. e.flags = flags /\ e.seq = u.snd.iss /\ e.data = <<>>
  BY DEF queueEntry
<1> HIDE DEF e
<1>5. OwnText(e, u.snd.iss, 0, 1)
  BY <1>1, <1>4, SynText
<1>6. ASSUME NEW i \in 1..Len(u.retxQueue) PROVE OwnText(u.retxQueue[i], u.snd.iss, 0, 1)
  <2>1. /\ t.retxQueue \in Seq(RetxSeg) /\ Len(t.retxQueue) \in Nat
        /\ Len(u.retxQueue) = Len(t.retxQueue) + 1
        /\ u.retxQueue[Len(t.retxQueue) + 1] = e
        /\ \A j \in 1..Len(t.retxQueue) : u.retxQueue[j] = t.retxQueue[j]
    BY <1>3, TcbParts, AppendProperties, LenProperties DEF e
  <2>2. i = Len(t.retxQueue) + 1 \/ i \in 1..Len(t.retxQueue)
    BY <2>1
  <2> QED BY <1>5, <2>1, <2>2
<1>7. Counts(0, 1, 0, 0) /\ Phase(u.state, u.reached, 0, 1, 0)
  BY DEF Counts, Phase, Early, Ending
<1> QED BY <1>1, <1>2, <1>6, <1>7 DEF Numbered, Body

LEMMA ActiveOpenForm ==
    ASSUME NEW t \in TCB, NEW iss \in SeqNum
    PROVE  Adds(t, ActiveOpen(t, iss), {"SYN"}, iss, 0, <<>>)
<1> DEFINE x == [t.snd EXCEPT !.iss = iss, !.una = iss, !.nxt = SeqAdd(iss, 1)]
           r == [t.rcv EXCEPT !.wnd = RcvBuff]
           v == [t EXCEPT !.snd = x, !.rcv = r, !.state = "SynSent"]
           u == sendSyn(v, {"SYN"}, iss, 0)
<1>1. x \in SndVars
  BY TcbParts, NextSeqNum DEF SndVars
<1>2. r \in RcvVars
  <2>1. RcvBuff \in 0..RcvBuff
    BY TcbAssumption
  <2> QED BY <2>1, TcbParts DEF RcvVars
<1>3. v = [t EXCEPT !.snd.iss = iss, !.snd.una = iss, !.snd.nxt = SeqAdd(iss, 1),
                    !.rcv.wnd = RcvBuff, !.state = "SynSent"]
  BY DEF TCB, SndVars, RcvVars
<1> HIDE DEF x, r
<1>4. v \in TCB /\ v.out = t.out
  BY <1>1, <1>2 DEF TCB, State
<1>5. ActiveOpen(t, iss) = u
  BY <1>3 DEF ActiveOpen
<1> HIDE DEF v
<1>6. Adds(v, u, {"SYN"}, iss, 0, <<>>)
  BY <1>4, SendSynAdds, AckFlags, SmallSeqNums
<1> QED BY <1>4, <1>5, <1>6 DEF Adds

\* A connection that has said nothing yet.
Mute(t) == /\ t.state \in {"Closed", "Listen"} /\ t.sndBuf = <<>> /\ t.retxQueue = <<>>
           /\ ~t.tmr.delAck /\ ~t.reached

LEMMA MuteQueue ==
    ASSUME NEW t, Mute(t), NEW iss
    PROVE  t.sndBuf = <<>> /\ ~t.reached /\ \A i \in 1..Len(t.retxQueue) : OwnText(t.retxQueue[i], iss, 0, 1)
<1>1. Len(t.retxQueue) = 0
  BY EmptySeq DEF Mute
<1> QED BY <1>1 DEF Mute

LEMMA ActiveOpenSays ==
    ASSUME NEW t \in TCB, Mute(t), NEW iss \in SeqNum
    PROVE  LET u == ActiveOpen(t, iss) IN
             /\ u \in TCB /\ u.snd.iss = iss /\ Numbered(u, 0) /\ Nxt(u) = 1
             /\ \A s \in u.out : s \in t.out \/ (OwnText(s, iss, 0, 1) /\ "ACK" \notin s.flags)
<1> DEFINE u == ActiveOpen(t, iss)
<1>1. /\ u \in TCB /\ u.state = "SynSent" /\ u.reached = t.reached
      /\ u.snd.una = iss /\ u.snd.iss = iss /\ u.snd.nxt = SeqAdd(iss, 1)
      /\ u.sndBuf = t.sndBuf
      /\ u.retxQueue = Append(t.retxQueue, queueEntry({"SYN"}, iss, <<>>))
  BY ActiveOpenEffect
<1>2. Adds(t, u, {"SYN"}, iss, 0, <<>>)
  BY ActiveOpenForm
<1> HIDE DEF u
<1>3. Numbered(u, 0) /\ Nxt(u) = 1
  BY <1>1, MuteQueue, SynOut, AckFlags
<1>4. ASSUME NEW s \in u.out PROVE s \in t.out \/ (OwnText(s, iss, 0, 1) /\ "ACK" \notin s.flags)
  BY <1>2, SynText DEF Adds
<1> QED BY <1>1, <1>3, <1>4 DEF u

LEMMA GreetsSays ==
    ASSUME NEW t \in TCB, NEW u, NEW s, Greets(t, u, s), u.snd.una = t.snd.iss,
           u.snd.nxt = SeqAdd(t.snd.iss, 1), t.sndBuf = <<>>, ~t.reached,
           \A i \in 1..Len(t.retxQueue) : OwnText(t.retxQueue[i], t.snd.iss, 0, 1)
    PROVE  /\ u \in TCB /\ u.snd.iss = t.snd.iss /\ Numbered(u, 0) /\ Nxt(u) = 1
           /\ \A e \in u.out : e \in t.out \/ Spoken(e, u, 0, {u.rcv.nxt})
<1>1. /\ u \in TCB /\ u.state = "SynReceived" /\ u.reached = t.reached /\ u.sndBuf = t.sndBuf
      /\ u.snd.iss = t.snd.iss
      /\ u.retxQueue = Append(t.retxQueue, queueEntry({"SYN", "ACK"}, t.snd.iss, <<>>))
  BY DEF Greets, SynTaken
<1>2. Numbered(u, 0) /\ Nxt(u) = 1
  BY <1>1, SynOut, AckFlags
<1>3. ASSUME NEW e \in u.out PROVE e \in t.out \/ Spoken(e, u, 0, {u.rcv.nxt})
  <2>1. e \in t.out \/ (/\ e.flags = {"SYN", "ACK"} /\ e.seq = t.snd.iss /\ e.data = <<>>
                        /\ e.ack = u.rcv.nxt)
    BY DEF Greets, Adds
  <2>2. ASSUME e.flags = {"SYN", "ACK"}, e.seq = t.snd.iss, e.data = <<>>
        PROVE OwnText(e, u.snd.iss, 0, Nxt(u))
    BY <1>1, <1>2, <2>2, SndParts, SynText
  <2> QED BY <2>1, <2>2 DEF Spoken, Quotes
<1> QED BY <1>1, <1>2, <1>3

LEMMA EarlyNumbered ==
    ASSUME NEW t \in TCB, NEW n \in Nat, Numbered(t, n), t.state \in Early
    PROVE  /\ n = 0 /\ Una(t) = 0 /\ Nxt(t) = 1 /\ t.snd.una = t.snd.iss
           /\ t.snd.nxt = SeqAdd(t.snd.iss, 1) /\ t.sndBuf = <<>> /\ ~t.reached
           /\ \A i \in 1..Len(t.retxQueue) : OwnText(t.retxQueue[i], t.snd.iss, 0, 1)
<1>1. n = 0 /\ Una(t) = 0 /\ Nxt(t) = 1 /\ ~t.reached
  BY DEF Numbered, Phase
<1>2. t.snd.una = t.snd.iss /\ t.snd.nxt = SeqAdd(t.snd.iss, 1)
  BY <1>1, SndParts, SynNumbers DEF Una, Nxt
<1>3. Len(t.sndBuf) = 0
  BY <1>1 DEF Numbered, Body, Counts
<1>4. t.sndBuf = <<>>
  BY <1>3, TcbParts, EmptySeq
<1> QED BY <1>1, <1>2, <1>4 DEF Numbered, Body

LEMMA ListenSays ==
    ASSUME NEW t \in TCB, NEW s \in Segment, t.state = "Listen", NEW n \in Nat
    PROVE  LET u == onSegmentListen(t, s) IN
             Says(t, u, n, {t.rcv.nxt, u.rcv.nxt}) \/ Rejects(t, u, s)
<1> DEFINE u == onSegmentListen(t, s)
<1>1. \/ Rejects(t, u, s)
      \/ Greets(t, u, s) /\ u.snd.una = t.snd.iss /\ u.snd.nxt = SeqAdd(t.snd.iss, 1)
  BY ListenForm
<1> HIDE DEF u
<1>2. CASE Rejects(t, u, s)
  BY <1>2 DEF u
<1>3. CASE Greets(t, u, s) /\ u.snd.una = t.snd.iss /\ u.snd.nxt = SeqAdd(t.snd.iss, 1)
  <2>1. u \in TCB /\ u.snd.iss = t.snd.iss
    BY <1>3 DEF Greets, SynTaken
  <2>2. ASSUME Numbered(t, n)
        PROVE  /\ Numbered(u, n) /\ Nxt(t) <= Nxt(u)
               /\ \A e \in u.out : e \in t.out \/ Spoken(e, u, n, {u.rcv.nxt})
    <3>1. /\ n = 0 /\ Nxt(t) = 1 /\ t.sndBuf = <<>> /\ ~t.reached
          /\ \A i \in 1..Len(t.retxQueue) : OwnText(t.retxQueue[i], t.snd.iss, 0, 1)
      BY <2>2, EarlyNumbered DEF Early
    <3>2. /\ Numbered(u, 0) /\ Nxt(u) = 1
          /\ \A e \in u.out : e \in t.out \/ Spoken(e, u, 0, {u.rcv.nxt})
      BY <1>3, <3>1, GreetsSays
    <3>3. Nxt(t) <= Nxt(u)
      BY <3>1, <3>2
    <3> HIDE DEF u
    <3> QED BY <3>1, <3>2, <3>3
  <2>3. Says(t, u, n, {u.rcv.nxt})
    BY <2>1, <2>2 DEF Says
  <2> QED BY <2>3, SaysMore DEF u
<1> QED BY <1>1, <1>2, <1>3

LEMMA SynSentSays ==
    ASSUME NEW t \in TCB, NEW s \in Segment, t.state = "SynSent", NEW n \in Nat
    PROVE  LET u == onSegmentSynSent(t, s) IN
             Says(t, u, n, {t.rcv.nxt, u.rcv.nxt}) \/ Rejects(t, u, s)
<1> DEFINE u == onSegmentSynSent(t, s)
<1>1. \/ Rejects(t, u, s)
      \/ /\ SameRcv(t, u) /\ SameSnd(t, u) /\ u.state = "Closed" /\ u.reached = t.reached
         /\ u.out = t.out
      \/ Connects(t, u, s)
      \/ Greets(t, u, s) /\ u.snd = t.snd
  BY SynSentForm
<1> HIDE DEF u
<1>2. CASE Rejects(t, u, s)
  BY <1>2 DEF u
<1>3. CASE /\ SameRcv(t, u) /\ SameSnd(t, u) /\ u.state = "Closed" /\ u.reached = t.reached
           /\ u.out = t.out
  <2>1. Says(t, u, n, {t.rcv.nxt})
    BY <1>3, QuietSays, SameSndCalm, SameOutUtters DEF SameRcv, QuietState
  <2> QED BY <2>1, SaysMore DEF u
<1>4. CASE Connects(t, u, s)
  <2>0. /\ u \in TCB /\ u.state = "Established" /\ u.snd.una = s.ack /\ u.snd.nxt = t.snd.nxt
        /\ u.snd.iss = t.snd.iss /\ u.sndBuf = t.sndBuf /\ "ACK" \in s.flags /\ ~badAck(t, s)
        /\ \A j \in 1..Len(u.retxQueue) : \E k \in 1..Len(t.retxQueue) : u.retxQueue[j] = t.retxQueue[k]
        /\ \A e \in u.out : e \in t.out \/ Word(e, u)
    BY <1>4 DEF Connects
  <2>1. ASSUME Numbered(t, n)
        PROVE  /\ Numbered(u, n) /\ Nxt(t) <= Nxt(u)
               /\ \A e \in u.out : e \in t.out \/ Spoken(e, u, n, {u.rcv.nxt})
    <3>1. /\ n = 0 /\ Nxt(t) = 1 /\ t.sndBuf = <<>> /\ t.snd.nxt = SeqAdd(t.snd.iss, 1)
          /\ \A i \in 1..Len(t.retxQueue) : OwnText(t.retxQueue[i], t.snd.iss, 0, 1)
      BY <2>1, EarlyNumbered DEF Early
    <3>2. s.ack = t.snd.nxt
      BY <2>0, <3>1, GoodAck
    <3>3. Una(u) = 1 /\ Nxt(u) = 1
      BY <2>0, <3>1, <3>2 DEF Una, Nxt
    <3>4. Len(u.sndBuf) = 0 /\ Text(u.sndBuf, 1)
      BY <2>0, <3>1, EmptySeq, EmptyText
    <3>5. \A i \in 1..Len(u.retxQueue) : OwnText(u.retxQueue[i], u.snd.iss, 0, 1)
      BY <2>0, <3>1
    <3>6. Counts(1, 1, 0, 0) /\ Phase(u.state, u.reached, 1, 1, 0)
      BY <2>0 DEF Counts, Phase, Early, Ending
    <3>7. Numbered(u, 0) /\ Body(u, 0)
      BY <3>3, <3>4, <3>5, <3>6 DEF Numbered, Body
    <3>8. \A e \in u.out : e \in t.out \/ Spoken(e, u, n, {u.rcv.nxt})
      BY <2>0, <3>1, <3>7, WordSpoken
    <3>9. Nxt(t) <= Nxt(u)
      BY <3>1, <3>3
    <3> QED BY <3>1, <3>7, <3>8, <3>9
  <2>2. Says(t, u, n, {u.rcv.nxt})
    BY <2>0, <2>1 DEF Says
  <2> QED BY <2>2, SaysMore DEF u
<1>5. CASE Greets(t, u, s) /\ u.snd = t.snd
  <2>1. u \in TCB /\ u.snd.iss = t.snd.iss
    BY <1>5 DEF Greets, SynTaken
  <2>2. ASSUME Numbered(t, n)
        PROVE  /\ Numbered(u, n) /\ Nxt(t) <= Nxt(u)
               /\ \A e \in u.out : e \in t.out \/ Spoken(e, u, n, {u.rcv.nxt})
    <3>1. /\ n = 0 /\ Nxt(t) = 1 /\ t.sndBuf = <<>> /\ ~t.reached
          /\ t.snd.una = t.snd.iss /\ t.snd.nxt = SeqAdd(t.snd.iss, 1)
          /\ \A i \in 1..Len(t.retxQueue) : OwnText(t.retxQueue[i], t.snd.iss, 0, 1)
      BY <2>2, EarlyNumbered DEF Early
    <3>2. /\ Numbered(u, 0) /\ Nxt(u) = 1
          /\ \A e \in u.out : e \in t.out \/ Spoken(e, u, 0, {u.rcv.nxt})
      BY <1>5, <3>1, GreetsSays
    <3>3. Nxt(t) <= Nxt(u)
      BY <3>1, <3>2
    <3> HIDE DEF u
    <3> QED BY <3>1, <3>2, <3>3
  <2>3. Says(t, u, n, {u.rcv.nxt})
    BY <2>1, <2>2 DEF Says
  <2> QED BY <2>3, SaysMore DEF u
<1> QED BY <1>1, <1>2, <1>3, <1>4, <1>5

-----------------------------------------------------------------------------
\* What a segment that is taken makes the connection say.
LEMMA WordSame ==
    ASSUME NEW t, NEW u, Utters(t, u), u.snd = t.snd, u.rcv = t.rcv, u.retxQueue = t.retxQueue
    PROVE  \A x \in u.out : x \in t.out \/ Word(x, u)
  BY DEF Utters, Word, Bare

LEMMA StoredOut ==
    ASSUME NEW t \in TCB, NEW data
    PROVE  \A m : consumeRcvWindow(drainOoo([t EXCEPT !.rcvBuf = @ \o data,
                                                     !.rcv.nxt = SeqAdd(@, Len(data))]), m).out = t.out
<1> DEFINE x == [t EXCEPT !.rcvBuf = @ \o data, !.rcv.nxt = SeqAdd(@, Len(data))]
<1>1. DOMAIN x = DOMAIN t /\ x.out = t.out /\ x = [i \in DOMAIN x |-> x[i]]
  BY DEF TCB
<1> HIDE DEF x
<1>2. DOMAIN drainOoo(x) = DOMAIN t /\ drainOoo(x).out = t.out
  BY <1>1 DEF drainOoo, TCB
<1>3. \A m : consumeRcvWindow(drainOoo(x), m).out = t.out
  BY <1>2 DEF consumeRcvWindow, TCB
<1> QED BY <1>3 DEF x

LEMMA AcceptTextWords ==
    ASSUME NEW t \in TCB, NEW s \in Segment
    PROVE  \A x \in acceptText(t, s).out : x \in t.out \/ Word(x, acceptText(t, s))
<1> DEFINE f == trimToWindow(t, s)
           v == drainOoo([t EXCEPT !.rcvBuf = @ \o f.data, !.rcv.nxt = SeqAdd(@, Len(f.data))])
           stored == IF f.seq = t.rcv.nxt THEN v ELSE insertOoo(t, f)
           m == SeqSub(stored.rcv.nxt, t.rcv.nxt)
           done == consumeRcvWindow(stored, m)
<1>1. acceptText(t, s) =
        IF f.data = <<>> THEN sendAck(t)
        ELSE IF f.seq = t.rcv.nxt /\ done.oooSegs = {} /\ Len(f.data) >= effSndMSS(t)
        THEN onDelayableSegment(done) ELSE sendAck(done)
  BY DEF acceptText
<1>2. f \in Fragment /\ (f.seq = t.rcv.nxt => Len(f.data) <= t.rcv.wnd)
  BY TrimType, SegmentParts
<1>3. f.data \in Payload /\ f.seq \in SeqNum
  BY <1>2 DEF Fragment
<1>4. \A k : consumeRcvWindow(v, k).out = t.out
  BY StoredOut
<1> HIDE DEF f
<1>5. insertOoo(t, f) \in TCB /\ insertOoo(t, f).rcv = t.rcv /\ insertOoo(t, f).out = t.out
  BY <1>2, InsertOooType
<1>6. f.seq = t.rcv.nxt =>
        \E n \in 0..RcvBuff : TextTaken(t, consumeRcvWindow(v, SeqSub(v.rcv.nxt, t.rcv.nxt)), Len(f.data), n)
  BY <1>2, <1>3, InOrderTextEffect
<1> HIDE DEF v
<1>7. done \in TCB /\ done.out = t.out
  <2>1. CASE f.seq = t.rcv.nxt
    <3>1. stored = v
      BY <2>1
    <3>a. consumeRcvWindow(v, SeqSub(v.rcv.nxt, t.rcv.nxt)) \in TCB
      BY <1>6, <2>1 DEF TextTaken
    <3> HIDE DEF stored
    <3>2. done \in TCB
      BY <3>a, <3>1
    <3>3. done.out = t.out
      BY <1>4, <3>1
    <3> QED BY <3>2, <3>3
  <2>2. CASE f.seq # t.rcv.nxt
    <3>1. stored = insertOoo(t, f)
      BY <2>2
    <3> HIDE DEF stored
    <3>2. m = 0
      BY <1>5, <3>1, RcvParts, SeqNumNat DEF SeqSub
    <3>a. stored \in TCB /\ m \in Nat
      BY <1>5, <3>1, <3>2
    <3> HIDE DEF m
    <3>3. done \in TCB /\ done.out = stored.out
      BY <3>a, ConsumeRcvWindowType
    <3> QED BY <1>5, <3>1, <3>3
  <2> QED BY <2>1, <2>2
<1> HIDE DEF done
<1> DEFINE u == acceptText(t, s)
<1>8. CASE f.data = <<>>
  <2>1. u = sendAck(t)
    BY <1>1, <1>8
  <2> HIDE DEF u
  <2>2. Utters(t, u) /\ Keeps(t, u) /\ SameSnd(t, u)
    BY <2>1, SendAckUtters, SendAckKeeps
  <2>3. u.snd = t.snd /\ u.rcv = t.rcv /\ u.retxQueue = t.retxQueue
    BY <2>2 DEF Keeps, KeepsRcv, SameRcv, SameSnd
  <2> QED BY <2>2, <2>3, WordSame DEF u
<1>9. CASE f.data # <<>>
  <2>1. u \in {sendAck(done), onDelayableSegment(done)}
    BY <1>1, <1>9
  <2> HIDE DEF u
  <2>2. Utters(done, u) /\ Keeps(done, u) /\ SameSnd(done, u)
    BY <1>7, <2>1, SendAckUtters, SendAckKeeps, OnDelayableUtters, OnDelayableSegmentKeeps
  <2>3. u.snd = done.snd /\ u.rcv = done.rcv /\ u.retxQueue = done.retxQueue
    BY <2>2 DEF Keeps, KeepsRcv, SameRcv, SameSnd
  <2> QED BY <1>7, <2>2, <2>3, WordSame DEF u
<1> QED BY <1>8, <1>9

LEMMA ProcessTextSays ==
    ASSUME NEW t \in TCB, NEW s \in Segment, NEW n
    PROVE  LET u == processText(t, s) IN Says(t, u, n, {u.rcv.nxt})
<1> DEFINE u == acceptText(t, s)
<1>1. CASE s.data = <<>>
  BY <1>1, SaysRefl DEF processText
<1>2. CASE s.data # <<>>
  <2>1. s.seq \in SeqNum /\ s.data \in Payload
    BY SegmentParts
  <2>2. SameSnd(t, u) /\ u.reached = t.reached
    BY <2>1, AcceptTextEffect
  <2>3. u \in TCB /\ u.state = t.state
    BY <2>1, AcceptTextEdge
  <2>4. \A x \in u.out : x \in t.out \/ Word(x, u)
    BY AcceptTextWords
  <2> HIDE DEF u
  <2>5. Calm(t, u) /\ QuietState(t.state, u.state)
    BY <2>2, <2>3, SameSndCalm DEF QuietState
  <2>6. Says(t, u, n, {u.rcv.nxt})
    BY <2>2, <2>3, <2>4, <2>5, QuietSaysAfter
  <2> QED BY <1>2, <2>6 DEF processText, u
<1> QED BY <1>1, <1>2

\* A FIN moves the state only as far as the sender has come.
LEMMA HandleFinState ==
    ASSUME NEW t \in TCB
    PROVE  handleFin(t).state =
             CASE t.state \in {"Established", "SynReceived"} -> "CloseWait"
               [] t.state = "FinWait1" -> IF finAcked(t) THEN "TimeWait" ELSE "Closing"
               [] t.state = "FinWait2" -> "TimeWait"
               [] OTHER -> t.state
<1> DEFINE x == [t EXCEPT !.fin = [seen |-> TRUE, seq |-> t.rcv.nxt], !.rcv.nxt = SeqAdd(@, 1)]
           a == sendAck(x)
           st == CASE t.state \in {"Established", "SynReceived"} -> "CloseWait"
                   [] t.state = "FinWait1" -> IF finAcked(t) THEN "TimeWait" ELSE "Closing"
                   [] t.state = "FinWait2" -> "TimeWait"
                   [] OTHER -> t.state
<1>1. handleFin(t) = [a EXCEPT !.state = st]
  BY DEF handleFin
<1>2. x \in TCB
  BY RcvParts, NextSeqNum DEF TCB, RcvVars, FinVars
<1> HIDE DEF x
<1>3. a \in TCB
  BY <1>2, SendAckKeeps, KeepsType
<1> HIDE DEF a
<1>4. [a EXCEPT !.state = st].state = st
  BY <1>3 DEF TCB
<1> QED BY <1>1, <1>4

LEMMA HandleFinWords ==
    ASSUME NEW t \in TCB
    PROVE  \A x \in handleFin(t).out : x \in t.out \/ Word(x, handleFin(t))
<1> DEFINE v == [t EXCEPT !.fin = [seen |-> TRUE, seq |-> t.rcv.nxt], !.rcv.nxt = SeqAdd(@, 1)]
           a == sendAck(v)
           st == CASE t.state \in {"Established", "SynReceived"} -> "CloseWait"
                   [] t.state = "FinWait1" -> IF finAcked(t) THEN "TimeWait" ELSE "Closing"
                   [] t.state = "FinWait2" -> "TimeWait"
                   [] OTHER -> t.state
           u == [a EXCEPT !.state = st]
<1>1. handleFin(t) = u
  BY DEF handleFin
<1>2. v \in TCB /\ v.out = t.out
  BY RcvParts, NextSeqNum DEF TCB, RcvVars, FinVars
<1> HIDE DEF v
<1>3. a \in TCB /\ Utters(v, a) /\ Keeps(v, a) /\ SameSnd(v, a)
  BY <1>2, SendAckKeeps, KeepsType, SendAckUtters
<1>4. a.snd = v.snd /\ a.rcv = v.rcv /\ a.retxQueue = v.retxQueue
  BY <1>3 DEF Keeps, KeepsRcv, SameRcv, SameSnd
<1>5. \A x \in a.out : x \in v.out \/ Word(x, a)
  BY <1>3, <1>4, WordSame
<1> HIDE DEF a
<1>6. u.out = a.out /\ u.snd = a.snd /\ u.rcv = a.rcv /\ u.retxQueue = a.retxQueue
  BY <1>3 DEF TCB
<1> HIDE DEF u
<1> QED BY <1>1, <1>2, <1>5, <1>6 DEF Word, Bare

LEMMA HandleFinSays ==
    ASSUME NEW t \in TCB, t.state \notin {"Listen", "SynSent", "SynReceived"}, NEW n
    PROVE  Says(t, handleFin(t), n, {handleFin(t).rcv.nxt})
<1> DEFINE u == handleFin(t)
<1>1. u \in TCB /\ SameSnd(t, u) /\ u.reached = t.reached
  BY HandleFinEffect
<1>2. u.state = CASE t.state \in {"Established", "SynReceived"} -> "CloseWait"
                  [] t.state = "FinWait1" -> IF finAcked(t) THEN "TimeWait" ELSE "Closing"
                  [] t.state = "FinWait2" -> "TimeWait"
                  [] OTHER -> t.state
  BY HandleFinState
<1>3. \A x \in u.out : x \in t.out \/ Word(x, u)
  BY HandleFinWords
<1> HIDE DEF u
<1>4. /\ u.snd = t.snd /\ u.sndBuf = t.sndBuf /\ u.retxQueue = t.retxQueue
      /\ Una(u) = Una(t) /\ Nxt(u) = Nxt(t)
  BY <1>1 DEF SameSnd, Una, Nxt
<1>5. finAcked(t) => Una(t) = Nxt(t)
  BY DEF finAcked, Una, Nxt
<1>6. ASSUME Numbered(t, n) PROVE Numbered(u, n)
  <2>1. Body(u, n)
    BY <1>4, <1>6 DEF Numbered, Body
  <2>2. Phase(t.state, t.reached, Una(t), Nxt(t), n)
    BY <1>6 DEF Numbered
  <2>3. Phase(u.state, u.reached, Una(u), Nxt(u), n)
    BY <1>1, <1>2, <1>4, <1>5, <2>2 DEF Phase, Early, Ending
  <2> QED BY <2>1, <2>3 DEF Numbered
<1>7. ASSUME Numbered(t, n), NEW s \in u.out PROVE s \in t.out \/ Spoken(s, u, n, {u.rcv.nxt})
  BY <1>1, <1>3, <1>6, <1>7, WordSpoken DEF Numbered
<1>8. Nxt(t) <= Nxt(u)
  BY <1>4, OffTypes
<1> QED BY <1>1, <1>4, <1>6, <1>7, <1>8 DEF Says, u

\* No segment carries both data and a FIN.
FinAlone(s) == "FIN" \in s.flags /\ "RST" \notin s.flags => s.data = <<>>

LEMMA KeepsSays ==
    ASSUME NEW t \in TCB, NEW u, Keeps(t, u), SameSnd(t, u), Utters(t, u), NEW n
    PROVE  Tells(t, u, n)
<1>1. u \in TCB /\ u.rcv = t.rcv /\ u.state = t.state /\ u.reached = t.reached
  BY DEF Keeps, KeepsRcv, SameRcv
<1>2. Calm(t, u) /\ QuietState(t.state, u.state)
  BY <1>1, SameSndCalm DEF QuietState
<1> QED BY <1>1, <1>2, QuietSays DEF Tells

LEMMA TellsSays ==
    ASSUME NEW t, NEW u, NEW n, Tells(t, u, n)
    PROVE  Says(t, u, n, {t.rcv.nxt, u.rcv.nxt})
<1>1. {t.rcv.nxt} \subseteq {t.rcv.nxt, u.rcv.nxt}
  OBVIOUS
<1> QED BY <1>1, SaysMore DEF Tells

LEMMA RefuseAckKeeps ==
    ASSUME NEW t \in TCB, NEW s \in Segment
    PROVE  Keeps(t, refuseAck(t, s)) /\ SameSnd(t, refuseAck(t, s))
  BY SendRstKeeps, SendChallengeAckKeeps, SegmentParts DEF refuseAck

LEMMA ProcessAckSays ==
    ASSUME NEW t \in TCB, NEW s \in Segment, t.state \notin {"Closed", "Listen", "SynSent"},
           FinAlone(s), "RST" \notin s.flags, NEW n, Fits(n)
    PROVE  \/ Says(t, processAck(t, s), n, {t.rcv.nxt, processAck(t, s).rcv.nxt})
           \/ Rejects(t, processAck(t, s), s)
<1> DEFINE h == handleAck(t, s)
           x == processText(h, s)
           f == processFin(x, s)
           u == processAck(t, s)
<1>1. CASE "ACK" \notin s.flags
  BY <1>1, SaysRefl DEF processAck
<1>2. CASE "ACK" \in s.flags /\ ~ackOK(t, s)
  <2>1. u = refuseAck(t, s)
    BY <1>2 DEF processAck
  <2> HIDE DEF u
  <2>2. CASE Utters(t, u)
    <3>1. Keeps(t, u) /\ SameSnd(t, u)
      BY <2>1, RefuseAckKeeps
    <3> QED BY <2>2, <3>1, KeepsSays, TellsSays DEF u
  <2>3. CASE t.state = "SynReceived" /\ ackOutOfRange(t, s) /\ u = sendRst(t, s.ack)
    <3>1. Acks(s) /\ Refuses(t, s)
      BY <1>2, <2>3 DEF Acks, Refuses
    <3>2. Rejects(t, sendRst(t, s.ack), s)
      BY <3>1, SendRstRejects
    <3> QED BY <2>3, <3>2 DEF u
  <2> QED BY <2>1, <2>2, <2>3, RefuseAckUtters
<1>3. CASE "ACK" \in s.flags /\ ackOK(t, s)
  <2>1. u = f
    BY <1>3 DEF processAck
  <2> HIDE DEF u
  <2>2. t.state = "SynReceived" => advances(t, s)
    BY <1>3 DEF ackOK
  <2>3. Says(t, h, n, {t.rcv.nxt})
    BY <2>2, HandleAckSays
  <2>4. KeepsRcv(t, h) /\ AckStep(t, h)
    BY HandleAckEffect
  <2>5. h \in TCB /\ h.rcv = t.rcv /\ h.state \notin {"Listen", "SynSent", "SynReceived"}
    BY <2>4 DEF KeepsRcv, SameRcv, AckStep
  <2> HIDE DEF h
  <2>6. Says(h, x, n, {x.rcv.nxt})
    BY <2>5, ProcessTextSays
  <2>7. x \in TCB /\ x.state = h.state
    <3>1. s.seq \in SeqNum /\ s.data \in Payload
      BY SegmentParts
    <3> QED BY <2>5, <3>1, AcceptTextEdge DEF processText
  <2>8. s.data = <<>> => x = h
    BY DEF processText
  <2> HIDE DEF x
  <2>9. Says(x, f, n, {f.rcv.nxt})
    BY <2>5, <2>7, SaysRefl, HandleFinSays DEF processFin
  <2>10. f = x \/ s.data = <<>>
    BY DEF processFin, FinAlone
  <2> HIDE DEF f
  <2> DEFINE A == {t.rcv.nxt, f.rcv.nxt}
  <2>11. x.rcv.nxt \in A
    BY <2>5, <2>8, <2>10
  <2>12. {t.rcv.nxt} \subseteq A /\ {x.rcv.nxt} \subseteq A /\ {f.rcv.nxt} \subseteq A
    BY <2>11
  <2> HIDE DEF A
  <2>13. Says(t, h, n, A) /\ Says(h, x, n, A) /\ Says(x, f, n, A)
    BY <2>3, <2>6, <2>9, <2>12, SaysMore
  <2>14. Says(t, f, n, A)
    BY <2>5, <2>13, SaysTrans
  <2> QED BY <2>1, <2>14 DEF A, u
<1> QED BY <1>1, <1>2, <1>3

LEMMA SynchronizedSays ==
    ASSUME NEW t \in TCB, NEW s \in Segment, t.state \notin {"Closed", "Listen", "SynSent"},
           FinAlone(s), NEW n, Fits(n)
    PROVE  LET u == onSegmentSynchronized(t, s) IN
             Says(t, u, n, {t.rcv.nxt, u.rcv.nxt}) \/ Rejects(t, u, s)
<1> DEFINE x == tsRecentUpdate(t, s)
           v == processAck(x, s)
           r == handleRst(t, s)
           u == onSegmentSynchronized(t, s)
<1>0. u \in {sendAck(t), r, sendChallengeAck(t)} \/ ("RST" \notin s.flags /\ u = v)
  BY DEF onSegmentSynchronized
<1> HIDE DEF u
<1>1. CASE u \in {sendAck(t), sendChallengeAck(t)}
  <2>1. Keeps(t, u) /\ SameSnd(t, u) /\ Utters(t, u)
    BY <1>1, SendAckKeeps, SendAckUtters, SendChallengeAckKeeps, ChallengeUtters
  <2> QED BY <2>1, KeepsSays, TellsSays DEF u
<1>2. CASE u = r
  <2>1. /\ KeepsRcv(t, u) /\ SameSnd(t, u) /\ u.reached = t.reached
        /\ \/ u.state \in {t.state, "Closed"}
           \/ t.state = "SynReceived" /\ u.state = "Listen"
    BY <1>2, HandleRstEffect
  <2>2. u \in TCB /\ u.rcv = t.rcv /\ Calm(t, u) /\ QuietState(t.state, u.state)
    BY <2>1, SameSndCalm DEF KeepsRcv, SameRcv, QuietState
  <2>3. Utters(t, u)
    BY <1>2, HandleRstUtters
  <2>4. Tells(t, u, n)
    BY <2>1, <2>2, <2>3, QuietSays DEF Tells
  <2> QED BY <2>4, TellsSays DEF u
<1>3. CASE "RST" \notin s.flags /\ u = v
  <2>o. x.out = t.out
    BY DEF tsRecentUpdate, TCB
  <2>1. Keeps(t, x) /\ SameSnd(t, x) /\ Utters(t, x)
    BY TsRecentUpdateKeeps, TsRecentUtters
  <2> HIDE DEF x
  <2>2. x \in TCB /\ x.rcv = t.rcv /\ x.state = t.state
    BY <2>1 DEF Keeps, KeepsRcv, SameRcv
  <2>3. Tells(t, x, n)
    BY <2>1, KeepsSays
  <2> DEFINE A == {t.rcv.nxt, u.rcv.nxt}
  <2>4. Says(x, u, n, A) \/ Rejects(x, u, s)
    BY <1>3, <2>2, ProcessAckSays
  <2>r. Rejects(x, u, s) => Rejects(t, u, s)
    BY <2>o, <2>1, KeepsReplied, RejectsFrom
  <2>5. {t.rcv.nxt} \subseteq A
    OBVIOUS
  <2> HIDE DEF A
  <2>6. Says(t, x, n, A)
    BY <2>3, <2>5, SaysMore DEF Tells
  <2>7. Says(t, u, n, A) \/ Rejects(t, u, s)
    BY <2>4, <2>r, <2>6, SaysTrans
  <2> QED BY <2>7 DEF A, u
<1> HIDE DEF r, v
<1> QED BY <1>0, <1>1, <1>2, <1>3

\* The whole of what the arrival of a segment makes a connection say.
LEMMA OnSegmentSays ==
    ASSUME NEW t \in TCB, NEW s \in Segment, FinAlone(s), NEW n, Fits(n)
    PROVE  LET u == onSegment(t, s) IN
             Says(t, u, n, {t.rcv.nxt, u.rcv.nxt}) \/ Rejects(t, u, s)
<1> DEFINE k == [t EXCEPT !.keepaliveProbes = 0]
           u == onSegment(t, s)
<1>0. 0 \in 0..KeepaliveMaxProbes
  BY TcbAssumption
<1>1. /\ k \in TCB /\ k.state = t.state /\ k.snd = t.snd /\ k.sndBuf = t.sndBuf /\ k.rcv = t.rcv
      /\ k.retxQueue = t.retxQueue /\ k.reached = t.reached /\ k.out = t.out
      /\ k.cong = t.cong /\ Replied(t, k)
  BY <1>0 DEF TCB, Replied, SameRcv, SameSnd, NoNewFin
<1>2. u = CASE k.state = "Closed" -> onSegmentClosed(k, s)
            [] k.state = "Listen" -> onSegmentListen(k, s)
            [] k.state = "SynSent" -> onSegmentSynSent(k, s)
            [] OTHER -> onSegmentSynchronized(k, s)
  BY DEF onSegment
<1> HIDE DEF k, u
<1> DEFINE A == {k.rcv.nxt, u.rcv.nxt}
<1>n. n \in Nat
  BY DEF Fits
<1>3. Says(k, u, n, A) \/ Rejects(k, u, s)
  <2>1. CASE k.state = "Closed"
    <3>1. u = onSegmentClosed(k, s)
      BY <1>2, <2>1
    <3> QED BY <1>1, <2>1, <3>1, ClosedRejects
  <2>2. CASE k.state = "Listen"
    BY <1>1, <1>2, <2>2, <1>n, ListenSays
  <2>3. CASE k.state = "SynSent"
    BY <1>1, <1>2, <2>3, <1>n, SynSentSays
  <2>4. CASE k.state \notin {"Closed", "Listen", "SynSent"}
    BY <1>1, <1>2, <2>4, SynchronizedSays
  <2> QED BY <2>1, <2>2, <2>3, <2>4
<1>4. Says(t, k, n, A)
  <2>1. Utters(t, k)
    BY <1>1, SameOutUtters
  <2>2. Calm(t, k) /\ QuietState(t.state, k.state)
    <3>1. SameQueue(t.retxQueue, t.retxQueue)
      BY SameQueueRefl
    <3>2. SameQueue(t.retxQueue, k.retxQueue)
      BY <1>1, <3>1
    <3> QED BY <1>1, <3>2 DEF Calm, QuietState
  <2>3. Says(t, k, n, {t.rcv.nxt})
    BY <1>1, <2>1, <2>2, QuietSays
  <2>4. {t.rcv.nxt} \subseteq A
    BY <1>1
  <2> HIDE DEF A
  <2> QED BY <2>3, <2>4, SaysMore
<1> HIDE DEF A
<1>6. Rejects(k, u, s) => Rejects(t, u, s)
  BY <1>1, RejectsFrom
<1>5. Says(t, u, n, A) \/ Rejects(t, u, s)
  BY <1>1, <1>3, <1>4, <1>6, SaysTrans
<1> QED BY <1>1, <1>5 DEF A, u

-----------------------------------------------------------------------------
\* What Send and Recv make a connection say.
LEMMA OwnTextLonger ==
    ASSUME NEW s, NEW iss, NEW n \in Nat, NEW x \in Int, x <= n + 1, NEW k \in Nat,
           OwnText(s, iss, n, x), SeqSub(s.seq, iss) \in Nat, segLen(s) \in Nat,
           "FIN" \in s.flags => segLen(s) >= 1, Len(s.data) \in Nat
    PROVE  OwnText(s, iss, n + k, x)
<1> DEFINE v == SeqSub(s.seq, iss)
<1>1. TextAt(s, v, n, x) /\ v \in Nat
  BY DEF OwnText
<1> HIDE DEF v
<1>2. "FIN" \notin s.flags
  BY <1>1 DEF TextAt
<1>3. TextAt(s, v, n + k, x)
  BY <1>1, <1>2 DEF TextAt
<1> QED BY <1>3 DEF OwnText, v

LEMMA SegLenFin ==
    ASSUME NEW s, s.data \in Payload, "FIN" \in s.flags
    PROVE  segLen(s) >= 1
<1>1. Len(s.data) \in Nat
  BY LenProperties DEF Payload
<1> DEFINE a == IF "SYN" \in s.flags THEN 1 ELSE 0
           l == Len(s.data)
<1>2. a \in Nat /\ l \in Nat /\ segLen(s) = l + a + 1
  BY <1>1 DEF segLen
<1> HIDE DEF a, l
<1> QED BY <1>2

LEMMA LongerText ==
    ASSUME NEW b \in Seq(Nat), NEW d \in Seq(Nat), NEW v \in Nat, NEW n \in Nat, Text(b, v),
           v + Len(b) = n + 1, \A i \in 1..Len(d) : d[i] = n + i
    PROVE  Text(b \o d, v)
<1>1. Len(b) \in Nat /\ Len(d) \in Nat /\ Len(b \o d) = Len(b) + Len(d)
  BY LenProperties, ConcatProperties
<1>2. ASSUME NEW i \in 1..Len(b \o d) PROVE (b \o d)[i] + 1 = v + i
  <2>1. CASE i <= Len(b)
    <3>1. i \in 1..Len(b) /\ (b \o d)[i] = b[i]
      BY <1>1, <2>1, ConcatProperties
    <3> QED BY <3>1 DEF Text
  <2>2. CASE i > Len(b)
    <3>1. i - Len(b) \in 1..Len(d) /\ (b \o d)[i] = d[i - Len(b)]
      BY <1>1, <2>2, ConcatProperties
    <3> DEFINE l == Len(b)
               j == i - Len(b)
    <3>2. d[j] = n + j
      BY <3>1
    <3>3. (b \o d)[i] = n + j /\ l \in Nat /\ i \in Int /\ j = i - l /\ v + l = n + 1
      BY <1>1, <3>1, <3>2
    <3> HIDE DEF l, j
    <3> QED BY <3>3
  <2> QED BY <1>1, <2>1, <2>2
<1> QED BY <1>2 DEF Text

LEMMA SendTells ==
    ASSUME NEW t \in TCB, t.state \in {"Established", "CloseWait"}, NEW n \in Nat, NEW k \in Nat,
           Fits(n + k), NEW d \in Seq(Nat), Len(d) = k, \A i \in 1..Len(d) : d[i] = n + i,
           Numbered(t, n)
    PROVE  LET u == Send(t, d) IN
             /\ u \in TCB /\ u.snd.iss = t.snd.iss /\ u.rcv = t.rcv
             /\ Numbered(u, n + k) /\ Nxt(t) <= Nxt(u)
             /\ \A s \in u.out : s \in t.out \/ Spoken(s, u, n + k, {t.rcv.nxt})
<1> DEFINE b == t.sndBuf \o d
           w == [t EXCEPT !.sndBuf = b]
<1>1. b \in Seq(Nat) /\ Len(b) = Len(t.sndBuf) + k
  BY TcbParts, ConcatProperties
<1>2. Send(t, d) = flushSend(w)
  BY DEF Send
<1>3. Text(t.sndBuf, Una(t)) /\ Una(t) \in 1..(n + 1) /\ Nxt(t) <= n + 1 /\ Una(t) <= Nxt(t)
  BY OffTypes DEF Numbered, Body, Counts, Phase
<1>4. Len(t.sndBuf) = n + 1 - Una(t)
  BY <1>3 DEF Numbered, Body, Counts
<1>5. Text(b, Una(t))
  BY <1>3, <1>4, LongerText, TcbParts
<1> HIDE DEF b
<1>6. /\ w \in TCB /\ w.snd = t.snd /\ w.sndBuf = b /\ w.retxQueue = t.retxQueue /\ w.rcv = t.rcv
      /\ w.state = t.state /\ w.reached = t.reached /\ w.out = t.out
  BY <1>1 DEF TCB
<1> HIDE DEF w
<1>7. Una(w) = Una(t) /\ Nxt(w) = Nxt(t) /\ w.snd.iss = t.snd.iss
  BY <1>6 DEF Una, Nxt
<1>8. Numbered(w, n + k)
  <2>a. Len(w.sndBuf) = n + k + 1 - Una(t)
    BY <1>1, <1>3, <1>4, <1>6
  <2>b. /\ Una(t) \in 1..(n + k + 1) /\ Nxt(t) <= n + k + 1 /\ Nxt(t) <= n + k + 2 /\ Una(t) # 0
        /\ 1 <= Nxt(t)
    BY <1>3, OffTypes
  <2>1. Counts(Una(w), Nxt(w), n + k, Len(w.sndBuf))
    BY <1>3, <1>7, <2>a, <2>b DEF Counts
  <2>2. ASSUME NEW i \in 1..Len(w.retxQueue)
        PROVE  OwnText(w.retxQueue[i], w.snd.iss, n + k, Nxt(w))
    <3> DEFINE e == t.retxQueue[i]
    <3>1. i \in 1..Len(t.retxQueue)
      BY <1>6
    <3>r. t.retxQueue \in Seq(RetxSeg)
      BY TcbParts
    <3>e. e \in RetxSeg
      BY <3>1, <3>r, ElementOfSeq
    <3>2. e.seq \in SeqNum /\ e.data \in Payload
      BY <3>e, RetxParts
    <3>3. OwnText(e, t.snd.iss, n, Nxt(t))
      BY <3>1 DEF Numbered, Body
    <3>4. t.snd.iss \in SeqNum /\ Nxt(t) \in Int
      BY SndParts, OffTypes
    <3> HIDE DEF e
    <3>5. SeqSub(e.seq, t.snd.iss) \in Nat /\ segLen(e) \in Nat /\ Len(e.data) \in Nat
      BY <3>2, <3>4, OwnLen
    <3>6. OwnText(e, t.snd.iss, n + k, Nxt(t))
      BY <1>3, <3>2, <3>3, <3>4, <3>5, SegLenFin, OwnTextLonger
    <3> QED BY <1>6, <1>7, <3>6 DEF e
  <2>3. Body(w, n + k)
    BY <1>5, <1>6, <1>7, <2>1, <2>2 DEF Body
  <2>4. t.reached => Una(t) >= 1
    BY <1>3
  <2>5. Phase(w.state, w.reached, Una(w), Nxt(w), n + k)
    BY <1>3, <1>6, <1>7, <2>b, <2>4 DEF Phase, Early, Ending
  <2> QED BY <2>3, <2>5 DEF Numbered
<1> DEFINE u == flushSend(w)
<1>9. Says(w, u, n + k, {w.rcv.nxt})
  BY <1>6, FlushSendPieces, PiecesSay
<1>10. u.rcv = w.rcv
  BY <1>6, FlushSendKeeps DEF Keeps, KeepsRcv, SameRcv
<1> HIDE DEF u
<1>11. Numbered(u, n + k) /\ Nxt(w) <= Nxt(u) /\ u \in TCB /\ u.snd.iss = w.snd.iss
  BY <1>8, <1>9 DEF Says
<1>12. \A s \in u.out : s \in w.out \/ Spoken(s, u, n + k, {w.rcv.nxt})
  BY <1>8, <1>9 DEF Says
<1>13. Nxt(t) <= Nxt(u)
  BY <1>7, <1>11
<1> QED BY <1>2, <1>6, <1>7, <1>10, <1>11, <1>12, <1>13 DEF u

LEMMA RecvSays ==
    ASSUME NEW t \in TCB, NEW k \in 1..Len(t.rcvBuf), NEW n
    PROVE  Says(t, Recv(t, k), n, {t.rcv.nxt})
<1> DEFINE u == Recv(t, k)
<1>1. u.reached = t.reached /\ SameSnd(t, u)
  BY RecvInv
<1>2. u \in TCB /\ u.state = t.state
  BY RecvEdge
<1>3. Utters(t, u)
  BY RecvUtters
<1> HIDE DEF u
<1>4. Calm(t, u) /\ QuietState(t.state, u.state)
  BY <1>1, <1>2, SameSndCalm DEF QuietState
<1> QED BY <1>1, <1>2, <1>3, <1>4, QuietSays DEF u

-----------------------------------------------------------------------------
\* A connection that has said nothing stays silent until it opens or is called.
LEMMA MuteUnsent ==
    ASSUME NEW t \in TCB, Mute(t)
    PROVE  unsent(t) <= 0
<1>1. flightSize(t) \in SeqNum /\ Len(<<>>) = 0
  BY FlightType, EmptySeq
<1> QED BY <1>1, SeqNumNat DEF unsent, Mute

LEMMA MuteTick ==
    ASSUME NEW t \in TCB, Mute(t), NEW due \in SUBSET armed(t)
    PROVE  LET u == Tick(t, due) IN u \in TCB /\ Mute(u) /\ u.out = t.out /\ u.snd = t.snd
<1>1. {"timewait", "rtx", "delack", "keepalive"} \cap due = {}
  BY DEF armed, Mute, synchronized
<1>2. probePersist(t) = t
  BY MuteUnsent DEF probePersist
<1>3. fireOverride(t) = disarmOverride(t)
  BY MuteUnsent DEF fireOverride
<1>4. Tick(t, due) \in {t, disarmOverride(t)}
  BY <1>1, <1>2, <1>3 DEF Tick
<1>5. Mute(disarmOverride(t)) /\ disarmOverride(t).out = t.out /\ disarmOverride(t).snd = t.snd
  BY DEF disarmOverride, Mute, TCB, TmrVars
<1>6. disarmOverride(t) \in TCB
  BY TmrKeeps DEF Keeps, KeepsRcv, SameRcv
<1> QED BY <1>4, <1>5, <1>6

LEMMA MuteOpen ==
    ASSUME NEW t \in TCB, Mute(t)
    PROVE  LET u == PassiveOpen(t) IN u \in TCB /\ Mute(u) /\ u.out = t.out /\ u.snd = t.snd
<1>1. PassiveOpen(t) \in TCB
  BY PassiveOpenEffect
<1> QED BY <1>1 DEF PassiveOpen, Mute, TCB

LEMMA MuteClose ==
    ASSUME NEW t \in TCB, Mute(t), t.state \in CanClose
    PROVE  LET u == Close(t) IN u \in TCB /\ Mute(u) /\ u.out = t.out /\ u.snd = t.snd
<1>1. t.state = "Listen"
  BY DEF CanClose, Mute
<1>2. Close(t) = [t EXCEPT !.state = "Closed"]
  BY <1>1 DEF Close
<1> QED BY <1>2 DEF Mute, TCB, State

LEMMA ClosedTmr ==
    ASSUME NEW t \in TCB, NEW s \in Segment
    PROVE  onSegmentClosed(t, s).tmr = t.tmr
<1> DEFINE r == sendRst(t, 0)
           z == send(r, {"RST", "ACK"}, 0, SeqAdd(s.seq, segLen(s)))
<1>1. onSegmentClosed(t, s) \in {t, sendRst(t, s.ack), z}
  BY DEF onSegmentClosed
<1>2. s.ack \in SeqNum /\ SeqAdd(s.seq, segLen(s)) \in SeqNum /\ 0 \in SeqNum
  BY SegmentParts, SmallSeqNums
<1>3. sendRst(t, s.ack).tmr = t.tmr /\ r.tmr = t.tmr /\ r \in TCB
  BY <1>2, SendRstOnly DEF Replied, SameRcv
<1> HIDE DEF r
<1>4. z.tmr = r.tmr
  BY <1>2, <1>3, SendEmptyForm, AckFlags DEF Wrote
<1> QED BY <1>1, <1>3, <1>4

\* A reset answers, or a SYN wakes the listener up.
LEMMA MuteArrival ==
    ASSUME NEW t \in TCB, Mute(t), NEW s \in Segment
    PROVE  LET u == onSegment(t, s) IN
             /\ u \in TCB /\ u.snd.iss = t.snd.iss
             /\ \/ Mute(u) /\ Rejects(t, u, s)
                \/ /\ t.state = "Listen" /\ Numbered(u, 0)
                   /\ \A e \in u.out : e \in t.out \/ Spoken(e, u, 0, {u.rcv.nxt})
<1> DEFINE k == [t EXCEPT !.keepaliveProbes = 0]
           u == onSegment(t, s)
<1>0. 0 \in 0..KeepaliveMaxProbes
  BY TcbAssumption
<1>1. /\ k \in TCB /\ k.state = t.state /\ k.snd = t.snd /\ k.sndBuf = t.sndBuf
      /\ k.retxQueue = t.retxQueue /\ k.reached = t.reached /\ k.out = t.out /\ k.tmr = t.tmr
      /\ Replied(t, k)
  BY <1>0 DEF TCB, Replied, SameRcv, SameSnd, NoNewFin
<1>2. Mute(k)
  BY <1>1 DEF Mute
<1>3. u = IF t.state = "Closed" THEN onSegmentClosed(k, s) ELSE onSegmentListen(k, s)
  BY <1>1 DEF onSegment, Mute
<1> HIDE DEF k, u
<1>4. ASSUME Rejects(k, u, s), u.tmr = k.tmr
      PROVE  u \in TCB /\ u.snd.iss = t.snd.iss /\ Mute(u) /\ Rejects(t, u, s)
  <2>1. Rejects(t, u, s)
    BY <1>1, <1>4, RejectsFrom
  <2> QED BY <1>1, <1>2, <1>4, <2>1 DEF Rejects, Replied, SameRcv, SameSnd, Mute
<1>5. CASE t.state = "Closed"
  <2>1. u = onSegmentClosed(k, s)
    BY <1>3, <1>5
  <2>2. Rejects(k, u, s) /\ u.tmr = k.tmr
    BY <1>1, <1>5, <2>1, ClosedRejects, ClosedTmr
  <2> QED BY <1>4, <2>2 DEF u
<1>6. CASE t.state = "Listen"
  <2>1. u = onSegmentListen(k, s)
    BY <1>3, <1>6
  <2>2. \/ Rejects(k, u, s) /\ u.tmr = k.tmr
        \/ Greets(k, u, s) /\ u.snd.una = k.snd.iss /\ u.snd.nxt = SeqAdd(k.snd.iss, 1)
    BY <1>1, <1>6, <2>1, ListenForm
  <2>3. CASE Greets(k, u, s) /\ u.snd.una = k.snd.iss /\ u.snd.nxt = SeqAdd(k.snd.iss, 1)
    <3>1. k.sndBuf = <<>> /\ ~k.reached
          /\ \A i \in 1..Len(k.retxQueue) : OwnText(k.retxQueue[i], k.snd.iss, 0, 1)
      BY <1>2, MuteQueue
    <3>2. /\ u \in TCB /\ u.snd.iss = k.snd.iss /\ Numbered(u, 0)
          /\ \A e \in u.out : e \in k.out \/ Spoken(e, u, 0, {u.rcv.nxt})
      BY <1>1, <2>3, <3>1, GreetsSays
    <3> QED BY <1>1, <1>6, <3>2 DEF u
  <2> QED BY <1>4, <2>2, <2>3 DEF u
<1> QED BY <1>5, <1>6 DEF Mute
=============================================================================
