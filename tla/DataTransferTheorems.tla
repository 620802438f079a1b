------------------------ MODULE DataTransferTheorems ------------------------
(***************************************************************************)
(* Facts about the circular sequence space and about LoopCount, for every  *)
(* size of the space; the helpers that write segments keep a TCB well      *)
(* typed and touch neither its state nor its receive variables; the        *)
(* operators of the data path keep it well typed.  Those that send leave   *)
(* the receive variables alone; those that receive or read never move the  *)
(* right edge RCV.NXT + RCV.WND to the left, keep the buffers within their *)
(* bounds and owe the ACK of what they took.                               *)
(***************************************************************************)
EXTENDS DataTransfer, CongestionTheorems, SequenceTheorems, NaturalsInduction,
        WellFoundedInduction

-----------------------------------------------------------------------------
(* The sequence space (SeqSpace).                                          *)

LEMMA SeqNumNat == \A x \in SeqNum : x \in Nat /\ x \in 0..SeqSize /\ x < SeqSize
  BY HalfSeqSpaceAssumption DEF SeqNum, SeqSize

\* Adding at most one turn to a sequence number gives a sequence number.
LEMMA SeqAddType ==
    ASSUME NEW a \in SeqNum, NEW n \in 0..SeqSize
    PROVE  SeqAdd(a, n) \in SeqNum
  BY HalfSeqSpaceAssumption DEF SeqAdd, SeqNum, SeqSize

\* The distance between two sequence numbers is a sequence number.
LEMMA SeqSubType ==
    ASSUME NEW a \in SeqNum, NEW b \in SeqNum
    PROVE  SeqSub(b, a) \in SeqNum
  BY HalfSeqSpaceAssumption DEF SeqSub, SeqNum, SeqSize

\* SeqSub undoes SeqAdd: what RCV.NXT advanced by is what acceptText measures.
LEMMA SeqSubAdd ==
    ASSUME NEW a \in SeqNum, NEW n \in SeqNum
    PROVE  SeqSub(SeqAdd(a, n), a) = n
  BY HalfSeqSpaceAssumption DEF SeqAdd, SeqSub, SeqNum, SeqSize

\* Advancing in two steps is advancing once by the sum.
LEMMA SeqAddAdd ==
    ASSUME NEW a \in SeqNum, NEW m \in Nat, NEW n \in Nat, m + n \in SeqNum
    PROVE  SeqAdd(SeqAdd(a, m), n) = SeqAdd(a, m + n)
  BY HalfSeqSpaceAssumption DEF SeqAdd, SeqNum, SeqSize

\* A number advanced by less than half the space is not before where it was.
LEMMA SeqLEQAdd ==
    ASSUME NEW a \in SeqNum, NEW n \in Nat, n < HalfSeqSpace
    PROVE  SeqLEQ(a, SeqAdd(a, n))
  BY HalfSeqSpaceAssumption DEF SeqLEQ, SeqLT, SeqAdd, SeqSub, SeqNum, SeqSize

\* A loop over at most n rounds stops: LoopCount is the first round whose
\* condition is false, and every earlier round's condition is true.
LEMMA LoopCountType ==
    ASSUME NEW n \in Nat, NEW S \in SUBSET (0..(n - 1))
    PROVE  /\ LoopCount(S, n) \in 0..n
           /\ LoopCount(S, n) \notin S
           /\ \A i \in 0..(LoopCount(S, n) - 1) : i \in S
<1> DEFINE T == (0..n) \ S
<1>1. T \in SUBSET Nat /\ n \in T
  OBVIOUS
<1>2. PICK k \in T : \A y \in T : k <= y
  <2>1. T # {} BY <1>1
  <2> QED BY <1>1, <2>1, LeastElement
<1>3. k \in 0..n /\ k \notin S /\ \A i \in 0..(k - 1) : i \in S
  BY <1>2
<1> QED BY <1>3 DEF LoopCount

-----------------------------------------------------------------------------
(* The TCB and segment output (Tcb).                                       *)

\* What was received is acknowledged, or the delayed-ACK timer will see to it.
Settled(t) == t.ts.lastAckSent = t.rcv.nxt \/ t.tmr.delAck

\* The numbers of the FINs among a TCB's written and queued segments.
finNum(e) == SeqAdd(e.seq, segLen(e) - 1)
FinNums(out, queue) ==
    {finNum(s) : s \in {x \in out : "FIN" \in x.flags}}
    \cup {finNum(queue[i]) : i \in {j \in 1..Len(queue) : "FIN" \in queue[j].flags}}
NoNewFin(t, u) == FinNums(u.out, u.retxQueue) \subseteq FinNums(t.out, t.retxQueue)

\* u is a well-typed successor of t whose receiving side is the same and owes no
\* more ACKs, and which sends no new FIN and whose state is the same as well.
SameRcv(t, u) == /\ u \in TCB /\ u.rcv = t.rcv /\ u.fin = t.fin
                 /\ u.rcvBuf = t.rcvBuf /\ u.oooSegs = t.oooSegs
KeepsRcv(t, u) == SameRcv(t, u) /\ (Settled(t) => Settled(u))
Keeps(t, u) == /\ KeepsRcv(t, u) /\ NoNewFin(t, u)
               /\ u.state = t.state /\ u.reached = t.reached

\* The sending side is the same.
SameSnd(t, u) == /\ u.snd = t.snd /\ u.sndBuf = t.sndBuf /\ u.retxQueue = t.retxQueue
                 /\ u.cong = t.cong
                 /\ u.tmr.persist = t.tmr.persist /\ u.tmr.override = t.tmr.override

LEMMA KeepsRefl == ASSUME NEW t \in TCB PROVE Keeps(t, t)
  BY DEF Keeps, KeepsRcv, SameRcv, NoNewFin

LEMMA KeepsType ==
    ASSUME NEW t, NEW u, Keeps(t, u)
    PROVE  u \in TCB /\ KeepsRcv(t, u)
  BY DEF Keeps, KeepsRcv, SameRcv

\* Both compose.
LEMMA KeepsTrans ==
    ASSUME NEW t, NEW u, NEW v, Keeps(t, u), Keeps(u, v)
    PROVE  Keeps(t, v)
  BY DEF Keeps, KeepsRcv, SameRcv, NoNewFin

LEMMA KeepsRcvTrans ==
    ASSUME NEW t, NEW u, NEW v, KeepsRcv(t, u), KeepsRcv(u, v)
    PROVE  KeepsRcv(t, v)
  BY DEF KeepsRcv, SameRcv

\* The types of the parts of a TCB.
LEMMA TcbParts ==
    ASSUME NEW t \in TCB
    PROVE  /\ t.snd \in SndVars /\ t.rcv \in RcvVars /\ t.opt \in OptVars /\ t.ts \in TsVars
           /\ t.tmr \in TmrVars /\ t.fin \in FinVars /\ t.cong \in Cong
           /\ t.retxQueue \in Seq(RetxSeg) /\ t.sndBuf \in Seq(Nat) /\ t.rcvBuf \in Seq(Nat)
           /\ t.oooSegs \in SUBSET Fragment /\ t.out \in SUBSET Segment
           /\ t.challengeCount \in 0..ChallengeAckLimit
           /\ t.keepaliveProbes \in 0..KeepaliveMaxProbes /\ t.state \in State
  BY DEF TCB

LEMMA SndParts ==
    ASSUME NEW t \in TCB
    PROVE  /\ t.snd.una \in SeqNum /\ t.snd.nxt \in SeqNum /\ t.snd.iss \in SeqNum
           /\ t.snd.wl1 \in SeqNum /\ t.snd.wl2 \in SeqNum
           /\ t.snd.wnd \in 0..(MaxWindow * WScale) /\ t.snd.maxWnd \in 0..(MaxWindow * WScale)
  BY DEF TCB, SndVars

LEMMA RcvParts ==
    ASSUME NEW t \in TCB
    PROVE  t.rcv.nxt \in SeqNum /\ t.rcv.irs \in SeqNum /\ t.rcv.wnd \in 0..RcvBuff
  BY DEF TCB, RcvVars

\* Zero and small distances are sequence numbers.
LEMMA SmallSeqNums ==
    /\ 0 \in SeqNum /\ SeqSize \in Nat /\ 2 * HalfSeqSpace = SeqSize
    /\ \A n \in 0..RcvBuff : n \in SeqNum /\ n < HalfSeqSpace
    /\ \A n \in 0..(DefaultMSS + 2) : n \in 0..SeqSize
    /\ \A n \in 0..(MaxWindow * WScale) : n \in Nat /\ n \in SeqNum
  BY HalfSeqSpaceAssumption, TcbAssumption DEF SeqNum, SeqSize

\* FlightSize is a sequence distance.
LEMMA FlightType ==
    ASSUME NEW t \in TCB
    PROVE  flightSize(t) \in SeqNum /\ flightSize(t) \in Nat
  BY SndParts, SeqSubType DEF flightSize, SeqNum

LEMMA EmptyPayload == <<>> \in Payload /\ <<>> \in Seq(Nat)
  BY TcbAssumption, EmptySeq DEF Payload

\* The window that goes on the wire fits the header.
LEMMA AdvertisedType ==
    ASSUME NEW t \in TCB, NEW flags
    PROVE  advertised(t, flags) \in 0..MaxWindow
<1>1. t.rcv.wnd \in Nat
  BY RcvParts, TcbAssumption
<1>2. t.rcv.wnd \div WScale \in Nat
  BY <1>1, TcbAssumption
<1> DEFINE w == IF "SYN" \notin flags /\ t.opt.scaled THEN t.rcv.wnd \div WScale ELSE t.rcv.wnd
<1>3. w \in Nat
  BY <1>1, <1>2
<1> HIDE DEF w
<1>4. minU32(w, MaxWindow) \in 0..MaxWindow
  BY <1>3, TcbAssumption DEF minU32
<1> QED BY <1>4 DEF advertised, w

\* Flags of the segments the code writes.
Flags == SUBSET {"SYN", "ACK", "FIN", "RST"}

\* Writing a segment only adds to out and records Last.ACK.sent.
Wrote(t, u, flags, ack) ==
    /\ SameRcv(t, u) /\ SameSnd(t, u) /\ u.state = t.state /\ u.reached = t.reached
    /\ u.tmr = t.tmr
    /\ u.ts.lastAckSent = IF "ACK" \in flags THEN ack ELSE t.ts.lastAckSent
    /\ "FIN" \notin flags => NoNewFin(t, u)

LEMMA WriteSegOptsForm ==
    ASSUME NEW t \in TCB, NEW flags \in Flags, NEW seq \in SeqNum, NEW ack \in SeqNum,
           NEW data \in Payload, NEW o \in {"none", "syn", "ts"}
    PROVE  LET u == writeSegOpts(t, flags, seq, ack, data, o) IN
             /\ Wrote(t, u, flags, ack)
             /\ \E s : /\ u.out = t.out \cup {s}
                      /\ s.flags = flags /\ s.seq = seq /\ s.data = data
<1> DEFINE opts == IF o = "none" /\ t.opt.tsOK /\ "SYN" \notin flags /\ "RST" \notin flags
                   THEN "ts" ELSE o
           seg == [flags |-> flags, seq |-> seq, ack |-> ack, win |-> advertised(t, flags),
                   data |-> data, opts |-> opts,
                   tsval |-> IF opts = "none" THEN 0 ELSE t.ts.now]
           out == t.out \cup {seg}
           ts == [t.ts EXCEPT !.lastAckSent = IF "ACK" \in flags THEN ack ELSE @]
           u == [t EXCEPT !.out = out, !.ts = ts]
<1>1. opts \in {"none", "syn", "ts"} /\ t.ts.now \in SeqNum
  BY TcbParts DEF TsVars
<1>2. seg \in Segment
  BY <1>1, AdvertisedType, SmallSeqNums DEF Segment, Flags
<1>3. out \in SUBSET Segment
  BY <1>2, TcbParts
<1>4. ts \in TsVars /\ ts.lastAckSent = IF "ACK" \in flags THEN ack ELSE t.ts.lastAckSent
  BY TcbParts DEF TsVars
<1>5. writeSegOpts(t, flags, seq, ack, data, o) = u
  BY DEF writeSegOpts, TCB, TsVars
<1> HIDE DEF out, ts
<1>6. /\ SameRcv(t, u) /\ SameSnd(t, u) /\ u.state = t.state /\ u.reached = t.reached
      /\ u.ts = ts /\ u.tmr = t.tmr /\ u.out = out /\ u.retxQueue = t.retxQueue
  BY <1>3, <1>4 DEF SameRcv, SameSnd, TCB
<1> HIDE DEF u
<1>7. out = t.out \cup {seg} /\ seg.flags = flags /\ seg.seq = seq /\ seg.data = data
  BY DEF out
<1> HIDE DEF seg
<1>8. ASSUME "FIN" \notin flags PROVE NoNewFin(t, u)
  <2>1. {x \in u.out : "FIN" \in x.flags} = {x \in t.out : "FIN" \in x.flags}
    BY <1>6, <1>7, <1>8
  <2> QED BY <1>6, <2>1 DEF NoNewFin, FinNums
<1>9. Wrote(t, u, flags, ack)
  BY <1>4, <1>6, <1>8 DEF Wrote
<1> QED BY <1>5, <1>6, <1>7, <1>9

LEMMA WriteSegOptsKeeps ==
    ASSUME NEW t \in TCB, NEW flags \in Flags, NEW seq \in SeqNum, NEW ack \in SeqNum,
           NEW data \in Payload, NEW o \in {"none", "syn", "ts"},
           "ACK" \in flags => ack = t.rcv.nxt, "FIN" \notin flags
    PROVE  Keeps(t, writeSegOpts(t, flags, seq, ack, data, o))
<1> DEFINE u == writeSegOpts(t, flags, seq, ack, data, o)
<1>1. Wrote(t, u, flags, ack)
  BY WriteSegOptsForm
<1> HIDE DEF u
<1>2. Keeps(t, u)
  BY <1>1 DEF Wrote, Keeps, KeepsRcv, SameRcv, Settled
<1> QED BY <1>2 DEF u

LEMMA WriteSegKeeps ==
    ASSUME NEW t \in TCB, NEW flags \in Flags, NEW seq \in SeqNum, NEW ack \in SeqNum,
           NEW data \in Payload, "ACK" \in flags => ack = t.rcv.nxt, "FIN" \notin flags
    PROVE  Keeps(t, writeSeg(t, flags, seq, ack, data))
  BY WriteSegOptsKeeps DEF writeSeg

LEMMA EnqueueKeeps ==
    ASSUME NEW t \in TCB, NEW flags \in Flags, NEW seq \in SeqNum, NEW data \in Payload,
           "FIN" \notin flags, "RST" \notin flags
    PROVE  Keeps(t, enqueue(t, flags, seq, data))
<1> DEFINE e == [flags |-> flags, seq |-> seq, data |-> data, retries |-> 0]
           q == Append(t.retxQueue, e)
<1>1. e \in RetxSeg
  BY TcbAssumption DEF RetxSeg, Flags
<1>2. q \in Seq(RetxSeg)
  BY <1>1, TcbParts, AppendProperties
<1>3. enqueue(t, flags, seq, data) = [t EXCEPT !.retxQueue = q]
  BY DEF enqueue
<1>a. FinNums(t.out, q) \subseteq FinNums(t.out, t.retxQueue)
  <2>1. e.flags = flags /\ t.retxQueue \in Seq(RetxSeg) /\ Len(t.retxQueue) \in Nat
    BY TcbParts, LenProperties
  <2> HIDE DEF e
  <2>2. /\ Len(q) = Len(t.retxQueue) + 1 /\ q[Len(t.retxQueue) + 1] = e
        /\ \A j \in 1..Len(t.retxQueue) : q[j] = t.retxQueue[j]
    BY <1>1, <2>1, AppendProperties
  <2> HIDE DEF q
  <2>3. \A j \in 1..Len(q) : "FIN" \in q[j].flags =>
            j \in 1..Len(t.retxQueue) /\ q[j] = t.retxQueue[j]
    BY <2>1, <2>2
  <2> QED BY <2>3 DEF FinNums
<1> HIDE DEF q
<1>4. Keeps(t, [t EXCEPT !.retxQueue = q])
  BY <1>2, <1>a DEF Keeps, KeepsRcv, SameRcv, Settled, NoNewFin, TCB
<1> QED BY <1>3, <1>4

\* The FIN numbers one more segment brings.
finsOf(e) == IF "FIN" \in e.flags THEN {finNum(e)} ELSE {}

LEMMA FinAdded ==
    ASSUME NEW out, NEW queue, NEW s
    PROVE  FinNums(out \cup {s}, queue) \subseteq FinNums(out, queue) \cup finsOf(s)
  BY DEF FinNums, finsOf

LEMMA FinAppended ==
    ASSUME NEW out, NEW queue \in Seq(RetxSeg), NEW e \in RetxSeg
    PROVE  FinNums(out, Append(queue, e)) \subseteq FinNums(out, queue) \cup finsOf(e)
<1> DEFINE q == Append(queue, e)
<1>1. /\ Len(queue) \in Nat /\ Len(q) = Len(queue) + 1 /\ q[Len(queue) + 1] = e
      /\ \A j \in 1..Len(queue) : q[j] = queue[j]
  BY AppendProperties, LenProperties
<1> HIDE DEF q
<1>2. \A j \in 1..Len(q) : q[j] = e \/ (j \in 1..Len(queue) /\ q[j] = queue[j])
  BY <1>1
<1>3. FinNums(out, q) \subseteq FinNums(out, queue) \cup finsOf(e)
  BY <1>2 DEF FinNums, finsOf
<1> QED BY <1>3 DEF q

\* Writing a segment that occupies sequence numbers also queues it.
Queued(t, u, e, ack) ==
    /\ SameRcv(t, u) /\ u.state = t.state /\ u.reached = t.reached
    /\ u.snd = t.snd /\ u.sndBuf = t.sndBuf /\ u.cong = t.cong /\ u.tmr = t.tmr
    /\ u.ts.lastAckSent = IF "ACK" \in e.flags THEN ack ELSE t.ts.lastAckSent
    /\ e \in RetxSeg /\ u.retxQueue = Append(t.retxQueue, e)
    /\ FinNums(u.out, u.retxQueue) \subseteq FinNums(t.out, t.retxQueue) \cup finsOf(e)

queueEntry(flags, seq, data) == [flags |-> flags, seq |-> seq, data |-> data, retries |-> 0]

LEMMA WriteAndQueueForm ==
    ASSUME NEW t \in TCB, NEW flags \in Flags, NEW seq \in SeqNum, NEW ack \in SeqNum,
           NEW data \in Payload, NEW o \in {"none", "syn", "ts"}, "RST" \notin flags
    PROVE  Queued(t, enqueue(writeSegOpts(t, flags, seq, ack, data, o), flags, seq, data),
                  queueEntry(flags, seq, data), ack)
<1> DEFINE w == writeSegOpts(t, flags, seq, ack, data, o)
           e == queueEntry(flags, seq, data)
           q == Append(t.retxQueue, e)
           u == [w EXCEPT !.retxQueue = q]
<1>1. PICK s : /\ w.out = t.out \cup {s} /\ s.flags = flags /\ s.seq = seq /\ s.data = data
               /\ Wrote(t, w, flags, ack)
  BY WriteSegOptsForm
<1> HIDE DEF w
<1>2. w \in TCB /\ w.retxQueue = t.retxQueue
  BY <1>1 DEF Wrote, SameRcv, SameSnd
<1>3. /\ e \in RetxSeg /\ e.flags = flags /\ e.seq = seq /\ e.data = data
  BY TcbAssumption DEF queueEntry, RetxSeg, Flags
<1>4. enqueue(w, flags, seq, data) = u
  BY <1>2 DEF enqueue, queueEntry
<1> HIDE DEF e
<1>5. q \in Seq(RetxSeg)
  BY <1>3, TcbParts, AppendProperties
<1>6. FinNums(w.out, q) \subseteq FinNums(t.out, t.retxQueue) \cup finsOf(e)
  <2>1. FinNums(w.out, q) \subseteq FinNums(w.out, t.retxQueue) \cup finsOf(e)
    BY <1>3, TcbParts, FinAppended
  <2>2. FinNums(w.out, t.retxQueue) \subseteq FinNums(t.out, t.retxQueue) \cup finsOf(s)
    BY <1>1, FinAdded
  <2>3. finsOf(s) = finsOf(e)
    BY <1>1, <1>3 DEF finsOf, finNum, segLen
  <2> QED BY <2>1, <2>2, <2>3
<1>7. q = Append(t.retxQueue, e)
  OBVIOUS
<1> HIDE DEF q
<1>8. /\ u \in TCB /\ u.rcv = w.rcv /\ u.fin = w.fin /\ u.rcvBuf = w.rcvBuf
      /\ u.oooSegs = w.oooSegs /\ u.state = w.state /\ u.reached = w.reached /\ u.snd = w.snd
      /\ u.sndBuf = w.sndBuf /\ u.cong = w.cong /\ u.tmr = w.tmr /\ u.ts = w.ts
      /\ u.retxQueue = q /\ u.out = w.out
  BY <1>2, <1>5 DEF TCB
<1> HIDE DEF u
<1>9. Queued(t, u, e, ack)
  BY <1>1, <1>3, <1>6, <1>7, <1>8 DEF Queued, Wrote, SameRcv, SameSnd
<1> QED BY <1>4, <1>9 DEF w, e

LEMMA SendDataForm ==
    ASSUME NEW t \in TCB, NEW flags \in Flags, NEW seq \in SeqNum, NEW ack \in SeqNum,
           NEW data \in Payload, segLen([flags |-> flags, data |-> data]) # 0,
           "RST" \notin flags
    PROVE  Queued(t, sendData(t, flags, seq, ack, data), queueEntry(flags, seq, data), ack)
  BY WriteAndQueueForm DEF sendData, writeSeg

LEMMA SendSynForm ==
    ASSUME NEW t \in TCB, NEW flags \in Flags, NEW seq \in SeqNum, NEW ack \in SeqNum,
           "RST" \notin flags
    PROVE  Queued(t, sendSyn(t, flags, seq, ack), queueEntry(flags, seq, <<>>), ack)
  BY WriteAndQueueForm, EmptyPayload DEF sendSyn

LEMMA SendDataKeeps ==
    ASSUME NEW t \in TCB, NEW flags \in Flags, NEW seq \in SeqNum, NEW ack \in SeqNum,
           NEW data \in Payload, "ACK" \in flags => ack = t.rcv.nxt, "FIN" \notin flags,
           "RST" \notin flags
    PROVE  Keeps(t, sendData(t, flags, seq, ack, data))
<1> DEFINE w == writeSeg(t, flags, seq, ack, data)
<1>1. Keeps(t, w)
  BY WriteSegKeeps
<1> HIDE DEF w
<1>2. w \in TCB
  BY <1>1 DEF Keeps, KeepsRcv, SameRcv
<1>3. Keeps(t, enqueue(w, flags, seq, data))
  BY <1>1, <1>2, EnqueueKeeps, KeepsTrans
<1> QED BY <1>1, <1>3 DEF sendData, w

LEMMA SendKeeps ==
    ASSUME NEW t \in TCB, NEW flags \in Flags, NEW seq \in SeqNum, NEW ack \in SeqNum,
           "ACK" \in flags => ack = t.rcv.nxt, "FIN" \notin flags,
           "RST" \notin flags
    PROVE  Keeps(t, send(t, flags, seq, ack))
  BY SendDataKeeps, EmptyPayload DEF send

LEMMA SendSynKeeps ==
    ASSUME NEW t \in TCB, NEW flags \in Flags, NEW seq \in SeqNum, NEW ack \in SeqNum,
           "ACK" \in flags => ack = t.rcv.nxt, "FIN" \notin flags,
           "RST" \notin flags
    PROVE  Keeps(t, sendSyn(t, flags, seq, ack))
<1> DEFINE w == writeSegOpts(t, flags, seq, ack, <<>>, "syn")
<1>1. Keeps(t, w)
  BY WriteSegOptsKeeps, EmptyPayload
<1> HIDE DEF w
<1>2. Keeps(t, enqueue(w, flags, seq, <<>>))
  BY <1>1, EnqueueKeeps, EmptyPayload, KeepsTrans DEF Keeps, KeepsRcv, SameRcv
<1> QED BY <1>2 DEF sendSyn, w

LEMMA SendAckKeeps ==
    ASSUME NEW t \in TCB
    PROVE  Keeps(t, sendAck(t)) /\ Settled(sendAck(t)) /\ SameSnd(t, sendAck(t))
<1> DEFINE u == [t EXCEPT !.tmr.delAck = FALSE, !.tmr.delAckCount = 0]
           x == [t.tmr EXCEPT !.delAck = FALSE, !.delAckCount = 0]
           v == writeSegOpts(u, {"ACK"}, t.snd.nxt, t.rcv.nxt, <<>>, "none")
<1>1. x \in TmrVars /\ x.persist = t.tmr.persist /\ x.override = t.tmr.override
  BY TcbParts DEF TmrVars
<1>2. u = [t EXCEPT !.tmr = x]
  BY DEF TCB, TmrVars
<1> HIDE DEF x
<1>3. /\ SameRcv(t, u) /\ SameSnd(t, u) /\ u.state = t.state /\ u.reached = t.reached
      /\ NoNewFin(t, u)
  BY <1>1, <1>2 DEF SameRcv, SameSnd, NoNewFin, TCB
<1>4. sendAck(t) = v
  <2>1. segLen([flags |-> {"ACK"}, data |-> <<>>]) = 0
    BY EmptySeq DEF segLen
  <2> QED BY <2>1 DEF sendAck, send, sendData, writeSeg
<1> HIDE DEF u
<1>5. Wrote(u, v, {"ACK"}, t.rcv.nxt)
  <2>1. {"ACK"} \in Flags /\ t.snd.nxt \in SeqNum /\ t.rcv.nxt \in SeqNum /\ u \in TCB
    BY <1>3, SndParts, RcvParts DEF Flags, SameRcv
  <2> QED BY <2>1, WriteSegOptsForm, EmptyPayload
<1> HIDE DEF v
<1>6. Settled(v)
  BY <1>3, <1>5 DEF Wrote, Settled, SameRcv
<1>7. SameSnd(t, v)
  BY <1>3, <1>5 DEF Wrote, SameSnd
<1>8. NoNewFin(t, v)
  BY <1>3, <1>5 DEF Wrote, NoNewFin
<1> QED BY <1>3, <1>4, <1>5, <1>6, <1>7, <1>8 DEF Wrote, Keeps, KeepsRcv, SameRcv

\* A segment that occupies no sequence number is written and not queued.
LEMMA SendEmptyForm ==
    ASSUME NEW t \in TCB, NEW flags \in Flags, NEW seq \in SeqNum, NEW ack \in SeqNum,
           "SYN" \notin flags, "FIN" \notin flags
    PROVE  Wrote(t, send(t, flags, seq, ack), flags, ack)
<1>1. segLen([flags |-> flags, data |-> <<>>]) = 0
  BY EmptySeq DEF segLen
<1>2. send(t, flags, seq, ack) = writeSegOpts(t, flags, seq, ack, <<>>, "none")
  BY <1>1 DEF send, sendData, writeSeg
<1> QED BY <1>2, WriteSegOptsForm, EmptyPayload

LEMMA WroteKeeps ==
    ASSUME NEW t, NEW u, NEW flags, NEW ack, Wrote(t, u, flags, ack),
           "ACK" \in flags => ack = t.rcv.nxt, "FIN" \notin flags
    PROVE  Keeps(t, u) /\ SameSnd(t, u)
  BY DEF Wrote, Keeps, KeepsRcv, SameRcv, Settled

LEMMA SendRstKeeps ==
    ASSUME NEW t \in TCB, NEW seq \in SeqNum
    PROVE  Keeps(t, sendRst(t, seq)) /\ SameSnd(t, sendRst(t, seq))
<1>1. {"RST"} \in Flags /\ 0 \in SeqNum /\ "SYN" \notin {"RST"} /\ "FIN" \notin {"RST"}
  BY SmallSeqNums DEF Flags
<1>2. Wrote(t, sendRst(t, seq), {"RST"}, 0)
  BY <1>1, SendEmptyForm DEF sendRst
<1> QED BY <1>2, WroteKeeps

LEMMA SameSndRefl == \A t : SameSnd(t, t)
  BY DEF SameSnd

LEMMA SameSndTrans ==
    ASSUME NEW t, NEW u, NEW v, SameSnd(t, u), SameSnd(u, v)
    PROVE  SameSnd(t, v)
  BY DEF SameSnd

LEMMA SendChallengeAckKeeps ==
    ASSUME NEW t \in TCB
    PROVE  Keeps(t, sendChallengeAck(t)) /\ SameSnd(t, sendChallengeAck(t))
<1>1. CASE t.challengeCount >= ChallengeAckLimit
  BY <1>1, KeepsRefl, SameSndRefl DEF sendChallengeAck
<1>2. CASE ~(t.challengeCount >= ChallengeAckLimit)
  <2> DEFINE u == [t EXCEPT !.challengeCount = @ + 1]
             v == send(u, {"ACK"}, t.snd.nxt, t.rcv.nxt)
  <2>1. t.challengeCount + 1 \in 0..ChallengeAckLimit
    BY <1>2, TcbParts, TcbAssumption
  <2>2. Keeps(t, u)
    BY <2>1 DEF Keeps, KeepsRcv, SameRcv, Settled, NoNewFin, TCB
  <2>3. SameSnd(t, u)
    BY DEF SameSnd, TCB
  <2> HIDE DEF u
  <2>4. u \in TCB /\ u.rcv = t.rcv
    BY <2>2 DEF Keeps, KeepsRcv, SameRcv
  <2>5. /\ {"ACK"} \in Flags /\ t.snd.nxt \in SeqNum /\ t.rcv.nxt \in SeqNum
        /\ "SYN" \notin {"ACK"} /\ "FIN" \notin {"ACK"}
    BY SndParts, RcvParts DEF Flags
  <2>6. Wrote(u, v, {"ACK"}, t.rcv.nxt)
    BY <2>4, <2>5, SendEmptyForm
  <2> HIDE DEF v
  <2>7. Keeps(u, v) /\ SameSnd(u, v)
    BY <2>4, <2>6, WroteKeeps
  <2> QED BY <1>2, <2>2, <2>3, <2>7, KeepsTrans, SameSndTrans DEF sendChallengeAck, u, v
<1> QED BY <1>1, <1>2

LEMMA ChallengeWindowKeeps ==
    ASSUME NEW t \in TCB
    PROVE  Keeps(t, challengeWindowPasses(t)) /\ SameSnd(t, challengeWindowPasses(t))
<1>1. 0 \in 0..ChallengeAckLimit
  BY TcbAssumption
<1>2. SameSnd(t, challengeWindowPasses(t))
  BY DEF challengeWindowPasses, SameSnd, TCB
<1> QED BY <1>1, <1>2 DEF challengeWindowPasses, Keeps, KeepsRcv, SameRcv, Settled, NoNewFin, TCB

\* The segment size the sender may use is between 1 and defaultMSS.
LEMMA EffSndMSSType ==
    ASSUME NEW t \in TCB
    PROVE  effSndMSS(t) \in 1..DefaultMSS
  BY TcbParts, TcbAssumption DEF effSndMSS, OptVars

LEMMA NewConnType ==
    ASSUME NEW iss \in SeqNum
    PROVE  NewConn(iss) \in TCB
<1> DEFINE c == newCongestion(DefaultMSS)
<1>1. c \in Cong
  BY NewCongestionType, TcbAssumption
<1> HIDE DEF c
<1>2. MaxWindow \in 0..(MaxWindow * WScale)
  BY TcbAssumption
<1>3. <<>> \in Seq(RetxSeg) /\ <<>> \in Seq(Nat)
  BY EmptySeq
<1>4. [una |-> 0, nxt |-> 0, wnd |-> 0, wl1 |-> 0, wl2 |-> 0, iss |-> iss,
       maxWnd |-> MaxWindow] \in SndVars
  BY <1>2, SmallSeqNums, TcbAssumption DEF SndVars
<1>5. [nxt |-> 0, wnd |-> 0, irs |-> 0] \in RcvVars
  BY SmallSeqNums, TcbAssumption DEF RcvVars
<1>6. /\ [scaled |-> FALSE, tsOK |-> FALSE, sendMSS |-> 0] \in OptVars
      /\ [now |-> 0, recent |-> 0, lastAckSent |-> 0] \in TsVars
      /\ [persist |-> FALSE, override |-> FALSE, delAck |-> FALSE, delAckCount |-> 0] \in TmrVars
      /\ [seen |-> FALSE, seq |-> 0] \in FinVars
  BY SmallSeqNums DEF OptVars, TsVars, TmrVars, FinVars
<1> QED BY <1>1, <1>3, <1>4, <1>5, <1>6, TcbAssumption DEF NewConn, TCB, State, c

-----------------------------------------------------------------------------
(* Sequences.                                                              *)

LEMMA FcnIsSeq ==
    ASSUME NEW S, NEW k \in Nat, NEW f \in [1..k -> S]
    PROVE  f \in Seq(S) /\ Len(f) = k
<1>1. f \in Seq(S)
  BY SeqDef
<1>2. DOMAIN f = 1..k /\ DOMAIN f = 1..Len(f) /\ Len(f) \in Nat
  BY <1>1, LenProperties
<1> QED BY <1>1, <1>2

\* A part of a sequence that lies within it.
LEMMA PartOfSeq ==
    ASSUME NEW S, NEW q \in Seq(S), NEW m \in Nat \ {0}, NEW n \in Nat, n <= Len(q)
    PROVE  /\ SubSeq(q, m, n) \in Seq(S)
           /\ Len(SubSeq(q, m, n)) = IF m <= n THEN n - m + 1 ELSE 0
<1>1. \A i \in m..n : i \in 1..Len(q)
  BY LenProperties
<1>2. \A i \in m..n : q[i] \in S
  BY <1>1, ElementOfSeq
<1> QED BY <1>2, SubSeqProperties

-----------------------------------------------------------------------------
(* Sending.                                                                *)

LEMMA TmrKeeps ==
    ASSUME NEW t \in TCB
    PROVE  /\ Keeps(t, disarmOverride(t)) /\ Keeps(t, disarmPersist(t))
           /\ Keeps(t, armOverride(t)) /\ Keeps(t, armPersist(t))
  BY DEF disarmOverride, disarmPersist, armOverride, armPersist, Keeps, KeepsRcv, SameRcv, Settled, NoNewFin,
     TCB, TmrVars

LEMMA SendUsableType ==
    ASSUME NEW t \in TCB
    PROVE  sendUsable(t) \in SeqNum /\ sendUsable(t) \in Nat
<1> DEFINE right == SeqAdd(t.snd.una, t.snd.wnd)
           rwnd == IF SeqGT(t.snd.nxt, right) THEN 0 ELSE SeqSub(right, t.snd.nxt)
           room == maxU32(0, t.cong.cwnd - flightSize(t))
<1>1. right \in SeqNum
  <2>1. t.snd.wnd \in 0..SeqSize
    BY SndParts, SmallSeqNums DEF SeqNum
  <2> QED BY <2>1, SndParts, SeqAddType
<1>2. rwnd \in SeqNum
  BY <1>1, SndParts, SeqSubType, SmallSeqNums
<1>3. room \in Nat
  <2>1. t.cong.cwnd \in Nat
    BY TcbParts DEF Cong
  <2> QED BY <2>1, FlightType DEF maxU32
<1> HIDE DEF right, rwnd, room
<1>4. minU32(room, rwnd) \in SeqNum
  <2>1. SeqSize \in Nat
    BY SmallSeqNums
  <2> QED BY <1>2, <1>3, <2>1 DEF minU32, SeqNum
<1>5. sendUsable(t) = minU32(room, rwnd)
  BY DEF sendUsable, right, rwnd, room
<1> QED BY <1>4, <1>5 DEF SeqNum

LEMMA UnsentType ==
    ASSUME NEW t \in TCB
    PROVE  unsent(t) \in Int /\ unsent(t) + flightSize(t) = Len(t.sndBuf)
  BY FlightType, TcbParts, LenProperties DEF unsent

\* What can go out now: unsent, within the windows, not more than either.
LEMMA SendableType ==
    ASSUME NEW t \in TCB, unsent(t) > 0
    PROVE  /\ minU32(unsent(t), sendUsable(t)) \in SeqNum
           /\ minU32(unsent(t), sendUsable(t)) \in Nat
           /\ minU32(unsent(t), sendUsable(t)) <= unsent(t)
           /\ sendUsable(t) # 0 => minU32(unsent(t), sendUsable(t)) > 0
<1>1. SeqSize \in Nat
  BY SmallSeqNums
<1> QED BY <1>1, SendUsableType, UnsentType DEF minU32, SeqNum

\* A cut of unsent bytes is a payload.
LEMMA CutType ==
    ASSUME NEW t \in TCB, NEW skip \in Nat, NEW n \in 0..DefaultMSS, skip + n <= unsent(t)
    PROVE  cut(t, skip, n) \in Payload
<1>1. n \in Nat
  BY TcbAssumption
<1> DEFINE b == flightSize(t) + skip + 1
           e == flightSize(t) + skip + n
<1>2. b \in Nat \ {0} /\ e \in Nat /\ e <= Len(t.sndBuf) /\ (b <= e => e - b + 1 = n)
  <2>1. flightSize(t) \in Nat
    BY FlightType
  <2>2. unsent(t) \in Int /\ unsent(t) + flightSize(t) = Len(t.sndBuf)
    BY UnsentType
  <2>3. b \in Nat \ {0} /\ e \in Nat /\ e - b + 1 = n
    BY <1>1, <2>1
  <2>4. e <= Len(t.sndBuf)
    BY <1>1, <2>1, <2>2
  <2> QED BY <2>3, <2>4
<1>3. t.sndBuf \in Seq(Nat)
  BY TcbParts
<1> HIDE DEF b, e
<1>4. SubSeq(t.sndBuf, b, e) \in Seq(Nat) /\ Len(SubSeq(t.sndBuf, b, e)) <= n
  BY <1>1, <1>2, <1>3, PartOfSeq
<1>5. SubSeq(t.sndBuf, b, e) \in Payload
  BY <1>4, <1>1, LenProperties, TcbAssumption DEF Payload
<1> QED BY <1>5 DEF cut, b, e

\* Moving SND.NXT.
LEMMA SndNxtKeeps ==
    ASSUME NEW t \in TCB, NEW n \in 0..SeqSize
    PROVE  Keeps(t, [t EXCEPT !.snd.nxt = SeqAdd(@, n)])
<1> DEFINE x == [t.snd EXCEPT !.nxt = SeqAdd(@, n)]
<1>1. SeqAdd(t.snd.nxt, n) \in SeqNum
  BY SndParts, SeqAddType
<1>2. x \in SndVars
  BY <1>1, TcbParts DEF SndVars
<1>3. [t EXCEPT !.snd.nxt = SeqAdd(@, n)] = [t EXCEPT !.snd = x]
  BY DEF TCB, SndVars
<1> HIDE DEF x
<1>4. Keeps(t, [t EXCEPT !.snd = x])
  BY <1>2 DEF Keeps, KeepsRcv, SameRcv, Settled, NoNewFin, TCB
<1> QED BY <1>3, <1>4

LEMMA EmitSegmentKeeps ==
    ASSUME NEW t \in TCB, NEW n \in Nat, n <= unsent(t), n \in SeqNum
    PROVE  Keeps(t, emitSegment(t, n))
<1> DEFINE len == minU32(n, DefaultMSS)
           sent == sendData(t, {"ACK"}, t.snd.nxt, t.rcv.nxt, cut(t, 0, len))
           u == [sent EXCEPT !.snd.nxt = SeqAdd(@, len)]
<1>1. len \in 0..DefaultMSS /\ len <= n /\ len \in 0..SeqSize /\ 0 + len <= unsent(t)
  BY TcbAssumption, UnsentType, SmallSeqNums DEF minU32
<1> HIDE DEF len
<1>2. cut(t, 0, len) \in Payload
  BY <1>1, CutType
<1>3. Keeps(t, sent)
  BY <1>2, SendDataKeeps, SndParts, RcvParts DEF Flags
<1> HIDE DEF sent
<1>4. Keeps(sent, u)
  BY <1>1, <1>3, SndNxtKeeps DEF Keeps, KeepsRcv, SameRcv
<1> HIDE DEF u
<1>5. Keeps(u, disarmOverride(u))
  BY <1>4, TmrKeeps DEF Keeps, KeepsRcv, SameRcv
<1>6. Keeps(t, disarmOverride(u))
  BY <1>3, <1>4, <1>5, KeepsTrans
<1> QED BY <1>6 DEF emitSegment, u, sent, len
LEMMA EmitSegmentsKeeps ==
    ASSUME NEW t \in TCB, NEW n \in Nat, n <= unsent(t), n \in SeqNum
    PROVE  Keeps(t, emitSegments(t, n))
<1> DEFINE idle == t.snd.nxt = t.snd.una
           S == {i \in 0..(n - 1) : canSend(t, n - i * DefaultMSS, idle)}
           k == LoopCount(S, n)
           piece(i) == cut(t, (i - 1) * DefaultMSS, minU32(n - (i - 1) * DefaultMSS, DefaultMSS))
           entry(i) == [flags |-> {"ACK"}, seq |-> SeqAdd(t.snd.nxt, (i - 1) * DefaultMSS),
                        data |-> piece(i), retries |-> 0]
           wire(i) == [flags |-> {"ACK"}, seq |-> entry(i).seq, ack |-> t.rcv.nxt,
                       win |-> advertised(t, {"ACK"}), data |-> piece(i),
                       opts |-> IF t.opt.tsOK THEN "ts" ELSE "none",
                       tsval |-> IF t.opt.tsOK THEN t.ts.now ELSE 0]
           out == t.out \cup {wire(i) : i \in 1..k}
           new == [i \in 1..k |-> entry(i)]
           q == t.retxQueue \o new
           len == minU32(n, k * DefaultMSS)
           snd == [t.snd EXCEPT !.nxt = SeqAdd(@, len)]
           ts == [t.ts EXCEPT !.lastAckSent = t.rcv.nxt]
           tmr == [t.tmr EXCEPT !.override = FALSE]
           u == [t EXCEPT !.out = out, !.retxQueue = q, !.snd = snd, !.ts = ts, !.tmr = tmr]
<1>1. k \in 0..n /\ \A i \in 0..(k - 1) : i \in S
  <2>1. S \in SUBSET (0..(n - 1))
    OBVIOUS
  <2> HIDE DEF S
  <2> QED BY <2>1, LoopCountType
<1>2. \A i \in 1..k : (i - 1) * DefaultMSS \in Nat /\ (i - 1) * DefaultMSS < n
  <2> TAKE i \in 1..k
  <2>1. i - 1 \in 0..(k - 1) /\ i - 1 \in Nat
    BY <1>1
  <2>2. canSend(t, n - (i - 1) * DefaultMSS, idle)
    BY <1>1, <2>1
  <2>3. (i - 1) * DefaultMSS \in Nat
    BY <2>1, TcbAssumption
  <2> QED BY <2>2, <2>3 DEF canSend
<1> HIDE DEF k
<1>3. \A i \in 1..k : piece(i) \in Payload /\ SeqAdd(t.snd.nxt, (i - 1) * DefaultMSS) \in SeqNum
  <2> TAKE i \in 1..k
  <2> DEFINE o == (i - 1) * DefaultMSS
             m == minU32(n - o, DefaultMSS)
  <2>1. o \in Nat /\ o < n
    BY <1>2
  <2> HIDE DEF o
  <2>2. m \in 0..DefaultMSS /\ o + m <= unsent(t)
    BY <2>1, UnsentType, TcbAssumption DEF minU32
  <2>3. o \in 0..SeqSize
    BY <2>1, SmallSeqNums DEF SeqNum
  <2> HIDE DEF m
  <2>4. cut(t, o, m) \in Payload
    BY <2>1, <2>2, CutType
  <2>5. SeqAdd(t.snd.nxt, o) \in SeqNum
    BY <2>3, SndParts, SeqAddType
  <2> QED BY <2>4, <2>5 DEF o, m
<1>4. \A i \in 1..k : entry(i) \in RetxSeg
  <2>1. 0 \in 0..MaxRetransmits
    BY TcbAssumption
  <2> HIDE DEF piece
  <2> QED BY <1>3, <2>1 DEF RetxSeg
<1>5. \A i \in 1..k : wire(i) \in Segment
  <2>1. /\ t.rcv.nxt \in SeqNum /\ t.ts.now \in SeqNum /\ 0 \in SeqNum
        /\ advertised(t, {"ACK"}) \in 0..MaxWindow
    BY RcvParts, TcbParts, SmallSeqNums, AdvertisedType DEF TsVars
  <2> HIDE DEF piece
  <2> QED BY <1>3, <2>1 DEF Segment
<1>6. out \in SUBSET Segment
  <2> HIDE DEF wire
  <2> QED BY <1>5, TcbParts
<1>7. q \in Seq(RetxSeg)
  <2>1. k \in Nat
    BY <1>1
  <2> HIDE DEF entry
  <2>2. new \in [1..k -> RetxSeg]
    BY <1>4
  <2> HIDE DEF new
  <2>3. new \in Seq(RetxSeg)
    BY <2>1, <2>2, FcnIsSeq
  <2> QED BY <2>3, TcbParts, ConcatProperties
<1>f. FinNums(out, q) \subseteq FinNums(t.out, t.retxQueue)
  <2>1. \A i \in 1..k : "FIN" \notin wire(i).flags /\ "FIN" \notin entry(i).flags
    OBVIOUS
  <2> HIDE DEF wire, entry
  <2>2. {x \in out : "FIN" \in x.flags} \subseteq {x \in t.out : "FIN" \in x.flags}
    BY <2>1
  <2>3. /\ t.retxQueue \in Seq(RetxSeg) /\ Len(t.retxQueue) \in Nat
        /\ new \in Seq(RetxSeg) /\ Len(new) = k /\ k \in Nat
    <3>1. k \in Nat /\ new \in [1..k -> RetxSeg]
      BY <1>1, <1>4
    <3> HIDE DEF new
    <3> QED BY <3>1, FcnIsSeq, TcbParts, LenProperties
  <2>4. /\ Len(q) = Len(t.retxQueue) + k
        /\ \A j \in 1..Len(q) : q[j] = IF j <= Len(t.retxQueue) THEN t.retxQueue[j]
                                       ELSE new[j - Len(t.retxQueue)]
    <3> HIDE DEF new
    <3> QED BY <2>3, ConcatProperties
  <2>5. \A j \in 1..k : new[j] = entry(j)
    OBVIOUS
  <2> HIDE DEF q, new
  <2>6. \A j \in 1..Len(q) : "FIN" \in q[j].flags =>
            j \in 1..Len(t.retxQueue) /\ q[j] = t.retxQueue[j]
    <3> SUFFICES ASSUME NEW j \in 1..Len(q), "FIN" \in q[j].flags
                 PROVE  j \in 1..Len(t.retxQueue) /\ q[j] = t.retxQueue[j]
      OBVIOUS
    <3>1. CASE j <= Len(t.retxQueue)
      BY <2>3, <2>4, <3>1
    <3>2. CASE ~(j <= Len(t.retxQueue))
      <4>1. j - Len(t.retxQueue) \in 1..k
        BY <2>3, <2>4, <3>2
      <4> QED BY <2>1, <2>4, <2>5, <3>2, <4>1
    <3> QED BY <3>1, <3>2
  <2> HIDE DEF out
  <2> QED BY <2>2, <2>6 DEF FinNums
<1>8. snd \in SndVars
  <2>1. k * DefaultMSS \in Nat
    BY <1>1, TcbAssumption
  <2>2. len \in 0..SeqSize
    BY <2>1, SmallSeqNums DEF minU32, SeqNum
  <2> HIDE DEF len
  <2>3. SeqAdd(t.snd.nxt, len) \in SeqNum
    BY <2>2, SndParts, SeqAddType
  <2> QED BY <2>3, TcbParts DEF SndVars
<1>9. ts \in TsVars /\ tmr \in TmrVars /\ ts.lastAckSent = t.rcv.nxt
  BY TcbParts, RcvParts DEF TsVars, TmrVars
<1>10. emitSegments(t, n) = IF k = 0 THEN t ELSE u
  <2>1. emitSegments(t, n) =
          IF k = 0 THEN t
          ELSE [t EXCEPT !.out = @ \cup {wire(i) : i \in 1..k},
                         !.retxQueue = @ \o [i \in 1..k |-> entry(i)],
                         !.snd.nxt = SeqAdd(@, minU32(n, k * DefaultMSS)),
                         !.ts.lastAckSent = t.rcv.nxt,
                         !.tmr.override = FALSE]
    BY DEF emitSegments, k
  <2> HIDE DEF wire, entry
  <2> QED BY <2>1 DEF TCB, SndVars, TsVars, TmrVars
<1> HIDE DEF out, q, snd, ts, tmr
<1>11. /\ SameRcv(t, u) /\ u.state = t.state /\ u.reached = t.reached
       /\ u.ts = ts /\ u.rcv = t.rcv /\ u.out = out /\ u.retxQueue = q
  BY <1>6, <1>7, <1>8, <1>9 DEF SameRcv, TCB
<1> HIDE DEF u
<1>12. Keeps(t, u)
  BY <1>f, <1>9, <1>11 DEF Keeps, KeepsRcv, Settled, NoNewFin
<1> QED BY <1>10, <1>12, KeepsRefl

LEMMA FlushSendKeeps ==
    ASSUME NEW t \in TCB
    PROVE  Keeps(t, flushSend(t))
<1> DEFINE sent == emitSegments(t, minU32(unsent(t), sendUsable(t)))
<1>1. CASE unsent(t) <= 0
  <2>1. Keeps(t, disarmOverride(t))
    BY TmrKeeps
  <2>2. Keeps(t, disarmPersist(disarmOverride(t)))
    BY <2>1, TmrKeeps, KeepsTrans DEF Keeps, KeepsRcv, SameRcv
  <2> QED BY <1>1, <2>2 DEF flushSend
<1>2. CASE ~(unsent(t) <= 0)
  <2>1. unsent(t) > 0
    BY <1>2, UnsentType
  <2>2. Keeps(t, sent)
    BY <2>1, SendableType, EmitSegmentsKeeps
  <2> HIDE DEF sent
  <2>3. Keeps(t, disarmOverride(sent)) /\ Keeps(t, armOverride(sent))
    BY <2>2, TmrKeeps, KeepsTrans DEF Keeps, KeepsRcv, SameRcv
  <2>4. Keeps(t, disarmPersist(disarmOverride(sent)))
    BY <2>3, TmrKeeps, KeepsTrans DEF Keeps, KeepsRcv, SameRcv
  <2>5. Keeps(t, armPersist(t))
    BY TmrKeeps
  <2> QED BY <1>2, <2>3, <2>4, <2>5 DEF flushSend, sent
<1> QED BY <1>1, <1>2

LEMMA SendUserDataKeeps ==
    ASSUME NEW t \in TCB, NEW data \in Seq(Nat)
    PROVE  Keeps(t, Send(t, data))
<1> DEFINE b == t.sndBuf \o data
           u == [t EXCEPT !.sndBuf = b]
<1>1. b \in Seq(Nat)
  BY TcbParts, ConcatProperties
<1> HIDE DEF b
<1>2. Keeps(t, u)
  BY <1>1 DEF Keeps, KeepsRcv, SameRcv, Settled, NoNewFin, TCB
<1> HIDE DEF u
<1>3. Keeps(t, flushSend(u))
  BY <1>2, FlushSendKeeps, KeepsTrans DEF Keeps, KeepsRcv, SameRcv
<1> QED BY <1>3 DEF Send, u, b

LEMMA ReleaseAckedSendKeeps ==
    ASSUME NEW t \in TCB, NEW acked \in Nat
    PROVE  Keeps(t, releaseAckedSend(t, acked))
<1> DEFINE b == SubSeq(t.sndBuf, minU32(acked, Len(t.sndBuf)) + 1, Len(t.sndBuf))
<1>1. t.sndBuf \in Seq(Nat) /\ Len(t.sndBuf) \in Nat
  BY TcbParts, LenProperties
<1>2. minU32(acked, Len(t.sndBuf)) + 1 \in Nat \ {0}
  BY <1>1 DEF minU32
<1>3. b \in Seq(Nat)
  BY <1>1, <1>2, PartOfSeq
<1>4. releaseAckedSend(t, acked) = [t EXCEPT !.sndBuf = b]
  BY DEF releaseAckedSend
<1> HIDE DEF b
<1>5. Keeps(t, [t EXCEPT !.sndBuf = b])
  BY <1>3 DEF Keeps, KeepsRcv, SameRcv, Settled, NoNewFin, TCB
<1> QED BY <1>4, <1>5

LEMMA ProbePersistKeeps ==
    ASSUME NEW t \in TCB
    PROVE  Keeps(t, probePersist(t))
<1>1. CASE unsent(t) <= 0 \/ t.snd.wnd # 0
  BY <1>1, KeepsRefl DEF probePersist
<1>2. CASE ~(unsent(t) <= 0 \/ t.snd.wnd # 0)
  <2> DEFINE sent == sendData(t, {"ACK"}, t.snd.nxt, t.rcv.nxt, cut(t, 0, 1))
  <2>1. 0 + 1 <= unsent(t) /\ 1 \in 0..DefaultMSS /\ 1 \in 0..SeqSize
    BY <1>2, UnsentType, TcbAssumption, SmallSeqNums
  <2>2. cut(t, 0, 1) \in Payload
    BY <2>1, CutType
  <2>3. Keeps(t, sent)
    BY <2>2, SendDataKeeps, SndParts, RcvParts DEF Flags
  <2> HIDE DEF sent
  <2>4. Keeps(t, [sent EXCEPT !.snd.nxt = SeqAdd(@, 1)])
    BY <2>1, <2>3, SndNxtKeeps, KeepsTrans, KeepsType
  <2> QED BY <1>2, <2>4 DEF probePersist, sent
<1> QED BY <1>1, <1>2

LEMMA FireOverrideKeeps ==
    ASSUME NEW t \in TCB
    PROVE  Keeps(t, fireOverride(t))
<1>1. CASE unsent(t) <= 0 \/ sendUsable(t) = 0
  BY <1>1, TmrKeeps DEF fireOverride
<1>2. CASE ~(unsent(t) <= 0 \/ sendUsable(t) = 0)
  <2>1. unsent(t) > 0
    BY <1>2, UnsentType
  <2>2. Keeps(t, emitSegment(t, minU32(unsent(t), sendUsable(t))))
    BY <2>1, SendableType, EmitSegmentKeeps
  <2> QED BY <1>2, <2>2 DEF fireOverride
<1> QED BY <1>1, <1>2

-----------------------------------------------------------------------------
(* Receiving.                                                              *)

\* The numbers of trimToWindow: how much it cuts off on the left and on the
\* right of a payload of len bytes at seq.
trimLeft(nxt, seq) == IF SeqLT(seq, nxt) THEN SeqSub(nxt, seq) ELSE 0
trimRight(right, seq, len) ==
    IF SeqGT(SeqAdd(seq, len), right) THEN SeqSub(SeqAdd(seq, len), right) ELSE 0

\* What is left of a payload at the left edge fits the window.
LEMMA TrimArithmetic ==
    ASSUME NEW nxt \in SeqNum, NEW seq \in SeqNum, NEW wnd \in 0..RcvBuff,
           NEW len \in 0..DefaultMSS
    PROVE  LET skip == trimLeft(nxt, seq)
               over == trimRight(SeqAdd(nxt, wnd), seq, len)
           IN /\ skip \in Nat /\ over \in Nat
              /\ skip + over < len /\ (skip > 0 \/ seq = nxt) => len - over - skip <= wnd
  BY HalfSeqSpaceAssumption, TcbAssumption
     DEF trimLeft, trimRight, SeqAdd, SeqSub, SeqLT, SeqGT, SeqNum, SeqSize

LEMMA TrimType ==
    ASSUME NEW t \in TCB, NEW s, s.seq \in SeqNum, s.data \in Payload
    PROVE  /\ trimToWindow(t, s) \in Fragment
           /\ Len(trimToWindow(t, s).data) \in Nat
           /\ trimToWindow(t, s).seq = t.rcv.nxt => Len(trimToWindow(t, s).data) <= t.rcv.wnd
<1> DEFINE len == Len(s.data)
           skip == trimLeft(t.rcv.nxt, s.seq)
           over == trimRight(SeqAdd(t.rcv.nxt, t.rcv.wnd), s.seq, len)
           first == IF skip > 0 THEN t.rcv.nxt ELSE s.seq
           data == IF skip + over >= len THEN <<>> ELSE SubSeq(s.data, skip + 1, len - over)
<1>1. trimToWindow(t, s) = [seq |-> first, data |-> data]
  BY DEF trimToWindow, trimLeft, trimRight
<1>2. s.data \in Seq(Nat) /\ len \in Nat /\ len <= DefaultMSS /\ len \in 0..DefaultMSS
  BY LenProperties, TcbAssumption DEF Payload
<1> HIDE DEF len
<1>3. /\ skip \in Nat /\ over \in Nat
      /\ skip + over < len /\ (skip > 0 \/ s.seq = t.rcv.nxt) => len - over - skip <= t.rcv.wnd
  BY <1>2, RcvParts, TrimArithmetic
<1> HIDE DEF skip, over
<1>4. CASE skip + over >= len
  <2>1. data = <<>> /\ Len(data) = 0
    BY <1>4, EmptySeq
  <2>2. data \in Payload
    BY <2>1, EmptyPayload
  <2>3. first \in SeqNum /\ 0 <= t.rcv.wnd
    BY RcvParts, TcbAssumption
  <2> HIDE DEF data, first
  <2>4. [seq |-> first, data |-> data] \in Fragment
    BY <2>2, <2>3 DEF Fragment
  <2> QED BY <1>1, <2>1, <2>3, <2>4
<1>5. CASE ~(skip + over >= len)
  <2>1. skip + 1 \in Nat \ {0} /\ len - over \in Nat /\ len - over <= len /\ skip + 1 <= len - over
    BY <1>2, <1>3, <1>5
  <2>2. data \in Seq(Nat) /\ Len(data) = len - over - (skip + 1) + 1
    BY <1>2, <1>5, <2>1, PartOfSeq DEF len
  <2>3. Len(data) = len - over - skip /\ Len(data) \in Nat /\ Len(data) <= DefaultMSS
    BY <1>2, <1>3, <2>1, <2>2, TcbAssumption
  <2>4. data \in Payload
    BY <2>2, <2>3 DEF Payload
  <2> HIDE DEF data
  <2>5. first = t.rcv.nxt => Len(data) <= t.rcv.wnd
    BY <1>2, <1>3, <1>5, <2>3
  <2> QED BY <1>1, <2>3, <2>4, <2>5, RcvParts DEF Fragment
<1> QED BY <1>4, <1>5

LEMMA InsertOooType ==
    ASSUME NEW t \in TCB, NEW f \in Fragment
    PROVE  LET u == insertOoo(t, f) IN
             /\ u \in TCB /\ u.rcv = t.rcv /\ u.fin = t.fin /\ u.rcvBuf = t.rcvBuf
             /\ u.state = t.state /\ u.reached = t.reached /\ SameSnd(t, u) /\ u.out = t.out
             /\ u.oooSegs \subseteq t.oooSegs \cup {f}
<1> DEFINE o == t.oooSegs \cup {f}
<1>1. o \in SUBSET Fragment
  BY TcbParts
<1>2. insertOoo(t, f) = t \/ insertOoo(t, f) = [t EXCEPT !.oooSegs = o]
  BY DEF insertOoo
<1> HIDE DEF o
<1>3. [t EXCEPT !.oooSegs = o] \in TCB
  BY <1>1 DEF TCB
<1>4. /\ [t EXCEPT !.oooSegs = o].rcv = t.rcv /\ [t EXCEPT !.oooSegs = o].fin = t.fin
      /\ [t EXCEPT !.oooSegs = o].rcvBuf = t.rcvBuf /\ [t EXCEPT !.oooSegs = o].state = t.state
      /\ [t EXCEPT !.oooSegs = o].oooSegs = o /\ SameSnd(t, [t EXCEPT !.oooSegs = o])
      /\ [t EXCEPT !.oooSegs = o].reached = t.reached /\ [t EXCEPT !.oooSegs = o].out = t.out
  BY DEF TCB, SameSnd
<1> QED BY <1>2, <1>3, <1>4 DEF o, SameSnd

\* Among the fragments that hold byte q there is one that reaches back
\* furthest and is longest, so holder chooses a fragment that holds q.
LEMMA HolderType ==
    ASSUME NEW frags \in SUBSET Fragment, NEW q \in SeqNum, \E f \in frags : holds(f, q)
    PROVE  holder(frags, q) \in frags /\ holds(holder(frags, q), q)
<1> DEFINE back(f) == SeqSub(q, f.seq)
           H == {f \in frags : holds(f, q)}
           Backs == {back(f) : f \in H}
<1>1. \A f \in H : /\ f \in frags /\ back(f) \in SeqNum /\ back(f) \in 0..SeqSize
                    /\ Len(f.data) \in 0..DefaultMSS
  <2> TAKE f \in H
  <2>1. f \in Fragment /\ f.seq \in SeqNum /\ f.data \in Payload
    BY DEF Fragment
  <2>2. Len(f.data) \in 0..DefaultMSS
    BY <2>1, LenProperties, TcbAssumption DEF Payload
  <2>3. back(f) \in SeqNum
    BY <2>1, SeqSubType
  <2>4. back(f) \in 0..SeqSize
    BY <2>3, SmallSeqNums DEF SeqNum
  <2> QED BY <2>2, <2>3, <2>4
<1>2. PICK b \in Backs : \A c \in Backs : c <= b
  <2>1. H # {}
    OBVIOUS
  <2> HIDE DEF back, H
  <2>2. Backs # {} /\ Backs \in SUBSET (0..SeqSize)
    BY <1>1, <2>1
  <2> HIDE DEF Backs
  <2> QED BY <2>2, GreatestElement, SmallSeqNums
<1> DEFINE F == {f \in H : back(f) = b}
           Lens == {Len(f.data) : f \in F}
<1>3. PICK l \in Lens : \A m \in Lens : m <= l
  <2>1. F # {}
    BY <1>2
  <2>2. \A f \in F : Len(f.data) \in 0..DefaultMSS
    BY <1>1
  <2> HIDE DEF F
  <2>3. Lens # {} /\ Lens \in SUBSET (0..DefaultMSS)
    BY <2>1, <2>2
  <2>4. DefaultMSS \in Nat
    BY TcbAssumption
  <2> HIDE DEF Lens
  <2> QED BY <2>3, <2>4, GreatestElement
<1>4. PICK f \in F : Len(f.data) = l
  BY <1>3
<1>5. \A g \in frags : holds(g, q) =>
          \/ back(g) < back(f)
          \/ g.seq = f.seq /\ Len(g.data) <= Len(f.data)
  <2> SUFFICES ASSUME NEW g \in frags, holds(g, q), ~(back(g) < back(f))
               PROVE  g.seq = f.seq /\ Len(g.data) <= Len(f.data)
    OBVIOUS
  <2>1. g \in H /\ f \in H /\ back(f) = b
    OBVIOUS
  <2>2. back(g) \in Backs
    BY <2>1
  <2>3. back(g) = back(f)
    <3>1. back(g) <= b
      BY <1>2, <2>2
    <3>2. back(g) \in Int /\ back(f) \in Int
      BY <1>1, <2>1, SmallSeqNums
    <3> QED BY <2>1, <3>1, <3>2
  <2>4. g.seq = f.seq
    <3>1. g.seq \in SeqNum /\ f.seq \in SeqNum
      BY <2>1 DEF Fragment
    <3> QED BY <2>3, <3>1, HalfSeqSpaceAssumption DEF SeqSub, SeqNum, SeqSize
  <2>5. Len(g.data) <= Len(f.data)
    BY <1>3, <1>4, <2>1, <2>3
  <2> QED BY <2>4, <2>5
<1>6. f \in frags /\ holds(f, q)
  OBVIOUS
<1> QED BY <1>5, <1>6 DEF holder

\* The effect of drainOoo: it takes n bytes, each held by some fragment, and
\* stops at a byte no fragment holds (or after a whole buffer).
Drained(t, u, n) ==
    /\ u \in TCB /\ u.state = t.state /\ u.fin = t.fin /\ u.reached = t.reached /\ SameSnd(t, u)
    /\ u.out = t.out
    /\ u.rcv = [t.rcv EXCEPT !.nxt = SeqAdd(t.rcv.nxt, n)]
    /\ Len(u.rcvBuf) = Len(t.rcvBuf) + n
    /\ u.oooSegs = {f \in t.oooSegs : ~SeqLEQ(SeqAdd(f.seq, Len(f.data)), SeqAdd(t.rcv.nxt, n))}
    /\ \A j \in 0..(n - 1) : \E f \in t.oooSegs : holds(f, SeqAdd(t.rcv.nxt, j))
    /\ n < RcvBuff => \A f \in t.oooSegs : ~holds(f, SeqAdd(t.rcv.nxt, n))

LEMMA DrainOooEffect ==
    ASSUME NEW t \in TCB
    PROVE  \E n \in 0..RcvBuff : Drained(t, drainOoo(t), n)
<1> DEFINE at(j) == SeqAdd(t.rcv.nxt, j)
           S == {j \in 0..(RcvBuff - 1) : \E f \in t.oooSegs : holds(f, at(j))}
           n == LoopCount(S, RcvBuff)
           taken(j) == LET f == holder(t.oooSegs, at(j)) IN f.data[SeqSub(at(j), f.seq) + 1]
           new == [j \in 1..n |-> taken(j - 1)]
           buf == t.rcvBuf \o new
           rcv == [t.rcv EXCEPT !.nxt = at(n)]
           ooo == {f \in t.oooSegs : ~SeqLEQ(SeqAdd(f.seq, Len(f.data)), at(n))}
           u == [t EXCEPT !.rcvBuf = buf, !.rcv = rcv, !.oooSegs = ooo]
<1>1. n \in 0..RcvBuff /\ n \notin S /\ \A j \in 0..(n - 1) : j \in S
  <2>1. S \in SUBSET (0..(RcvBuff - 1)) /\ RcvBuff \in Nat
    BY TcbAssumption
  <2> HIDE DEF S
  <2> QED BY <2>1, LoopCountType
<1> HIDE DEF n
<1>2. \A j \in 0..RcvBuff : at(j) \in SeqNum
  <2>1. \A j \in 0..RcvBuff : j \in 0..SeqSize
    BY SmallSeqNums, TcbAssumption DEF SeqNum
  <2> QED BY <2>1, RcvParts, SeqAddType
<1>3. \A j \in 0..(n - 1) : taken(j) \in Nat
  <2> TAKE j \in 0..(n - 1)
  <2> DEFINE f == holder(t.oooSegs, at(j))
  <2>1. j \in 0..RcvBuff /\ \E g \in t.oooSegs : holds(g, at(j))
    BY <1>1, TcbAssumption
  <2>2. at(j) \in SeqNum
    BY <1>2, <2>1
  <2> HIDE DEF at
  <2>3. f \in t.oooSegs /\ holds(f, at(j))
    BY <2>1, <2>2, TcbParts, HolderType
  <2> HIDE DEF f
  <2>4. f \in Fragment
    BY <2>3, TcbParts
  <2>5. f.seq \in SeqNum /\ f.data \in Seq(Nat)
    BY <2>4 DEF Fragment, Payload
  <2>6. SeqSub(at(j), f.seq) \in Nat
    BY <2>2, <2>5, SeqSubType, SeqNumNat
  <2>7. SeqSub(at(j), f.seq) + 1 \in 1..Len(f.data)
    BY <2>3, <2>5, <2>6, LenProperties DEF holds
  <2>8. f.data[SeqSub(at(j), f.seq) + 1] \in Nat
    BY <2>5, <2>7, ElementOfSeq
  <2> QED BY <2>8 DEF f
<1> HIDE DEF taken
<1>4. new \in Seq(Nat) /\ Len(new) = n
  <2>1. n \in Nat /\ \A j \in 1..n : j - 1 \in 0..(n - 1)
    BY <1>1
  <2>2. new \in [1..n -> Nat]
    BY <1>3, <2>1
  <2> HIDE DEF new
  <2> QED BY <2>1, <2>2, FcnIsSeq
<1> HIDE DEF new
<1>5. buf \in Seq(Nat) /\ Len(buf) = Len(t.rcvBuf) + n
  BY <1>4, TcbParts, ConcatProperties
<1>6. rcv \in RcvVars
  BY <1>1, <1>2, TcbParts DEF RcvVars
<1>7. ooo \in SUBSET Fragment
  BY TcbParts
<1>8. drainOoo(t) = u
  BY DEF drainOoo, n, S, taken, new, TCB, RcvVars
<1> HIDE DEF buf, rcv, ooo
<1>9. /\ u \in TCB /\ u.state = t.state /\ u.fin = t.fin /\ u.rcv = rcv
      /\ u.rcvBuf = buf /\ u.oooSegs = ooo /\ u.reached = t.reached /\ SameSnd(t, u)
      /\ u.out = t.out
  BY <1>5, <1>6, <1>7 DEF TCB, SameSnd
<1> HIDE DEF u
<1>10. n < RcvBuff => \A f \in t.oooSegs : ~holds(f, SeqAdd(t.rcv.nxt, n))
  BY <1>1, TcbAssumption
<1>11. \A j \in 0..(n - 1) : \E f \in t.oooSegs : holds(f, SeqAdd(t.rcv.nxt, j))
  BY <1>1
<1>12. Drained(t, u, n)
  BY <1>5, <1>9, <1>10, <1>11 DEF Drained, rcv, ooo
<1> QED BY <1>1, <1>8, <1>12

LEMMA OnDelayableSegmentKeeps ==
    ASSUME NEW t \in TCB
    PROVE  /\ Keeps(t, onDelayableSegment(t)) /\ Settled(onDelayableSegment(t))
           /\ SameSnd(t, onDelayableSegment(t))
<1>1. CASE t.tmr.delAckCount + 1 >= 2
  BY <1>1, SendAckKeeps DEF onDelayableSegment
<1>2. CASE ~(t.tmr.delAckCount + 1 >= 2)
  <2> DEFINE x == [t.tmr EXCEPT !.delAckCount = @ + 1, !.delAck = TRUE]
  <2>1. t.tmr.delAckCount + 1 \in {0, 1}
    BY <1>2, TcbParts DEF TmrVars
  <2>2. x \in TmrVars /\ x.delAck /\ x.persist = t.tmr.persist /\ x.override = t.tmr.override
    BY <2>1, TcbParts DEF TmrVars
  <2>3. onDelayableSegment(t) = [t EXCEPT !.tmr = x]
    BY <1>2 DEF onDelayableSegment, TCB, TmrVars
  <2> HIDE DEF x
  <2> DEFINE u == [t EXCEPT !.tmr = x]
  <2>4. /\ SameRcv(t, u) /\ u.state = t.state /\ u.reached = t.reached /\ u.tmr = x
        /\ SameSnd(t, u) /\ NoNewFin(t, u)
    BY <2>2 DEF SameRcv, SameSnd, NoNewFin, TCB
  <2> HIDE DEF u
  <2>5. Keeps(t, u) /\ Settled(u)
    BY <2>2, <2>4 DEF Keeps, KeepsRcv, Settled
  <2> QED BY <2>3, <2>4, <2>5 DEF u
<1> QED BY <1>1, <1>2

LEMMA ConsumeRcvWindowType ==
    ASSUME NEW t \in TCB, NEW n \in Nat
    PROVE  LET u == consumeRcvWindow(t, n) IN
             /\ u \in TCB /\ u.state = t.state /\ u.fin = t.fin
             /\ u.rcvBuf = t.rcvBuf /\ u.oooSegs = t.oooSegs
             /\ u.reached = t.reached /\ SameSnd(t, u) /\ u.out = t.out
             /\ u.rcv = [t.rcv EXCEPT !.wnd = maxU32(0, t.rcv.wnd - n)]
<1> DEFINE rcv == [t.rcv EXCEPT !.wnd = maxU32(0, t.rcv.wnd - n)]
<1>1. maxU32(0, t.rcv.wnd - n) \in 0..RcvBuff
  BY RcvParts, TcbAssumption DEF maxU32
<1>2. rcv \in RcvVars
  BY <1>1, TcbParts DEF RcvVars
<1>3. consumeRcvWindow(t, n) = [t EXCEPT !.rcv = rcv]
  BY DEF consumeRcvWindow, TCB, RcvVars
<1> HIDE DEF rcv
<1>4. LET u == [t EXCEPT !.rcv = rcv] IN
             /\ u \in TCB /\ u.state = t.state /\ u.fin = t.fin
             /\ u.rcvBuf = t.rcvBuf /\ u.oooSegs = t.oooSegs /\ u.rcv = rcv
             /\ u.reached = t.reached /\ SameSnd(t, u) /\ u.out = t.out
  BY <1>2 DEF TCB, SameSnd
<1> QED BY <1>3, <1>4 DEF rcv

\* The effect of in-order text: len bytes of the segment and n more from
\* fragments are appended, and the window shrinks by as much.
TextTaken(t, u, len, n) ==
    /\ u \in TCB /\ u.state = t.state /\ u.fin = t.fin /\ u.reached = t.reached /\ SameSnd(t, u)
    /\ NoNewFin(t, u)
    /\ u.rcv.nxt = SeqAdd(t.rcv.nxt, len + n) /\ u.rcv.irs = t.rcv.irs
    /\ u.rcv.wnd = maxU32(0, t.rcv.wnd - (len + n))
    /\ Len(u.rcvBuf) = Len(t.rcvBuf) + len + n
    /\ u.oooSegs = {f \in t.oooSegs : ~SeqLEQ(SeqAdd(f.seq, Len(f.data)), u.rcv.nxt)}
    /\ \A j \in 0..(n - 1) : \E f \in t.oooSegs : holds(f, SeqAdd(t.rcv.nxt, len + j))
    /\ n < RcvBuff => \A f \in t.oooSegs : ~holds(f, SeqAdd(t.rcv.nxt, len + n))

\* Twice the buffer is less than the whole space.
LEMMA SumInSpace ==
    ASSUME NEW m \in 0..RcvBuff, NEW n \in 0..RcvBuff
    PROVE  m + n \in SeqNum /\ m \in Nat /\ n \in Nat /\ m + n \in Nat /\ m \in SeqNum
  BY HalfSeqSpaceAssumption, TcbAssumption DEF SeqNum, SeqSize

LEMMA InOrderTextEffect ==
    ASSUME NEW t \in TCB, NEW data \in Payload, Len(data) <= t.rcv.wnd
    PROVE  LET stored == drainOoo([t EXCEPT !.rcvBuf = @ \o data,
                                            !.rcv.nxt = SeqAdd(@, Len(data))])
           IN \E n \in 0..RcvBuff :
                TextTaken(t, consumeRcvWindow(stored, SeqSub(stored.rcv.nxt, t.rcv.nxt)),
                          Len(data), n)
<1> DEFINE len == Len(data)
           nxt == SeqAdd(t.rcv.nxt, len)
           rcv == [t.rcv EXCEPT !.nxt = nxt]
           buf == t.rcvBuf \o data
           v == [t EXCEPT !.rcvBuf = buf, !.rcv = rcv]
           d == drainOoo(v)
           m == SeqSub(d.rcv.nxt, t.rcv.nxt)
           u == consumeRcvWindow(d, m)
<1>1. data \in Seq(Nat) /\ len \in 0..RcvBuff
  BY LenProperties, RcvParts, TcbAssumption DEF Payload
<1>2. buf \in Seq(Nat) /\ Len(buf) = Len(t.rcvBuf) + len
  BY <1>1, TcbParts, ConcatProperties
<1>3. t.rcvBuf \in Seq(Nat) /\ Len(t.rcvBuf) \in Nat
  BY TcbParts, LenProperties
<1> HIDE DEF len
<1>4. nxt \in SeqNum
  BY <1>1, SmallSeqNums, SeqNumNat, RcvParts, SeqAddType
<1>5. rcv \in RcvVars /\ rcv.nxt = nxt /\ rcv.wnd = t.rcv.wnd /\ rcv.irs = t.rcv.irs
  BY <1>4, TcbParts DEF RcvVars
<1>6. [t EXCEPT !.rcvBuf = @ \o data, !.rcv.nxt = SeqAdd(@, Len(data))] = v
  BY DEF TCB, RcvVars, len
<1> HIDE DEF buf, rcv
<1>7. /\ v \in TCB /\ v.state = t.state /\ v.fin = t.fin /\ v.rcv = rcv /\ v.rcvBuf = buf
      /\ v.oooSegs = t.oooSegs /\ v.reached = t.reached /\ SameSnd(t, v) /\ v.out = t.out
  BY <1>2, <1>5 DEF TCB, SameSnd
<1> HIDE DEF v
<1>8. PICK n \in 0..RcvBuff : Drained(v, d, n)
  BY <1>7, DrainOooEffect
<1> HIDE DEF d
<1>9. \A j \in 0..RcvBuff : SeqAdd(nxt, j) = SeqAdd(t.rcv.nxt, len + j)
  <2> TAKE j \in 0..RcvBuff
  <2>1. len \in Nat /\ j \in Nat /\ len + j \in SeqNum
    BY <1>1, SumInSpace
  <2>2. t.rcv.nxt \in SeqNum
    BY RcvParts
  <2> QED BY ONLY <2>1, <2>2, SeqAddAdd DEF nxt
<1> HIDE DEF nxt
<1>10. d.rcv.nxt = SeqAdd(t.rcv.nxt, len + n) /\ d.rcv.wnd = t.rcv.wnd /\ d.rcv.irs = t.rcv.irs
  BY <1>5, <1>7, <1>8, <1>9 DEF Drained, RcvVars
<1>11. m = len + n /\ m \in Nat
  BY <1>1, <1>10, SumInSpace, RcvParts, SeqSubAdd
<1> HIDE DEF m
<1>12. d \in TCB /\ d.rcv \in RcvVars
  BY <1>8, TcbParts DEF Drained
<1>13. /\ u \in TCB /\ u.state = d.state /\ u.fin = d.fin
       /\ u.rcvBuf = d.rcvBuf /\ u.oooSegs = d.oooSegs
       /\ u.reached = d.reached /\ SameSnd(d, u) /\ u.out = d.out
       /\ u.rcv = [d.rcv EXCEPT !.wnd = maxU32(0, d.rcv.wnd - m)]
  BY <1>11, <1>12, ConsumeRcvWindowType
<1> HIDE DEF u
<1>14. u.rcv.nxt = d.rcv.nxt /\ u.rcv.wnd = maxU32(0, d.rcv.wnd - m) /\ u.rcv.irs = d.rcv.irs
  BY <1>12, <1>13 DEF RcvVars
<1>15. Len(u.rcvBuf) = Len(t.rcvBuf) + len + n
  <2>1. Len(u.rcvBuf) = Len(buf) + n
    BY <1>7, <1>8, <1>13 DEF Drained
  <2> QED BY <2>1, <1>2, <1>3
<1>16. u.oooSegs = {f \in t.oooSegs : ~SeqLEQ(SeqAdd(f.seq, Len(f.data)), u.rcv.nxt)}
  BY <1>5, <1>7, <1>8, <1>9, <1>10, <1>13, <1>14 DEF Drained
<1>17. \A j \in 0..(n - 1) : \E f \in t.oooSegs : holds(f, SeqAdd(t.rcv.nxt, len + j))
  <2> TAKE j \in 0..(n - 1)
  <2>1. j \in 0..RcvBuff
    BY TcbAssumption
  <2>2. \E f \in t.oooSegs : holds(f, SeqAdd(nxt, j))
    BY <1>5, <1>7, <1>8 DEF Drained
  <2> QED BY <1>9, <2>1, <2>2
<1>18. n < RcvBuff => \A f \in t.oooSegs : ~holds(f, SeqAdd(t.rcv.nxt, len + n))
  BY <1>5, <1>7, <1>8, <1>9 DEF Drained
<1>19. u.state = t.state /\ u.fin = t.fin /\ u.reached = t.reached /\ SameSnd(t, u)
  BY <1>7, <1>8, <1>13 DEF Drained, SameSnd
<1>n. NoNewFin(t, u)
  BY <1>7, <1>8, <1>13 DEF Drained, SameSnd, NoNewFin
<1>20. TextTaken(t, u, len, n)
  BY <1>10, <1>11, <1>13, <1>14, <1>15, <1>16, <1>17, <1>18, <1>19, <1>n DEF TextTaken
<1> QED BY <1>6, <1>20 DEF u, m, d, len

\* The effect of acceptText, by where the trimmed payload begins.
LEMMA AcceptTextEffect ==
    ASSUME NEW t \in TCB, NEW s, s.seq \in SeqNum, s.data \in Payload
    PROVE  LET f == trimToWindow(t, s)
               u == acceptText(t, s)
           IN /\ Settled(u) /\ SameSnd(t, u) /\ u.reached = t.reached /\ NoNewFin(t, u)
              /\ \/ f.data = <<>> /\ Keeps(t, u)
                 \/ /\ f.data # <<>> /\ f.seq = t.rcv.nxt /\ Len(f.data) <= t.rcv.wnd
                    /\ \E n \in 0..RcvBuff : TextTaken(t, u, Len(f.data), n)
                 \/ /\ f.data # <<>> /\ f.seq # t.rcv.nxt
                    /\ u \in TCB /\ u.rcv = t.rcv /\ u.fin = t.fin /\ u.rcvBuf = t.rcvBuf
                    /\ u.state = t.state /\ u.oooSegs \subseteq t.oooSegs \cup {f}
<1> DEFINE f == trimToWindow(t, s)
           v == drainOoo([t EXCEPT !.rcvBuf = @ \o f.data, !.rcv.nxt = SeqAdd(@, Len(f.data))])
           stored == IF f.seq = t.rcv.nxt THEN v ELSE insertOoo(t, f)
           done == consumeRcvWindow(stored, SeqSub(stored.rcv.nxt, t.rcv.nxt))
<1>1. acceptText(t, s) =
        IF f.data = <<>> THEN sendAck(t)
        ELSE IF f.seq = t.rcv.nxt /\ done.oooSegs = {} /\ Len(f.data) >= effSndMSS(t)
        THEN onDelayableSegment(done) ELSE sendAck(done)
  BY DEF acceptText
<1>2. f \in Fragment /\ (f.seq = t.rcv.nxt => Len(f.data) <= t.rcv.wnd)
  BY TrimType
<1> HIDE DEF f
<1>3. CASE f.data = <<>>
  BY <1>1, <1>3, SendAckKeeps DEF f, Keeps
<1>4. CASE f.data # <<>> /\ f.seq = t.rcv.nxt
  <2>1. f.data \in Payload /\ Len(f.data) <= t.rcv.wnd
    BY <1>2, <1>4 DEF Fragment
  <2>a. \E n \in 0..RcvBuff :
          TextTaken(t, consumeRcvWindow(v, SeqSub(v.rcv.nxt, t.rcv.nxt)), Len(f.data), n)
    BY <2>1, InOrderTextEffect
  <2>b. stored = v
    BY <1>4
  <2> HIDE DEF v, stored
  <2>2. PICK n \in 0..RcvBuff : TextTaken(t, done, Len(f.data), n)
    BY <2>a, <2>b
  <2> HIDE DEF done
  <2>3. /\ Keeps(done, acceptText(t, s)) /\ Settled(acceptText(t, s))
        /\ SameSnd(done, acceptText(t, s))
    BY <1>1, <1>4, <2>2, SendAckKeeps, OnDelayableSegmentKeeps DEF TextTaken
  <2>4. SameSnd(t, acceptText(t, s)) /\ acceptText(t, s).reached = t.reached
    BY <2>2, <2>3 DEF TextTaken, Keeps, SameSnd
  <2>n. NoNewFin(t, acceptText(t, s))
    BY <2>2, <2>3 DEF TextTaken, Keeps, NoNewFin
  <2>5. TextTaken(t, acceptText(t, s), Len(f.data), n)
    BY <2>2, <2>3, <2>4, <2>n DEF TextTaken, Keeps, KeepsRcv, SameRcv
  <2> QED BY <1>4, <2>1, <2>3, <2>4, <2>5, <2>n DEF f
<1>5. CASE f.data # <<>> /\ f.seq # t.rcv.nxt
  <2> DEFINE w == insertOoo(t, f)
  <2>1. /\ w \in TCB /\ w.rcv = t.rcv /\ w.fin = t.fin /\ w.rcvBuf = t.rcvBuf
        /\ w.state = t.state /\ w.oooSegs \subseteq t.oooSegs \cup {f}
        /\ w.reached = t.reached /\ SameSnd(t, w) /\ w.out = t.out
    BY <1>2, InsertOooType
  <2>2. stored = w
    BY <1>5
  <2> HIDE DEF w, stored
  <2>3. SeqSub(stored.rcv.nxt, t.rcv.nxt) = 0
    BY <2>1, <2>2, RcvParts, SeqNumNat DEF SeqSub
  <2>4. /\ done \in TCB /\ done.state = w.state /\ done.fin = w.fin
        /\ done.rcvBuf = w.rcvBuf /\ done.oooSegs = w.oooSegs
        /\ done.reached = w.reached /\ SameSnd(w, done) /\ done.out = w.out
        /\ done.rcv = [w.rcv EXCEPT !.wnd = maxU32(0, w.rcv.wnd - 0)]
    BY <2>1, <2>2, <2>3, ConsumeRcvWindowType
  <2>5. maxU32(0, w.rcv.wnd - 0) = w.rcv.wnd
    BY <2>1, RcvParts, TcbAssumption DEF maxU32
  <2>6. done.rcv = w.rcv
    BY <2>1, <2>4, <2>5, TcbParts DEF RcvVars
  <2> HIDE DEF done
  <2>7. /\ Keeps(done, acceptText(t, s)) /\ Settled(acceptText(t, s))
        /\ SameSnd(done, acceptText(t, s))
    BY <1>1, <1>5, <2>4, SendAckKeeps
  <2>8. SameSnd(t, acceptText(t, s)) /\ acceptText(t, s).reached = t.reached
    BY <2>1, <2>4, <2>7 DEF Keeps, SameSnd
  <2>n. NoNewFin(t, acceptText(t, s))
    BY <2>1, <2>4, <2>7 DEF Keeps, NoNewFin, SameSnd
  <2> QED BY <1>5, <2>1, <2>4, <2>6, <2>7, <2>8, <2>n DEF Keeps, KeepsRcv, SameRcv, f
<1> QED BY <1>3, <1>4, <1>5

-----------------------------------------------------------------------------
(* The right edge of the receive window.                                   *)

Edge(t) == SeqAdd(t.rcv.nxt, t.rcv.wnd)
EdgeMoves(t, u, k) == \E d \in 0..k : Edge(u) = SeqAdd(Edge(t), d)

LEMMA EdgeType ==
    ASSUME NEW t \in TCB
    PROVE  Edge(t) \in SeqNum
<1>1. t.rcv.wnd \in 0..SeqSize
  BY RcvParts, SmallSeqNums, SeqNumNat
<1> QED BY <1>1, RcvParts, SeqAddType DEF Edge

\* Nothing moves when the receive variables stay.
LEMMA EdgeStays ==
    ASSUME NEW t \in TCB, NEW u, u.rcv = t.rcv, NEW k \in Nat
    PROVE  EdgeMoves(t, u, k)
<1>1. SeqAdd(Edge(t), 0) = Edge(t)
  BY EdgeType, SeqNumNat, SmallSeqNums DEF SeqAdd
<1> QED BY <1>1 DEF EdgeMoves, Edge

LEMMA EdgeTrans ==
    ASSUME NEW t \in TCB, NEW u \in TCB, NEW v, NEW j \in Nat, NEW k \in Nat,
           j + k \in SeqNum, EdgeMoves(t, u, j), EdgeMoves(u, v, k)
    PROVE  EdgeMoves(t, v, j + k)
<1>1. PICK c \in 0..j : Edge(u) = SeqAdd(Edge(t), c)
  BY DEF EdgeMoves
<1>2. PICK d \in 0..k : Edge(v) = SeqAdd(Edge(u), d)
  BY DEF EdgeMoves
<1>3. c \in Nat /\ d \in Nat /\ c + d \in 0..(j + k) /\ c + d \in SeqNum
  BY SmallSeqNums DEF SeqNum
<1>4. Edge(v) = SeqAdd(Edge(t), c + d)
  BY <1>1, <1>2, <1>3, EdgeType, SeqAddAdd
<1> QED BY <1>3, <1>4 DEF EdgeMoves

\* A move by less than half the space is a move to the right.
LEMMA EdgeOrder ==
    ASSUME NEW t \in TCB, NEW u, EdgeMoves(t, u, RcvBuff + 1)
    PROVE  SeqLEQ(Edge(t), Edge(u))
<1>1. PICK d \in 0..(RcvBuff + 1) : Edge(u) = SeqAdd(Edge(t), d)
  BY DEF EdgeMoves
<1>2. d \in Nat /\ d < HalfSeqSpace
  BY TcbAssumption, HalfSeqSpaceAssumption
<1> QED BY <1>1, <1>2, EdgeType, SeqLEQAdd

\* In-order text consumes the window from the left.  Where fragments beyond the
\* window were drained with it, the edge moves right by the excess.
LEMMA TextTakenEdge ==
    ASSUME NEW t \in TCB, NEW u \in TCB, NEW len \in Nat, len <= t.rcv.wnd,
           NEW n \in 0..RcvBuff, TextTaken(t, u, len, n)
    PROVE  EdgeMoves(t, u, RcvBuff)
<1> DEFINE m == len + n
           w == t.rcv.wnd
<1>1. /\ w \in Nat /\ w \in SeqNum /\ m \in Nat /\ m \in SeqNum
  BY RcvParts, TcbAssumption, HalfSeqSpaceAssumption DEF SeqNum, SeqSize
<1>2. u.rcv.nxt = SeqAdd(t.rcv.nxt, m) /\ u.rcv.wnd = maxU32(0, w - m)
  BY DEF TextTaken
<1>3. CASE m <= w
  <2>1. w - m \in Nat /\ m + (w - m) = w /\ u.rcv.wnd = w - m
    BY <1>1, <1>2, <1>3 DEF maxU32
  <2> HIDE DEF m, w
  <2>2. SeqAdd(SeqAdd(t.rcv.nxt, m), w - m) = SeqAdd(t.rcv.nxt, w)
    <3> DEFINE x == w - m
    <3>1. x \in Nat /\ m + x = w /\ m + x \in SeqNum
      BY <1>1, <2>1
    <3> HIDE DEF x
    <3>2. t.rcv.nxt \in SeqNum /\ m \in Nat
      BY <1>1, RcvParts
    <3>3. SeqAdd(SeqAdd(t.rcv.nxt, m), x) = SeqAdd(t.rcv.nxt, m + x)
      BY ONLY <3>1, <3>2, SeqAddAdd
    <3> QED BY <3>1, <3>3 DEF x
  <2>3. Edge(u) = Edge(t)
    BY <1>2, <2>1, <2>2 DEF Edge, w
  <2>4. SeqAdd(Edge(t), 0) = Edge(t)
    BY EdgeType, SeqNumNat, SmallSeqNums DEF SeqAdd
  <2> QED BY <2>3, <2>4, TcbAssumption DEF EdgeMoves
<1>4. CASE ~(m <= w)
  <2>1. m - w \in Nat /\ w + (m - w) = m /\ u.rcv.wnd = 0 /\ m - w \in 0..RcvBuff
    BY <1>1, <1>2, <1>4, TcbAssumption DEF maxU32
  <2> HIDE DEF m, w
  <2>2. SeqAdd(SeqAdd(t.rcv.nxt, w), m - w) = SeqAdd(t.rcv.nxt, m)
    <3> DEFINE x == m - w
    <3>1. x \in Nat /\ w + x = m /\ w + x \in SeqNum
      BY <1>1, <2>1
    <3> HIDE DEF x
    <3>2. t.rcv.nxt \in SeqNum /\ w \in Nat
      BY <1>1, RcvParts
    <3>3. SeqAdd(SeqAdd(t.rcv.nxt, w), x) = SeqAdd(t.rcv.nxt, w + x)
      BY ONLY <3>1, <3>2, SeqAddAdd
    <3> QED BY <3>1, <3>3 DEF x
  <2>3. SeqAdd(u.rcv.nxt, 0) = u.rcv.nxt
    BY RcvParts, SeqNumNat, SmallSeqNums DEF SeqAdd
  <2>4. Edge(u) = SeqAdd(Edge(t), m - w)
    BY <1>2, <2>1, <2>2, <2>3 DEF Edge, w
  <2> QED BY <2>1, <2>4 DEF EdgeMoves
<1> QED BY <1>3, <1>4

LEMMA AcceptTextEdge ==
    ASSUME NEW t \in TCB, NEW s, s.seq \in SeqNum, s.data \in Payload
    PROVE  LET u == acceptText(t, s) IN
             /\ u \in TCB /\ u.state = t.state /\ u.fin = t.fin /\ u.rcv.irs = t.rcv.irs
             /\ EdgeMoves(t, u, RcvBuff)
<1> DEFINE u == acceptText(t, s)
           f == trimToWindow(t, s)
<1>0. RcvBuff \in Nat /\ Len(f.data) \in Nat
  BY TcbAssumption, TrimType
<1>e. \/ Keeps(t, u)
      \/ /\ Len(f.data) <= t.rcv.wnd
         /\ \E n \in 0..RcvBuff : TextTaken(t, u, Len(f.data), n)
      \/ u \in TCB /\ u.rcv = t.rcv /\ u.fin = t.fin /\ u.state = t.state
  BY AcceptTextEffect
<1> HIDE DEF u, f
<1>1. CASE Keeps(t, u)
  BY <1>0, <1>1, EdgeStays DEF Keeps, KeepsRcv, SameRcv, u
<1>2. CASE Len(f.data) <= t.rcv.wnd /\ \E n \in 0..RcvBuff : TextTaken(t, u, Len(f.data), n)
  <2>1. PICK n \in 0..RcvBuff : TextTaken(t, u, Len(f.data), n)
    BY <1>2
  <2>2. u \in TCB /\ u.state = t.state /\ u.fin = t.fin /\ u.rcv.irs = t.rcv.irs
    BY <2>1 DEF TextTaken
  <2>3. EdgeMoves(t, u, RcvBuff)
    BY <1>0, <1>2, <2>1, <2>2, TextTakenEdge
  <2> QED BY <2>2, <2>3 DEF u
<1>3. CASE u \in TCB /\ u.rcv = t.rcv /\ u.fin = t.fin /\ u.state = t.state
  BY <1>0, <1>3, EdgeStays DEF u
<1> QED BY <1>e, <1>1, <1>2, <1>3

\* What Recv offers lies between the old window and the buffer.
LEMMA AdvertiseWindowType ==
    ASSUME NEW t \in TCB
    PROVE  advertiseWindow(t) \in 0..RcvBuff /\ advertiseWindow(t) >= t.rcv.wnd
<1>1. Len(t.rcvBuf) \in Nat
  BY TcbParts, LenProperties
<1>2. maxU32(0, RcvBuff - Len(t.rcvBuf)) \in 0..RcvBuff
  BY <1>1, TcbAssumption DEF maxU32
<1> QED BY <1>2, RcvParts, TcbAssumption DEF advertiseWindow

LEMMA RecvEdge ==
    ASSUME NEW t \in TCB, NEW n \in 1..Len(t.rcvBuf)
    PROVE  LET u == Recv(t, n) IN
             u \in TCB /\ u.state = t.state /\ u.fin = t.fin /\ EdgeMoves(t, u, RcvBuff)
<1> DEFINE b == SubSeq(t.rcvBuf, n + 1, Len(t.rcvBuf))
           read == [t EXCEPT !.rcvBuf = b]
           w == advertiseWindow(read)
           rcv == [t.rcv EXCEPT !.wnd = w]
           open == [read EXCEPT !.rcv = rcv]
<1>1. b \in Seq(Nat)
  <2>1. t.rcvBuf \in Seq(Nat) /\ Len(t.rcvBuf) \in Nat
    BY TcbParts, LenProperties
  <2>2. n + 1 \in Nat \ {0}
    BY <2>1
  <2> QED BY <2>1, <2>2, PartOfSeq
<1>2. Recv(t, n) = IF open.rcv.wnd > t.rcv.wnd /\ synchronized(t.state)
                   THEN sendAck(open) ELSE open
  BY DEF Recv, TCB, RcvVars
<1> HIDE DEF b
<1>3. read \in TCB /\ read.rcv = t.rcv /\ read.state = t.state /\ read.fin = t.fin
  BY <1>1 DEF TCB
<1> HIDE DEF read
<1>4. w \in 0..RcvBuff /\ w >= t.rcv.wnd
  BY <1>3, AdvertiseWindowType
<1> HIDE DEF w
<1>5. rcv \in RcvVars /\ rcv.wnd = w /\ rcv.nxt = t.rcv.nxt
  BY <1>4, TcbParts DEF RcvVars
<1> HIDE DEF rcv
<1>6. open \in TCB /\ open.rcv = rcv /\ open.state = t.state /\ open.fin = t.fin
  BY <1>3, <1>5 DEF TCB
<1> HIDE DEF open
<1>7. EdgeMoves(t, open, RcvBuff)
  <2>1. /\ w - t.rcv.wnd \in 0..RcvBuff /\ w - t.rcv.wnd \in Nat /\ t.rcv.wnd \in Nat
        /\ t.rcv.wnd + (w - t.rcv.wnd) = w
    BY <1>4, RcvParts, TcbAssumption
  <2>2. w \in SeqNum
    BY <1>4, SmallSeqNums
  <2>3. SeqAdd(SeqAdd(t.rcv.nxt, t.rcv.wnd), w - t.rcv.wnd) = SeqAdd(t.rcv.nxt, w)
    BY <2>1, <2>2, RcvParts, SeqAddAdd
  <2> QED BY <1>5, <1>6, <2>1, <2>3 DEF EdgeMoves, Edge
<1>8. Keeps(open, sendAck(open))
  BY <1>6, SendAckKeeps
<1>9. Edge(sendAck(open)) = Edge(open)
  BY <1>8 DEF Keeps, KeepsRcv, SameRcv, Edge
<1> QED BY <1>2, <1>6, <1>7, <1>8, <1>9 DEF Keeps, KeepsRcv, SameRcv, EdgeMoves

-----------------------------------------------------------------------------
(* The receive buffer.                                                     *)

\* What waits to be read and the window that is offered fit the buffer, and
\* every fragment lies within the window.
FragmentFits(nxt, wnd, f) == SeqSub(f.seq, nxt) + Len(f.data) <= wnd
RcvOK(t) == /\ Len(t.rcvBuf) + t.rcv.wnd <= RcvBuff
            /\ \A f \in t.oooSegs : FragmentFits(t.rcv.nxt, t.rcv.wnd, f)

\* A number that a fragment within the window holds is within the window.
LEMMA HeldInWindow ==
    ASSUME NEW nxt \in SeqNum, NEW seq \in SeqNum, NEW wnd \in 0..RcvBuff, NEW len \in Nat,
           SeqSub(seq, nxt) + len <= wnd, NEW x \in 0..(2 * RcvBuff),
           SeqSub(SeqAdd(nxt, x), seq) < len
    PROVE  x < wnd
  BY HalfSeqSpaceAssumption, TcbAssumption DEF SeqAdd, SeqSub, SeqNum, SeqSize

\* A fragment that is neither behind the new left edge nor across it is beyond it.
LEMMA LeftInWindow ==
    ASSUME NEW nxt \in SeqNum, NEW seq \in SeqNum, NEW wnd \in 0..RcvBuff, NEW len \in Nat,
           SeqSub(seq, nxt) + len <= wnd, NEW m \in 0..wnd,
           ~SeqLEQ(SeqAdd(seq, len), SeqAdd(nxt, m)),
           m < wnd => ~(SeqSub(SeqAdd(nxt, m), seq) < len)
    PROVE  SeqSub(seq, SeqAdd(nxt, m)) + len <= wnd - m
  BY HalfSeqSpaceAssumption, TcbAssumption DEF SeqAdd, SeqSub, SeqLEQ, SeqLT, SeqNum, SeqSize

LEMMA FragmentParts ==
    ASSUME NEW f \in Fragment
    PROVE  f.seq \in SeqNum /\ f.data \in Payload /\ Len(f.data) \in Nat /\ Len(f.data) <= DefaultMSS
  BY LenProperties DEF Fragment, Payload

\* In-order text and the fragments drained with it stay within the window.
LEMMA TextTakenFits ==
    ASSUME NEW t \in TCB, NEW u, NEW len \in Nat, len <= t.rcv.wnd, NEW n \in 0..RcvBuff,
           TextTaken(t, u, len, n), RcvOK(t)
    PROVE  RcvOK(u) /\ len + n <= t.rcv.wnd
<1> DEFINE nxt == t.rcv.nxt
           wnd == t.rcv.wnd
           m == len + n
<1>1. nxt \in SeqNum /\ wnd \in 0..RcvBuff /\ RcvBuff \in Nat /\ wnd \in Nat /\ n \in Nat
  BY RcvParts, TcbAssumption
<1>2. m <= wnd
  <2>1. CASE n = 0
    BY <1>1, <2>1
  <2>2. CASE n # 0
    <3>1. n - 1 \in 0..(n - 1) /\ len + (n - 1) \in 0..(2 * RcvBuff)
      BY <1>1, <2>2
    <3>2. PICK f \in t.oooSegs : holds(f, SeqAdd(nxt, len + (n - 1)))
      BY <3>1 DEF TextTaken
    <3>3. f \in Fragment /\ FragmentFits(nxt, wnd, f)
      BY TcbParts DEF RcvOK
    <3>4. len + (n - 1) < wnd
      BY <1>1, <3>1, <3>2, <3>3, FragmentParts, HeldInWindow DEF FragmentFits, holds
    <3> QED BY <1>1, <3>4
  <2> QED BY <2>1, <2>2
<1>3. u.rcv.nxt = SeqAdd(nxt, m) /\ u.rcv.wnd = wnd - m
  BY <1>1, <1>2 DEF TextTaken, maxU32
<1>4. Len(u.rcvBuf) + u.rcv.wnd <= RcvBuff
  <2>1. Len(t.rcvBuf) \in Nat
    BY TcbParts, LenProperties
  <2>2. Len(u.rcvBuf) = Len(t.rcvBuf) + len + n
    BY DEF TextTaken
  <2> QED BY <1>1, <1>3, <2>1, <2>2 DEF RcvOK
<1>5. ASSUME NEW f \in u.oooSegs PROVE FragmentFits(u.rcv.nxt, u.rcv.wnd, f)
  <2>1. f \in t.oooSegs /\ ~SeqLEQ(SeqAdd(f.seq, Len(f.data)), SeqAdd(nxt, m))
    BY <1>3 DEF TextTaken
  <2>2. f \in Fragment /\ FragmentFits(nxt, wnd, f)
    BY <2>1, TcbParts DEF RcvOK
  <2>3. m < wnd => ~(SeqSub(SeqAdd(nxt, m), f.seq) < Len(f.data))
    <3>1. m < wnd => n < RcvBuff
      BY <1>1
    <3> QED BY <2>1, <3>1 DEF TextTaken, holds
  <2>4. m \in 0..wnd
    BY <1>1, <1>2
  <2> HIDE DEF m, nxt, wnd
  <2> QED BY <1>1, <1>3, <2>1, <2>2, <2>3, <2>4, FragmentParts, LeftInWindow DEF FragmentFits
<1> QED BY <1>2, <1>4, <1>5 DEF RcvOK

\* Fragments hold something, and they lie beyond RCV.NXT, except perhaps right
\* after the FIN, which may bring RCV.NXT to where a fragment begins.
Ahead(t) == \A f \in t.oooSegs : f.seq # t.rcv.nxt
AfterFin(t) == t.fin.seen /\ t.rcv.nxt = SeqAdd(t.fin.seq, 1)
RcvInv(t) == /\ RcvOK(t)
             /\ \A f \in t.oooSegs : f.data # <<>>
             /\ Ahead(t) \/ AfterFin(t)

LEMMA SameRcvInv ==
    ASSUME NEW t, NEW u, SameRcv(t, u), RcvInv(t)
    PROVE  RcvInv(u)
  BY DEF SameRcv, RcvInv, RcvOK, Ahead, AfterFin

LEMMA NonemptyFragment ==
    ASSUME NEW f \in Fragment, f.data # <<>>
    PROVE  Len(f.data) \in 1..DefaultMSS
<1>1. f.data \in Seq(Nat) /\ Len(f.data) \in Nat /\ Len(f.data) <= DefaultMSS
  BY FragmentParts DEF Payload
<1>2. Len(f.data) # 0
  BY <1>1, EmptySeq
<1> QED BY <1>1, <1>2, TcbAssumption

\* A nonempty fragment within an open window that does not hold the byte at the
\* left edge does not begin there.
LEMMA NotHeldNotThere ==
    ASSUME NEW nxt \in SeqNum, NEW seq \in SeqNum, NEW len \in Nat \ {0},
           ~(SeqSub(nxt, seq) < len)
    PROVE  seq # nxt
  BY HalfSeqSpaceAssumption DEF SeqSub, SeqNum, SeqSize

LEMMA TextTakenInv ==
    ASSUME NEW t \in TCB, NEW u, NEW len \in Nat, len <= t.rcv.wnd, NEW n \in 0..RcvBuff,
           TextTaken(t, u, len, n), RcvInv(t)
    PROVE  RcvInv(u)
<1>1. RcvOK(u) /\ len + n <= t.rcv.wnd
  BY TextTakenFits DEF RcvInv
<1>2. /\ u.oooSegs \subseteq t.oooSegs /\ u \in TCB /\ n \in Nat
      /\ u.rcv.nxt = SeqAdd(t.rcv.nxt, len + n) /\ u.rcv.wnd = maxU32(0, t.rcv.wnd - (len + n))
  BY DEF TextTaken
<1>3. \A f \in u.oooSegs : f.data # <<>>
  BY <1>2 DEF RcvInv
<1>4. ASSUME NEW f \in u.oooSegs PROVE f.seq # u.rcv.nxt
  <2>1. f \in t.oooSegs /\ f \in Fragment /\ f.seq \in SeqNum /\ Len(f.data) \in Nat \ {0}
    BY <1>2, <1>3, TcbParts, FragmentParts, NonemptyFragment
  <2>2. u.rcv.nxt \in SeqNum /\ SeqSub(f.seq, u.rcv.nxt) \in Nat /\ u.rcv.wnd \in Nat
    BY <1>2, <2>1, RcvParts, SeqSubType, SeqNumNat, TcbAssumption
  <2>3. u.rcv.wnd > 0
    BY <1>1, <2>1, <2>2 DEF RcvOK, FragmentFits
  <2>4. n < RcvBuff
    <3>1. t.rcv.wnd \in Nat /\ t.rcv.wnd <= RcvBuff /\ RcvBuff \in Nat
      BY RcvParts, TcbAssumption
    <3>2. len + n < t.rcv.wnd
      BY ONLY <1>1, <1>2, <2>3, <3>1, len \in Nat DEF maxU32
    <3> QED BY ONLY <1>2, <3>1, <3>2, len \in Nat
  <2>5. ~(SeqSub(u.rcv.nxt, f.seq) < Len(f.data))
    BY <1>2, <2>1, <2>4 DEF TextTaken, holds
  <2> QED BY <2>1, <2>2, <2>5, NotHeldNotThere
<1> QED BY <1>1, <1>3, <1>4 DEF RcvInv, Ahead

\* What a segment that begins inside the window is trimmed to fits the window.
LEMMA TrimFitsArithmetic ==
    ASSUME NEW nxt \in SeqNum, NEW seq \in SeqNum, NEW wnd \in 1..RcvBuff,
           NEW len \in 1..DefaultMSS, NEW extra \in 0..2,
           ~SeqLT(seq, nxt), seq # nxt,
           \/ SeqLEQ(nxt, seq) /\ SeqLT(seq, SeqAdd(nxt, wnd))
           \/ /\ SeqLEQ(nxt, SeqAdd(seq, len + extra - 1))
              /\ SeqLT(SeqAdd(seq, len + extra - 1), SeqAdd(nxt, wnd))
    PROVE  LET over == trimRight(SeqAdd(nxt, wnd), seq, len)
           IN over \in Nat /\ SeqSub(seq, nxt) + len - over <= wnd
  BY HalfSeqSpaceAssumption, TcbAssumption
     DEF trimRight, SeqAdd, SeqSub, SeqLT, SeqLEQ, SeqGT, SeqNum, SeqSize

\* The trimmed payload of a segment beyond the left edge of which the first or
\* the last number is in the window fits the window.
LEMMA TrimFits ==
    ASSUME NEW t \in TCB, NEW s, s.seq \in SeqNum, s.data \in Payload,
           NEW extra \in 0..2, t.rcv.wnd > 0,
           LET q == SeqAdd(s.seq, Len(s.data) + extra - 1)
               right == SeqAdd(t.rcv.nxt, t.rcv.wnd)
           IN \/ SeqLEQ(t.rcv.nxt, s.seq) /\ SeqLT(s.seq, right)
              \/ SeqLEQ(t.rcv.nxt, q) /\ SeqLT(q, right),
           trimToWindow(t, s).data # <<>>, trimToWindow(t, s).seq # t.rcv.nxt
    PROVE  FragmentFits(t.rcv.nxt, t.rcv.wnd, trimToWindow(t, s))
<1> DEFINE len == Len(s.data)
           nxt == t.rcv.nxt
           wnd == t.rcv.wnd
           skip == trimLeft(nxt, s.seq)
           over == trimRight(SeqAdd(nxt, wnd), s.seq, len)
           first == IF skip > 0 THEN nxt ELSE s.seq
           data == IF skip + over >= len THEN <<>> ELSE SubSeq(s.data, skip + 1, len - over)
<1>1. trimToWindow(t, s) = [seq |-> first, data |-> data]
  BY DEF trimToWindow, trimLeft, trimRight
<1>2. s.data \in Seq(Nat) /\ len \in Nat /\ len \in 0..DefaultMSS
  BY LenProperties, TcbAssumption DEF Payload
<1>3. nxt \in SeqNum /\ wnd \in 1..RcvBuff /\ wnd \in 0..RcvBuff
  BY RcvParts, TcbAssumption
<1>a. \/ SeqLEQ(nxt, s.seq) /\ SeqLT(s.seq, SeqAdd(nxt, wnd))
      \/ /\ SeqLEQ(nxt, SeqAdd(s.seq, len + extra - 1))
         /\ SeqLT(SeqAdd(s.seq, len + extra - 1), SeqAdd(nxt, wnd))
  OBVIOUS
<1>b. data # <<>> /\ first # nxt
  BY <1>1
<1> HIDE DEF len, nxt, wnd
<1>4. skip \in Nat /\ over \in Nat
  BY <1>2, <1>3, TrimArithmetic
<1>5. ~(skip + over >= len) /\ ~(skip > 0) /\ s.seq # nxt
  BY <1>b
<1>6. skip = 0 /\ over < len /\ len \in 1..DefaultMSS
  BY <1>2, <1>4, <1>5, TcbAssumption
<1>7. ~SeqLT(s.seq, nxt)
  <2>1. SeqLT(s.seq, nxt) => SeqSub(nxt, s.seq) # 0
    BY DEF SeqLT
  <2> QED BY <1>6, <2>1 DEF trimLeft
<1>8. SeqSub(s.seq, nxt) + len - over <= wnd
  BY <1>3, <1>5, <1>6, <1>7, <1>a, TrimFitsArithmetic
<1> HIDE DEF skip, over
<1>9. data = SubSeq(s.data, 1, len - over) /\ first = s.seq
  BY <1>4, <1>5, <1>6
<1>10. Len(data) = len - over
  <2> DEFINE m == len - over
  <2>1. 1 \in Nat \ {0} /\ m \in Nat /\ m <= Len(s.data) /\ 1 <= m
    BY <1>2, <1>4, <1>6 DEF len
  <2> HIDE DEF m
  <2>2. Len(SubSeq(s.data, 1, m)) = m - 1 + 1
    BY <1>2, <2>1, PartOfSeq
  <2>3. Len(SubSeq(s.data, 1, m)) = m
    BY <2>1, <2>2
  <2> QED BY <1>9, <2>3 DEF m
<1>11. SeqSub(s.seq, nxt) \in Nat
  BY <1>3, SeqSubType, SeqNumNat
<1> HIDE DEF data, first
<1>12. SeqSub(s.seq, nxt) + Len(data) <= wnd
  BY <1>2, <1>3, <1>4, <1>8, <1>10, <1>11, TcbAssumption
<1>13. trimToWindow(t, s).seq = s.seq /\ trimToWindow(t, s).data = data
  <2>1. trimToWindow(t, s).seq = first /\ trimToWindow(t, s).data = data
    BY ONLY <1>1
  <2> QED BY ONLY <1>9, <2>1
<1> QED BY <1>12, <1>13 DEF FragmentFits, nxt, wnd

\* Recv opens the window by no more than it has freed.
LEMMA RecvInv ==
    ASSUME NEW t \in TCB, NEW n \in 1..Len(t.rcvBuf)
    PROVE  LET u == Recv(t, n) IN
             /\ u.reached = t.reached /\ SameSnd(t, u) /\ NoNewFin(t, u)
             /\ Settled(t) => Settled(u)
             /\ RcvInv(t) => RcvInv(u)
<1> DEFINE b == SubSeq(t.rcvBuf, n + 1, Len(t.rcvBuf))
           read == [t EXCEPT !.rcvBuf = b]
           w == advertiseWindow(read)
           rcv == [t.rcv EXCEPT !.wnd = w]
           open == [read EXCEPT !.rcv = rcv]
<1>0. t.rcvBuf \in Seq(Nat) /\ Len(t.rcvBuf) \in Nat /\ n + 1 \in Nat \ {0}
  BY TcbParts, LenProperties
<1>1. b \in Seq(Nat) /\ Len(b) \in Nat /\ Len(b) <= Len(t.rcvBuf)
  BY <1>0, PartOfSeq
<1>2. Recv(t, n) \in {sendAck(open), open}
  BY DEF Recv, TCB, RcvVars
<1> HIDE DEF b
<1>3. /\ read \in TCB /\ read.rcv = t.rcv /\ read.rcvBuf = b
  BY <1>1 DEF TCB
<1>4. w \in 0..RcvBuff /\ w >= t.rcv.wnd
  BY <1>3, AdvertiseWindowType
<1>5. Len(b) <= RcvBuff => w = t.rcv.wnd \/ Len(b) + w <= RcvBuff
  <2>1. w \in {t.rcv.wnd, maxU32(0, RcvBuff - Len(b))}
    BY <1>3 DEF advertiseWindow
  <2> QED BY <1>1, <2>1, TcbAssumption DEF maxU32
<1> HIDE DEF w
<1>6. rcv \in RcvVars /\ rcv.wnd = w /\ rcv.nxt = t.rcv.nxt
  BY <1>4, TcbParts DEF RcvVars
<1> HIDE DEF rcv
<1>7. /\ open \in TCB /\ open.rcv = rcv /\ open.reached = t.reached /\ open.fin = t.fin
      /\ open.rcvBuf = b /\ open.oooSegs = t.oooSegs /\ open.ts = t.ts /\ open.tmr = t.tmr
      /\ NoNewFin(t, open)
  BY <1>1, <1>6 DEF TCB, NoNewFin
<1>8. SameSnd(t, open)
  BY DEF SameSnd, TCB
<1> HIDE DEF open
<1>9. ASSUME RcvInv(t) PROVE RcvInv(open)
  <2>1. Len(t.rcvBuf) + t.rcv.wnd <= RcvBuff /\ t.rcv.wnd \in Nat /\ RcvBuff \in Nat
    BY <1>9, RcvParts, TcbAssumption DEF RcvInv, RcvOK
  <2>2. Len(b) + w <= RcvBuff
    <3>1. Len(b) \in Nat /\ w \in Nat /\ Len(b) <= Len(t.rcvBuf) /\ Len(t.rcvBuf) \in Nat
      BY <1>0, <1>1, <1>4
    <3>2. Len(b) <= RcvBuff
      BY ONLY <2>1, <3>1
    <3>3. w = t.rcv.wnd \/ Len(b) + w <= RcvBuff
      BY <1>5, <3>2
    <3> QED BY ONLY <2>1, <3>1, <3>3
  <2>3. ASSUME NEW f \in t.oooSegs PROVE FragmentFits(t.rcv.nxt, w, f)
    <3>1. SeqSub(f.seq, t.rcv.nxt) \in Nat /\ Len(f.data) \in Nat
      BY TcbParts, FragmentParts, RcvParts, SeqSubType, SeqNumNat
    <3>2. FragmentFits(t.rcv.nxt, t.rcv.wnd, f)
      BY <1>9 DEF RcvInv, RcvOK
    <3> QED BY <1>4, <2>1, <3>1, <3>2 DEF FragmentFits
  <2>4. RcvOK(open)
    BY <1>6, <1>7, <2>2, <2>3 DEF RcvOK
  <2> QED BY <1>6, <1>7, <1>9, <2>4 DEF RcvInv, Ahead, AfterFin
<1>10. Settled(t) => Settled(open)
  BY <1>6, <1>7 DEF Settled
<1>11. Keeps(open, sendAck(open)) /\ SameSnd(open, sendAck(open))
  BY <1>7, SendAckKeeps
<1>12. RcvInv(t) => RcvInv(sendAck(open))
  BY <1>9, <1>11, SameRcvInv DEF Keeps, KeepsRcv
<1>13. /\ sendAck(open).reached = t.reached /\ SameSnd(t, sendAck(open))
       /\ NoNewFin(t, sendAck(open)) /\ Settled(sendAck(open))
  BY <1>7, <1>8, <1>11, SendAckKeeps, SameSndTrans DEF Keeps, NoNewFin
<1> QED BY <1>2, <1>7, <1>8, <1>9, <1>10, <1>12, <1>13
=============================================================================
