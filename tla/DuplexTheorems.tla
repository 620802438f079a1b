--------------------------- MODULE DuplexTheorems ---------------------------
(***************************************************************************)
(* What holds of two connections for every size of the sequence space, of  *)
(* the buffers and windows, and of the losses, duplications and timeouts.  *)
(***************************************************************************)
EXTENDS Duplex, StateMachineTheorems

-----------------------------------------------------------------------------
(* One connection.                                                         *)

\* Before the handshake ends nothing was received, sent or lost.
Young(t) == /\ t.rcvBuf = <<>> /\ t.oooSegs = {} /\ t.sndBuf = <<>>
            /\ t.cong.state # "FastRecovery"

\* The invariant of one connection; isOpen says whether its application has
\* opened it.
ConnInv(t, isOpen) ==
    /\ RcvInv(t)
    /\ t.state \in Early \/ ~isOpen => Young(t)
    /\ t.state \notin {"Closed", "Listen", "SynSent"} => Settled(t)
    /\ t.state = "SynReceived" => t.retxQueue # <<>>
    /\ ~isOpen => t.state = "Closed" /\ t.retxQueue = <<>>

\* One step of a connection as the Stack sees it.
LifeStep(t, u) ==
    LET l == lifeOf(t) IN
    lifeOf(u) \in {l, closeLife(l)} \cup openLife(l) \cup tickLife(l)
                  \cup UNION {segmentLife(l, k) : k \in SegKind}

LEMMA SameLife ==
    ASSUME NEW t, NEW u, u.state = t.state, u.reached = t.reached,
           t.state = "Listen" => (u.retxQueue = <<>>) = (t.retxQueue = <<>>)
    PROVE  LifeStep(t, u)
<1>1. lifeOf(u) = lifeOf(t)
  BY DEF lifeOf
<1> QED BY <1>1 DEF LifeStep

\* The parts of lifeOf.
lifeName(t) == CASE t.state = "Listen" /\ t.retxQueue # <<>> -> "Relisten"
                 [] t.state = "CloseWait" -> "Established"
                 [] t.state \in {"FinWait1", "FinWait2", "LastAck"} -> "Closing"
                 [] OTHER -> t.state

LEMMA LifeParts ==
    ASSUME NEW t
    PROVE  /\ lifeOf(t) = [reached |-> t.reached, state |-> lifeName(t)]
           /\ lifeOf(t).state = lifeName(t) /\ lifeOf(t).reached = t.reached
  BY DEF lifeOf, lifeName

LEMMA EnterLife ==
    ASSUME NEW t \in TCB, NEW u \in TCB, u.reached = (t.reached \/ lifeName(u) = "Established")
    PROVE  lifeOf(u) = enter(lifeOf(t), lifeName(u))
<1> DEFINE l == lifeOf(t)
           n == lifeName(u)
           r == u.reached
<1>1. lifeOf(u) = [reached |-> r, state |-> n]
  BY LifeParts
<1>2. l.reached = t.reached
  BY LifeParts
<1> HIDE DEF l, n
<1>3. (l.reached \/ n = "Established") = r
  BY <1>2 DEF n
<1>4. enter(l, n) = [state |-> n, reached |-> r]
  BY <1>3 DEF enter
<1> HIDE DEF r
<1>5. [reached |-> r, state |-> n] = [state |-> n, reached |-> r]
  OBVIOUS
<1> QED BY <1>1, <1>4, <1>5 DEF l, n

\* A connection may always be closed by a timer, but for a listener without one.
LEMMA ClosedLife ==
    ASSUME NEW t \in TCB, NEW u \in TCB, u.state = "Closed", u.reached = t.reached,
           ~(t.state = "Listen" /\ t.retxQueue = <<>>)
    PROVE  LifeStep(t, u)
<1>1. lifeName(u) = "Closed" /\ lifeName(t) # "Listen"
  BY DEF lifeName
<1>2. t.reached \in BOOLEAN
  BY DEF TCB
<1>3. lifeOf(u) = enter(lifeOf(t), "Closed")
  BY <1>1, <1>2, EnterLife
<1>4. CASE lifeName(t) = "Closed"
  <2>1. lifeOf(u) = lifeOf(t)
    BY <1>1, <1>4, LifeParts
  <2> QED BY <2>1 DEF LifeStep
<1>5. CASE lifeName(t) # "Closed"
  <2>1. enter(lifeOf(t), "Closed") \in tickLife(lifeOf(t))
    BY <1>1, <1>5, LifeParts DEF tickLife
  <2> QED BY <1>3, <2>1 DEF LifeStep
<1> QED BY <1>4, <1>5

LEMMA OpenLife ==
    ASSUME NEW t \in TCB, NEW u \in TCB, t.state = "Closed", u.reached = t.reached,
           \/ u.state = "SynSent"
           \/ u.state = "Listen" /\ u.retxQueue = <<>>
    PROVE  LifeStep(t, u)
<1>1. lifeName(t) = "Closed" /\ lifeName(u) \in {"SynSent", "Listen"}
  BY DEF lifeName
<1>2. t.reached \in BOOLEAN
  BY DEF TCB
<1>3. lifeOf(u) = enter(lifeOf(t), lifeName(u))
  BY <1>1, <1>2, EnterLife
<1>4. enter(lifeOf(t), lifeName(u)) \in openLife(lifeOf(t))
  BY <1>1, LifeParts DEF openLife
<1> QED BY <1>3, <1>4 DEF LifeStep

LEMMA CloseLife ==
    ASSUME NEW t \in TCB, NEW u \in TCB, u.reached = t.reached,
           \/ t.state \in {"Listen", "SynSent"} /\ u.state = "Closed"
           \/ t.state \in {"SynReceived", "Established"} /\ u.state = "FinWait1"
           \/ t.state = "CloseWait" /\ u.state = "LastAck"
    PROVE  LifeStep(t, u)
<1>1. \/ lifeName(t) \in {"Listen", "Relisten", "SynSent"} /\ lifeName(u) = "Closed"
      \/ lifeName(t) \in {"SynReceived", "Established"} /\ lifeName(u) = "Closing"
  BY DEF lifeName
<1>2. t.reached \in BOOLEAN
  BY DEF TCB
<1>3. lifeOf(u) = enter(lifeOf(t), lifeName(u))
  BY <1>1, <1>2, EnterLife
<1>4. closeLife(lifeOf(t)) = enter(lifeOf(t), lifeName(u))
  BY <1>1, LifeParts DEF closeLife
<1> QED BY <1>3, <1>4 DEF LifeStep

LEMMA SegmentLife ==
    ASSUME NEW t \in TCB, NEW u \in TCB, u.reached = (t.reached \/ lifeName(u) = "Established"),
           NEW k \in SegKind, <<lifeName(t), k, lifeName(u)>> \in SegMoves
    PROVE  LifeStep(t, u)
<1> DEFINE l == lifeOf(t)
           m == <<lifeName(t), k, lifeName(u)>>
<1>1. m[1] = l.state /\ m[2] = k /\ m[3] = lifeName(u) /\ m \in SegMoves
  BY LifeParts
<1>2. lifeOf(u) = enter(l, m[3])
  BY <1>1, EnterLife
<1> HIDE DEF l, m
<1>3. lifeOf(u) \in {enter(l, x[3]) : x \in {n \in SegMoves : n[1] = l.state /\ n[2] = k}}
  BY <1>1, <1>2
<1>4. lifeOf(u) \in segmentLife(l, k)
  BY <1>3 DEF segmentLife
<1>5. lifeOf(u) \in UNION {segmentLife(l, j) : j \in SegKind}
  BY <1>4
<1> QED BY <1>5 DEF LifeStep, l

\* A connection is open once it has left CLOSED.
LEMMA OpenIfActive ==
    ASSUME NEW t, NEW b, ConnInv(t, b), t.state # "Closed"
    PROVE  b
  BY DEF ConnInv

\* An answer that changes nothing but what was written and perhaps Last.ACK.sent.
LEMMA RepliedConn ==
    ASSUME NEW t \in TCB, NEW b, ConnInv(t, b), NEW u, Replied(t, u),
           Settled(t) => Settled(u) \/ t.state \in {"Closed", "Listen", "SynSent"}
    PROVE  u \in TCB /\ ConnInv(u, b) /\ LifeStep(t, u)
<1>1. RcvInv(u)
  BY SameRcvInv DEF ConnInv, Replied
<1>2. Young(t) => Young(u)
  BY DEF Young, Replied, SameRcv, SameSnd
<1>3. u \in TCB /\ u.state = t.state /\ u.reached = t.reached /\ u.retxQueue = t.retxQueue
  BY DEF Replied, SameRcv, SameSnd
<1>4. LifeStep(t, u)
  BY <1>3, SameLife
<1>5. u.state \notin {"Closed", "Listen", "SynSent"} => Settled(u)
  BY <1>3 DEF ConnInv
<1> QED BY <1>1, <1>2, <1>3, <1>4, <1>5 DEF ConnInv

LEMMA QuietConn ==
    ASSUME NEW t \in TCB, NEW b, ConnInv(t, b), NEW u, Keeps(t, u), SameSnd(t, u)
    PROVE  u \in TCB /\ ConnInv(u, b) /\ LifeStep(t, u)
  BY RepliedConn, KeepsReplied DEF Keeps, KeepsRcv

\* A call or a timer that may send, past the handshake.
LEMMA KeepsConn ==
    ASSUME NEW t \in TCB, NEW b, ConnInv(t, b), NEW u, Keeps(t, u),
           t.state \notin Early \cup {"Closed"}
    PROVE  u \in TCB /\ ConnInv(u, b) /\ LifeStep(t, u)
<1>1. RcvInv(u)
  BY SameRcvInv DEF ConnInv, Keeps, KeepsRcv
<1>2. u \in TCB /\ u.state = t.state /\ u.reached = t.reached /\ (Settled(t) => Settled(u))
  BY DEF Keeps, KeepsRcv, SameRcv
<1>3. LifeStep(t, u)
  BY <1>2, SameLife DEF Early
<1> QED BY <1>1, <1>2, <1>3 DEF ConnInv, Early

LEMMA TickConn ==
    ASSUME NEW t \in TCB, NEW b, ConnInv(t, b), NEW due \in SUBSET armed(t)
    PROVE  LET u == Tick(t, due) IN u \in TCB /\ ConnInv(u, b) /\ LifeStep(t, u)
<1> DEFINE u == Tick(t, due)
<1>1. TickPart(t, u) /\ (t.state = "Listen" /\ t.retxQueue = <<>> => u.state = "Listen")
  BY TickEffect
<1> HIDE DEF u
<1>2. /\ u \in TCB /\ SameRcv(t, u) /\ (Settled(t) => Settled(u)) /\ u.reached = t.reached
      /\ u.state \in {t.state, "Closed"} /\ (t.sndBuf = <<>> => Calm(t, u))
  BY <1>1 DEF TickPart, KeepsOrCloses, KeepsRcv, SameRcv
<1>3. RcvInv(u)
  BY <1>2, SameRcvInv DEF ConnInv
<1>4. Young(t) => Young(u) /\ Calm(t, u)
  BY <1>2 DEF Young, Calm, SameRcv
<1>5. (Young(t) /\ u.state = t.state /\ t.state # "Closed") \/ ~b
        => (u.retxQueue = <<>>) = (t.retxQueue = <<>>)
  <2> SUFFICES ASSUME (Young(t) /\ u.state = t.state /\ t.state # "Closed") \/ ~b
               PROVE  (u.retxQueue = <<>>) = (t.retxQueue = <<>>)
    OBVIOUS
  <2>1. Young(t)
    BY DEF ConnInv
  <2>2. t.retxQueue \in Seq(RetxSeg) /\ u.retxQueue \in Seq(RetxSeg)
    BY <1>2, TcbParts
  <2>3. \/ Len(u.retxQueue) = Len(t.retxQueue)
        \/ u.state = "Closed" /\ u.retxQueue = <<>>
    BY <1>4, <2>1 DEF Calm, SameQueue
  <2>4. ~b => t.retxQueue = <<>>
    BY DEF ConnInv
  <2> QED BY <2>2, <2>3, <2>4, EmptySeq
<1>6. LifeStep(t, u)
  <2>1. CASE u.state = t.state
    <3>1. t.state = "Listen" => (u.retxQueue = <<>>) = (t.retxQueue = <<>>)
      BY <1>5, <2>1 DEF ConnInv, Early
    <3> QED BY <1>2, <2>1, <3>1, SameLife
  <2>2. CASE u.state # t.state
    BY <1>1, <1>2, <2>2, ClosedLife
  <2> QED BY <2>1, <2>2
<1>7. u.state \in Early \/ ~b => Young(u)
  BY <1>2, <1>4 DEF ConnInv, Early
<1>8. u.state = "SynReceived" => u.retxQueue # <<>>
  BY <1>2, <1>5 DEF ConnInv, Early
<1>9. ~b => u.state = "Closed" /\ u.retxQueue = <<>>
  BY <1>2, <1>5 DEF ConnInv
<1>10. u.state \notin {"Closed", "Listen", "SynSent"} => Settled(u)
  BY <1>2 DEF ConnInv
<1>11. ConnInv(u, b)
  BY <1>3, <1>7, <1>8, <1>9, <1>10 DEF ConnInv
<1> QED BY <1>2, <1>6, <1>11 DEF u

LEMMA RecvConn ==
    ASSUME NEW t \in TCB, NEW b, ConnInv(t, b), NEW n \in 1..Len(t.rcvBuf)
    PROVE  LET u == Recv(t, n) IN u \in TCB /\ ConnInv(u, b) /\ LifeStep(t, u)
<1> DEFINE u == Recv(t, n)
<1>1. u \in TCB /\ u.state = t.state
  BY RecvEdge
<1>2. /\ u.reached = t.reached /\ SameSnd(t, u) /\ (Settled(t) => Settled(u))
      /\ RcvInv(u)
  BY RecvInv DEF ConnInv
<1> HIDE DEF u
<1>3. t.rcvBuf # <<>>
  <2>1. Len(<<>>) = 0
    BY EmptySeq
  <2> QED BY <2>1
<1>4. b /\ t.state \notin Early
  BY <1>3 DEF ConnInv, Young
<1>5. LifeStep(t, u)
  BY <1>1, <1>2, SameLife DEF SameSnd
<1>6. ConnInv(u, b)
  BY <1>1, <1>2, <1>4 DEF ConnInv, SameSnd, Early
<1> QED BY <1>1, <1>5, <1>6 DEF u

\* Early connections have nothing in the buffers the invariant speaks of.
LEMMA YoungRcvInv ==
    ASSUME NEW u \in TCB, u.rcvBuf = <<>>, u.oooSegs = {}
    PROVE  RcvInv(u)
<1>1. Len(u.rcvBuf) = 0 /\ u.rcv.wnd \in 0..RcvBuff /\ RcvBuff \in Nat
  BY EmptySeq, RcvParts, TcbAssumption
<1> QED BY <1>1 DEF RcvInv, RcvOK, Ahead

\* A queue with one more entry is not empty.
LEMMA AppendNonempty ==
    ASSUME NEW S, NEW q \in Seq(S), NEW e \in S
    PROVE  Append(q, e) # <<>>
<1>1. Len(Append(q, e)) = Len(q) + 1 /\ Len(q) \in Nat /\ Len(<<>>) = 0
  BY AppendProperties, LenProperties, EmptySeq
<1> QED BY <1>1

LEMMA SynEntryType ==
    ASSUME NEW t \in TCB
    PROVE  queueEntry({"SYN", "ACK"}, t.snd.iss, <<>>) \in RetxSeg
<1>1. 0 \in 0..MaxRetransmits
  BY TcbAssumption
<1> QED BY <1>1, SndParts, EmptyPayload DEF queueEntry, RetxSeg

LEMMA SynTakenConn ==
    ASSUME NEW t \in TCB, NEW b, ConnInv(t, b), NEW u, SynTaken(t, u),
           t.state \in {"Listen", "SynSent"}
    PROVE  u \in TCB /\ ConnInv(u, b) /\ LifeStep(t, u)
<1>1. Young(t) /\ b
  BY DEF ConnInv, Early
<1>2. u \in TCB /\ Young(u)
  BY <1>1 DEF Young, SynTaken, SameBuffers
<1>3. RcvInv(u)
  BY <1>2, YoungRcvInv DEF Young
<1>4. u.retxQueue # <<>>
  BY SynEntryType, TcbParts, AppendNonempty DEF SynTaken
<1>5. LifeStep(t, u)
  <2>1. lifeName(t) \in {"Listen", "Relisten", "SynSent"} /\ lifeName(u) = "SynReceived"
    BY DEF lifeName, SynTaken
  <2>2. u.reached = (t.reached \/ lifeName(u) = "Established")
    BY <2>1 DEF SynTaken, TCB
  <2>3. "syn" \in SegKind /\ <<lifeName(t), "syn", lifeName(u)>> \in SegMoves
    BY <2>1 DEF SegKind, SegMoves
  <2> QED BY <1>2, <2>2, <2>3, SegmentLife
<1> QED BY <1>1, <1>2, <1>3, <1>4, <1>5 DEF ConnInv, SynTaken

LEMMA SegEffectConn ==
    ASSUME NEW t \in TCB, NEW b, ConnInv(t, b), NEW u, NEW s, SegEffect(t, u, s),
           t.state \notin {"Closed", "Listen", "SynSent"}
    PROVE  u \in TCB /\ ConnInv(u, b) /\ LifeStep(t, u)
<1>1. b
  BY OpenIfActive
<1>2. u \in TCB /\ RcvInv(u) /\ Settled(u) /\ SegStep(t, u)
  BY DEF SegEffect
<1>3. u.state \in Early => Young(u) /\ t.state = "SynReceived" /\ u.retxQueue = t.retxQueue
  BY DEF SegEffect, SegStep, ConnInv, Early, Young, SameSnd, SameRcv
<1>4. ConnInv(u, b)
  BY <1>1, <1>2, <1>3 DEF ConnInv, Early
<1>5. LifeStep(t, u)
  <2>0. t.reached \in BOOLEAN /\ u.reached \in BOOLEAN
    BY <1>2 DEF TCB
  <2>1. CASE u.state = "Closed" /\ u.reached = t.reached
    BY <1>2, <2>1, ClosedLife
  <2>2. CASE u.state = t.state /\ u.reached = t.reached
    BY <2>2, SameLife
  <2>3. CASE t.state = "SynReceived" /\ u.state = "Listen" /\ u.reached = t.reached
    <3>1. u.retxQueue # <<>>
      BY <1>3, <2>3 DEF Early, ConnInv
    <3>2. lifeName(t) = "SynReceived" /\ lifeName(u) = "Relisten"
      BY <2>3, <3>1 DEF lifeName
    <3>3. "rst" \in SegKind /\ <<lifeName(t), "rst", lifeName(u)>> \in SegMoves
      BY <3>2 DEF SegKind, SegMoves
    <3>4. u.reached = (t.reached \/ lifeName(u) = "Established")
      BY <2>0, <2>3, <3>2
    <3> QED BY <1>2, <3>3, <3>4, SegmentLife
  <2>4. CASE t.state = "SynReceived" /\ u.state \in {"Established", "CloseWait"} /\ u.reached
    <3>2. lifeName(t) = "SynReceived" /\ lifeName(u) = "Established"
      BY <2>4 DEF lifeName
    <3>3. "ack" \in SegKind /\ <<lifeName(t), "ack", lifeName(u)>> \in SegMoves
      BY <3>2 DEF SegKind, SegMoves
    <3>4. u.reached = (t.reached \/ lifeName(u) = "Established")
      BY <2>0, <2>4, <3>2
    <3> QED BY <1>2, <3>3, <3>4, SegmentLife
  <2>5. CASE /\ u.reached = t.reached
             /\ \/ t.state = "Established" /\ u.state = "CloseWait"
                \/ t.state = "FinWait1" /\ u.state \in {"FinWait2", "Closing"}
    <3>1. lifeName(u) = lifeName(t)
      BY <2>5 DEF lifeName
    <3>2. lifeOf(u) = lifeOf(t)
      BY <2>5, <3>1, LifeParts
    <3> QED BY <3>2 DEF LifeStep
  <2>6. CASE /\ u.reached = t.reached
             /\ t.state \in {"FinWait1", "FinWait2", "Closing"} /\ u.state = "TimeWait"
    <3>2. lifeName(t) = "Closing" /\ lifeName(u) = "TimeWait"
      BY <2>6 DEF lifeName
    <3>3. "ack" \in SegKind /\ <<lifeName(t), "ack", lifeName(u)>> \in SegMoves
      BY <3>2 DEF SegKind, SegMoves
    <3>4. u.reached = (t.reached \/ lifeName(u) = "Established")
      BY <2>0, <2>6, <3>2
    <3> QED BY <1>2, <3>3, <3>4, SegmentLife
  <2> QED BY <1>2, <2>1, <2>2, <2>3, <2>4, <2>5, <2>6 DEF SegStep
<1> QED BY <1>2, <1>4, <1>5

\* What a step does to the FINs a connection sends and has taken; s is the
\* segment that arrived.
PreFin == {"Listen", "SynSent", "SynReceived", "Established", "CloseWait"}
FinEffect(t, u, s) ==
    /\ NoNewFin(t, u)
    /\ u.fin = t.fin \/ ("FIN" \in s.flags /\ u.fin = [seen |-> TRUE, seq |-> finNum(s)])
    /\ u.state \in PreFin => t.state \in PreFin

LEMMA ArrivalConn ==
    ASSUME NEW t \in TCB, NEW b, ConnInv(t, b), NEW s \in Segment, SameFin(t, s)
    PROVE  LET u == onSegment(t, s) IN
             u \in TCB /\ ConnInv(u, b) /\ LifeStep(t, u) /\ FinEffect(t, u, s)
<1> DEFINE k == [t EXCEPT !.keepaliveProbes = 0]
           u == onSegment(t, s)
<1>1. Keeps(t, k) /\ SameSnd(t, k)
  <2>1. 0 \in 0..KeepaliveMaxProbes
    BY TcbAssumption
  <2>2. Keeps(t, k)
    BY <2>1 DEF Keeps, KeepsRcv, SameRcv, Settled, NoNewFin, TCB
  <2>3. SameSnd(t, k)
    BY DEF SameSnd, TCB
  <2> QED BY <2>2, <2>3
<1>2. u = CASE k.state = "Closed" -> onSegmentClosed(k, s)
            [] k.state = "Listen" -> onSegmentListen(k, s)
            [] k.state = "SynSent" -> onSegmentSynSent(k, s)
            [] OTHER -> onSegmentSynchronized(k, s)
  BY DEF onSegment
<1> HIDE DEF k, u
<1>3. k \in TCB /\ ConnInv(k, b)
  BY <1>1, QuietConn
<1>4. /\ k.state = t.state /\ k.reached = t.reached /\ k.fin = t.fin /\ NoNewFin(t, k)
      /\ k.retxQueue = t.retxQueue
  BY <1>1 DEF Keeps, KeepsRcv, SameRcv, SameSnd
<1>5. lifeOf(k) = lifeOf(t)
  BY <1>4 DEF lifeOf
<1>6. SUFFICES u \in TCB /\ ConnInv(u, b) /\ LifeStep(k, u) /\ FinEffect(k, u, s)
  BY <1>4, <1>5 DEF LifeStep, FinEffect, NoNewFin, u
<1>7. CASE k.state = "Closed"
  <2>1. Replied(k, u)
    BY <1>2, <1>3, <1>7, OnSegmentClosedEffect
  <2> QED BY <1>3, <1>7, <2>1, RepliedConn DEF FinEffect, Replied, SameRcv
<1>8. CASE k.state = "Listen"
  <2>1. Replied(k, u) \/ SynTaken(k, u)
    BY <1>2, <1>3, <1>8, OnSegmentListenEffect
  <2>2. CASE Replied(k, u)
    BY <1>3, <1>8, <2>2, RepliedConn DEF FinEffect, Replied, SameRcv
  <2>3. CASE SynTaken(k, u)
    BY <1>3, <1>8, <2>3, SynTakenConn DEF FinEffect, SynTaken, SameBuffers, PreFin
  <2> QED BY <2>1, <2>2, <2>3
<1>9. CASE k.state = "SynSent"
  <2>0. Young(k) /\ b /\ RcvInv(k)
    BY <1>3, <1>9 DEF ConnInv, Early
  <2>1. \/ Replied(k, u)
        \/ /\ SameRcv(k, u) /\ SameSnd(k, u) /\ NoNewFin(k, u)
           /\ u.state = "Closed" /\ u.reached = k.reached
        \/ /\ u \in TCB /\ u.state = "Established" /\ u.reached /\ Settled(u)
           /\ SameBuffers(k, u) /\ u.rcv.wnd = k.rcv.wnd /\ NoNewFin(k, u)
        \/ SynTaken(k, u)
    BY <1>2, <1>3, <1>9, OnSegmentSynSentEffect
  <2>2. CASE Replied(k, u)
    BY <1>3, <1>9, <2>2, RepliedConn DEF FinEffect, Replied, SameRcv
  <2>3. CASE SynTaken(k, u)
    BY <1>3, <1>9, <2>3, SynTakenConn DEF FinEffect, SynTaken, SameBuffers, PreFin
  <2>4. CASE /\ SameRcv(k, u) /\ SameSnd(k, u) /\ NoNewFin(k, u)
             /\ u.state = "Closed" /\ u.reached = k.reached
    <3>1. u \in TCB /\ RcvInv(u)
      BY <2>0, <2>4, SameRcvInv DEF SameRcv
    <3>2. ConnInv(u, b)
      BY <2>0, <2>4, <3>1 DEF ConnInv, Early
    <3>3. LifeStep(k, u)
      BY <1>3, <1>9, <2>4, <3>1, ClosedLife
    <3> QED BY <2>4, <3>1, <3>2, <3>3 DEF FinEffect, SameRcv, PreFin
  <2>5. CASE /\ u \in TCB /\ u.state = "Established" /\ u.reached /\ Settled(u)
             /\ SameBuffers(k, u) /\ u.rcv.wnd = k.rcv.wnd /\ NoNewFin(k, u)
    <3>1. RcvInv(u)
      BY <2>0, <2>5, YoungRcvInv DEF Young, SameBuffers
    <3>2. ConnInv(u, b)
      BY <2>0, <2>5, <3>1 DEF ConnInv, Early
    <3>3. lifeName(k) = "SynSent" /\ lifeName(u) = "Established"
      BY <1>9, <2>5 DEF lifeName
    <3>4. "synack" \in SegKind /\ <<lifeName(k), "synack", lifeName(u)>> \in SegMoves
      BY <3>3 DEF SegKind, SegMoves
    <3>5. u.reached \in BOOLEAN /\ k.reached \in BOOLEAN
      BY <1>3, <2>5 DEF TCB
    <3>6. u.reached = (k.reached \/ lifeName(u) = "Established")
      BY <2>5, <3>3, <3>5
    <3>7. LifeStep(k, u)
      BY <1>3, <2>5, <3>4, <3>6, SegmentLife
    <3> QED BY <1>9, <2>5, <3>2, <3>7 DEF FinEffect, SameBuffers, PreFin
  <2> QED BY <2>1, <2>2, <2>3, <2>4, <2>5
<1>10. CASE k.state \notin {"Closed", "Listen", "SynSent"}
  <2>1. u = onSegmentSynchronized(k, s)
    BY <1>2, <1>10
  <2>2. RcvInv(k) /\ Settled(k) /\ SameFin(k, s)
    BY <1>3, <1>4, <1>10 DEF ConnInv, SameFin
  <2>3. SegEffect(k, u, s)
    BY <1>3, <1>10, <2>1, <2>2, SynchronizedEffect
  <2>4. FinEffect(k, u, s)
    BY <1>10, <2>3 DEF SegEffect, FinEffect, SegStep, PreFin
  <2> QED BY <1>3, <1>10, <2>3, <2>4, SegEffectConn
<1> QED BY <1>7, <1>8, <1>9, <1>10

LEMMA OpenConn ==
    ASSUME NEW t \in TCB, ConnInv(t, FALSE), NEW iss \in SeqNum,
           NEW u \in {ActiveOpen(t, iss), PassiveOpen(t)}
    PROVE  /\ u \in TCB /\ ConnInv(u, TRUE) /\ LifeStep(t, u)
           /\ NoNewFin(t, u) /\ u.fin = t.fin /\ u.sndBuf = t.sndBuf
<1>1. Young(t) /\ t.state = "Closed" /\ t.retxQueue = <<>>
  BY DEF ConnInv
<1>2. /\ u \in TCB /\ u.reached = t.reached /\ SameBuffers(t, u) /\ NoNewFin(t, u)
      /\ u.sndBuf = t.sndBuf /\ u.cong = t.cong
      /\ \/ u.state = "SynSent"
         \/ u.state = "Listen" /\ u.retxQueue = <<>>
  <2>1. CASE u = ActiveOpen(t, iss)
    <3> DEFINE a == ActiveOpen(t, iss)
    <3>1. /\ a \in TCB /\ a.state = "SynSent" /\ a.reached = t.reached /\ SameBuffers(t, a)
          /\ NoNewFin(t, a) /\ a.sndBuf = t.sndBuf /\ a.cong = t.cong
      BY ActiveOpenEffect
    <3>2. u = a
      BY <2>1
    <3> HIDE DEF a
    <3> QED BY <3>1, <3>2
  <2>2. CASE u = PassiveOpen(t)
    <3> DEFINE a == PassiveOpen(t)
    <3>1. /\ a \in TCB /\ a.state = "Listen" /\ a.reached = t.reached /\ SameBuffers(t, a)
          /\ NoNewFin(t, a) /\ SameSnd(t, a)
      BY PassiveOpenEffect
    <3>2. u = a
      BY <2>2
    <3> HIDE DEF a
    <3> QED BY <1>1, <3>1, <3>2 DEF SameSnd
  <2> QED BY <2>1, <2>2
<1>3. Young(u) /\ RcvInv(u)
  BY <1>1, <1>2, YoungRcvInv DEF Young, SameBuffers
<1>4. ConnInv(u, TRUE)
  BY <1>2, <1>3 DEF ConnInv
<1>5. LifeStep(t, u)
  BY <1>1, <1>2, OpenLife
<1> QED BY <1>2, <1>4, <1>5 DEF SameBuffers

LEMMA CloseConn ==
    ASSUME NEW t \in TCB, NEW b, ConnInv(t, b), t.state \in CanClose
    PROVE  LET u == Close(t) IN
             /\ u \in TCB /\ ConnInv(u, b) /\ LifeStep(t, u) /\ u.fin = t.fin /\ u.rcv = t.rcv
             /\ \/ NoNewFin(t, u)
                \/ /\ b /\ u.state \notin PreFin
                   /\ FinNums(u.out, u.retxQueue)
                        \subseteq FinNums(t.out, t.retxQueue) \cup {t.snd.nxt}
             /\ u.state \notin PreFin
<1> DEFINE u == Close(t)
<1>1. /\ KeepsRcv(t, u) /\ u.reached = t.reached
      /\ \/ t.state \in {"Listen", "SynSent"} /\ u.state = "Closed" /\ NoNewFin(t, u)
         \/ /\ t.state \in {"Established", "SynReceived"} /\ u.state = "FinWait1"
            /\ FinSent(t, u)
         \/ t.state = "CloseWait" /\ u.state = "LastAck" /\ FinSent(t, u)
  BY CloseEffect
<1> HIDE DEF u
<1>2. b
  BY OpenIfActive DEF CanClose
<1>3. u \in TCB /\ u.rcv = t.rcv /\ u.fin = t.fin /\ RcvInv(u) /\ (Settled(t) => Settled(u))
  BY <1>1, SameRcvInv DEF KeepsRcv, SameRcv, ConnInv
<1>4. LifeStep(t, u)
  BY <1>1, <1>3, CloseLife
<1>5. ConnInv(u, b)
  BY <1>1, <1>2, <1>3 DEF ConnInv, Early
<1> QED BY <1>1, <1>2, <1>3, <1>4, <1>5 DEF FinSent, PreFin, u

-----------------------------------------------------------------------------
(* Two connections and the network between them.                           *)

\* The numbers of q's FIN that are queued, in flight, or taken by the other side.
Fins(q) == FinNums(tcb[q].out \cup net[other(q)], tcb[q].retxQueue)
           \cup (IF tcb[other(q)].fin.seen THEN {tcb[other(q)].fin.seq} ELSE {})

\* A connection sends one FIN, and none before its application closes it.
OneFin == \A q \in Peer :
             /\ \A x \in Fins(q) : \A y \in Fins(q) : x = y
             /\ q \notin opened \/ tcb[q].state \in PreFin => Fins(q) = {}

Conns == \A p \in Peer : ConnInv(tcb[p], p \in opened)

\* TypeOK and the invariants of the connections and of their FINs.  Two theorems
\* below are instances of Conns; that a segment finds no second FIN, which would
\* move RCV.NXT over a fragment, is OneFin.
DuplexInv == TypeOK /\ Conns /\ OneFin

\* What p's next TCB must satisfy; arrived are the segments it may have taken.
Good(p, t, arrived) ==
    /\ t \in TCB /\ ConnInv(t, p \in opened') /\ LifeStep(tcb[p], t)
    /\ synchronized(tcb[p].state) => SeqLEQ(Edge(tcb[p]), Edge(t))
    /\ \/ t.fin = tcb[p].fin
       \/ \E s \in arrived : "FIN" \in s.flags /\ t.fin = [seen |-> TRUE, seq |-> finNum(s)]
    /\ \/ /\ NoNewFin(tcb[p], t)
          /\ p \notin opened' \/ t.state \in PreFin => p \notin opened \/ tcb[p].state \in PreFin
       \/ /\ tcb[p].state \in PreFin /\ t.state \notin PreFin /\ p \in opened'
          /\ FinNums(t.out, t.retxQueue)
               \subseteq FinNums(tcb[p].out, tcb[p].retxQueue) \cup {tcb[p].snd.nxt}

\* One step seen from the receive window, and from the Stack.
EdgeStep == \A p \in Peer : synchronized(tcb[p].state) => SeqLEQ(Edge(tcb[p]), Edge(tcb'[p]))
LifeSteps == \A p \in Peer : LifeStep(tcb[p], tcb'[p])

\* The other peer.
LEMMA OtherPeer ==
    ASSUME NEW p \in Peer
    PROVE  other(p) \in Peer /\ other(p) # p /\ other(other(p)) = p /\ Peer = {p, other(p)}
  BY DEF other, Peer

\* Where the edge stays, it is not to the left of itself.
LEMMA EdgeRefl ==
    ASSUME NEW t \in TCB, NEW u, u.rcv = t.rcv
    PROVE  SeqLEQ(Edge(t), Edge(u))
  BY DEF SeqLEQ, Edge

LEMMA OldSynType == ASSUME NEW q \in SeqNum PROVE oldSyn(q) \in Segment
<1>1. minU32(RcvBuff, MaxWindow) \in 0..MaxWindow
  BY TcbAssumption DEF minU32
<1> QED BY <1>1, EmptyPayload, SmallSeqNums DEF oldSyn, Segment

\* No FIN where there is no segment with one.
LEMMA NoFins ==
    ASSUME NEW out, \A s \in out : "FIN" \notin s.flags
    PROVE  FinNums(out, <<>>) = {}
<1>1. Len(<<>>) = 0
  BY EmptySeq
<1> QED BY <1>1 DEF FinNums

LEMMA NewConnInv ==
    ASSUME NEW iss \in SeqNum
    PROVE  LET t == NewConn(iss) IN
             /\ t \in TCB /\ ConnInv(t, FALSE) /\ t.out = {} /\ t.retxQueue = <<>>
             /\ ~t.fin.seen
<1> DEFINE t == NewConn(iss)
<1>1. t \in TCB
  BY NewConnType
<1>2. /\ t.state = "Closed" /\ t.out = {} /\ t.retxQueue = <<>> /\ ~t.fin.seen
      /\ t.rcvBuf = <<>> /\ t.oooSegs = {} /\ t.sndBuf = <<>> /\ t.cong.state = "SlowStart"
  BY DEF NewConn, newCongestion
<1> HIDE DEF t
<1>3. RcvInv(t)
  BY <1>1, <1>2, YoungRcvInv
<1>4. ConnInv(t, FALSE)
  BY <1>2, <1>3 DEF ConnInv, Young
<1> QED BY <1>1, <1>2, <1>4 DEF t

LEMMA DuplexInit == Init => DuplexInv
<1> SUFFICES ASSUME Init PROVE DuplexInv
  OBVIOUS
<1>1. \A p \in Peer : /\ tcb[p] \in TCB /\ ConnInv(tcb[p], FALSE) /\ tcb[p].out = {}
                      /\ tcb[p].retxQueue = <<>> /\ ~tcb[p].fin.seen
  <2> TAKE p \in Peer
  <2>1. tcb[p] = NewConn(Iss[p]) /\ Iss[p] \in SeqNum
    BY DuplexAssumption DEF Init
  <2> QED BY <2>1, NewConnInv
<1>2. tcb \in [Peer -> TCB]
  BY <1>1 DEF Init
<1>3. net \in [Peer -> SUBSET Segment] /\ \A p \in Peer : \A s \in net[p] : "FIN" \notin s.flags
  <2>1. {oldSyn(q) : q \in OldSyns} \in SUBSET Segment
    BY OldSynType, DuplexAssumption
  <2>2. \A s \in {oldSyn(q) : q \in OldSyns} : "FIN" \notin s.flags
    BY DEF oldSyn
  <2> QED BY <2>1, <2>2 DEF Init
<1>4. /\ opened = {} /\ nsent \in [Peer -> Nat] /\ nread \in [Peer -> Nat]
      /\ faults \in [lost: Nat, extra: Nat]
  BY DEF Init
<1>5. Conns
  <2> SUFFICES ASSUME NEW p \in Peer PROVE ConnInv(tcb[p], p \in opened)
    BY DEF Conns
  <2>1. p \notin opened
    BY <1>4
  <2> QED BY <1>1, <2>1 DEF ConnInv
<1>6. OneFin
  <2>1. \A q \in Peer : Fins(q) = {}
    <3> TAKE q \in Peer
    <3>1. other(q) \in Peer
      BY OtherPeer
    <3>2. FinNums(tcb[q].out \cup net[other(q)], <<>>) = {}
      BY <1>1, <1>3, <3>1, NoFins
    <3> QED BY <1>1, <3>1, <3>2 DEF Fins
  <2> QED BY <2>1 DEF OneFin
<1> QED BY <1>2, <1>3, <1>4, <1>5, <1>6 DEF DuplexInv, TypeOK

\* Emptying out changes nothing that the invariants speak of.
LEMMA OutEmptied ==
    ASSUME NEW t \in TCB
    PROVE  LET u == [t EXCEPT !.out = {}] IN
             /\ u \in TCB /\ t.out \in SUBSET Segment /\ u.out = {}
             /\ u.state = t.state /\ u.rcv = t.rcv /\ u.fin = t.fin /\ u.rcvBuf = t.rcvBuf
             /\ u.oooSegs = t.oooSegs /\ u.sndBuf = t.sndBuf /\ u.cong = t.cong
             /\ u.ts = t.ts /\ u.tmr = t.tmr /\ u.retxQueue = t.retxQueue
             /\ u.reached = t.reached /\ u.snd = t.snd
  BY DEF TCB

LEMMA ConnInvOut ==
    ASSUME NEW t \in TCB, NEW b, ConnInv(t, b)
    PROVE  ConnInv([t EXCEPT !.out = {}], b)
<1> DEFINE u == [t EXCEPT !.out = {}]
<1>1. /\ u.state = t.state /\ u.rcv = t.rcv /\ u.fin = t.fin /\ u.rcvBuf = t.rcvBuf
      /\ u.oooSegs = t.oooSegs /\ u.sndBuf = t.sndBuf /\ u.cong = t.cong
      /\ u.ts = t.ts /\ u.tmr = t.tmr /\ u.retxQueue = t.retxQueue /\ u \in TCB
  BY OutEmptied
<1> HIDE DEF u
<1>2. RcvInv(u) /\ (Young(t) => Young(u)) /\ (Settled(t) => Settled(u))
  BY <1>1, SameRcvInv DEF ConnInv, SameRcv, Young, Settled
<1>3. ConnInv(u, b)
  BY <1>1, <1>2 DEF ConnInv
<1> QED BY <1>3 DEF u

\* FIN numbers of the union of two sets of segments.
LEMMA FinNumsUnion ==
    ASSUME NEW A, NEW B, NEW q
    PROVE  FinNums(A \cup B, q) \subseteq FinNums(A, q) \cup FinNums(B, q)
  BY DEF FinNums

LEMMA FinNumsMono ==
    ASSUME NEW A, NEW B, NEW q, A \subseteq B
    PROVE  FinNums(A, q) \subseteq FinNums(B, q)
  BY DEF FinNums

\* The FIN numbers of a set of segments do not depend on the queue.
LEMMA FinNumsSplit ==
    ASSUME NEW A, NEW q, NEW r
    PROVE  FinNums(A, q) \subseteq FinNums({}, q) \cup FinNums(A, r)
  BY DEF FinNums

\* The state after p's connection becomes t.
Moves(p, t, arrived) ==
    /\ tcb' = [tcb EXCEPT ![p] = [t EXCEPT !.out = {}]]
    /\ net' \in [Peer -> SUBSET Segment]
    /\ net'[other(p)] = net[other(p)] \cup t.out
    /\ net'[p] \subseteq net[p] /\ arrived \subseteq net[p]
    /\ opened \subseteq opened' /\ opened' \subseteq opened \cup {p}

LEMMA MovedTcb ==
    ASSUME TypeOK, NEW p \in Peer, NEW t, NEW arrived, Good(p, t, arrived), Moves(p, t, arrived)
    PROVE  /\ tcb' \in [Peer -> TCB] /\ tcb'[p] = [t EXCEPT !.out = {}]
           /\ \A q \in Peer \ {p} : tcb'[q] = tcb[q] /\ (q \in opened') = (q \in opened)
<1> DEFINE u == [t EXCEPT !.out = {}]
<1>1. u \in TCB
  BY OutEmptied DEF Good
<1>2. tcb' = [tcb EXCEPT ![p] = u] /\ tcb \in [Peer -> TCB]
  BY DEF Moves, TypeOK
<1> HIDE DEF u
<1>3. tcb' \in [Peer -> TCB] /\ tcb'[p] = u /\ \A q \in Peer \ {p} : tcb'[q] = tcb[q]
  BY <1>1, <1>2
<1> QED BY <1>3 DEF Moves, u

\* The FINs of the peer that moved, and of the other.
LEMMA MovedFins ==
    ASSUME TypeOK, NEW p \in Peer, NEW t, NEW arrived, Good(p, t, arrived), Moves(p, t, arrived)
    PROVE  /\ \/ Fins(p)' \subseteq Fins(p)
              \/ /\ tcb[p].state \in PreFin /\ t.state \notin PreFin /\ p \in opened'
                 /\ Fins(p)' \subseteq Fins(p) \cup {tcb[p].snd.nxt}
           /\ Fins(other(p))' \subseteq Fins(other(p))
<1> DEFINE q == other(p)
           k == tcb[p]
           w == tcb'[p]
<1>1. q \in Peer /\ q # p /\ other(q) = p
  BY OtherPeer
<1>2. /\ w.out = {} /\ w.retxQueue = t.retxQueue /\ w.fin = t.fin /\ tcb'[q] = tcb[q]
  <2>1. t \in TCB
    BY DEF Good
  <2>2. w = [t EXCEPT !.out = {}] /\ tcb'[q] = tcb[q]
    BY <1>1, MovedTcb
  <2> QED BY <2>1, <2>2, OutEmptied
<1>3. /\ net'[q] = net[q] \cup t.out /\ net'[p] \subseteq net[p] /\ arrived \subseteq net[p]
  BY DEF Moves
<1>4. Fins(q)' \subseteq Fins(q)
  <2>1. Fins(q)' = FinNums(tcb[q].out \cup net'[p], tcb[q].retxQueue)
                     \cup (IF t.fin.seen THEN {t.fin.seq} ELSE {})
    BY <1>1, <1>2 DEF Fins
  <2>2. Fins(q) = FinNums(tcb[q].out \cup net[p], tcb[q].retxQueue)
                     \cup (IF k.fin.seen THEN {k.fin.seq} ELSE {})
    BY <1>1 DEF Fins
  <2>3. FinNums(tcb[q].out \cup net'[p], tcb[q].retxQueue)
          \subseteq FinNums(tcb[q].out \cup net[p], tcb[q].retxQueue)
    BY <1>3, FinNumsMono
  <2>4. CASE t.fin = k.fin
    BY <2>1, <2>2, <2>3, <2>4
  <2>5. CASE \E s \in arrived : "FIN" \in s.flags /\ t.fin = [seen |-> TRUE, seq |-> finNum(s)]
    <3>1. PICK s \in arrived : "FIN" \in s.flags /\ t.fin = [seen |-> TRUE, seq |-> finNum(s)]
      BY <2>5
    <3>2. finNum(s) \in FinNums(tcb[q].out \cup net[p], tcb[q].retxQueue)
      BY <1>3, <3>1 DEF FinNums
    <3>3. t.fin.seq = finNum(s)
      BY <3>1
    <3> QED BY <2>1, <2>2, <2>3, <3>2, <3>3
  <2> QED BY <2>4, <2>5 DEF Good
<1>5. ASSUME NEW X, FinNums(t.out, t.retxQueue) \subseteq FinNums(k.out, k.retxQueue) \cup X
      PROVE  Fins(p)' \subseteq Fins(p) \cup X
  <2> DEFINE tail == IF tcb[q].fin.seen THEN {tcb[q].fin.seq} ELSE {}
  <2>1. Fins(p)' = FinNums({} \cup net'[q], t.retxQueue) \cup tail
    BY <1>2 DEF Fins
  <2>2. Fins(p) = FinNums(k.out \cup net[q], k.retxQueue) \cup tail
    BY DEF Fins
  <2> HIDE DEF tail
  <2>3. {} \cup net'[q] = t.out \cup net[q]
    BY <1>3
  <2>4. FinNums(t.out \cup net[q], t.retxQueue)
          \subseteq FinNums(t.out, t.retxQueue) \cup FinNums(net[q], t.retxQueue)
    BY FinNumsUnion
  <2>5. FinNums(net[q], t.retxQueue)
          \subseteq FinNums({}, t.retxQueue) \cup FinNums(net[q], k.retxQueue)
    BY FinNumsSplit
  <2>6. /\ FinNums({}, t.retxQueue) \subseteq FinNums(t.out, t.retxQueue)
        /\ FinNums(k.out, k.retxQueue) \subseteq FinNums(k.out \cup net[q], k.retxQueue)
        /\ FinNums(net[q], k.retxQueue) \subseteq FinNums(k.out \cup net[q], k.retxQueue)
    BY FinNumsMono
  <2> QED BY <1>5, <2>1, <2>2, <2>3, <2>4, <2>5, <2>6
<1>6. CASE NoNewFin(k, t)
  <2>1. FinNums(t.out, t.retxQueue) \subseteq FinNums(k.out, k.retxQueue) \cup {}
    BY <1>6 DEF NoNewFin
  <2>2. Fins(p)' \subseteq Fins(p) \cup {}
    BY <1>5, <2>1
  <2> QED BY <1>4, <2>2
<1>7. CASE /\ k.state \in PreFin /\ t.state \notin PreFin /\ p \in opened'
           /\ FinNums(t.out, t.retxQueue) \subseteq FinNums(k.out, k.retxQueue) \cup {k.snd.nxt}
  <2>2. Fins(p)' \subseteq Fins(p) \cup {k.snd.nxt}
    BY <1>5, <1>7
  <2> QED BY <1>4, <1>7, <2>2
<1> QED BY <1>6, <1>7 DEF Good

\* One peer's connection becomes t: the invariants and both steps follow.
StepGoal == TypeOK' /\ Conns' /\ OneFin' /\ EdgeStep /\ LifeSteps

LEMMA PeerStep ==
    ASSUME DuplexInv, NEW p \in Peer, NEW t, NEW arrived, Good(p, t, arrived),
           Moves(p, t, arrived), nsent' \in [Peer -> Nat], nread' \in [Peer -> Nat],
           faults' \in [lost: Nat, extra: Nat]
    PROVE  StepGoal
<1> DEFINE u == [t EXCEPT !.out = {}]
<1>0. t \in TCB /\ tcb \in [Peer -> TCB] /\ TypeOK /\ Conns /\ OneFin
  BY DEF Good, DuplexInv, TypeOK
<1>1. /\ u \in TCB /\ u.state = t.state /\ u.rcv = t.rcv /\ u.reached = t.reached
      /\ u.retxQueue = t.retxQueue /\ ConnInv(u, p \in opened')
  BY <1>0, OutEmptied, ConnInvOut DEF Good
<1>2. /\ tcb' \in [Peer -> TCB] /\ tcb'[p] = u
      /\ \A q \in Peer \ {p} : tcb'[q] = tcb[q] /\ (q \in opened') = (q \in opened)
  BY <1>0, MovedTcb
<1> HIDE DEF u
<1>3. TypeOK'
  <2>1. opened' \subseteq Peer
    BY <1>0 DEF TypeOK, Moves
  <2> QED BY <1>2, <2>1 DEF TypeOK, Moves
<1>4. Conns'
  <2> SUFFICES ASSUME NEW q \in Peer PROVE ConnInv(tcb'[q], q \in opened')
    BY DEF Conns
  <2>1. CASE q = p
    BY <1>1, <1>2, <2>1
  <2>2. CASE q # p
    <3>1. ConnInv(tcb[q], q \in opened)
      BY <1>0 DEF Conns
    <3> QED BY <1>2, <2>2, <3>1
  <2> QED BY <2>1, <2>2
<1>5. EdgeStep
  <2> SUFFICES ASSUME NEW q \in Peer, synchronized(tcb[q].state)
               PROVE  SeqLEQ(Edge(tcb[q]), Edge(tcb'[q]))
    BY DEF EdgeStep
  <2>1. CASE q = p
    <3>1. Edge(u) = Edge(t)
      BY <1>1 DEF Edge
    <3> QED BY <1>2, <2>1, <3>1 DEF Good
  <2>2. CASE q # p
    BY <1>0, <1>2, <2>2, EdgeRefl
  <2> QED BY <2>1, <2>2
<1>6. LifeSteps
  <2> SUFFICES ASSUME NEW q \in Peer PROVE LifeStep(tcb[q], tcb'[q])
    BY DEF LifeSteps
  <2>1. CASE q = p
    <3>1. lifeOf(u) = lifeOf(t)
      BY <1>1 DEF lifeOf
    <3> QED BY <1>2, <2>1, <3>1 DEF Good, LifeStep
  <2>2. CASE q # p
    BY <1>2, <2>2, SameLife
  <2> QED BY <2>1, <2>2
<1>7. OneFin'
  <2> DEFINE o == other(p)
  <2>1. o \in Peer /\ o # p /\ Peer = {p, o}
    BY OtherPeer
  <2>2. /\ \/ Fins(p)' \subseteq Fins(p)
           \/ /\ tcb[p].state \in PreFin /\ t.state \notin PreFin /\ p \in opened'
              /\ Fins(p)' \subseteq Fins(p) \cup {tcb[p].snd.nxt}
        /\ Fins(o)' \subseteq Fins(o)
    BY <1>0, MovedFins
  <2> HIDE DEF o
  <2>3. ASSUME NEW q \in Peer, Fins(q)' \subseteq Fins(q),
               q \notin opened' \/ tcb'[q].state \in PreFin
                 => q \notin opened \/ tcb[q].state \in PreFin
        PROVE  /\ \A x \in Fins(q)' : \A y \in Fins(q)' : x = y
               /\ q \notin opened' \/ tcb'[q].state \in PreFin => Fins(q)' = {}
    <3>1. /\ \A x \in Fins(q) : \A y \in Fins(q) : x = y
          /\ q \notin opened \/ tcb[q].state \in PreFin => Fins(q) = {}
      BY <1>0 DEF OneFin
    <3> QED BY <2>3, <3>1
  <2>4. /\ \A x \in Fins(o)' : \A y \in Fins(o)' : x = y
        /\ o \notin opened' \/ tcb'[o].state \in PreFin => Fins(o)' = {}
    <3>1. tcb'[o] = tcb[o] /\ (o \in opened') = (o \in opened)
      BY <1>2, <2>1
    <3> QED BY <2>1, <2>2, <2>3, <3>1
  <2>5. /\ \A x \in Fins(p)' : \A y \in Fins(p)' : x = y
        /\ p \notin opened' \/ tcb'[p].state \in PreFin => Fins(p)' = {}
    <3>1. tcb'[p].state = t.state
      BY <1>1, <1>2
    <3>2. CASE /\ tcb[p].state \in PreFin /\ t.state \notin PreFin /\ p \in opened'
               /\ Fins(p)' \subseteq Fins(p) \cup {tcb[p].snd.nxt}
      <4>1. Fins(p) = {}
        BY <1>0, <3>2 DEF OneFin
      <4> QED BY <3>1, <3>2, <4>1
    <3>3. CASE /\ Fins(p)' \subseteq Fins(p)
               /\ p \notin opened' \/ t.state \in PreFin
                    => p \notin opened \/ tcb[p].state \in PreFin
      BY <2>3, <3>1, <3>3
    <3>4. \/ p \notin opened' \/ t.state \in PreFin
               => p \notin opened \/ tcb[p].state \in PreFin
          \/ /\ tcb[p].state \in PreFin /\ t.state \notin PreFin /\ p \in opened'
      BY DEF Good
    <3> QED BY <2>2, <3>2, <3>3, <3>4
  <2> QED BY <2>1, <2>4, <2>5 DEF OneFin
<1> QED BY <1>3, <1>4, <1>5, <1>6, <1>7 DEF StepGoal

LEMMA BecomesMoves ==
    ASSUME TypeOK, NEW p \in Peer, NEW t \in TCB, Becomes(p, t),
           opened \subseteq opened', opened' \subseteq opened \cup {p},
           NEW arrived, arrived \subseteq net[p]
    PROVE  Moves(p, t, arrived)
<1>1. t.out \in SUBSET Segment
  BY OutEmptied
<1>2. other(p) \in Peer /\ other(p) # p /\ net \in [Peer -> SUBSET Segment]
  BY OtherPeer DEF TypeOK
<1>3. /\ net' \in [Peer -> SUBSET Segment] /\ net'[other(p)] = net[other(p)] \cup t.out
      /\ net'[p] = net[p]
  BY <1>1, <1>2 DEF Becomes
<1> QED BY <1>3 DEF Becomes, Moves

-----------------------------------------------------------------------------
(* One lemma per action.                                                   *)

\* What Conns says of one peer.
LEMMA PeerInv ==
    ASSUME DuplexInv, NEW p \in Peer
    PROVE  /\ tcb[p] \in TCB /\ ConnInv(tcb[p], p \in opened) /\ TypeOK
           /\ tcb[p].state # "Closed" => p \in opened
<1>1. tcb[p] \in TCB /\ ConnInv(tcb[p], p \in opened) /\ TypeOK
  BY DEF DuplexInv, Conns, TypeOK
<1> QED BY <1>1 DEF ConnInv

\* A step of p that keeps the receiving side and sends no FIN.
LEMMA KeepsGood ==
    ASSUME NEW p \in Peer, NEW t, opened' = opened,
           t \in TCB, ConnInv(t, p \in opened), LifeStep(tcb[p], t),
           synchronized(tcb[p].state) => SeqLEQ(Edge(tcb[p]), Edge(t)), t.fin = tcb[p].fin,
           NoNewFin(tcb[p], t), t.state \in PreFin => tcb[p].state \in PreFin
    PROVE  Good(p, t, {})
  BY DEF Good

LEMMA BecomesStep ==
    ASSUME DuplexInv, NEW p \in Peer, NEW t, NEW arrived, Good(p, t, arrived), Becomes(p, t),
           arrived \subseteq net[p], opened \subseteq opened', opened' \subseteq opened \cup {p},
           nsent' \in [Peer -> Nat], nread' \in [Peer -> Nat],
           faults' \in [lost: Nat, extra: Nat]
    PROVE  StepGoal
<1>1. Moves(p, t, arrived)
  BY BecomesMoves DEF Good, DuplexInv
<1> QED BY <1>1, PeerStep

LEMMA OpenStep ==
    ASSUME DuplexInv, NEW p \in Peer, Open(p)
    PROVE  StepGoal
<1>1. /\ tcb[p] \in TCB /\ Iss[p] \in SeqNum /\ ConnInv(tcb[p], p \in opened) /\ TypeOK
      /\ p \notin opened
  BY DuplexAssumption, PeerInv DEF Open
<1>2. (p \in opened) = FALSE
  BY <1>1
<1>3. ConnInv(tcb[p], FALSE) /\ tcb[p].state = "Closed"
  BY <1>1, <1>2 DEF ConnInv
<1>4. PICK t \in {ActiveOpen(tcb[p], Iss[p]), PassiveOpen(tcb[p])} : Becomes(p, t)
  BY DEF Open
<1>5. /\ t \in TCB /\ ConnInv(t, TRUE) /\ LifeStep(tcb[p], t)
      /\ NoNewFin(tcb[p], t) /\ t.fin = tcb[p].fin
  BY <1>1, <1>3, <1>4, OpenConn
<1>6. (p \in opened') = TRUE /\ opened' = opened \cup {p}
  BY DEF Open
<1>7. Good(p, t, {})
  <2>1. ConnInv(t, p \in opened')
    BY <1>5, <1>6
  <2>2. ~synchronized(tcb[p].state)
    BY <1>3 DEF synchronized
  <2> QED BY <1>1, <1>5, <2>1, <2>2 DEF Good
<1>8. /\ nsent' \in [Peer -> Nat] /\ nread' \in [Peer -> Nat]
      /\ faults' \in [lost: Nat, extra: Nat]
  BY <1>1 DEF Open, TypeOK
<1> QED BY <1>4, <1>6, <1>7, <1>8, BecomesStep

LEMMA AppSendStep ==
    ASSUME DuplexInv, NEW p \in Peer, AppSend(p)
    PROVE  StepGoal
<1>1. PICK n \in SendSizes :
        /\ Becomes(p, Send(tcb[p], [i \in 1..n |-> nsent[p] + i]))
        /\ nsent' = [nsent EXCEPT ![p] = @ + n]
  BY DEF AppSend
<1>2. /\ UNCHANGED <<opened, nread, faults>> /\ n \in Nat /\ nsent[p] \in Nat
      /\ tcb[p] \in TCB /\ ConnInv(tcb[p], p \in opened) /\ TypeOK
      /\ tcb[p].state \in {"Established", "CloseWait"}
  BY DuplexAssumption, PeerInv DEF AppSend, TypeOK
<1> DEFINE data == [i \in 1..n |-> nsent[p] + i]
           t == Send(tcb[p], data)
<1>3. data \in Seq(Nat)
  <2>1. data \in [1..n -> Nat]
    BY <1>2
  <2> QED BY <1>2, <2>1, FcnIsSeq
<1> HIDE DEF data
<1>4. Keeps(tcb[p], t)
  BY <1>2, <1>3, SendUserDataKeeps
<1>5. Becomes(p, t)
  BY <1>1 DEF data
<1> HIDE DEF t
<1>6. t \in TCB /\ ConnInv(t, p \in opened) /\ LifeStep(tcb[p], t)
  BY <1>2, <1>4, KeepsConn DEF Early
<1>7. Good(p, t, {})
  BY <1>2, <1>4, <1>6, KeepsGood, EdgeRefl DEF Keeps, KeepsRcv, SameRcv
<1>8. nsent' \in [Peer -> Nat] /\ nread' \in [Peer -> Nat] /\ faults' \in [lost: Nat, extra: Nat]
  BY <1>1, <1>2 DEF TypeOK
<1> QED BY <1>2, <1>5, <1>7, <1>8, BecomesStep

LEMMA AppRecvStep ==
    ASSUME DuplexInv, NEW p \in Peer, AppRecv(p)
    PROVE  StepGoal
<1>1. PICK n \in 1..Len(tcb[p].rcvBuf) :
        Becomes(p, Recv(tcb[p], n)) /\ nread' = [nread EXCEPT ![p] = @ + n]
  BY DEF AppRecv
<1>2. /\ UNCHANGED <<opened, nsent, faults>> /\ nread[p] \in Nat
      /\ tcb[p] \in TCB /\ ConnInv(tcb[p], p \in opened) /\ TypeOK
  BY PeerInv DEF AppRecv, TypeOK
<1>3. n \in Nat
  BY <1>2, TcbParts, LenProperties
<1> DEFINE t == Recv(tcb[p], n)
<1>4. t.state = tcb[p].state /\ t.fin = tcb[p].fin /\ EdgeMoves(tcb[p], t, RcvBuff)
  BY <1>2, RecvEdge
<1>5. t \in TCB /\ ConnInv(t, p \in opened) /\ LifeStep(tcb[p], t) /\ NoNewFin(tcb[p], t)
  BY <1>2, RecvConn, RecvInv
<1>6. Becomes(p, t)
  BY <1>1
<1> HIDE DEF t
<1>7. SeqLEQ(Edge(tcb[p]), Edge(t))
  <2>1. EdgeMoves(tcb[p], t, RcvBuff + 1)
    BY <1>4, TcbAssumption DEF EdgeMoves
  <2> QED BY <1>2, <2>1, EdgeOrder
<1>8. Good(p, t, {})
  BY <1>2, <1>4, <1>5, <1>7, KeepsGood
<1>9. nsent' \in [Peer -> Nat] /\ nread' \in [Peer -> Nat] /\ faults' \in [lost: Nat, extra: Nat]
  BY <1>1, <1>2, <1>3 DEF TypeOK
<1> QED BY <1>2, <1>6, <1>8, <1>9, BecomesStep

LEMMA AppCloseStep ==
    ASSUME DuplexInv, NEW p \in Peer, AppClose(p)
    PROVE  StepGoal
<1>1. /\ Becomes(p, Close(tcb[p])) /\ UNCHANGED ghosts
      /\ tcb[p] \in TCB /\ ConnInv(tcb[p], p \in opened) /\ TypeOK
      /\ tcb[p].state \in CanClose
  BY PeerInv DEF AppClose, canClose, CanClose
<1>2. opened' = opened /\ nsent' = nsent /\ nread' = nread /\ faults' = faults
  BY <1>1 DEF ghosts
<1> DEFINE t == Close(tcb[p])
<1>3. /\ t \in TCB /\ ConnInv(t, p \in opened) /\ LifeStep(tcb[p], t) /\ t.fin = tcb[p].fin
      /\ t.rcv = tcb[p].rcv /\ t.state \notin PreFin
      /\ \/ NoNewFin(tcb[p], t)
         \/ /\ p \in opened
            /\ FinNums(t.out, t.retxQueue)
                 \subseteq FinNums(tcb[p].out, tcb[p].retxQueue) \cup {tcb[p].snd.nxt}
  <2> DEFINE k == tcb[p]
             b == p \in opened
  <2>1. k \in TCB /\ ConnInv(k, b) /\ k.state \in CanClose
    BY <1>1
  <2> HIDE DEF k, b
  <2>2. LET u == Close(k) IN
             /\ u \in TCB /\ ConnInv(u, b) /\ LifeStep(k, u) /\ u.fin = k.fin /\ u.rcv = k.rcv
             /\ \/ NoNewFin(k, u)
                \/ /\ b /\ u.state \notin PreFin
                   /\ FinNums(u.out, u.retxQueue)
                        \subseteq FinNums(k.out, k.retxQueue) \cup {k.snd.nxt}
             /\ u.state \notin PreFin
    BY <2>1, CloseConn
  <2> QED BY <2>2 DEF k, b
<1> HIDE DEF t
<1>4. tcb[p].state \in PreFin /\ p \in opened
  BY <1>1, PeerInv DEF PreFin, CanClose
<1>5. SeqLEQ(Edge(tcb[p]), Edge(t))
  BY <1>1, <1>3, EdgeRefl
<1>6. Good(p, t, {})
  BY <1>2, <1>3, <1>4, <1>5 DEF Good
<1>7. nsent' \in [Peer -> Nat] /\ nread' \in [Peer -> Nat] /\ faults' \in [lost: Nat, extra: Nat]
  BY <1>1, <1>2 DEF TypeOK
<1> QED BY <1>1, <1>2, <1>6, <1>7, BecomesStep DEF t

LEMMA TimerStep ==
    ASSUME DuplexInv, NEW p \in Peer, Timer(p)
    PROVE  StepGoal
<1>1. PICK due \in SUBSET armed(tcb[p]) : Becomes(p, Tick(tcb[p], due))
  BY DEF Timer
<1>2. /\ UNCHANGED <<opened, nsent, nread>> /\ tcb[p] \in TCB /\ TypeOK
      /\ ConnInv(tcb[p], p \in opened)
  BY PeerInv DEF Timer
<1> DEFINE t == Tick(tcb[p], due)
<1>3. t \in TCB /\ ConnInv(t, p \in opened) /\ LifeStep(tcb[p], t)
  BY <1>2, TickConn
<1>4. KeepsOrCloses(tcb[p], t)
  BY <1>2, TickEffect DEF TickPart
<1>5. Becomes(p, t)
  BY <1>1
<1> HIDE DEF t
<1>6. Good(p, t, {})
  BY <1>2, <1>3, <1>4, KeepsGood, EdgeRefl
     DEF KeepsOrCloses, KeepsRcv, SameRcv, PreFin
<1>7. nsent' \in [Peer -> Nat] /\ nread' \in [Peer -> Nat] /\ faults' \in [lost: Nat, extra: Nat]
  BY <1>2 DEF TypeOK, Timer
<1> QED BY <1>2, <1>5, <1>6, <1>7, BecomesStep

\* A step that only changes what neither side of the connection depends on.
LEMMA QuietStep ==
    ASSUME DuplexInv, NEW p \in Peer, NEW t, Keeps(tcb[p], t), SameSnd(tcb[p], t),
           Becomes(p, t), UNCHANGED ghosts
    PROVE  StepGoal
<1>1. /\ opened' = opened /\ tcb[p] \in TCB /\ TypeOK /\ ConnInv(tcb[p], p \in opened)
      /\ nsent' = nsent /\ nread' = nread /\ faults' = faults
  BY PeerInv DEF ghosts
<1>2. t \in TCB /\ ConnInv(t, p \in opened) /\ LifeStep(tcb[p], t)
  BY <1>1, QuietConn
<1>3. Good(p, t, {})
  BY <1>1, <1>2, KeepsGood, EdgeRefl DEF Keeps, KeepsRcv, SameRcv
<1>4. nsent' \in [Peer -> Nat] /\ nread' \in [Peer -> Nat] /\ faults' \in [lost: Nat, extra: Nat]
  BY <1>1 DEF TypeOK
<1> QED BY <1>1, <1>3, <1>4, BecomesStep

LEMMA ChallengeWindowStep ==
    ASSUME DuplexInv, NEW p \in Peer, ChallengeWindowPasses(p)
    PROVE  StepGoal
<1>1. Becomes(p, challengeWindowPasses(tcb[p])) /\ UNCHANGED ghosts /\ tcb[p] \in TCB
  BY PeerInv DEF ChallengeWindowPasses
<1> QED BY <1>1, ChallengeWindowKeeps, QuietStep

LEMMA ClockKeeps ==
    ASSUME DuplexInv, NEW p \in Peer, ClockAdvances(p)
    PROVE  LET t == [tcb[p] EXCEPT !.ts.now = @ + 1] IN Keeps(tcb[p], t) /\ SameSnd(tcb[p], t)
<1> DEFINE x == [tcb[p].ts EXCEPT !.now = @ + 1]
           t == [tcb[p] EXCEPT !.ts = x]
<1>1. /\ tcb[p] \in TCB /\ tcb[other(p)] \in TCB /\ MaxClock \in SeqNum
      /\ tcb[p].ts.now + tcb[other(p)].ts.now < MaxClock
  BY DuplexAssumption, OtherPeer, PeerInv DEF ClockAdvances
<1>2. tcb[p].ts \in TsVars /\ tcb[other(p)].ts \in TsVars
  BY <1>1, TcbParts
<1>3. x \in TsVars /\ x.lastAckSent = tcb[p].ts.lastAckSent
  <2>1. tcb[p].ts.now \in Nat /\ tcb[other(p)].ts.now \in Nat
    BY <1>2, SmallSeqNums DEF TsVars, SeqNum
  <2>2. tcb[p].ts.now + 1 \in SeqNum
    BY <1>1, <2>1, SmallSeqNums DEF SeqNum
  <2> QED BY <1>2, <2>2 DEF TsVars
<1>4. t = [tcb[p] EXCEPT !.ts.now = @ + 1]
  BY <1>1, <1>2 DEF TCB, TsVars
<1> HIDE DEF x
<1>5. Keeps(tcb[p], t) /\ SameSnd(tcb[p], t)
  BY <1>1, <1>3, TsKeeps
<1> HIDE DEF t
<1> QED BY <1>4, <1>5

LEMMA ClockStep ==
    ASSUME DuplexInv, NEW p \in Peer, ClockAdvances(p)
    PROVE  StepGoal
<1> DEFINE t == [tcb[p] EXCEPT !.ts.now = @ + 1]
<1>1. Becomes(p, t) /\ UNCHANGED ghosts
  BY DEF ClockAdvances
<1>2. Keeps(tcb[p], t) /\ SameSnd(tcb[p], t)
  BY ClockKeeps
<1> HIDE DEF t
<1> QED BY <1>1, <1>2, QuietStep

\* A segment that arrives: its FIN, if it has one, is the one that was taken.
LEMMA ArrivalGood ==
    ASSUME DuplexInv, NEW p \in Peer, NEW s \in net[p], opened' = opened
    PROVE  Good(p, onSegment(tcb[p], s), {s})
<1>1. tcb[p] \in TCB /\ s \in Segment /\ ConnInv(tcb[p], p \in opened) /\ OneFin
  BY PeerInv DEF DuplexInv, TypeOK
<1>2. SameFin(tcb[p], s)
  <2> DEFINE q == other(p)
  <2>1. q \in Peer /\ other(q) = p
    BY OtherPeer
  <2>2. "FIN" \in s.flags => finNum(s) \in Fins(q)
    BY <2>1 DEF Fins, FinNums
  <2>3. tcb[p].fin.seen => tcb[p].fin.seq \in Fins(q)
    BY <2>1 DEF Fins
  <2>4. \A x \in Fins(q) : \A y \in Fins(q) : x = y
    BY <1>1, <2>1 DEF OneFin
  <2> QED BY <2>2, <2>3, <2>4 DEF SameFin
<1> DEFINE k == tcb[p]
           b == p \in opened
           u == onSegment(k, s)
<1>3. k \in TCB /\ ConnInv(k, b) /\ SameFin(k, s)
  BY <1>1, <1>2
<1> HIDE DEF k, b
<1>4. u \in TCB /\ ConnInv(u, b) /\ LifeStep(k, u) /\ FinEffect(k, u, s)
  BY <1>1, <1>3, ArrivalConn
<1>5. synchronized(k.state) => SeqLEQ(Edge(k), Edge(u))
  BY <1>1, <1>3, OnSegmentEffect
<1> HIDE DEF u
<1>6. Good(p, u, {s})
  BY <1>4, <1>5 DEF Good, FinEffect, k, b
<1> QED BY <1>6 DEF u, k

LEMMA DeliverStep ==
    ASSUME DuplexInv, NEW p \in Peer, Deliver(p)
    PROVE  StepGoal
<1>1. PICK s \in net[p] :
        /\ tcb' = [tcb EXCEPT ![p] = [onSegment(tcb[p], s) EXCEPT !.out = {}]]
        /\ net' = [net EXCEPT ![p] = @ \ {s}, ![other(p)] = @ \cup onSegment(tcb[p], s).out]
  BY DEF Deliver
<1>2. opened' = opened /\ nsent' = nsent /\ nread' = nread /\ faults' = faults /\ TypeOK
  BY DEF Deliver, ghosts, DuplexInv
<1> DEFINE t == onSegment(tcb[p], s)
<1>3. Good(p, t, {s})
  BY <1>2, ArrivalGood
<1>4. /\ tcb' = [tcb EXCEPT ![p] = [t EXCEPT !.out = {}]]
      /\ net' = [net EXCEPT ![p] = @ \ {s}, ![other(p)] = @ \cup t.out]
  BY <1>1
<1> HIDE DEF t
<1>5. t.out \in SUBSET Segment
  BY <1>3, OutEmptied DEF Good
<1>6. other(p) \in Peer /\ other(p) # p /\ net \in [Peer -> SUBSET Segment]
  BY <1>2, OtherPeer DEF TypeOK
<1>7. /\ net' \in [Peer -> SUBSET Segment] /\ net'[other(p)] = net[other(p)] \cup t.out
      /\ net'[p] = net[p] \ {s}
  BY <1>4, <1>5, <1>6
<1>8. Moves(p, t, {s})
  BY <1>2, <1>4, <1>7 DEF Moves
<1>9. nsent' \in [Peer -> Nat] /\ nread' \in [Peer -> Nat] /\ faults' \in [lost: Nat, extra: Nat]
  BY <1>2 DEF TypeOK
<1> QED BY <1>3, <1>8, <1>9, PeerStep

LEMMA DuplicateStep ==
    ASSUME DuplexInv, NEW p \in Peer, Duplicate(p)
    PROVE  StepGoal
<1>1. PICK s \in net[p] : Becomes(p, onSegment(tcb[p], s))
  BY DEF Duplicate
<1>2. UNCHANGED <<opened, nsent, nread>> /\ faults' \in [lost: Nat, extra: Nat] /\ TypeOK
  BY DEF Duplicate, TypeOK, DuplexInv
<1>3. Good(p, onSegment(tcb[p], s), {s})
  BY <1>2, ArrivalGood
<1>4. nsent' \in [Peer -> Nat] /\ nread' \in [Peer -> Nat]
  BY <1>2 DEF TypeOK
<1> QED BY <1>1, <1>2, <1>3, <1>4, BecomesStep

LEMMA LoseStep ==
    ASSUME DuplexInv, NEW p \in Peer, Lose(p)
    PROVE  StepGoal
<1>1. UNCHANGED <<tcb, opened, nsent, nread>> /\ TypeOK /\ Conns /\ OneFin
  BY DEF Lose, DuplexInv
<1>2. /\ net' \in [Peer -> SUBSET Segment] /\ faults' \in [lost: Nat, extra: Nat]
      /\ \A q \in Peer : net'[q] \subseteq net[q]
  BY <1>1 DEF Lose, TypeOK
<1>3. EdgeStep /\ LifeSteps
  BY <1>1, EdgeRefl, SameLife DEF EdgeStep, LifeSteps, TypeOK
<1>4. OneFin'
  <2>1. \A q \in Peer : Fins(q)' \subseteq Fins(q)
    <3> TAKE q \in Peer
    <3>1. FinNums(tcb[q].out \cup net'[other(q)], tcb[q].retxQueue)
            \subseteq FinNums(tcb[q].out \cup net[other(q)], tcb[q].retxQueue)
      <4>1. tcb[q].out \cup net'[other(q)] \subseteq tcb[q].out \cup net[other(q)]
        BY <1>2, OtherPeer
      <4> QED BY <4>1, FinNumsMono
    <3> QED BY <1>1, <3>1 DEF Fins
  <2> QED BY <1>1, <2>1 DEF OneFin
<1>5. TypeOK' /\ Conns'
  BY <1>1, <1>2 DEF TypeOK, Conns
<1> QED BY <1>3, <1>4, <1>5 DEF StepGoal

LEMMA DuplexStep ==
    ASSUME DuplexInv, [Next]_vars
    PROVE  DuplexInv' /\ EdgeStep /\ LifeSteps
<1>1. CASE Next
  <2>1. PICK p \in Peer :
          \/ Open(p) \/ AppSend(p) \/ AppRecv(p) \/ AppClose(p)
          \/ Timer(p) \/ ChallengeWindowPasses(p) \/ ClockAdvances(p)
          \/ Deliver(p) \/ Duplicate(p) \/ Lose(p)
    BY <1>1 DEF Next
  <2>2. StepGoal
    BY <2>1, OpenStep, AppSendStep, AppRecvStep, AppCloseStep, TimerStep, ChallengeWindowStep,
       ClockStep, DeliverStep, DuplicateStep, LoseStep
  <2> QED BY <2>2 DEF StepGoal, DuplexInv
<1>2. CASE UNCHANGED vars
  <2>1. EdgeStep /\ LifeSteps
    BY <1>2, EdgeRefl, SameLife DEF vars, EdgeStep, LifeSteps, TypeOK, DuplexInv
  <2>2. DuplexInv'
    <3>1. /\ tcb' = tcb /\ net' = net /\ opened' = opened /\ nsent' = nsent /\ nread' = nread
          /\ faults' = faults
      BY <1>2 DEF vars
    <3>2. TypeOK' /\ Conns'
      BY <3>1 DEF DuplexInv, TypeOK, Conns
    <3>3. \A q \in Peer : Fins(q)' = Fins(q)
      BY <3>1 DEF Fins
    <3>4. OneFin'
      BY <3>1, <3>3 DEF DuplexInv, OneFin
    <3> QED BY <3>2, <3>4 DEF DuplexInv
  <2> QED BY <2>1, <2>2
<1> QED BY <1>1, <1>2

\* Every reachable state of two connections is well typed: all sequence numbers
\* and windows fit their widths, retries stay within R2, challenge ACKs and
\* keepalive probes within their limits, payloads within defaultMSS.
THEOREM TypeInvariance == Spec => []TypeOK
<1>1. Init => DuplexInv
  BY DuplexInit
<1>2. DuplexInv /\ [Next]_vars => DuplexInv'
  BY DuplexStep
<1>3. DuplexInv => TypeOK
  BY DEF DuplexInv
<1> QED BY <1>1, <1>2, <1>3, PTL DEF Spec

\* The receive buffer never overflows: what waits to be read and the window that
\* is offered fit it, whatever arrives in whatever order, out-of-order text that
\* one segment sets free included (trimToWindow, drainOoo, consumeRcvWindow).
THEOREM BufferTheorem == Spec => []RcvBufBounded
<1>1. Init => DuplexInv
  BY DuplexInit
<1>2. DuplexInv /\ [Next]_vars => DuplexInv'
  BY DuplexStep
<1>3. DuplexInv => RcvBufBounded
  BY DEF DuplexInv, Conns, ConnInv, RcvInv, RcvOK, RcvBufBounded
<1> QED BY <1>1, <1>2, <1>3, PTL DEF Spec

\* No acknowledgment is forgotten: a synchronized connection has acknowledged
\* RCV.NXT with its last segment or has its delayed-ACK timer running
\* (acceptText, handleFin, writeSegOpts, sendAck).
THEOREM AckTheorem == Spec => []AckOwed
<1>1. Init => DuplexInv
  BY DuplexInit
<1>2. DuplexInv /\ [Next]_vars => DuplexInv'
  BY DuplexStep
<1>3. DuplexInv => AckOwed
  BY DEF DuplexInv, Conns, ConnInv, Settled, AckOwed, synchronized
<1> QED BY <1>1, <1>2, <1>3, PTL DEF Spec

\* No step of a synchronized connection moves the right edge of its receive
\* window to the left (acceptText, handleFin, Recv with advertiseWindow).
THEOREM EdgeTheorem == Spec => RightEdgeNeverShrinks
<1>1. Init => DuplexInv
  BY DuplexInit
<1>2. DuplexInv /\ [Next]_vars => DuplexInv'
  BY DuplexStep
<1>3. DuplexInv /\ [Next]_vars =>
        [\A p \in Peer : synchronized(tcb[p].state) =>
          SeqLEQ(SeqAdd(tcb[p].rcv.nxt, tcb[p].rcv.wnd),
                 SeqAdd(tcb'[p].rcv.nxt, tcb'[p].rcv.wnd))]_vars
  BY DuplexStep DEF EdgeStep, Edge
<1> QED BY <1>1, <1>2, <1>3, PTL DEF Spec, RightEdgeNeverShrinks

\* Every step of a connection is one that the Stack expects of it, so that what
\* is proved of the Stack from ConnLife holds of these connections (onSegment,
\* Tick, Close, ActiveOpen, PassiveOpen).
THEOREM LifeTheorem == Spec => LifeCycle
<1>1. Init => DuplexInv
  BY DuplexInit
<1>2. DuplexInv /\ [Next]_vars => DuplexInv'
  BY DuplexStep
<1>3. DuplexInv /\ [Next]_vars =>
        [\A p \in Peer : LET l == lifeOf(tcb[p]) IN
            lifeOf(tcb'[p]) \in {l, closeLife(l)} \cup openLife(l) \cup tickLife(l)
                                \cup UNION {segmentLife(l, k) : k \in SegKind}]_vars
  BY DuplexStep DEF LifeSteps, LifeStep
<1> QED BY <1>1, <1>2, <1>3, PTL DEF Spec, LifeCycle

-----------------------------------------------------------------------------
(* The senders.  Sequence numbers compare as the code means them only while *)
(* what is in flight is short beside the sequence space; sndBuf, which the  *)
(* code does not bound, limits it.                                          *)

SmallBuffers == \A p \in Peer : Small(tcb[p])
Sends == \A p \in Peer : SndInv(tcb[p])

\* A send buffer holds no more than its application gave to Send.
GivenOnly == \A p \in Peer : Len(tcb[p].sndBuf) <= nsent[p] /\ nsent[p] <= AppBytes[p]

\* Both applications send less than half the sequence space in all.
ShortStreams == \A p \in Peer : AppBytes[p] + DefaultMSS + 4 <= HalfSeqSpace

\* The step in which p's connection becomes t, seen from its sender: it keeps the
\* invariant, and what is new in its buffer was given to Send.
SenderMoves(p, t) ==
    /\ t \in TCB /\ tcb' = [tcb EXCEPT ![p] = [t EXCEPT !.out = {}]]
    /\ SndInv(tcb[p]) /\ Small(tcb[p]) /\ Small(t) => SndInv(t)
    /\ \E n \in Nat : /\ nsent' = [nsent EXCEPT ![p] = @ + n] /\ Len(t.sndBuf) <= Len(tcb[p].sndBuf) + n
                      /\ n = 0 \/ nsent[p] + n <= AppBytes[p]

\* Emptying out changes nothing that the sender depends on.
LEMMA SndInvOut ==
    ASSUME NEW t \in TCB
    PROVE  LET u == [t EXCEPT !.out = {}] IN
             /\ u.sndBuf = t.sndBuf /\ (SndInv(t) => SndInv(u)) /\ Small(u) = Small(t)
<1> DEFINE u == [t EXCEPT !.out = {}]
<1>1. /\ u.state = t.state /\ u.sndBuf = t.sndBuf /\ u.cong = t.cong
      /\ u.tmr = t.tmr /\ u.retxQueue = t.retxQueue /\ u.snd = t.snd
  BY OutEmptied
<1> HIDE DEF u
<1>2. flightSize(u) = flightSize(t) /\ unsent(u) = unsent(t) /\ Small(u) = Small(t)
  BY <1>1 DEF flightSize, unsent, Small
<1>3. SndInv(t) => SndInv(u)
  BY <1>1, <1>2 DEF SndInv, SndOK, SynOnly, Woken
<1> QED BY <1>1, <1>2, <1>3 DEF u

LEMMA SenderMoved ==
    ASSUME TypeOK, NEW p \in Peer, NEW t, SenderMoves(p, t)
    PROVE  /\ Sends /\ SmallBuffers /\ SmallBuffers' => Sends'
           /\ GivenOnly => GivenOnly'
<1> DEFINE u == [t EXCEPT !.out = {}]
<1>1. /\ t \in TCB /\ tcb' = [tcb EXCEPT ![p] = u] /\ tcb \in [Peer -> TCB]
  BY DEF SenderMoves, TypeOK
<1>2. u.sndBuf = t.sndBuf /\ (SndInv(t) => SndInv(u)) /\ Small(u) = Small(t)
  BY <1>1, SndInvOut
<1> HIDE DEF u
<1>3. tcb'[p] = u /\ \A q \in Peer \ {p} : tcb'[q] = tcb[q]
  BY <1>1
<1>4. ASSUME Sends, SmallBuffers, SmallBuffers' PROVE Sends'
  <2>1. SndInv(tcb[p]) /\ Small(tcb[p]) /\ Small(t)
    BY <1>2, <1>3, <1>4 DEF Sends, SmallBuffers
  <2>2. SndInv(tcb'[p])
    BY <1>2, <1>3, <2>1 DEF SenderMoves
  <2>3. \A q \in Peer \ {p} : SndInv(tcb'[q])
    BY <1>3, <1>4 DEF Sends
  <2> QED BY <2>2, <2>3 DEF Sends
<1>5. ASSUME GivenOnly PROVE GivenOnly'
  <2>1. PICK n \in Nat : /\ nsent' = [nsent EXCEPT ![p] = @ + n]
                         /\ Len(t.sndBuf) <= Len(tcb[p].sndBuf) + n
                         /\ n = 0 \/ nsent[p] + n <= AppBytes[p]
    BY DEF SenderMoves
  <2>2. /\ nsent \in [Peer -> Nat] /\ tcb[p] \in TCB /\ AppBytes[p] \in Nat
    BY <1>1, DuplexAssumption DEF TypeOK
  <2>3. /\ Len(tcb[p].sndBuf) \in Nat /\ Len(t.sndBuf) \in Nat /\ nsent[p] \in Nat
        /\ Len(tcb[p].sndBuf) <= nsent[p] /\ nsent[p] <= AppBytes[p]
    BY <1>1, <1>5, <2>2, BufLen DEF GivenOnly
  <2>4. nsent'[p] = nsent[p] + n /\ \A q \in Peer \ {p} : nsent'[q] = nsent[q]
    BY <2>1, <2>2
  <2>5. Len(tcb'[p].sndBuf) <= nsent'[p] /\ nsent'[p] <= AppBytes[p]
    BY <1>2, <1>3, <2>1, <2>2, <2>3, <2>4
  <2>6. \A q \in Peer \ {p} : Len(tcb'[q].sndBuf) <= nsent'[q] /\ nsent'[q] <= AppBytes[q]
    BY <1>3, <1>5, <2>4 DEF GivenOnly
  <2> QED BY <2>5, <2>6 DEF GivenOnly
<1> QED BY <1>4, <1>5

\* A step that gives the sender no more to do.
LEMMA SndStepMoves ==
    ASSUME TypeOK, NEW p \in Peer, NEW t, SndStep(tcb[p], t), nsent' = nsent,
           tcb' = [tcb EXCEPT ![p] = [t EXCEPT !.out = {}]]
    PROVE  SenderMoves(p, t)
<1>1. nsent \in [Peer -> Nat] /\ tcb[p] \in TCB /\ t \in TCB
  BY DEF TypeOK, SndStep
<1>2. nsent' = [nsent EXCEPT ![p] = @ + 0]
  BY <1>1
<1>3. Len(t.sndBuf) <= Len(tcb[p].sndBuf) + 0
  BY <1>1, BufLen DEF SndStep
<1>4. SndInv(tcb[p]) /\ Small(tcb[p]) /\ Small(t) => SndInv(t)
  BY DEF SndStep
<1> QED BY <1>1, <1>2, <1>3, <1>4 DEF SenderMoves

LEMMA OpenSends ==
    ASSUME DuplexInv, NEW p \in Peer, Open(p)
    PROVE  \E t : SenderMoves(p, t)
<1>1. /\ tcb[p] \in TCB /\ Iss[p] \in SeqNum /\ ConnInv(tcb[p], p \in opened) /\ TypeOK
      /\ p \notin opened /\ nsent' = nsent
  BY DuplexAssumption, PeerInv DEF Open
<1>2. ConnInv(tcb[p], FALSE) /\ tcb[p].sndBuf = <<>> /\ tcb[p].cong.state # "FastRecovery"
  BY <1>1 DEF ConnInv, Young
<1>3. PICK t \in {ActiveOpen(tcb[p], Iss[p]), PassiveOpen(tcb[p])} : Becomes(p, t)
  BY DEF Open
<1>4. t \in TCB
  BY <1>1, <1>2, <1>3, OpenConn DEF ConnInv
<1>5. SndInv(tcb[p]) => SndInv(t)
  BY <1>1, <1>2, <1>3, OpenSteps DEF SndInv
<1>6. Len(t.sndBuf) <= Len(tcb[p].sndBuf)
  <2>1. t.sndBuf = tcb[p].sndBuf
    BY <1>1, <1>2, <1>3, OpenConn
  <2> QED BY <1>1, <2>1, BufLen
<1>7. SndStep(tcb[p], t)
  BY <1>4, <1>5, <1>6 DEF SndStep
<1> QED BY <1>1, <1>3, <1>7, SndStepMoves DEF Becomes

LEMMA AppSendSends ==
    ASSUME DuplexInv, NEW p \in Peer, AppSend(p)
    PROVE  \E t : SenderMoves(p, t)
<1>1. PICK n \in SendSizes :
        /\ nsent[p] + n <= AppBytes[p]
        /\ Becomes(p, Send(tcb[p], [i \in 1..n |-> nsent[p] + i]))
        /\ nsent' = [nsent EXCEPT ![p] = @ + n]
  BY DEF AppSend
<1>2. /\ n \in Nat /\ nsent[p] \in Nat /\ tcb[p] \in TCB
      /\ tcb[p].state \in {"Established", "CloseWait"}
  BY DuplexAssumption, PeerInv DEF AppSend, TypeOK
<1> DEFINE data == [i \in 1..n |-> nsent[p] + i]
           t == Send(tcb[p], data)
<1>3. data \in Seq(Nat) /\ Len(data) = n
  <2>1. data \in [1..n -> Nat] /\ DOMAIN data = 1..n
    BY <1>2
  <2> HIDE DEF data
  <2>2. data \in Seq(Nat)
    BY <1>2, <2>1, FcnIsSeq
  <2> QED BY <1>2, <2>1, <2>2, LenProperties
<1>4. Becomes(p, t)
  BY <1>1
<1> HIDE DEF data
<1>5. /\ t \in TCB /\ Len(t.sndBuf) = Len(tcb[p].sndBuf) + n
      /\ SndInv(tcb[p]) /\ Small(t) => SndInv(t)
  BY <1>2, <1>3, SendStep
<1> HIDE DEF t
<1>6. Len(t.sndBuf) <= Len(tcb[p].sndBuf) + n
  BY <1>2, <1>5, BufLen
<1>7. SenderMoves(p, t)
  BY <1>1, <1>2, <1>4, <1>5, <1>6 DEF SenderMoves, Becomes
<1> QED BY <1>7

LEMMA UserSends ==
    ASSUME DuplexInv, NEW p \in Peer, AppRecv(p) \/ AppClose(p)
    PROVE  \E t : SenderMoves(p, t)
<1>1. tcb[p] \in TCB /\ TypeOK
  BY PeerInv
<1>2. CASE AppRecv(p)
  <2>1. PICK n \in 1..Len(tcb[p].rcvBuf) : Becomes(p, Recv(tcb[p], n))
    BY <1>2 DEF AppRecv
  <2>2. SndStep(tcb[p], Recv(tcb[p], n)) /\ nsent' = nsent
    BY <1>1, <1>2, RecvStep DEF AppRecv
  <2> QED BY <1>1, <2>1, <2>2, SndStepMoves DEF Becomes
<1>3. CASE AppClose(p)
  <2>1. Becomes(p, Close(tcb[p])) /\ nsent' = nsent /\ tcb[p].state \in CanClose
    BY <1>3 DEF AppClose, canClose, CanClose, ghosts
  <2>2. SndStep(tcb[p], Close(tcb[p]))
    BY <1>1, <2>1, CloseStep
  <2> QED BY <1>1, <2>1, <2>2, SndStepMoves DEF Becomes
<1> QED BY <1>2, <1>3

LEMMA TimeSends ==
    ASSUME DuplexInv, NEW p \in Peer, Timer(p) \/ ChallengeWindowPasses(p) \/ ClockAdvances(p)
    PROVE  \E t : SenderMoves(p, t)
<1>1. tcb[p] \in TCB /\ TypeOK
  BY PeerInv
<1>2. CASE Timer(p)
  <2>1. PICK due \in SUBSET armed(tcb[p]) : Becomes(p, Tick(tcb[p], due))
    BY <1>2 DEF Timer
  <2>2. SndStep(tcb[p], Tick(tcb[p], due)) /\ nsent' = nsent
    BY <1>1, <1>2, TickStep DEF Timer
  <2> QED BY <1>1, <2>1, <2>2, SndStepMoves DEF Becomes
<1>3. CASE ChallengeWindowPasses(p)
  <2>1. Becomes(p, challengeWindowPasses(tcb[p])) /\ nsent' = nsent
    BY <1>3 DEF ChallengeWindowPasses, ghosts
  <2>2. SndStep(tcb[p], challengeWindowPasses(tcb[p]))
    BY <1>1, ChallengeWindowKeeps, KeepsStep
  <2> QED BY <1>1, <2>1, <2>2, SndStepMoves DEF Becomes
<1>4. CASE ClockAdvances(p)
  <2> DEFINE t == [tcb[p] EXCEPT !.ts.now = @ + 1]
  <2>1. Becomes(p, t) /\ nsent' = nsent
    BY <1>4 DEF ClockAdvances, ghosts
  <2>2. Keeps(tcb[p], t) /\ SameSnd(tcb[p], t)
    BY <1>4, ClockKeeps
  <2> HIDE DEF t
  <2>3. SndStep(tcb[p], t)
    BY <1>1, <2>2, KeepsStep
  <2> QED BY <1>1, <2>1, <2>3, SndStepMoves DEF Becomes
<1> QED BY <1>2, <1>3, <1>4

LEMMA ArrivalSends ==
    ASSUME DuplexInv, NEW p \in Peer, Deliver(p) \/ Duplicate(p)
    PROVE  \E t : SenderMoves(p, t)
<1>1. tcb[p] \in TCB /\ TypeOK /\ net[p] \in SUBSET Segment /\ nsent' = nsent
  BY PeerInv DEF TypeOK, Deliver, Duplicate, ghosts
<1>2. PICK s \in net[p] : tcb' = [tcb EXCEPT ![p] = [onSegment(tcb[p], s) EXCEPT !.out = {}]]
  BY DEF Deliver, Duplicate, Becomes
<1>3. SndStep(tcb[p], onSegment(tcb[p], s))
  BY <1>1, <1>2, OnSegmentStep
<1> QED BY <1>1, <1>2, <1>3, SndStepMoves

LEMMA SendsStep ==
    ASSUME DuplexInv, [Next]_vars
    PROVE  /\ Sends /\ SmallBuffers /\ SmallBuffers' => Sends'
           /\ GivenOnly => GivenOnly'
<1>1. CASE UNCHANGED <<tcb, nsent>>
  BY <1>1 DEF Sends, GivenOnly
<1>2. CASE \E p \in Peer : \E t : SenderMoves(p, t)
  BY <1>2, SenderMoved DEF DuplexInv
<1>3. CASE Next
  <2>1. PICK p \in Peer :
          \/ Open(p) \/ AppSend(p) \/ AppRecv(p) \/ AppClose(p)
          \/ Timer(p) \/ ChallengeWindowPasses(p) \/ ClockAdvances(p)
          \/ Deliver(p) \/ Duplicate(p) \/ Lose(p)
    BY <1>3 DEF Next
  <2>2. CASE Lose(p)
    BY <1>1, <2>2 DEF Lose
  <2> QED BY <1>2, <2>1, <2>2, OpenSends, AppSendSends, UserSends, TimeSends, ArrivalSends
<1> QED BY <1>1, <1>3 DEF vars

LEMMA SendsInit == Init => Sends /\ GivenOnly
<1> SUFFICES ASSUME Init PROVE Sends /\ GivenOnly
  OBVIOUS
<1> SUFFICES ASSUME NEW p \in Peer
             PROVE  /\ SndInv(tcb[p]) /\ Len(tcb[p].sndBuf) <= nsent[p] /\ nsent[p] <= AppBytes[p]
  BY DEF Sends, GivenOnly
<1>1. tcb[p] = NewConn(Iss[p]) /\ nsent[p] = 0 /\ AppBytes[p] \in Nat
  BY DuplexAssumption DEF Init
<1>2. tcb[p].state = "Closed" /\ tcb[p].sndBuf = <<>> /\ CongLive(tcb[p].cong)
  BY <1>1, NewCongestionLive, TcbAssumption DEF NewConn
<1>3. SndInv(tcb[p])
  BY <1>2 DEF SndInv
<1> QED BY <1>1, <1>2, <1>3, EmptySeq

\* What the invariants say of the senders.
LEMMA SendsGive ==
    ASSUME DuplexInv, Sends
    PROVE  RetxCovers /\ SenderCanWake /\ RecoveryHasLoss
<1>1. RetxCovers
  BY DEF Sends, SndInv, SndOK, Covered, covers, flightSize, RetxCovers
<1>2. SenderCanWake
  BY DEF Sends, SndInv, Woken, SenderCanWake, synchronized
<1>3. RecoveryHasLoss
  <2> SUFFICES ASSUME NEW p \in Peer, tcb[p].cong.state = "FastRecovery", tcb[p].state # "Closed"
               PROVE  tcb[p].retxQueue # <<>> /\ flightSize(tcb[p]) > 0
    BY DEF RecoveryHasLoss
  <2>1. tcb[p] \in TCB /\ ConnInv(tcb[p], p \in opened)
    BY PeerInv
  <2>2. tcb[p].state # "Listen"
    BY <2>1 DEF ConnInv, Young, Early
  <2>3. SndOK(tcb[p], Control(tcb[p].state))
    BY <2>2 DEF Sends, SndInv
  <2>4. flightSize(tcb[p]) > 0 /\ flightSize(tcb[p]) \in Nat
    BY <2>1, <2>3, FlightType DEF SndOK
  <2>5. \E i \in 1..Len(tcb[p].retxQueue) : covers(tcb[p].retxQueue[i], SeqAdd(tcb[p].snd.una, 0))
    BY <2>3, <2>4 DEF SndOK, Covered, flightSize
  <2> QED BY <2>4, <2>5, EmptySeq
<1> QED BY <1>1, <1>2, <1>3

\* The hypothesis of the next theorems holds of every run whose applications send
\* less than half the sequence space: sndBuf never holds more than Send was given
\* (Send, releaseAckedSend).
THEOREM BuffersStaySmall == ShortStreams => (Spec => []SmallBuffers)
<1> SUFFICES ASSUME ShortStreams PROVE Spec => []SmallBuffers
  OBVIOUS
<1>1. Init => DuplexInv /\ GivenOnly
  BY DuplexInit, SendsInit
<1>2. DuplexInv /\ GivenOnly /\ [Next]_vars => (DuplexInv /\ GivenOnly)'
  BY DuplexStep, SendsStep
<1>3. DuplexInv /\ GivenOnly => SmallBuffers
  <2> SUFFICES ASSUME DuplexInv, GivenOnly, NEW p \in Peer PROVE Small(tcb[p])
    BY DEF SmallBuffers
  <2>1. /\ Len(tcb[p].sndBuf) \in Nat /\ DefaultMSS \in Nat /\ HalfSeqSpace \in Nat
        /\ nsent[p] \in Nat /\ AppBytes[p] \in Nat
    BY PeerInv, BufLen, DuplexAssumption DEF TypeOK
  <2> QED BY <2>1 DEF GivenOnly, ShortStreams, Small
<1> QED BY <1>1, <1>2, <1>3, PTL DEF Spec

\* Whatever is in flight is in the retransmission queue, number by number, through
\* partial ACKs, Nagle, the window edge, probes and FINs, as long as the send
\* buffers stay short beside the sequence space (emitSegment, sendData, probePersist,
\* ackRetxQueue, Close).
THEOREM CoverTheorem == Spec /\ []SmallBuffers => []RetxCovers
<1>1. Init => DuplexInv /\ Sends
  BY DuplexInit, SendsInit
<1>2. DuplexInv /\ Sends /\ SmallBuffers /\ SmallBuffers' /\ [Next]_vars => (DuplexInv /\ Sends)'
  BY DuplexStep, SendsStep
<1>3. DuplexInv /\ Sends => RetxCovers
  BY SendsGive
<1> QED BY <1>1, <1>2, <1>3, PTL DEF Spec

\* No sender falls asleep with bytes to send: a segment in flight, the persist
\* timer or the override timer will wake it (flushSend, handleAck,
\* updateSendWindow, fireOverride, probePersist).
THEOREM WakeTheorem == Spec /\ []SmallBuffers => []SenderCanWake
<1>1. Init => DuplexInv /\ Sends
  BY DuplexInit, SendsInit
<1>2. DuplexInv /\ Sends /\ SmallBuffers /\ SmallBuffers' /\ [Next]_vars => (DuplexInv /\ Sends)'
  BY DuplexStep, SendsStep
<1>3. DuplexInv /\ Sends => SenderCanWake
  BY SendsGive
<1> QED BY <1>1, <1>2, <1>3, PTL DEF Spec

\* Fast recovery ends with the loss it is for: a connection in it has the lost
\* segment in its queue (onDuplicateAck, onNewAck, ackRetxQueue).
THEOREM RecoveryTheorem == Spec /\ []SmallBuffers => []RecoveryHasLoss
<1>1. Init => DuplexInv /\ Sends
  BY DuplexInit, SendsInit
<1>2. DuplexInv /\ Sends /\ SmallBuffers /\ SmallBuffers' /\ [Next]_vars => (DuplexInv /\ Sends)'
  BY DuplexStep, SendsStep
<1>3. DuplexInv /\ Sends => RecoveryHasLoss
  BY SendsGive
<1> QED BY <1>1, <1>2, <1>3, PTL DEF Spec

-----------------------------------------------------------------------------
(* What a connection hears: the bytes of the peer's stream, in order.      *)

\* A fragment is a part of the stream of n bytes that ends before number x.
FragText(f, iss, n, x) ==
    /\ Text(f.data, SeqSub(f.seq, iss))
    /\ SeqSub(f.seq, iss) + Len(f.data) <= n + 1 /\ SeqSub(f.seq, iss) + Len(f.data) <= x

\* How far the receiver has come in the stream of a peer that began at iss.
Got(t, iss) == SeqSub(t.rcv.nxt, iss)
FinBit(t) == IF t.fin.seen THEN 1 ELSE 0

\* What t has taken from a peer that began at iss, was given n bytes and has sent
\* the numbers before x, when the application has read rd of them.
Heard(t, iss, n, x, rd) ==
    /\ t.state \notin {"Listen", "SynSent"}
    /\ Got(t, iss) = 1 + rd + Len(t.rcvBuf) + FinBit(t) /\ Got(t, iss) <= x
    /\ rd + Len(t.rcvBuf) <= n
    /\ t.fin.seen => rd + Len(t.rcvBuf) = n
    /\ Text(t.rcvBuf, rd + 1)
    /\ \A f \in t.oooSegs : FragText(f, iss, n, x)
    /\ t.state = "SynReceived" => rd = 0 /\ ~t.fin.seen

\* A part of a text is a text.
LEMMA SubText ==
    ASSUME NEW d \in Seq(Nat), NEW v \in Nat, Text(d, v), NEW a \in Nat, NEW b \in Nat,
           a < b, b <= Len(d)
    PROVE  /\ SubSeq(d, a + 1, b) \in Seq(Nat) /\ Len(SubSeq(d, a + 1, b)) = b - a
           /\ Text(SubSeq(d, a + 1, b), v + a)
<1> DEFINE e == SubSeq(d, a + 1, b)
<1>1. Len(d) \in Nat
  BY LenProperties
<1>2. \A i \in (a + 1)..b : d[i] \in Nat
  BY <1>1, ElementOfSeq
<1>3. e \in Seq(Nat) /\ Len(e) = b - (a + 1) + 1 /\ \A i \in 1..(b - (a + 1) + 1) : e[i] = d[a + 1 + i - 1]
  BY <1>1, <1>2, SubSeqProperties
<1> HIDE DEF e
<1>4. Len(e) = b - a
  BY <1>3
<1>5. ASSUME NEW i \in 1..Len(e) PROVE e[i] + 1 = v + a + i
  <2>1. e[i] = d[a + 1 + i - 1] /\ a + 1 + i - 1 = a + i /\ a + i \in 1..Len(d)
    BY <1>1, <1>3, <1>4
  <2>2. d[a + i] + 1 = v + (a + i)
    BY <2>1 DEF Text
  <2> QED BY <2>1, <2>2
<1>6. Text(e, v + a)
  BY <1>5 DEF Text
<1> QED BY <1>3, <1>4, <1>6 DEF e

\* How far the receiver is into a segment.
LEMMA TrimOffset ==
    ASSUME NEW nxt \in SeqNum, NEW seq \in SeqNum, NEW iss \in SeqNum,
           SeqSub(nxt, iss) < HalfSeqSpace, SeqSub(seq, iss) < HalfSeqSpace
    PROVE  LET skip == trimLeft(nxt, seq)
               first == IF skip > 0 THEN nxt ELSE seq
           IN  /\ SeqSub(first, iss) = SeqSub(seq, iss) + skip
               /\ SeqSub(nxt, iss) <= SeqSub(seq, iss) + skip
               /\ skip \in Nat
  BY HalfSeqSpaceAssumption DEF trimLeft, SeqSub, SeqLT, SeqNum, SeqSize

\* What the window leaves of a part of the stream is part of the stream, and not
\* behind the receiver.
LEMMA TrimText ==
    ASSUME NEW t \in TCB, NEW s, s.seq \in SeqNum, s.data \in Payload, NEW iss \in SeqNum,
           Got(t, iss) < HalfSeqSpace, SeqSub(s.seq, iss) < HalfSeqSpace,
           Text(s.data, SeqSub(s.seq, iss))
    PROVE  LET f == trimToWindow(t, s) IN
             \/ f.data = <<>>
             \/ /\ Text(f.data, SeqSub(f.seq, iss)) /\ Got(t, iss) <= SeqSub(f.seq, iss)
                /\ SeqSub(f.seq, iss) + Len(f.data) <= SeqSub(s.seq, iss) + Len(s.data)
<1> DEFINE len == Len(s.data)
           skip == trimLeft(t.rcv.nxt, s.seq)
           over == trimRight(SeqAdd(t.rcv.nxt, t.rcv.wnd), s.seq, len)
           first == IF skip > 0 THEN t.rcv.nxt ELSE s.seq
           data == IF skip + over >= len THEN <<>> ELSE SubSeq(s.data, skip + 1, len - over)
           v == SeqSub(s.seq, iss)
<1>1. trimToWindow(t, s) = [seq |-> first, data |-> data]
  BY DEF trimToWindow, trimLeft, trimRight
<1>2. s.data \in Seq(Nat) /\ len \in Nat /\ len \in 0..DefaultMSS
  BY LenProperties, TcbAssumption DEF Payload
<1>3. /\ SeqSub(first, iss) = v + skip /\ Got(t, iss) <= v + skip /\ skip \in Nat
  BY RcvParts, TrimOffset DEF Got
<1>4. v \in Nat
  BY SeqSubType, SeqNumNat
<1> HIDE DEF len
<1>5. over \in Nat
  BY <1>2, RcvParts, TrimArithmetic
<1> HIDE DEF skip, over, v, first
<1>6. CASE skip + over >= len
  BY <1>1, <1>6
<1>7. CASE ~(skip + over >= len)
  <2>1. skip < len - over /\ len - over \in Nat /\ len - over <= len
    BY <1>2, <1>3, <1>5, <1>7
  <2> DEFINE e == SubSeq(s.data, skip + 1, len - over)
  <2>2. Len(e) = len - over - skip /\ Text(e, v + skip)
    BY <1>2, <1>3, <1>4, <2>1, SubText DEF len, v
  <2>3. data = e
    BY <1>7
  <2> HIDE DEF e, data
  <2>4. v + skip + Len(e) <= v + len
    BY <1>2, <1>3, <1>4, <1>5, <2>2
  <2> QED BY <1>1, <1>3, <2>2, <2>3, <2>4 DEF v, len
<1> QED BY <1>6, <1>7

\* drainOoo appends the bytes of fragments that hold their numbers.
LEMMA DrainOooText ==
    ASSUME NEW t \in TCB
    PROVE  LET u == drainOoo(t) IN
             /\ Len(u.rcvBuf) - Len(t.rcvBuf) \in 0..RcvBuff
             /\ \A i \in 1..Len(t.rcvBuf) : u.rcvBuf[i] = t.rcvBuf[i]
             /\ \A j \in 0..(Len(u.rcvBuf) - Len(t.rcvBuf) - 1) : \E f \in t.oooSegs :
                   /\ holds(f, SeqAdd(t.rcv.nxt, j))
                   /\ u.rcvBuf[Len(t.rcvBuf) + j + 1] = f.data[SeqSub(SeqAdd(t.rcv.nxt, j), f.seq) + 1]
<1> DEFINE at(j) == SeqAdd(t.rcv.nxt, j)
           S == {j \in 0..(RcvBuff - 1) : \E f \in t.oooSegs : holds(f, at(j))}
           n == LoopCount(S, RcvBuff)
           taken(j) == LET f == holder(t.oooSegs, at(j)) IN f.data[SeqSub(at(j), f.seq) + 1]
           new == [j \in 1..n |-> taken(j - 1)]
           buf == t.rcvBuf \o new
<1>1. n \in 0..RcvBuff /\ \A j \in 0..(n - 1) : j \in S
  <2>1. S \in SUBSET (0..(RcvBuff - 1)) /\ RcvBuff \in Nat
    BY TcbAssumption
  <2> HIDE DEF S
  <2> QED BY <2>1, LoopCountType
<1>0. drainOoo(t).rcvBuf = buf
  BY DEF drainOoo, TCB
<1> HIDE DEF n
<1>2. \A j \in 0..RcvBuff : at(j) \in SeqNum
  <2>1. \A j \in 0..RcvBuff : j \in 0..SeqSize
    BY SmallSeqNums, TcbAssumption DEF SeqNum
  <2> QED BY <2>1, RcvParts, SeqAddType
<1>3. \A j \in 0..(n - 1) :
        /\ taken(j) \in Nat
        /\ \E f \in t.oooSegs : holds(f, at(j)) /\ taken(j) = f.data[SeqSub(at(j), f.seq) + 1]
  <2> TAKE j \in 0..(n - 1)
  <2> DEFINE f == holder(t.oooSegs, at(j))
  <2>1. j \in 0..RcvBuff /\ \E g \in t.oooSegs : holds(g, at(j))
    BY <1>1, TcbAssumption
  <2>2. at(j) \in SeqNum
    BY <1>2, <2>1
  <2> HIDE DEF at
  <2>3. f \in t.oooSegs /\ holds(f, at(j))
    BY <2>1, <2>2, TcbParts, HolderType
  <2> HIDE DEF f
  <2>4. f \in Fragment
    BY <2>3, TcbParts
  <2>5. f.seq \in SeqNum /\ f.data \in Seq(Nat)
    BY <2>4 DEF Fragment, Payload
  <2>6. SeqSub(at(j), f.seq) \in Nat
    BY <2>2, <2>5, SeqSubType, SeqNumNat
  <2>7. SeqSub(at(j), f.seq) + 1 \in 1..Len(f.data)
    BY <2>3, <2>5, <2>6, LenProperties DEF holds
  <2>8. f.data[SeqSub(at(j), f.seq) + 1] \in Nat
    BY <2>5, <2>7, ElementOfSeq
  <2>9. taken(j) = f.data[SeqSub(at(j), f.seq) + 1]
    BY DEF f
  <2> QED BY <2>3, <2>8, <2>9
<1> HIDE DEF taken
<1>4. new \in Seq(Nat) /\ Len(new) = n
  <2>1. n \in Nat /\ \A j \in 1..n : j - 1 \in 0..(n - 1)
    BY <1>1
  <2>2. new \in [1..n -> Nat]
    BY <1>3, <2>1
  <2> HIDE DEF new
  <2> QED BY <2>1, <2>2, FcnIsSeq
<1> DEFINE len == Len(t.rcvBuf)
<1>5. len \in Nat /\ t.rcvBuf \in Seq(Nat)
  BY TcbParts, LenProperties
<1>a. \A j \in 0..(n - 1) : new[j + 1] = taken(j)
  BY <1>1
<1> HIDE DEF new
<1>6. /\ Len(buf) = len + n /\ \A i \in 1..(len + n) : buf[i] = IF i <= len THEN t.rcvBuf[i] ELSE new[i - len]
  BY <1>4, <1>5, ConcatProperties
<1> HIDE DEF buf, len
<1>7. Len(buf) - len = n /\ n \in Nat
  BY <1>1, <1>5, <1>6
<1>8. \A i \in 1..len : buf[i] = t.rcvBuf[i]
  BY <1>5, <1>6, <1>7
<1>9. \A j \in 0..(n - 1) : buf[len + j + 1] = taken(j)
  <2> TAKE j \in 0..(n - 1)
  <2>a. len \in Nat /\ n \in Nat /\ j \in Nat /\ j < n
    BY <1>5, <1>7
  <2> DEFINE i == len + j + 1
  <2>1. i \in 1..(len + n) /\ ~(i <= len) /\ i - len = j + 1
    BY <2>a
  <2> HIDE DEF i
  <2>2. buf[i] = new[i - len]
    BY <1>6, <2>1
  <2>3. new[j + 1] = taken(j)
    BY <1>a
  <2>4. buf[i] = taken(j)
    BY <2>1, <2>2, <2>3
  <2> QED BY <2>4 DEF i
<1>10. \A j \in 0..(n - 1) : \E f \in t.oooSegs :
          holds(f, at(j)) /\ buf[len + j + 1] = f.data[SeqSub(at(j), f.seq) + 1]
  BY <1>3, <1>9
<1> QED BY <1>0, <1>1, <1>7, <1>8, <1>10 DEF len

\* The place in a fragment of the number j beyond the receiver.
LEMMA HolderOffset ==
    ASSUME NEW nxt \in SeqNum, NEW seq \in SeqNum, NEW iss \in SeqNum, NEW j \in 0..RcvBuff,
           NEW len \in Nat, NEW n \in Nat, n + 3 <= HalfSeqSpace, SeqSub(nxt, iss) <= n + 1,
           SeqSub(seq, iss) + len <= n + 1, SeqSub(SeqAdd(nxt, j), seq) < len
    PROVE  /\ SeqSub(seq, iss) <= SeqSub(nxt, iss) + j
           /\ SeqSub(SeqAdd(nxt, j), seq) = SeqSub(nxt, iss) + j - SeqSub(seq, iss)
  BY HalfSeqSpaceAssumption, TcbAssumption DEF SeqAdd, SeqSub, SeqNum, SeqSize

\* Text before a place and the right bytes after it are text.
LEMMA TextGrows ==
    ASSUME NEW d, NEW e, Len(d) \in Nat, NEW m \in Nat, Len(e) = Len(d) + m, NEW v \in Nat,
           Text(d, v), \A i \in 1..Len(d) : e[i] = d[i],
           \A j \in 0..(m - 1) : e[Len(d) + j + 1] = v + Len(d) + j
    PROVE  Text(e, v)
<1> DEFINE l == Len(d)
<1>1. l \in Nat /\ Len(e) = l + m
  OBVIOUS
<1>2. \A i \in 1..l : e[i] = d[i] /\ d[i] + 1 = v + i
  BY DEF Text
<1>3. \A j \in 0..(m - 1) : e[l + j + 1] = v + l + j
  OBVIOUS
<1> HIDE DEF l
<1>4. ASSUME NEW i \in 1..Len(e) PROVE e[i] + 1 = v + i
  <2>1. CASE i <= l
    <3>1. i \in 1..l
      BY <1>1, <2>1
    <3> QED BY <1>2, <3>1
  <2>2. CASE ~(i <= l)
    <3> DEFINE j == i - l - 1
    <3>1. j \in 0..(m - 1) /\ l + j + 1 = i
      BY <1>1, <2>2
    <3>2. e[l + j + 1] = v + l + j
      BY <1>3, <3>1
    <3>3. e[i] = v + l + j /\ j \in Int
      BY <3>1, <3>2
    <3> HIDE DEF j
    <3> QED BY <1>1, <3>1, <3>3
  <2> QED BY <2>1, <2>2
<1> QED BY <1>4 DEF Text

LEMMA FitsParts ==
    ASSUME NEW n, Fits(n)
    PROVE  n \in Nat /\ n + 3 <= HalfSeqSpace /\ n + 3 \in Nat
<1>1. DefaultMSS \in Nat /\ HalfSeqSpace \in Nat /\ n \in Nat
  BY TcbAssumption, HalfSeqSpaceAssumption DEF Fits
<1>2. n + DefaultMSS + 4 <= HalfSeqSpace
  BY DEF Fits
<1> QED BY <1>1, <1>2

\* What drainOoo moves to the buffer continues the stream.
LEMMA DrainText ==
    ASSUME NEW t \in TCB, NEW iss \in SeqNum, NEW n, Fits(n), NEW x \in Nat, NEW rd \in Nat,
           Got(t, iss) = 1 + rd + Len(t.rcvBuf), Got(t, iss) <= x, Got(t, iss) <= n + 1,
           Text(t.rcvBuf, rd + 1), \A f \in t.oooSegs : FragText(f, iss, n, x)
    PROVE  LET u == drainOoo(t)
               m == Len(u.rcvBuf) - Len(t.rcvBuf)
           IN  /\ m \in Nat /\ Text(u.rcvBuf, rd + 1)
               /\ Got(t, iss) + m <= n + 1 /\ Got(t, iss) + m <= x
<1> DEFINE u == drainOoo(t)
           l == Len(t.rcvBuf)
           m == Len(u.rcvBuf) - l
           g == Got(t, iss)
           at(j) == SeqAdd(t.rcv.nxt, j)
<1>1. /\ m \in 0..RcvBuff
      /\ \A i \in 1..l : u.rcvBuf[i] = t.rcvBuf[i]
      /\ \A j \in 0..(m - 1) : \E f \in t.oooSegs :
            /\ holds(f, at(j))
            /\ u.rcvBuf[l + j + 1] = f.data[SeqSub(at(j), f.seq) + 1]
  BY DrainOooText
<1>2. l \in Nat /\ g \in Nat /\ g = 1 + rd + l
  BY TcbParts, LenProperties, RcvParts, SeqSubType, SeqNumNat DEF Got
<1>3. RcvBuff \in Nat /\ n \in Nat /\ n + 3 <= HalfSeqSpace
  BY TcbAssumption, FitsParts
<1>u. Len(u.rcvBuf) = l + m
  <2>1. u \in TCB
    BY DrainOooEffect DEF Drained
  <2>2. Len(u.rcvBuf) \in Nat
    BY <2>1, TcbParts, LenProperties
  <2> HIDE DEF u, l
  <2> QED BY <1>2, <2>2
<1>5. m \in Nat
  BY <1>1, <1>3
<1>6. g <= n + 1 /\ g <= x
  OBVIOUS
<1> HIDE DEF u, l, m, g, at
<1>4. ASSUME NEW j \in 0..(m - 1)
      PROVE  u.rcvBuf[l + j + 1] = g + j /\ g + j + 1 <= n + 1 /\ g + j + 1 <= x
  <2>1. j \in 0..RcvBuff /\ j \in Nat
    BY <1>1, <1>3
  <2>2. PICK f \in t.oooSegs :
            /\ holds(f, at(j))
            /\ u.rcvBuf[l + j + 1] = f.data[SeqSub(at(j), f.seq) + 1]
    BY <1>1
  <2>3. f.seq \in SeqNum /\ f.data \in Seq(Nat) /\ Len(f.data) \in Nat
    <3>1. f \in Fragment
      BY TcbParts
    <3> QED BY <3>1, LenProperties DEF Fragment, Payload
  <2> DEFINE w == SeqSub(f.seq, iss)
             len == Len(f.data)
  <2>4. Text(f.data, w) /\ w + len <= n + 1 /\ w + len <= x
    BY DEF FragText
  <2>5. w \in Nat
    BY <2>3, SeqSubType, SeqNumNat
  <2>6. SeqSub(at(j), f.seq) < len
    BY <2>2 DEF holds
  <2>7. w <= g + j /\ SeqSub(at(j), f.seq) = g + j - w
    <3>1. t.rcv.nxt \in SeqNum
      BY RcvParts
    <3>2. /\ SeqSub(t.rcv.nxt, iss) <= n + 1 /\ SeqSub(f.seq, iss) + Len(f.data) <= n + 1
          /\ SeqSub(SeqAdd(t.rcv.nxt, j), f.seq) < Len(f.data)
      BY <1>6, <2>4, <2>6 DEF g, Got, at, w, len
    <3>3. /\ SeqSub(f.seq, iss) <= SeqSub(t.rcv.nxt, iss) + j
          /\ SeqSub(SeqAdd(t.rcv.nxt, j), f.seq) = SeqSub(t.rcv.nxt, iss) + j - SeqSub(f.seq, iss)
      BY <1>3, <2>1, <2>3, <3>1, <3>2, HolderOffset
    <3> QED BY <3>3 DEF g, Got, at, w
  <2> DEFINE i == g + j - w + 1
  <2> HIDE DEF w, len
  <2>8. i \in 1..len /\ g + j + 1 <= w + len
    BY <1>2, <2>1, <2>3, <2>5, <2>6, <2>7 DEF len
  <2>9. f.data[i] + 1 = w + i
    BY <2>4, <2>8 DEF Text, len
  <2>10. f.data[i] \in Nat
    BY <2>3, <2>8, ElementOfSeq DEF len
  <2>11. f.data[i] = g + j
    BY <1>2, <2>1, <2>5, <2>9, <2>10
  <2>12. u.rcvBuf[l + j + 1] = f.data[i]
    BY <2>2, <2>7
  <2>13. g + j + 1 <= n + 1 /\ g + j + 1 <= x
    BY <1>2, <1>3, <2>1, <2>3, <2>4, <2>5, <2>8 DEF len
  <2> QED BY <2>11, <2>12, <2>13
<1>9. \A j \in 0..(m - 1) : u.rcvBuf[l + j + 1] = (rd + 1) + l + j
  <2> TAKE j \in 0..(m - 1)
  <2>1. u.rcvBuf[l + j + 1] = g + j
    BY <1>4
  <2>2. g + j = (rd + 1) + l + j
    <3>1. j \in Nat
      BY <1>5
    <3> QED BY <1>2, <3>1
  <2> QED BY <2>1, <2>2
<1>7. Text(u.rcvBuf, rd + 1)
  <2> DEFINE d == t.rcvBuf
             e == u.rcvBuf
             v == rd + 1
  <2>1. Len(d) = l /\ Text(d, v) /\ v \in Nat /\ Len(d) \in Nat
    BY <1>2 DEF l
  <2>2. \A i \in 1..Len(d) : e[i] = d[i]
    BY <1>1, <2>1
  <2>3. \A j \in 0..(m - 1) : e[Len(d) + j + 1] = v + Len(d) + j
    BY <1>9, <2>1
  <2>4. Len(e) = Len(d) + m
    BY <1>u, <2>1
  <2>5. m \in Nat
    BY <1>5
  <2> HIDE DEF d, v, e
  <2>6. Text(e, v)
    BY ONLY <2>1, <2>2, <2>3, <2>4, <2>5, TextGrows
  <2> QED BY <2>6 DEF v, e
<1>8. g + m <= n + 1 /\ g + m <= x
  <2>1. CASE m = 0
    BY <1>2, <1>6, <2>1
  <2>2. CASE m # 0
    <3>1. m - 1 \in 0..(m - 1)
      BY <1>5, <2>2
    <3>2. g + (m - 1) + 1 <= n + 1 /\ g + (m - 1) + 1 <= x
      BY <1>4, <3>1
    <3> QED BY <1>2, <1>3, <1>5, <3>2
  <2> QED BY <2>1, <2>2
<1> QED BY <1>5, <1>7, <1>8 DEF m, l, u, g

\* The receiving side counts as the same.
LEMMA HeardSame ==
    ASSUME NEW t, NEW u, NEW iss, NEW n, NEW x, NEW rd, Heard(t, iss, n, x, rd),
           u.rcv.nxt = t.rcv.nxt, u.fin = t.fin, u.rcvBuf = t.rcvBuf, u.oooSegs = t.oooSegs,
           u.state \notin {"Listen", "SynSent"}, u.state = "SynReceived" => t.state = "SynReceived"
    PROVE  Heard(u, iss, n, x, rd)
<1>1. Got(u, iss) = Got(t, iss) /\ FinBit(u) = FinBit(t)
  BY DEF Got, FinBit
<1> QED BY <1>1 DEF Heard

LEMMA ConcatText ==
    ASSUME NEW b \in Seq(Nat), NEW d \in Seq(Nat), NEW v \in Nat, Text(b, v), Text(d, v + Len(b))
    PROVE  Text(b \o d, v)
<1> DEFINE l == Len(b)
           m == Len(d)
           c == b \o d
<1>1. l \in Nat /\ m \in Nat /\ Len(c) = l + m
  BY LenProperties, ConcatProperties
<1>2. \A i \in 1..(l + m) : c[i] = IF i <= l THEN b[i] ELSE d[i - l]
  BY ConcatProperties
<1>3. (\A i \in 1..l : b[i] + 1 = v + i) /\ \A i \in 1..m : d[i] + 1 = v + l + i
  BY DEF Text
<1> HIDE DEF l, m, c
<1>4. ASSUME NEW i \in 1..(l + m) PROVE c[i] + 1 = v + i
  <2>1. CASE i <= l
    <3>1. i \in 1..l /\ c[i] = b[i]
      BY <1>1, <1>2, <2>1
    <3> QED BY <1>3, <3>1
  <2>2. CASE ~(i <= l)
    <3> DEFINE j == i - l
    <3>1. j \in 1..m /\ c[i] = d[j] /\ l + j = i
      BY <1>1, <1>2, <2>2
    <3> HIDE DEF j
    <3>2. d[j] + 1 = v + l + j
      BY <1>3, <3>1
    <3>3. c[i] + 1 = v + l + j /\ v + l + j = v + i
      BY <1>1, <3>1, <3>2
    <3> QED BY <3>3
  <2> QED BY <2>1, <2>2
<1> QED BY <1>1, <1>4 DEF Text, c

LEMMA OffsetAdd ==
    ASSUME NEW a \in SeqNum, NEW iss \in SeqNum, NEW k \in Nat, SeqSub(a, iss) + k < SeqSize
    PROVE  SeqSub(SeqAdd(a, k), iss) = SeqSub(a, iss) + k
  BY HalfSeqSpaceAssumption DEF SeqAdd, SeqSub, SeqNum, SeqSize

\* acceptText puts what drainOoo leaves into the buffer.
LEMMA AcceptTextBuf ==
    ASSUME NEW t \in TCB, NEW s \in Segment, trimToWindow(t, s).data # <<>>,
           trimToWindow(t, s).seq = t.rcv.nxt
    PROVE  LET data == trimToWindow(t, s).data
               v == [t EXCEPT !.rcvBuf = @ \o data, !.rcv.nxt = SeqAdd(@, Len(data))]
           IN  acceptText(t, s).rcvBuf = drainOoo(v).rcvBuf
<1> DEFINE f == trimToWindow(t, s)
           d == drainOoo([t EXCEPT !.rcvBuf = @ \o f.data, !.rcv.nxt = SeqAdd(@, Len(f.data))])
           m == SeqSub(d.rcv.nxt, t.rcv.nxt)
           done == consumeRcvWindow(d, m)
           u == acceptText(t, s)
<1>1. u \in {sendAck(done), onDelayableSegment(done)}
  BY DEF acceptText
<1>2. f \in Fragment /\ (f.seq = t.rcv.nxt => Len(f.data) <= t.rcv.wnd)
  BY TrimType, SegmentParts
<1>3. f.data \in Payload /\ Len(f.data) <= t.rcv.wnd
  BY <1>2 DEF Fragment
<1> HIDE DEF f
<1>4. \E n \in 0..RcvBuff : TextTaken(t, done, Len(f.data), n)
  BY <1>3, InOrderTextEffect
<1>5. done.rcvBuf = d.rcvBuf
  <2> DEFINE x == [t EXCEPT !.rcvBuf = @ \o f.data, !.rcv.nxt = SeqAdd(@, Len(f.data))]
  <2>1. DOMAIN x = DOMAIN t /\ "rcvBuf" \in DOMAIN t /\ "rcv" \in DOMAIN t
    BY DEF TCB
  <2> HIDE DEF x
  <2>2. "rcvBuf" \in DOMAIN drainOoo(x)
    BY <2>1 DEF drainOoo
  <2>3. \A k : consumeRcvWindow(drainOoo(x), k).rcvBuf = drainOoo(x).rcvBuf
    BY <2>2 DEF consumeRcvWindow
  <2> QED BY <2>3 DEF x
<1> HIDE DEF done, d, u
<1>6. done \in TCB
  BY <1>4 DEF TextTaken
<1>7. Keeps(done, u)
  BY <1>1, <1>6, SendAckKeeps, OnDelayableSegmentKeeps
<1>8. u.rcvBuf = done.rcvBuf
  BY <1>7 DEF Keeps, KeepsRcv, SameRcv
<1> QED BY <1>5, <1>8 DEF u, d, f

\* Text in order is appended to what was heard.
LEMMA InOrderHeard ==
    ASSUME NEW t \in TCB, NEW u \in TCB, NEW f \in Fragment, f.data # <<>>, f.seq = t.rcv.nxt,
           NEW iss \in SeqNum, NEW n, Fits(n), NEW x \in Nat, NEW rd \in Nat,
           Heard(t, iss, n, x, rd), FragText(f, iss, n, x),
           NEW k \in 0..RcvBuff, TextTaken(t, u, Len(f.data), k), Len(f.data) <= RcvBuff,
           u.rcvBuf = drainOoo([t EXCEPT !.rcvBuf = @ \o f.data,
                                         !.rcv.nxt = SeqAdd(@, Len(f.data))]).rcvBuf
    PROVE  Heard(u, iss, n, x, rd) /\ Len(t.rcvBuf) <= Len(u.rcvBuf)
<1> DEFINE len == Len(f.data)
           l == Len(t.rcvBuf)
           g == Got(t, iss)
           b == t.rcvBuf \o f.data
           rcv == [t.rcv EXCEPT !.nxt = SeqAdd(@, len)]
           v == [t EXCEPT !.rcvBuf = b, !.rcv = rcv]
           d == drainOoo(v)
<1>1. n \in Nat /\ n + 3 <= HalfSeqSpace
  BY FitsParts
<1>2. f.data \in Seq(Nat) /\ len \in 1..DefaultMSS /\ len \in Nat
  <2>1. f.data \in Payload /\ len \in 1..DefaultMSS
    BY NonemptyFragment, FragmentParts
  <2>2. DefaultMSS \in Nat
    BY TcbAssumption
  <2> QED BY <2>1, <2>2 DEF Payload
<1>3. t.rcvBuf \in Seq(Nat) /\ l \in Nat
  BY TcbParts, LenProperties
<1>4. t.rcv.nxt \in SeqNum /\ g \in Nat
  BY RcvParts, SeqSubType, SeqNumNat DEF Got
<1>5. Text(f.data, g) /\ g + len <= n + 1 /\ g + len <= x
  BY DEF FragText, Got
<1>6. ~t.fin.seen /\ g = 1 + rd + l
  <2>1. g = 1 + rd + l + FinBit(t)
    BY DEF Heard
  <2>2. CASE t.fin.seen
    <3>1. rd + l = n /\ FinBit(t) = 1
      BY <2>2 DEF Heard, FinBit
    <3> HIDE DEF g, l, len
    <3> QED BY <1>1, <1>2, <1>3, <1>5, <2>1, <3>1
  <2>3. CASE ~t.fin.seen
    <3>1. FinBit(t) = 0
      BY <2>3 DEF FinBit
    <3> HIDE DEF g, l
    <3> QED BY <1>3, <2>1, <2>3, <3>1
  <2> QED BY <2>2, <2>3
<1>7. Text(b, rd + 1) /\ Len(b) = l + len /\ b \in Seq(Nat)
  <2>1. Text(t.rcvBuf, rd + 1)
    BY DEF Heard
  <2>2. rd + 1 + l = g /\ rd + 1 \in Nat
    BY <1>3, <1>4, <1>6
  <2>3. Text(f.data, rd + 1 + l)
    BY <1>5, <2>2
  <2> QED BY <1>2, <1>3, <2>1, <2>2, <2>3, ConcatText, ConcatProperties
<1> HIDE DEF b
<1>8. rcv \in RcvVars /\ rcv.nxt = SeqAdd(t.rcv.nxt, len)
  <2>1. len \in 0..RcvBuff
    BY <1>2, TcbAssumption
  <2>2. SeqAdd(t.rcv.nxt, len) \in SeqNum
    <3>1. len \in 0..SeqSize
      <4> HIDE DEF len
      <4> QED BY <2>1, SmallSeqNums DEF SeqNum
    <3> HIDE DEF len
    <3> QED BY <1>4, <3>1, SeqAddType
  <2> HIDE DEF len
  <2> QED BY <2>2, TcbParts DEF RcvVars
<1> HIDE DEF rcv
<1>9. /\ v \in TCB /\ v.rcv = rcv /\ v.rcvBuf = b /\ v.oooSegs = t.oooSegs
  BY <1>7, <1>8 DEF TCB
<1>10. [t EXCEPT !.rcvBuf = @ \o f.data, !.rcv.nxt = SeqAdd(@, Len(f.data))] = v
  BY DEF TCB, RcvVars, b, rcv
<1> HIDE DEF v
<1>11. Got(v, iss) = g + len
  <2>1. SeqSub(t.rcv.nxt, iss) + len < SeqSize
    BY <1>1, <1>2, <1>4, <1>5, HalfSeqSpaceAssumption DEF SeqSize, Got
  <2> HIDE DEF len
  <2> QED BY <1>2, <1>4, <1>8, <1>9, <2>1, OffsetAdd DEF Got, g
<1> DEFINE m == Len(d.rcvBuf) - Len(v.rcvBuf)
<1>12. /\ m \in Nat /\ Text(d.rcvBuf, rd + 1)
       /\ Got(v, iss) + m <= n + 1 /\ Got(v, iss) + m <= x
  <2>1. \A e \in v.oooSegs : FragText(e, iss, n, x)
    BY <1>9 DEF Heard
  <2>2. Got(v, iss) = 1 + rd + Len(v.rcvBuf)
    <3> HIDE DEF l, len, g
    <3> QED BY <1>2, <1>3, <1>6, <1>7, <1>9, <1>11
  <2>3. Got(v, iss) <= x /\ Got(v, iss) <= n + 1
    BY <1>5, <1>11
  <2> HIDE DEF g, len
  <2> QED BY <1>7, <1>9, <2>1, <2>2, <2>3, DrainText
<1>13. u.rcvBuf = d.rcvBuf
  BY <1>10
<1> HIDE DEF d, m
<1>14. Len(u.rcvBuf) = l + len + k /\ u.rcv.nxt = SeqAdd(t.rcv.nxt, len + k) /\ k \in Nat
  BY TcbAssumption DEF TextTaken
<1>15. m = k
  <2>1. m = Len(u.rcvBuf) - (l + len)
    BY <1>7, <1>9, <1>13 DEF m
  <2>2. Len(u.rcvBuf) = l + len + k
    BY <1>14
  <2> HIDE DEF l, len
  <2> QED BY <1>2, <1>3, <1>14, <2>1, <2>2
<1>16. g + len + k <= n + 1 /\ g + len + k <= x
  BY <1>11, <1>12, <1>15
<1>n. /\ len + k \in Nat /\ g + (len + k) < 2 * HalfSeqSpace /\ g + (len + k) = g + len + k
      /\ rd + Len(u.rcvBuf) <= n /\ l <= Len(u.rcvBuf)
  <2>1. Len(u.rcvBuf) = l + len + k
    BY <1>14
  <2> HIDE DEF g, l, len
  <2> DEFINE c == Len(u.rcvBuf)
             h == HalfSeqSpace
  <2>2. g \in Nat /\ l \in Nat /\ len \in Nat /\ k \in Nat /\ n \in Nat /\ rd \in Nat /\ h \in Nat
    BY <1>1, <1>2, <1>3, <1>4, <1>14, HalfSeqSpaceAssumption
  <2>3. g = 1 + rd + l /\ g + len + k <= n + 1 /\ n + 3 <= h /\ c = l + len + k
    BY <1>1, <1>6, <1>16, <2>1
  <2> HIDE DEF c, h
  <2>4. len + k \in Nat /\ g + (len + k) = g + len + k /\ l <= c
    BY ONLY <2>2, <2>3
  <2>5. g + (len + k) < 2 * h /\ rd + c <= n
    BY ONLY <2>2, <2>3
  <2> QED BY <2>4, <2>5 DEF c, h
<1>17. Got(u, iss) = g + len + k
  <2>1. len + k \in Nat /\ g + (len + k) < SeqSize /\ g + (len + k) = g + len + k
    BY <1>n DEF SeqSize
  <2> HIDE DEF len
  <2> QED BY <1>4, <1>14, <2>1, OffsetAdd DEF Got, g
<1>18. Got(u, iss) = 1 + rd + Len(u.rcvBuf) + FinBit(u)
  <2>1. FinBit(u) = 0
    BY <1>6 DEF FinBit, TextTaken
  <2> HIDE DEF g, l, len
  <2> QED BY <1>2, <1>3, <1>6, <1>14, <1>17, <2>1
<1>19. rd + Len(u.rcvBuf) <= n /\ Got(u, iss) <= x /\ Len(t.rcvBuf) <= Len(u.rcvBuf)
  BY <1>n, <1>16, <1>17
<1>20. /\ u.state = t.state /\ u.fin = t.fin /\ \A e \in u.oooSegs : e \in t.oooSegs
  BY DEF TextTaken
<1> QED BY <1>6, <1>12, <1>13, <1>18, <1>19, <1>20 DEF Heard

\* The receiving side only grows, and not by text and a FIN at once.
Grown(t, u) == /\ Len(t.rcvBuf) <= Len(u.rcvBuf) /\ (t.fin.seen => u.fin.seen)
               /\ Len(t.rcvBuf) = Len(u.rcvBuf) \/ t.fin.seen = u.fin.seen

\* What a step from t to u has heard.
Hears(t, u, iss, n, x, rd) == u \in TCB /\ Heard(u, iss, n, x, rd) /\ Grown(t, u)

LEMMA SameHears ==
    ASSUME NEW t \in TCB, NEW u \in TCB, NEW iss, NEW n, NEW x, NEW rd, Heard(t, iss, n, x, rd),
           u.rcv.nxt = t.rcv.nxt, u.fin = t.fin, u.rcvBuf = t.rcvBuf, u.oooSegs = t.oooSegs,
           u.state \notin {"Listen", "SynSent"}, u.state = "SynReceived" => t.state = "SynReceived"
    PROVE  Hears(t, u, iss, n, x, rd)
<1>1. Len(t.rcvBuf) \in Nat
  BY TcbParts, LenProperties
<1> QED BY <1>1, HeardSame DEF Hears, Grown

LEMMA KeepsHears ==
    ASSUME NEW t \in TCB, NEW u, NEW iss, NEW n, NEW x, NEW rd, Heard(t, iss, n, x, rd), Keeps(t, u)
    PROVE  Hears(t, u, iss, n, x, rd)
<1>1. /\ u \in TCB /\ u.rcv = t.rcv /\ u.fin = t.fin /\ u.rcvBuf = t.rcvBuf /\ u.oooSegs = t.oooSegs
      /\ u.state = t.state /\ u.state \notin {"Listen", "SynSent"}
  BY DEF Keeps, KeepsRcv, SameRcv, Heard
<1> QED BY <1>1, SameHears

LEMMA AcceptTextHeard ==
    ASSUME NEW t \in TCB, NEW s \in Segment, NEW iss \in SeqNum, NEW n, Fits(n), NEW x \in Nat,
           x <= n + 2, NEW rd \in Nat, Heard(t, iss, n, x, rd), OwnText(s, iss, n, x), s.data # <<>>
    PROVE  LET u == acceptText(t, s) IN
             Hears(t, u, iss, n, x, rd) /\ u.state = t.state /\ u.fin = t.fin
<1> DEFINE f == trimToWindow(t, s)
           u == acceptText(t, s)
           v == SeqSub(s.seq, iss)
<1>0. n \in Nat /\ n + 3 <= HalfSeqSpace
  BY FitsParts
<1>1. s.seq \in SeqNum /\ s.data \in Payload /\ Len(s.data) \in Nat
  BY SegmentParts, LenProperties DEF Payload
<1>2. v \in Nat /\ segLen(s) \in Nat /\ Len(s.data) <= segLen(s)
  BY <1>1, OwnLen
<1>3. /\ v + segLen(s) <= x /\ Text(s.data, v) /\ v + Len(s.data) <= n + 1
  BY DEF OwnText, TextAt
<1>4. Got(t, iss) <= x /\ Got(t, iss) \in Nat
  BY RcvParts, SeqSubType, SeqNumNat DEF Heard, Got
<1> HIDE DEF v
<1>5. Got(t, iss) < HalfSeqSpace /\ v < HalfSeqSpace /\ v + Len(s.data) <= x
  <2> DEFINE g == Got(t, iss)
             l == Len(s.data)
             sl == segLen(s)
  <2>1. /\ n \in Nat /\ n + 3 <= HalfSeqSpace /\ v \in Nat /\ l \in Nat /\ sl \in Nat /\ g \in Nat
        /\ l <= sl /\ v + sl <= x /\ g <= x /\ x \in Nat /\ x <= n + 2
    BY <1>0, <1>1, <1>2, <1>3, <1>4
  <2>2. HalfSeqSpace \in Nat
    BY HalfSeqSpaceAssumption
  <2> HIDE DEF g, l, sl
  <2>3. g < HalfSeqSpace /\ v < HalfSeqSpace /\ v + l <= x
    BY ONLY <2>1, <2>2
  <2> QED BY <2>3 DEF g, l
<1>6. \/ f.data = <<>>
      \/ /\ Text(f.data, SeqSub(f.seq, iss)) /\ Got(t, iss) <= SeqSub(f.seq, iss)
         /\ SeqSub(f.seq, iss) + Len(f.data) <= v + Len(s.data)
  BY <1>1, <1>3, <1>5, TrimText DEF v
<1>7. /\ f \in Fragment /\ Len(f.data) \in Nat
      /\ f.seq = t.rcv.nxt => Len(f.data) <= t.rcv.wnd
  BY <1>1, TrimType
<1>8. /\ u.reached = t.reached
      /\ \/ f.data = <<>> /\ Keeps(t, u)
         \/ /\ f.data # <<>> /\ f.seq = t.rcv.nxt /\ Len(f.data) <= t.rcv.wnd
            /\ \E k \in 0..RcvBuff : TextTaken(t, u, Len(f.data), k)
         \/ /\ f.data # <<>> /\ f.seq # t.rcv.nxt
            /\ u \in TCB /\ u.rcv = t.rcv /\ u.fin = t.fin /\ u.rcvBuf = t.rcvBuf
            /\ u.state = t.state /\ u.oooSegs \subseteq t.oooSegs \cup {f}
  BY <1>1, AcceptTextEffect
<1>9. u \in TCB /\ u.state = t.state /\ u.fin = t.fin
  BY <1>1, AcceptTextEdge
<1>10. f.data # <<>> /\ f.seq = t.rcv.nxt =>
          u.rcvBuf = drainOoo([t EXCEPT !.rcvBuf = @ \o f.data,
                                        !.rcv.nxt = SeqAdd(@, Len(f.data))]).rcvBuf
  BY AcceptTextBuf
<1> HIDE DEF f, u
<1>11. f.data # <<>> => FragText(f, iss, n, x)
  <2> SUFFICES ASSUME f.data # <<>> PROVE FragText(f, iss, n, x)
    OBVIOUS
  <2> DEFINE w == SeqSub(f.seq, iss)
             l == Len(f.data)
             m == Len(s.data)
  <2>1. Text(f.data, w) /\ w + l <= v + m /\ v + m <= n + 1 /\ v + m <= x
    BY <1>3, <1>5, <1>6
  <2>2. w \in Nat /\ l \in Nat /\ m \in Nat
    <3>1. f.seq \in SeqNum
      BY <1>7 DEF Fragment
    <3> QED BY <1>1, <1>7, <3>1, SeqSubType, SeqNumNat
  <2> HIDE DEF w, l, m
  <2>3. w + l <= n + 1 /\ w + l <= x
    BY <1>0, <1>2, <2>1, <2>2
  <2> QED BY <2>1, <2>3 DEF FragText, w, l
<1>12. CASE f.data = <<>> /\ Keeps(t, u)
  BY <1>9, <1>12, KeepsHears DEF u
<1>13. CASE /\ f.data # <<>> /\ f.seq = t.rcv.nxt /\ Len(f.data) <= t.rcv.wnd
            /\ \E k \in 0..RcvBuff : TextTaken(t, u, Len(f.data), k)
  <2>1. PICK k \in 0..RcvBuff : TextTaken(t, u, Len(f.data), k)
    BY <1>13
  <2>2. Len(f.data) <= RcvBuff
    BY <1>7, <1>13, RcvParts, TcbAssumption
  <2>3. Heard(u, iss, n, x, rd) /\ Len(t.rcvBuf) <= Len(u.rcvBuf)
    BY <1>7, <1>9, <1>10, <1>11, <1>13, <2>1, <2>2, InOrderHeard
  <2> QED BY <1>9, <2>3 DEF Hears, Grown, u
<1>14. CASE /\ f.data # <<>> /\ f.seq # t.rcv.nxt
            /\ u \in TCB /\ u.rcv = t.rcv /\ u.fin = t.fin /\ u.rcvBuf = t.rcvBuf
            /\ u.state = t.state /\ u.oooSegs \subseteq t.oooSegs \cup {f}
  <2>1. \A e \in u.oooSegs : FragText(e, iss, n, x)
    BY <1>11, <1>14 DEF Heard
  <2>2. Got(u, iss) = Got(t, iss) /\ FinBit(u) = FinBit(t)
    BY <1>14 DEF Got, FinBit
  <2>3. Heard(u, iss, n, x, rd)
    BY <1>14, <2>1, <2>2 DEF Heard
  <2>4. Len(t.rcvBuf) \in Nat
    BY TcbParts, LenProperties
  <2> QED BY <1>9, <1>14, <2>3, <2>4 DEF Hears, Grown, u
<1> QED BY <1>8, <1>12, <1>13, <1>14

\* The FIN is taken after the last byte.
LEMMA HandleFinHeard ==
    ASSUME NEW t \in TCB, NEW s \in Segment, NEW iss \in SeqNum, NEW n, Fits(n), NEW x \in Nat,
           NEW rd \in Nat, Heard(t, iss, n, x, rd), OwnText(s, iss, n, x), "FIN" \in s.flags,
           finNum(s) = t.rcv.nxt
    PROVE  Hears(t, handleFin(t), iss, n, x, rd)
<1> DEFINE u == handleFin(t)
           l == Len(t.rcvBuf)
<1>0. n \in Nat /\ n + 3 <= HalfSeqSpace
  BY FitsParts
<1>1. SeqSub(s.seq, iss) = n + 1 /\ s.data = <<>> /\ "SYN" \notin s.flags /\ n + 1 + segLen(s) <= x
  BY <1>0 DEF OwnText, TextAt
<1>2. segLen(s) = 1
  <2>1. Len(s.data) = 0
    BY <1>1, EmptySeq
  <2> QED BY <1>1, <2>1 DEF segLen
<1>3. s.seq = t.rcv.nxt
  <2>1. s.seq \in SeqNum
    BY SegmentParts
  <2>2. SeqAdd(s.seq, 0) = s.seq
    BY <2>1, HalfSeqSpaceAssumption DEF SeqAdd, SeqNum, SeqSize
  <2> QED BY <1>2, <2>2 DEF finNum
<1>4. Got(t, iss) = n + 1 /\ l \in Nat
  BY <1>1, <1>3, TcbParts, LenProperties DEF Got
<1>5. Got(t, iss) = 1 + rd + l + FinBit(t) /\ (t.fin.seen => rd + l = n)
  BY DEF Heard
<1>6. ~t.fin.seen /\ rd + l = n
  <2>1. CASE t.fin.seen
    <3>1. FinBit(t) = 1 /\ rd + l = n
      BY <1>5, <2>1 DEF FinBit
    <3> HIDE DEF l
    <3> QED BY <1>0, <1>4, <1>5, <3>1
  <2>2. CASE ~t.fin.seen
    <3>1. FinBit(t) = 0
      BY <2>2 DEF FinBit
    <3> HIDE DEF l
    <3> QED BY <1>0, <1>4, <1>5, <2>2, <3>1
  <2> QED BY <2>1, <2>2
<1>7. /\ u \in TCB /\ u.rcv.nxt = SeqAdd(t.rcv.nxt, 1) /\ u.fin.seen
      /\ u.rcvBuf = t.rcvBuf /\ u.oooSegs = t.oooSegs
  <2>1. /\ u \in TCB /\ u.rcv.nxt = SeqAdd(t.rcv.nxt, 1)
        /\ u.fin = [seen |-> TRUE, seq |-> t.rcv.nxt]
        /\ u.rcvBuf = t.rcvBuf /\ u.oooSegs = t.oooSegs
    BY HandleFinEffect
  <2> HIDE DEF u
  <2> QED BY <2>1
<1>8. u.state \notin {"Listen", "SynSent", "SynReceived"}
  <2>1. t.state \notin {"Listen", "SynSent"}
    BY DEF Heard
  <2> HIDE DEF u
  <2>2. u.state = CASE t.state \in {"Established", "SynReceived"} -> "CloseWait"
                    [] t.state = "FinWait1" -> IF finAcked(t) THEN "TimeWait" ELSE "Closing"
                    [] t.state = "FinWait2" -> "TimeWait"
                    [] OTHER -> t.state
    BY HandleFinState DEF u
  <2> QED BY <2>1, <2>2
<1> HIDE DEF u
<1>9. Got(u, iss) = n + 2
  <2>1. t.rcv.nxt \in SeqNum /\ SeqSub(t.rcv.nxt, iss) = n + 1
    BY <1>4, RcvParts DEF Got
  <2>2. n + 1 + 1 < SeqSize
    BY <1>0, HalfSeqSpaceAssumption DEF SeqSize
  <2>3. SeqSub(SeqAdd(t.rcv.nxt, 1), iss) = n + 1 + 1
    BY <2>1, <2>2, OffsetAdd
  <2> QED BY <1>0, <1>7, <2>3 DEF Got
<1>10. /\ Got(u, iss) = 1 + rd + Len(u.rcvBuf) + FinBit(u) /\ Got(u, iss) <= x
       /\ rd + Len(u.rcvBuf) <= n /\ rd + Len(u.rcvBuf) = n /\ Len(t.rcvBuf) <= Len(u.rcvBuf)
  <2>1. FinBit(u) = 1 /\ Len(u.rcvBuf) = l
    BY <1>7 DEF FinBit
  <2>2. n + 1 + 1 <= x
    BY <1>1, <1>2
  <2>3. Len(t.rcvBuf) = l
    OBVIOUS
  <2> HIDE DEF l
  <2> QED BY <1>0, <1>4, <1>6, <1>9, <2>1, <2>2, <2>3
<1>11. Heard(u, iss, n, x, rd)
  BY <1>7, <1>8, <1>10 DEF Heard
<1> QED BY <1>6, <1>7, <1>10, <1>11 DEF Hears, Grown, u

\* A step that keeps what has arrived, and then one that hears.
LEMMA GrownFrom ==
    ASSUME NEW t \in TCB, NEW h \in TCB, NEW u, NEW iss, NEW n, NEW x, NEW rd,
           Hears(h, u, iss, n, x, rd), h.rcvBuf = t.rcvBuf, h.fin = t.fin
    PROVE  Hears(t, u, iss, n, x, rd)
  BY DEF Hears, Grown

\* An acceptable segment of the peer's stream.
LEMMA ProcessAckHeard ==
    ASSUME NEW t \in TCB, NEW s \in Segment, NEW iss \in SeqNum, NEW n, Fits(n), NEW x \in Nat,
           x <= n + 2, NEW rd \in Nat, Heard(t, iss, n, x, rd), OwnText(s, iss, n, x)
    PROVE  Hears(t, processAck(t, s), iss, n, x, rd)
<1> DEFINE h == handleAck(t, s)
           v == processText(h, s)
           f == processFin(v, s)
<1>0. processAck(t, s) \in {t, sendRst(t, s.ack), sendChallengeAck(t), f}
  BY DEF processAck, refuseAck
<1>1. Keeps(t, t) /\ Keeps(t, sendRst(t, s.ack)) /\ Keeps(t, sendChallengeAck(t))
  BY KeepsRefl, SendRstKeeps, SendChallengeAckKeeps, SegmentParts
<1>2. /\ Hears(t, t, iss, n, x, rd) /\ Hears(t, sendRst(t, s.ack), iss, n, x, rd)
      /\ Hears(t, sendChallengeAck(t), iss, n, x, rd)
  BY <1>1, KeepsHears
<1>3. KeepsRcv(t, h) /\ AckStep(t, h)
  BY HandleAckEffect
<1>4. v = IF s.data = <<>> THEN h ELSE acceptText(h, s)
  BY DEF processText
<1>5. f = IF "FIN" \in s.flags /\ finNum(s) = v.rcv.nxt THEN handleFin(v) ELSE v
  BY DEF processFin, finNum
<1>6. "FIN" \in s.flags => s.data = <<>>
  BY DEF OwnText, TextAt
<1> HIDE DEF h, v, f
<1>7. /\ h \in TCB /\ h.rcv = t.rcv /\ h.fin = t.fin /\ h.rcvBuf = t.rcvBuf /\ h.oooSegs = t.oooSegs
      /\ h.state \notin {"Listen", "SynSent"} /\ (h.state = "SynReceived" => t.state = "SynReceived")
  BY <1>3 DEF KeepsRcv, SameRcv, AckStep, Heard
<1>8. Hears(t, h, iss, n, x, rd)
  BY <1>7, SameHears
<1>9. Heard(h, iss, n, x, rd)
  BY <1>8 DEF Hears
<1>10. CASE s.data = <<>>
  <2>1. ASSUME "FIN" \in s.flags, finNum(s) = h.rcv.nxt PROVE Hears(t, f, iss, n, x, rd)
    <3>1. Hears(h, f, iss, n, x, rd)
      BY <1>4, <1>5, <1>7, <1>9, <1>10, <2>1, HandleFinHeard
    <3> QED BY <1>7, <3>1, GrownFrom
  <2>2. ASSUME ~("FIN" \in s.flags /\ finNum(s) = h.rcv.nxt) PROVE Hears(t, f, iss, n, x, rd)
    <3>1. f = h
      BY <1>4, <1>5, <1>10, <2>2
    <3> QED BY <1>8, <3>1
  <2>3. Hears(t, f, iss, n, x, rd)
    BY <2>1, <2>2
  <2> QED BY <1>0, <1>2, <2>3
<1>11. CASE s.data # <<>>
  <2>1. f = acceptText(h, s)
    BY <1>4, <1>5, <1>6, <1>11
  <2>2. Hears(h, f, iss, n, x, rd)
    BY <1>7, <1>9, <1>11, <2>1, AcceptTextHeard
  <2>3. Hears(t, f, iss, n, x, rd)
    BY <1>7, <2>2, GrownFrom
  <2> QED BY <1>0, <1>2, <2>3
<1> QED BY <1>10, <1>11

\* A RST or a SYN changes nothing of what has arrived.
LEMMA SynchronizedOdd ==
    ASSUME NEW t \in TCB, NEW s \in Segment, "RST" \in s.flags \/ "SYN" \in s.flags
    PROVE  LET u == onSegmentSynchronized(t, s) IN
             /\ SameRcv(t, u) /\ u.reached = t.reached
             /\ \/ u.state \in {t.state, "Closed"}
                \/ t.state = "SynReceived" /\ u.state = "Listen"
<1> DEFINE u == onSegmentSynchronized(t, s)
           a == sendAck(t)
           r == handleRst(t, s)
           c == sendChallengeAck(t)
<1>4. u \in {a, r, c}
  BY DEF onSegmentSynchronized
<1>5. /\ SameRcv(t, a) /\ a.state = t.state /\ a.reached = t.reached
      /\ SameRcv(t, c) /\ c.state = t.state /\ c.reached = t.reached
  BY SendAckKeeps, SendChallengeAckKeeps DEF Keeps, KeepsRcv
<1>3. /\ KeepsRcv(t, r) /\ r.reached = t.reached
      /\ r.state \in {t.state, "Closed"} \/ (t.state = "SynReceived" /\ r.state = "Listen")
  BY HandleRstEffect
<1> HIDE DEF u, a, r, c
<1>6. SameRcv(t, u) /\ u.reached = t.reached
  BY <1>3, <1>4, <1>5 DEF KeepsRcv
<1>7. u.state \in {t.state, "Closed"} \/ (t.state = "SynReceived" /\ u.state = "Listen")
  BY <1>3, <1>4, <1>5
<1> QED BY <1>6, <1>7 DEF u

\* Back in LISTEN a connection has taken nothing.
Relistens(t, u) == t.state = "SynReceived" /\ u.state = "Listen" /\ SameRcv(t, u)

LEMMA SynchronizedHeard ==
    ASSUME NEW t \in TCB, NEW s \in Segment, NEW iss \in SeqNum, NEW n, Fits(n), NEW x \in Nat,
           x <= n + 2, NEW rd \in Nat, Heard(t, iss, n, x, rd),
           OwnText(s, iss, n, x) \/ "RST" \in s.flags \/ "SYN" \in s.flags
    PROVE  LET u == onSegmentSynchronized(t, s) IN Hears(t, u, iss, n, x, rd) \/ Relistens(t, u)
<1> DEFINE u == onSegmentSynchronized(t, s)
           r == tsRecentUpdate(t, s)
<1>1. CASE "RST" \in s.flags \/ "SYN" \in s.flags
  <2>1. /\ SameRcv(t, u)
        /\ \/ u.state \in {t.state, "Closed"}
           \/ t.state = "SynReceived" /\ u.state = "Listen"
    BY <1>1, SynchronizedOdd
  <2> HIDE DEF u
  <2>2. CASE t.state = "SynReceived" /\ u.state = "Listen"
    BY <2>1, <2>2 DEF Relistens, u
  <2>3. CASE u.state \in {t.state, "Closed"}
    <3>1. /\ u \in TCB /\ u.rcv.nxt = t.rcv.nxt /\ u.fin = t.fin /\ u.rcvBuf = t.rcvBuf
          /\ u.oooSegs = t.oooSegs
          /\ u.state \notin {"Listen", "SynSent"} /\ (u.state = "SynReceived" => t.state = "SynReceived")
      BY <2>1, <2>3 DEF SameRcv, Heard
    <3>2. Hears(t, u, iss, n, x, rd)
      BY <3>1, SameHears
    <3> QED BY <3>2 DEF u
  <2> QED BY <2>1, <2>2, <2>3
<1>2. CASE ~("RST" \in s.flags \/ "SYN" \in s.flags)
  <2>1. u \in {sendAck(t), processAck(r, s)}
    BY <1>2 DEF onSegmentSynchronized
  <2>2. Hears(t, sendAck(t), iss, n, x, rd)
    BY SendAckKeeps, KeepsHears
  <2>3. Keeps(t, r)
    BY TsRecentUpdateKeeps
  <2> HIDE DEF r
  <2>4. Hears(t, r, iss, n, x, rd) /\ r \in TCB /\ r.fin = t.fin /\ r.rcvBuf = t.rcvBuf
    BY <2>3, KeepsHears DEF Keeps, KeepsRcv, SameRcv
  <2>5. Hears(r, processAck(r, s), iss, n, x, rd)
    BY <1>2, <2>4, ProcessAckHeard DEF Hears
  <2>6. Hears(t, processAck(r, s), iss, n, x, rd)
    BY <2>4, <2>5, GrownFrom
  <2> QED BY <2>1, <2>2, <2>6
<1> QED BY <1>1, <1>2

\* Whatever arrives at a connection that has heard its peer.
LEMMA HeardArrival ==
    ASSUME NEW t \in TCB, NEW s \in Segment, NEW iss \in SeqNum, NEW n, Fits(n), NEW x \in Nat,
           x <= n + 2, NEW rd \in Nat, Heard(t, iss, n, x, rd),
           OwnText(s, iss, n, x) \/ "RST" \in s.flags \/ "SYN" \in s.flags
    PROVE  LET u == onSegment(t, s) IN Hears(t, u, iss, n, x, rd) \/ Relistens(t, u)
<1> DEFINE k == [t EXCEPT !.keepaliveProbes = 0]
           u == onSegment(t, s)
<1>0. 0 \in 0..KeepaliveMaxProbes
  BY TcbAssumption
<1>1. /\ k \in TCB /\ k.state = t.state /\ k.rcv = t.rcv /\ k.fin = t.fin
      /\ k.rcvBuf = t.rcvBuf /\ k.oooSegs = t.oooSegs
  BY <1>0 DEF TCB
<1>2. t.state \notin {"Listen", "SynSent"}
  BY DEF Heard
<1>3. u = IF k.state = "Closed" THEN onSegmentClosed(k, s) ELSE onSegmentSynchronized(k, s)
  BY <1>1, <1>2 DEF onSegment
<1> HIDE DEF k, u
<1>4. Heard(k, iss, n, x, rd)
  BY <1>1, <1>2, SameHears DEF Hears
<1>5. CASE k.state = "Closed"
  <2>1. Replied(k, u)
    BY <1>1, <1>3, <1>5, OnSegmentClosedEffect
  <2>2. /\ u \in TCB /\ u.rcv.nxt = t.rcv.nxt /\ u.fin = t.fin /\ u.rcvBuf = t.rcvBuf
        /\ u.oooSegs = t.oooSegs /\ u.state = "Closed"
    BY <1>1, <1>5, <2>1 DEF Replied, SameRcv
  <2>3. Hears(t, u, iss, n, x, rd)
    BY <2>2, SameHears
  <2> QED BY <2>3 DEF u
<1>6. CASE k.state # "Closed"
  <2>1. u = onSegmentSynchronized(k, s)
    BY <1>3, <1>6
  <2>2. Hears(k, u, iss, n, x, rd) \/ Relistens(k, u)
    BY <1>1, <1>4, <2>1, SynchronizedHeard
  <2>3. Hears(k, u, iss, n, x, rd) => Hears(t, u, iss, n, x, rd)
    BY <1>1, GrownFrom
  <2>4. Relistens(k, u) => Relistens(t, u)
    BY <1>1 DEF Relistens, SameRcv
  <2> QED BY <2>2, <2>3, <2>4 DEF u
<1> QED BY <1>5, <1>6

-----------------------------------------------------------------------------
(* A connection that has heard nothing of its peer.                        *)

\* A segment that is no part of the stream: a reset or a SYN of a former incarnation.
Odd(s, olds) == "RST" \in s.flags \/ (s.flags = {"SYN"} /\ s.data = <<>> /\ s.seq \in olds)

\* t has taken nothing, or only such a SYN.
Empty(t) == t.rcvBuf = <<>> /\ t.oooSegs = {} /\ ~t.fin.seen
Unmet(t, olds) == \/ t.state \in {"Closed", "Listen", "SynSent"}
                  \/ \E o \in olds : t.rcv.nxt = SeqAdd(o, 1)
Deaf(t, olds) == Empty(t) /\ Unmet(t, olds)

\* The stream of n bytes after iss is out of reach of a receiver that took the SYN o.
FarFrom(iss, n, o) == \A k \in 0..(n + 2) : SeqSub(SeqAdd(iss, k), SeqAdd(o, 1)) >= RcvBuff

LEMMA FarOut ==
    ASSUME NEW r \in SeqNum, NEW w \in 0..RcvBuff, NEW q \in SeqNum, RcvBuff <= SeqSub(q, r)
    PROVE  q # r /\ ~(SeqLEQ(r, q) /\ SeqLT(q, SeqAdd(r, w)) /\ 0 < w)
<1> DEFINE d == SeqSub(q, r)
<1>0. HalfSeqSpace \in Nat /\ RcvBuff \in Nat /\ 1 <= RcvBuff /\ RcvBuff + 2 <= HalfSeqSpace /\ w \in Nat
      /\ w <= RcvBuff
  BY TcbAssumption, HalfSeqSpaceAssumption
<1>1. q # r
  BY <1>0 DEF SeqSub, SeqNum, SeqSize
<1>2. ASSUME SeqLT(r, q), SeqLT(q, SeqAdd(r, w)), 0 < w PROVE FALSE
  <2>1. d < HalfSeqSpace /\ w <= d
    <3>1. d \in Nat /\ d < HalfSeqSpace
      BY <1>2, SeqSubType, SeqNumNat DEF SeqLT
    <3> HIDE DEF d
    <3>2. RcvBuff <= d
      BY DEF d
    <3> QED BY <1>0, <3>1, <3>2
  <2>2. SeqSub(SeqAdd(r, w), q) < HalfSeqSpace /\ SeqSub(SeqAdd(r, w), q) # 0
    BY <1>2 DEF SeqLT
  <2>3. /\ r \in Nat /\ q \in Nat /\ r < SeqSize /\ q < SeqSize
        /\ SeqSize = HalfSeqSpace + HalfSeqSpace
    BY <1>0 DEF SeqNum, SeqSize
  <2>4. \/ r <= q /\ d = q - r
        \/ q < r /\ d = q - r + SeqSize
    BY <2>3 DEF SeqSub
  <2> DEFINE e == SeqAdd(r, w)
             g == SeqSub(e, q)
  <2>5. e = r + w \/ e = r + w - SeqSize
    BY DEF SeqAdd
  <2>6. g = e - q \/ g = e - q + SeqSize
    BY DEF SeqSub
  <2>7. g < HalfSeqSpace /\ g # 0 /\ g \in Nat
    <3>1. e \in SeqNum
      BY <1>0, HalfSeqSpaceAssumption, SeqAddType DEF SeqSize
    <3>2. g \in SeqNum
      BY <3>1, SeqSubType
    <3> QED BY <2>2, <3>2, SeqNumNat
  <2> HIDE DEF d, e, g
  <2> QED BY <1>0, <2>1, <2>3, <2>4, <2>5, <2>6, <2>7
<1> QED BY <1>1, <1>2 DEF SeqLEQ

LEMMA OutOfReach ==
    ASSUME NEW t \in TCB, NEW s \in Segment, NEW iss \in SeqNum, NEW n, Fits(n), NEW x \in Nat,
           x <= n + 2, OwnText(s, iss, n, x), NEW o \in SeqNum, t.rcv.nxt = SeqAdd(o, 1),
           FarFrom(iss, n, o)
    PROVE  ~acceptable(t, s)
<1> DEFINE v == SeqSub(s.seq, iss)
           l == segLen(s)
           r == t.rcv.nxt
           w == t.rcv.wnd
<1>0. n \in Nat /\ n + 3 <= HalfSeqSpace
  BY FitsParts
<1>1. s.seq \in SeqNum /\ s.data \in Payload /\ r \in SeqNum /\ w \in 0..RcvBuff
  BY SegmentParts, RcvParts
<1>2. v \in Nat /\ l \in Nat
  BY <1>1, OwnLen
<1>3. v + l <= x
  BY DEF OwnText, TextAt
<1>4. s.seq = SeqAdd(iss, v)
  BY <1>1, HalfSeqSpaceAssumption DEF SeqAdd, SeqSub, SeqNum, SeqSize
<1>5. l # 0 => SeqAdd(s.seq, l - 1) = SeqAdd(iss, v + (l - 1))
  <2> SUFFICES ASSUME l # 0 PROVE SeqAdd(s.seq, l - 1) = SeqAdd(iss, v + (l - 1))
    OBVIOUS
  <2> HIDE DEF v, l
  <2>1. l - 1 \in Nat /\ v + (l - 1) \in Nat /\ v + (l - 1) < SeqSize
    BY <1>0, <1>2, <1>3, HalfSeqSpaceAssumption DEF SeqSize
  <2>2. v + (l - 1) \in SeqNum
    BY <2>1, HalfSeqSpaceAssumption DEF SeqNum, SeqSize
  <2> QED BY <1>2, <1>4, <2>1, <2>2, SeqAddAdd
<1> HIDE DEF v, l
<1>6. v \in 0..(n + 2) /\ (l # 0 => v + (l - 1) \in 0..(n + 2))
  BY <1>0, <1>2, <1>3
<1>7. RcvBuff <= SeqSub(s.seq, r) /\ (l # 0 => RcvBuff <= SeqSub(SeqAdd(s.seq, l - 1), r))
  BY <1>4, <1>5, <1>6 DEF FarFrom
<1>8. l # 0 => SeqAdd(s.seq, l - 1) \in SeqNum
  <2> SUFFICES ASSUME l # 0 PROVE SeqAdd(s.seq, l - 1) \in SeqNum
    OBVIOUS
  <2>1. l - 1 \in 0..SeqSize
    BY <1>0, <1>2, <1>3, HalfSeqSpaceAssumption DEF SeqSize
  <2> QED BY <1>1, <2>1, SeqAddType
<1>9. w \in Nat
  BY <1>1, TcbAssumption
<1> HIDE DEF r, w
<1>10. ~inWindow(t, s.seq)
  <2>1. s.seq # r /\ ~(SeqLEQ(r, s.seq) /\ SeqLT(s.seq, SeqAdd(r, w)) /\ 0 < w)
    BY <1>1, <1>7, FarOut
  <2> QED BY <1>9, <2>1 DEF inWindow, r, w
<1>11. l # 0 => ~inWindow(t, SeqAdd(s.seq, l - 1))
  <2> SUFFICES ASSUME l # 0 PROVE ~inWindow(t, SeqAdd(s.seq, l - 1))
    OBVIOUS
  <2> DEFINE q == SeqAdd(s.seq, l - 1)
  <2>0. q \in SeqNum /\ RcvBuff <= SeqSub(q, r)
    BY <1>7, <1>8
  <2> HIDE DEF q
  <2>1. q # r /\ ~(SeqLEQ(r, q) /\ SeqLT(q, SeqAdd(r, w)) /\ 0 < w)
    BY <1>1, <2>0, FarOut
  <2>2. ~inWindow(t, q)
    BY <1>9, <2>1 DEF inWindow, r, w
  <2> QED BY <2>2 DEF q
<1> QED BY <1>10, <1>11 DEF acceptable, l

\* A SYN is taken: nothing has been heard but its number.
Begins(t, u, s) ==
    /\ u \in TCB /\ u.state \in {"SynReceived", "Established"} /\ SameBuffers(t, u)
    /\ u.rcv.nxt = SeqAdd(s.seq, 1) /\ u.rcv.irs = s.seq /\ "SYN" \in s.flags /\ "RST" \notin s.flags
    /\ u.state = "SynReceived" \/ "ACK" \in s.flags
    /\ t.state \in {"Listen", "SynSent"} /\ (t.state = "Listen" => "ACK" \notin s.flags)
    /\ \A e \in u.out : e \in t.out \/ "RST" \in e.flags \/ Quotes(e, {u.rcv.nxt})

\* A step that hears nothing.
Deafens(t, u) == /\ SameRcv(t, u) /\ u.reached = t.reached
                 /\ u.state \in {t.state, "Closed"} \/ Relistens(t, u)

LEMMA ReplyDeafens ==
    ASSUME NEW t, NEW u, Replied(t, u)
    PROVE  Deafens(t, u)
  BY DEF Replied, Deafens

LEMMA GreetsBegins ==
    ASSUME NEW t, NEW u, NEW s, Greets(t, u, s), t.state \in {"Listen", "SynSent"},
           t.state = "Listen" => "ACK" \notin s.flags
    PROVE  Begins(t, u, s)
<1>1. u.rcv.irs = s.seq
  BY DEF Greets
<1>2. \A e \in u.out : e \in t.out \/ Quotes(e, {u.rcv.nxt})
  BY DEF Greets, Adds, Quotes
<1> QED BY <1>1, <1>2 DEF Greets, SynTaken, Begins

LEMMA ListenDeaf ==
    ASSUME NEW t \in TCB, NEW s \in Segment, t.state = "Listen"
    PROVE  LET u == onSegmentListen(t, s) IN Deafens(t, u) \/ Begins(t, u, s)
<1> DEFINE u == onSegmentListen(t, s)
<1>1. Replied(t, u) \/ (Greets(t, u, s) /\ "ACK" \notin s.flags)
  BY ListenForm DEF Rejects
<1> HIDE DEF u
<1>2. Greets(t, u, s) /\ "ACK" \notin s.flags => Begins(t, u, s)
  BY GreetsBegins
<1>3. Deafens(t, u) \/ Begins(t, u, s)
  BY <1>1, <1>2, ReplyDeafens
<1> QED BY <1>3 DEF u

LEMMA SynSentDeaf ==
    ASSUME NEW t \in TCB, NEW s \in Segment, t.state = "SynSent"
    PROVE  LET u == onSegmentSynSent(t, s) IN Deafens(t, u) \/ Begins(t, u, s)
<1> DEFINE u == onSegmentSynSent(t, s)
<1>1. \/ Replied(t, u)
      \/ SameRcv(t, u) /\ u.state = "Closed" /\ u.reached = t.reached
      \/ Connects(t, u, s)
      \/ Greets(t, u, s)
  BY SynSentForm DEF Rejects
<1> HIDE DEF u
<1>2. Greets(t, u, s) => Begins(t, u, s)
  BY GreetsBegins
<1>3. Connects(t, u, s) => Begins(t, u, s)
  BY DEF Connects, Begins, Word
<1>4. SameRcv(t, u) /\ u.state = "Closed" /\ u.reached = t.reached => Deafens(t, u)
  BY DEF Deafens
<1>5. Deafens(t, u) \/ Begins(t, u, s)
  BY <1>1, <1>2, <1>3, <1>4, ReplyDeafens
<1> QED BY <1>5 DEF u

\* A connection that took the SYN of a former incarnation hears nothing of its peer.
LEMMA FooledDeaf ==
    ASSUME NEW t \in TCB, NEW s \in Segment, NEW iss \in SeqNum, NEW n, Fits(n), NEW x \in Nat,
           x <= n + 2, NEW olds \in SUBSET SeqNum, Odd(s, olds) \/ OwnText(s, iss, n, x),
           NEW o \in olds, t.rcv.nxt = SeqAdd(o, 1), FarFrom(iss, n, o)
    PROVE  Deafens(t, onSegmentSynchronized(t, s))
<1>1. CASE "RST" \in s.flags \/ "SYN" \in s.flags
  <2> DEFINE u == onSegmentSynchronized(t, s)
  <2>1. /\ SameRcv(t, u) /\ u.reached = t.reached
        /\ \/ u.state \in {t.state, "Closed"}
           \/ t.state = "SynReceived" /\ u.state = "Listen"
    BY <1>1, SynchronizedOdd
  <2> HIDE DEF u
  <2>2. Deafens(t, u)
    BY <2>1 DEF Deafens, Relistens
  <2> QED BY <2>2 DEF u
<1>2. CASE "RST" \notin s.flags /\ "SYN" \notin s.flags
  <2>1. OwnText(s, iss, n, x) /\ o \in SeqNum
    BY <1>2 DEF Odd
  <2>2. ~acceptable(t, s)
    BY <2>1, OutOfReach
  <2>3. onSegmentSynchronized(t, s) = sendAck(t)
    BY <1>2, <2>2 DEF onSegmentSynchronized
  <2>4. Deafens(t, sendAck(t))
    BY SendAckKeeps DEF Keeps, KeepsRcv, Deafens
  <2> QED BY <2>3, <2>4
<1> QED BY <1>1, <1>2

LEMMA DeafSegment ==
    ASSUME NEW t \in TCB, NEW s \in Segment, NEW iss \in SeqNum, NEW n, Fits(n), NEW x \in Nat,
           x <= n + 2, NEW olds \in SUBSET SeqNum, Odd(s, olds) \/ OwnText(s, iss, n, x),
           Deaf(t, olds), \A o \in olds : FarFrom(iss, n, o)
    PROVE  LET u == onSegment(t, s) IN Deafens(t, u) \/ Begins(t, u, s)
<1> DEFINE k == [t EXCEPT !.keepaliveProbes = 0]
           u == onSegment(t, s)
<1>0. 0 \in 0..KeepaliveMaxProbes
  BY TcbAssumption
<1>1. /\ k \in TCB /\ k.state = t.state /\ k.rcv = t.rcv /\ k.fin = t.fin
      /\ k.rcvBuf = t.rcvBuf /\ k.oooSegs = t.oooSegs /\ k.out = t.out /\ k.reached = t.reached
  BY <1>0 DEF TCB
<1>2. u = CASE k.state = "Closed" -> onSegmentClosed(k, s)
            [] k.state = "Listen" -> onSegmentListen(k, s)
            [] k.state = "SynSent" -> onSegmentSynSent(k, s)
            [] OTHER -> onSegmentSynchronized(k, s)
  BY DEF onSegment
<1> HIDE DEF k, u
<1>3. Deafens(k, u) \/ Begins(k, u, s)
  <2>1. CASE k.state = "Closed"
    <3>1. u = onSegmentClosed(k, s)
      BY <1>2, <2>1
    <3>2. Replied(k, u)
      BY <1>1, <3>1, OnSegmentClosedEffect
    <3> QED BY <3>2, ReplyDeafens
  <2>2. CASE k.state = "Listen"
    <3>1. u = onSegmentListen(k, s)
      BY <1>2, <2>2
    <3> QED BY <1>1, <2>2, <3>1, ListenDeaf
  <2>3. CASE k.state = "SynSent"
    <3>1. u = onSegmentSynSent(k, s)
      BY <1>2, <2>3
    <3> QED BY <1>1, <2>3, <3>1, SynSentDeaf
  <2>4. CASE k.state \notin {"Closed", "Listen", "SynSent"}
    <3>1. u = onSegmentSynchronized(k, s)
      BY <1>2, <2>4
    <3>2. PICK o \in olds : k.rcv.nxt = SeqAdd(o, 1)
      BY <1>1, <2>4 DEF Deaf, Unmet
    <3>3. FarFrom(iss, n, o)
      OBVIOUS
    <3> QED BY <1>1, <3>1, <3>2, <3>3, FooledDeaf
  <2> QED BY <2>1, <2>2, <2>3, <2>4
<1>4. Deafens(k, u) => Deafens(t, u)
  BY <1>1 DEF Deafens, Relistens, SameRcv
<1>5. Begins(k, u, s) => Begins(t, u, s)
  BY <1>1 DEF Begins, SameBuffers
<1> QED BY <1>3, <1>4, <1>5 DEF u

\* A step that hears nothing leaves the connection deaf.
LEMMA StillDeaf ==
    ASSUME NEW t, NEW u, NEW olds, Deaf(t, olds), Deafens(t, u)
    PROVE  Deaf(u, olds)
<1>1. u.rcv = t.rcv /\ u.fin = t.fin /\ u.rcvBuf = t.rcvBuf /\ u.oooSegs = t.oooSegs
  BY DEF Deafens, SameRcv
<1>2. u.state = t.state \/ u.state \in {"Closed", "Listen"}
  BY DEF Deafens, Relistens
<1> QED BY <1>1, <1>2 DEF Deaf, Empty, Unmet

\* A deaf connection takes a SYN of a former incarnation and stays deaf, or that of its peer.
LEMMA DeafArrival ==
    ASSUME NEW t \in TCB, NEW s \in Segment, NEW iss \in SeqNum, NEW n, Fits(n), NEW x \in Nat,
           x <= n + 2, NEW olds \in SUBSET SeqNum, Odd(s, olds) \/ OwnText(s, iss, n, x),
           Deaf(t, olds), \A o \in olds : FarFrom(iss, n, o)
    PROVE  LET u == onSegment(t, s) IN
             /\ u \in TCB /\ u.rcvBuf = t.rcvBuf /\ u.fin = t.fin
             /\ Deaf(u, olds) \/ (OwnText(s, iss, n, x) /\ Heard(u, iss, n, x, 0))
<1> DEFINE u == onSegment(t, s)
<1>1. Deafens(t, u) \/ Begins(t, u, s)
  BY DeafSegment
<1> HIDE DEF u
<1>2. CASE Deafens(t, u)
  BY <1>2, StillDeaf DEF u, Deafens, SameRcv
<1>3. CASE Begins(t, u, s)
  <2>1. u \in TCB /\ u.rcvBuf = t.rcvBuf /\ u.fin = t.fin /\ Empty(u)
    BY <1>3 DEF Begins, SameBuffers, Deaf, Empty
  <2>2. CASE Odd(s, olds)
    <3>1. s.seq \in olds
      BY <1>3, <2>2 DEF Begins, Odd
    <3>2. Deaf(u, olds)
      BY <1>3, <2>1, <3>1 DEF Begins, Deaf, Unmet
    <3> QED BY <2>1, <3>2 DEF u
  <2>3. CASE OwnText(s, iss, n, x)
    <3>1. s.seq \in SeqNum /\ s.data \in Payload
      BY SegmentParts
    <3>2. SeqSub(s.seq, iss) = 0 /\ s.data = <<>> /\ 0 + segLen(s) <= x
      BY <1>3, <2>3 DEF Begins, OwnText, TextAt
    <3>3. s.seq = iss
      BY <3>1, <3>2, HalfSeqSpaceAssumption DEF SeqSub, SeqNum, SeqSize
    <3>4. Len(s.data) = 0
      BY <3>2, EmptySeq
    <3>5. 1 <= x
      <4>1. segLen(s) \in Nat /\ 1 <= segLen(s)
        BY <1>3, <3>4 DEF Begins, segLen
      <4> QED BY <3>2, <4>1
    <3>6. Got(u, iss) = 1
      <4>1. 1 \in SeqNum
        BY HalfSeqSpaceAssumption DEF SeqNum, SeqSize
      <4> QED BY <1>3, <3>3, <4>1, SeqSubAdd DEF Begins, Got
    <3>7. FinBit(u) = 0 /\ Len(u.rcvBuf) = 0 /\ n \in Nat
      BY <2>1, EmptySeq, FitsParts DEF Empty, FinBit
    <3>8. Text(u.rcvBuf, 1)
      BY <3>7 DEF Text
    <3>9. Heard(u, iss, n, x, 0)
      <4>1. Got(u, iss) = 1 + 0 + Len(u.rcvBuf) + FinBit(u) /\ Got(u, iss) <= x
            /\ 0 + Len(u.rcvBuf) <= n /\ Text(u.rcvBuf, 0 + 1)
        BY <3>5, <3>6, <3>7, <3>8
      <4> QED BY <1>3, <2>1, <4>1 DEF Heard, Begins, Empty
    <3> QED BY <2>1, <2>3, <3>9 DEF u
  <2> QED BY <2>2, <2>3
<1> QED BY <1>1, <1>2, <1>3

-----------------------------------------------------------------------------
(* Hearing and the other steps.                                            *)

\* A step of a timer or of Close: what has arrived stays, the state may go on.
Goes(t, u) ==
    /\ SameRcv(t, u)
    /\ u.state # t.state => u.state \notin {"Listen", "SynSent", "SynReceived"}
    /\ t.state \in {"Closed", "Listen", "SynSent"} => u.state \in {t.state, "Closed"}

LEMMA GoesHears ==
    ASSUME NEW t \in TCB, NEW u, NEW iss, NEW n, NEW x, NEW rd, Heard(t, iss, n, x, rd), Goes(t, u)
    PROVE  Hears(t, u, iss, n, x, rd)
<1>1. /\ u \in TCB /\ u.rcv.nxt = t.rcv.nxt /\ u.fin = t.fin /\ u.rcvBuf = t.rcvBuf
      /\ u.oooSegs = t.oooSegs
  BY DEF Goes, SameRcv
<1>2. u.state \notin {"Listen", "SynSent"} /\ (u.state = "SynReceived" => t.state = "SynReceived")
  BY DEF Goes, Heard
<1> QED BY <1>1, <1>2, SameHears

LEMMA GoesDeaf ==
    ASSUME NEW t, NEW u, NEW olds, Deaf(t, olds), Goes(t, u)
    PROVE  Deaf(u, olds)
<1>1. u.rcv = t.rcv /\ u.fin = t.fin /\ u.rcvBuf = t.rcvBuf /\ u.oooSegs = t.oooSegs
  BY DEF Goes, SameRcv
<1>2. t.state \in {"Closed", "Listen", "SynSent"} => u.state \in {"Closed", "Listen", "SynSent"}
  BY DEF Goes
<1> QED BY <1>1, <1>2 DEF Deaf, Empty, Unmet

LEMMA KeepsGoes ==
    ASSUME NEW t, NEW u, Keeps(t, u)
    PROVE  Goes(t, u)
  BY DEF Keeps, KeepsRcv, Goes

LEMMA TickGoes ==
    ASSUME NEW t \in TCB, NEW due \in SUBSET armed(t)
    PROVE  Goes(t, Tick(t, due))
<1> DEFINE u == Tick(t, due)
<1>1. TickPart(t, u)
  BY TickEffect
<1> HIDE DEF u
<1>2. Goes(t, u)
  BY <1>1 DEF TickPart, KeepsOrCloses, KeepsRcv, Goes
<1> QED BY <1>2 DEF u

LEMMA CloseGoes ==
    ASSUME NEW t \in TCB, t.state \in CanClose
    PROVE  Goes(t, Close(t))
<1> DEFINE u == Close(t)
<1>1. /\ KeepsRcv(t, u)
      /\ \/ t.state \in {"Listen", "SynSent"} /\ u.state = "Closed"
         \/ t.state \in {"Established", "SynReceived"} /\ u.state = "FinWait1"
         \/ t.state = "CloseWait" /\ u.state = "LastAck"
  BY CloseEffect
<1> HIDE DEF u
<1>2. Goes(t, u)
  BY <1>1 DEF KeepsRcv, Goes
<1> QED BY <1>2 DEF u

\* Recv takes the first k bytes of the buffer.
LEMMA RecvForm ==
    ASSUME NEW t \in TCB, NEW k \in 1..Len(t.rcvBuf)
    PROVE  LET u == Recv(t, k) IN
             /\ u \in TCB /\ u.state = t.state /\ u.rcv.nxt = t.rcv.nxt /\ u.fin = t.fin
             /\ u.rcv.irs = t.rcv.irs
             /\ u.oooSegs = t.oooSegs /\ u.rcvBuf = SubSeq(t.rcvBuf, k + 1, Len(t.rcvBuf))
<1> DEFINE b == SubSeq(t.rcvBuf, k + 1, Len(t.rcvBuf))
           read == [t EXCEPT !.rcvBuf = b]
           w == advertiseWindow(read)
           rcv == [t.rcv EXCEPT !.wnd = w]
           open == [read EXCEPT !.rcv = rcv]
<1>0. t.rcvBuf \in Seq(Nat) /\ Len(t.rcvBuf) \in Nat /\ k + 1 \in Nat \ {0}
  BY TcbParts, LenProperties
<1>1. b \in Seq(Nat)
  BY <1>0, PartOfSeq
<1>2. Recv(t, k) \in {sendAck(open), open}
  BY DEF Recv, TCB, RcvVars
<1> HIDE DEF b
<1>3. /\ read \in TCB /\ read.rcv = t.rcv /\ read.rcvBuf = b /\ read.state = t.state
      /\ read.fin = t.fin /\ read.oooSegs = t.oooSegs
  BY <1>1 DEF TCB
<1>4. w \in 0..RcvBuff
  BY <1>3, AdvertiseWindowType
<1> HIDE DEF w, read
<1>6. rcv \in RcvVars /\ rcv.nxt = t.rcv.nxt /\ rcv.irs = t.rcv.irs
  BY <1>4, TcbParts DEF RcvVars
<1> HIDE DEF rcv
<1>7. /\ open \in TCB /\ open.rcv.nxt = t.rcv.nxt /\ open.rcv.irs = t.rcv.irs /\ open.fin = t.fin /\ open.state = t.state
      /\ open.rcvBuf = b /\ open.oooSegs = t.oooSegs
  BY <1>3, <1>6 DEF TCB
<1> HIDE DEF open
<1>8. Keeps(open, sendAck(open)) /\ Keeps(open, open)
  BY <1>7, SendAckKeeps, KeepsRefl
<1> DEFINE u == Recv(t, k)
<1>9. Keeps(open, u)
  BY <1>2, <1>8
<1> HIDE DEF u
<1>10. /\ u \in TCB /\ u.state = t.state /\ u.rcv.nxt = t.rcv.nxt /\ u.fin = t.fin
       /\ u.rcv.irs = t.rcv.irs /\ u.oooSegs = t.oooSegs /\ u.rcvBuf = b
  BY <1>7, <1>9 DEF Keeps, KeepsRcv, SameRcv
<1> QED BY <1>10 DEF b, u

LEMMA RecvHeard ==
    ASSUME NEW t \in TCB, NEW k \in 1..Len(t.rcvBuf), NEW iss, NEW n, NEW x, NEW rd \in Nat,
           Heard(t, iss, n, x, rd), t.state # "SynReceived"
    PROVE  LET u == Recv(t, k) IN
             /\ Heard(u, iss, n, x, rd + k) /\ u.fin = t.fin
             /\ Len(u.rcvBuf) = Len(t.rcvBuf) - k
<1> DEFINE u == Recv(t, k)
           l == Len(t.rcvBuf)
           b == u.rcvBuf
<1>0. t.rcvBuf \in Seq(Nat) /\ l \in Nat
  BY TcbParts, LenProperties
<1>1. /\ u.state = t.state /\ u.rcv.nxt = t.rcv.nxt /\ u.fin = t.fin
      /\ u.oooSegs = t.oooSegs /\ b = SubSeq(t.rcvBuf, k + 1, l)
  BY RecvForm
<1> HIDE DEF u, b, l
<1>k. k \in Nat /\ k <= l /\ k + 1 \in Nat
  BY <1>0 DEF l
<1>2. Text(t.rcvBuf, rd + 1)
  BY DEF Heard
<1>3. Len(b) = l - k /\ Text(b, rd + k + 1)
  <2>1. CASE k < l
    <3>1. rd + 1 \in Nat /\ rd + 1 + k = rd + k + 1
      BY <1>k
    <3>2. l <= Len(t.rcvBuf)
      BY <1>0 DEF l
    <3>3. /\ Len(SubSeq(t.rcvBuf, k + 1, l)) = l - k
          /\ Text(SubSeq(t.rcvBuf, k + 1, l), rd + 1 + k)
      BY <1>0, <1>2, <1>k, <2>1, <3>1, <3>2, SubText
    <3> QED BY <1>1, <3>1, <3>3
  <2>2. CASE k = l
    <3>1. Len(SubSeq(t.rcvBuf, k + 1, l)) = 0
      <4>1. \A i \in (k + 1)..l : t.rcvBuf[i] \in Nat
        BY <1>k, <2>2
      <4>2. Len(SubSeq(t.rcvBuf, k + 1, l)) = IF k + 1 <= l THEN l - (k + 1) + 1 ELSE 0
        BY <1>0, <1>k, <2>2, <4>1, SubSeqProperties
      <4> QED BY <1>k, <2>2, <4>2
    <3>2. Len(b) = 0
      BY <1>1, <3>1
    <3>3. Text(b, rd + k + 1)
      BY <3>2 DEF Text
    <3> QED BY <1>k, <2>2, <3>2, <3>3
  <2> QED BY <1>0, <1>k, <2>1, <2>2
<1>4. Got(u, iss) = Got(t, iss) /\ FinBit(u) = FinBit(t)
  BY <1>1 DEF Got, FinBit
<1>5. Got(t, iss) = 1 + rd + l + FinBit(t) /\ rd + l <= n /\ (t.fin.seen => rd + l = n)
  BY DEF Heard, l
<1>6. FinBit(t) \in {0, 1}
  BY DEF FinBit
<1>7. rd + k + (l - k) = rd + l
  BY <1>0, <1>k
<1>8. /\ Got(u, iss) = 1 + (rd + k) + Len(b) + FinBit(u) /\ rd + k + Len(b) <= n
      /\ u.fin.seen => rd + k + Len(b) = n
  <2> DEFINE m == Len(b)
             g == FinBit(t)
  <2>1. m = l - k /\ g \in Nat /\ rd + k + m = rd + l
    BY <1>3, <1>6, <1>7
  <2>2. Got(t, iss) = 1 + rd + l + g
    BY <1>5
  <2> HIDE DEF m, g
  <2>3. 1 + (rd + k) + m + g = 1 + rd + l + g
    BY <1>0, <1>k, <2>1
  <2>4. Got(u, iss) = 1 + (rd + k) + m + FinBit(u)
    BY <1>4, <2>2, <2>3 DEF g
  <2>5. rd + k + m <= n /\ (u.fin.seen => rd + k + m = n)
    BY <1>1, <1>5, <2>1
  <2> QED BY <2>4, <2>5 DEF m
<1>9. Heard(u, iss, n, x, rd + k)
  BY <1>1, <1>3, <1>4, <1>8 DEF Heard, b
<1> QED BY <1>1, <1>3, <1>9 DEF u, b, l

\* The peer may have sent more, or been given more to send before its FIN.
LEMMA HeardMore ==
    ASSUME NEW t \in TCB, NEW iss \in SeqNum, NEW n, NEW x \in Nat, NEW y \in Nat, x <= y,
           NEW rd, Heard(t, iss, n, x, rd)
    PROVE  Heard(t, iss, n, y, rd)
<1>1. Got(t, iss) \in Nat
  BY RcvParts, SeqSubType, SeqNumNat DEF Got
<1>2. \A f \in t.oooSegs : SeqSub(f.seq, iss) + Len(f.data) \in Nat
  <2> SUFFICES ASSUME NEW f \in t.oooSegs PROVE SeqSub(f.seq, iss) + Len(f.data) \in Nat
    OBVIOUS
  <2>1. f \in Fragment
    BY TcbParts
  <2>2. f.seq \in SeqNum /\ f.data \in Payload
    BY <2>1 DEF Fragment
  <2>3. SeqSub(f.seq, iss) \in Nat /\ Len(f.data) \in Nat
    BY <2>2, SeqSubType, SeqNumNat, LenProperties DEF Payload
  <2> QED BY <2>3
<1>3. \A f \in t.oooSegs : FragText(f, iss, n, y)
  BY <1>2 DEF Heard, FragText
<1> QED BY <1>1, <1>3 DEF Heard

LEMMA HeardLater ==
    ASSUME NEW t \in TCB, NEW iss \in SeqNum, NEW n \in Nat, NEW m \in Nat, n <= m, NEW x \in Nat,
           x <= n + 1, NEW rd \in Nat, Heard(t, iss, n, x, rd)
    PROVE  Heard(t, iss, m, x, rd) /\ ~t.fin.seen
<1>0. Len(t.rcvBuf) \in Nat
  BY TcbParts, LenProperties
<1>1. ~t.fin.seen
  <2> SUFFICES ASSUME t.fin.seen PROVE FALSE
    OBVIOUS
  <2>1. FinBit(t) = 1
    BY DEF FinBit
  <2> DEFINE l == Len(t.rcvBuf)
  <2>2. 1 + rd + l + 1 <= x /\ rd + l = n
    BY <2>1 DEF Heard
  <2>3. l \in Nat
    BY <1>0
  <2> HIDE DEF l
  <2> QED BY <2>2, <2>3
<1>2. \A f \in t.oooSegs : SeqSub(f.seq, iss) + Len(f.data) \in Nat
  <2> SUFFICES ASSUME NEW f \in t.oooSegs PROVE SeqSub(f.seq, iss) + Len(f.data) \in Nat
    OBVIOUS
  <2>1. f \in Fragment
    BY TcbParts
  <2>2. f.seq \in SeqNum /\ f.data \in Payload
    BY <2>1 DEF Fragment
  <2>3. SeqSub(f.seq, iss) \in Nat /\ Len(f.data) \in Nat
    BY <2>2, SeqSubType, SeqNumNat, LenProperties DEF Payload
  <2> QED BY <2>3
<1>3. \A f \in t.oooSegs : FragText(f, iss, m, x)
  BY <1>2 DEF Heard, FragText
<1>4. rd + Len(t.rcvBuf) <= m
  BY <1>0 DEF Heard
<1> QED BY <1>1, <1>3, <1>4 DEF Heard

-----------------------------------------------------------------------------
(* The streams.  What a connection says and what it hears, put together: the *)
(* bytes that one application reads are those the other one has sent.        *)

\* No application closes before its bytes are sent (Close puts the FIN before
\* what is still in sndBuf), and no number of a new stream is in the window of a
\* receiver that took the SYN of a former incarnation.
NoEagerClose == ~EagerClose
Apart == \A p \in Peer : \A o \in OldSyns : FarFrom(Iss[p], AppBytes[p], o)

\* A segment of p's stream, as far as it was sent.
Own(s, p) == OwnText(s, Iss[p], nsent[p], Nxt(tcb[p]))

\* p has said nothing, or has opened and what it says is its stream.
Silent(p) == Mute(tcb[p]) /\ nsent[p] = 0 /\ \A s \in net[other(p)] : Odd(s, OldSyns)
Talks(p) == /\ p \in opened /\ Numbered(tcb[p], nsent[p])
            /\ \A s \in net[other(p)] : Odd(s, OldSyns) \/ Own(s, p)

\* p has heard nothing of its peer, or a part of its stream.
Unaware(p) == Deaf(tcb[p], OldSyns) /\ nread[p] = 0
Hearing(p) == LET q == other(p) IN
    p \in opened /\ Talks(q) /\ Heard(tcb[p], Iss[q], nsent[q], Nxt(tcb[q]), nread[p])

StreamInv == \A p \in Peer :
    /\ tcb[p].snd.iss = Iss[p] /\ tcb[p].out = {}
    /\ Silent(p) \/ Talks(p)
    /\ Unaware(p) \/ Hearing(p)

\* What p's next TCB t says when its application has given it n bytes so far.
Speech(p, t, n) == \A s \in t.out : Odd(s, OldSyns) \/ OwnText(s, Iss[p], n, Nxt(t))
Voice(p, t, n) ==
    /\ t.snd.iss = Iss[p]
    /\ Silent(p) => \/ Mute(t) /\ n = 0 /\ \A s \in t.out : Odd(s, OldSyns)
                    \/ p \in opened' /\ Numbered(t, n) /\ Speech(p, t, n)
    /\ Talks(p) => /\ Numbered(t, n) /\ Speech(p, t, n) /\ Nxt(tcb[p]) <= Nxt(t)
                   /\ nsent[p] <= n /\ (n = nsent[p] \/ Nxt(tcb[p]) <= nsent[p] + 1)

\* What it has heard when its application has read r bytes so far.
Ear(p, t, r) == LET q == other(p) IN
    /\ Unaware(p) => \/ Deaf(t, OldSyns) /\ r = 0
                     \/ /\ p \in opened' /\ Talks(q)
                        /\ Heard(t, Iss[q], nsent[q], Nxt(tcb[q]), r)
    /\ Hearing(p) => \/ Deaf(t, OldSyns) /\ r = 0
                     \/ Heard(t, Iss[q], nsent[q], Nxt(tcb[q]), r)

\* What the applications see of the step.
Flow(p, t, n, r) ==
    \/ n = nsent[p] /\ r = nread[p] /\ Grown(tcb[p], t)
    \/ /\ r = nread[p] /\ Len(t.rcvBuf) = Len(tcb[p].rcvBuf) /\ t.fin.seen = tcb[p].fin.seen
       /\ n > nsent[p] /\ Talks(p) /\ Nxt(tcb[p]) <= nsent[p] + 1
    \/ /\ n = nsent[p] /\ t.fin.seen = tcb[p].fin.seen
       /\ r > nread[p] /\ r + Len(t.rcvBuf) = nread[p] + Len(tcb[p].rcvBuf)

\* A step of p, in which its connection becomes t.
Moved(p, t) ==
    /\ t \in TCB /\ tcb' = [tcb EXCEPT ![p] = [t EXCEPT !.out = {}]]
    /\ net'[other(p)] = net[other(p)] \cup t.out /\ net'[p] \subseteq net[p]
    /\ opened \subseteq opened' /\ opened' \in SUBSET Peer
    /\ nsent' \in [Peer -> Nat] /\ nread' \in [Peer -> Nat]
    /\ \A q \in Peer \ {p} : nsent'[q] = nsent[q] /\ nread'[q] = nread[q]
    /\ Voice(p, t, nsent'[p]) /\ Ear(p, t, nread'[p]) /\ Flow(p, t, nsent'[p], nread'[p])

\* Emptying out changes nothing of what was said and heard.
LEMMA StreamOut ==
    ASSUME NEW t \in TCB
    PROVE  LET u == [t EXCEPT !.out = {}] IN
             /\ u \in TCB /\ u.out = {} /\ u.snd = t.snd /\ u.fin = t.fin /\ u.rcvBuf = t.rcvBuf
             /\ Nxt(u) = Nxt(t)
             /\ Mute(t) => Mute(u)
             /\ \A n : Numbered(t, n) => Numbered(u, n)
             /\ \A olds : Deaf(t, olds) => Deaf(u, olds)
             /\ \A iss, n, x, rd : Heard(t, iss, n, x, rd) => Heard(u, iss, n, x, rd)
<1> DEFINE u == [t EXCEPT !.out = {}]
<1>1. /\ u \in TCB /\ u.out = {}
      /\ u.state = t.state /\ u.rcv = t.rcv /\ u.fin = t.fin /\ u.rcvBuf = t.rcvBuf
      /\ u.oooSegs = t.oooSegs /\ u.sndBuf = t.sndBuf
      /\ u.tmr = t.tmr /\ u.retxQueue = t.retxQueue
      /\ u.reached = t.reached /\ u.snd = t.snd
  BY OutEmptied
<1> HIDE DEF u
<1>2. Nxt(u) = Nxt(t) /\ Una(u) = Una(t)
  BY <1>1 DEF Nxt, Una
<1>3. Mute(t) => Mute(u)
  BY <1>1 DEF Mute
<1>4. ASSUME NEW n, Numbered(t, n) PROVE Numbered(u, n)
  BY <1>1, <1>2, <1>4 DEF Numbered, Body
<1>5. ASSUME NEW olds, Deaf(t, olds) PROVE Deaf(u, olds)
  BY <1>1, <1>5 DEF Deaf, Empty, Unmet
<1>6. ASSUME NEW iss, NEW n, NEW x, NEW rd, Heard(t, iss, n, x, rd) PROVE Heard(u, iss, n, x, rd)
  <2>1. u.state \notin {"Listen", "SynSent"}
    BY <1>1, <1>6 DEF Heard
  <2> QED BY <1>1, <1>6, <2>1, HeardSame
<1> QED BY <1>1, <1>2, <1>3, <1>4, <1>5, <1>6 DEF u

\* What a stream of n bytes is good for.
LEMMA TalksFacts ==
    ASSUME DuplexInv, NEW p \in Peer, Talks(p)
    PROVE  /\ tcb[p] \in TCB /\ nsent[p] \in Nat /\ Nxt(tcb[p]) \in Nat /\ Nxt(tcb[p]) <= nsent[p] + 2
<1>1. tcb[p] \in TCB /\ nsent[p] \in Nat
  BY PeerInv DEF TypeOK
<1> QED BY <1>1, OffTypes DEF Talks, Numbered, Body, Counts

\* What the other side has heard stays true when p says more.
LEMMA StillHearing ==
    ASSUME DuplexInv, NEW p \in Peer, NEW q \in Peer, NEW t \in TCB, NEW n \in Nat, NEW r \in Nat,
           Talks(p), Nxt(tcb[p]) <= Nxt(t), nsent[p] <= n, n = nsent[p] \/ Nxt(tcb[p]) <= nsent[p] + 1,
           Iss[p] \in SeqNum,
           Heard(tcb[q], Iss[p], nsent[p], Nxt(tcb[p]), r)
    PROVE  Heard(tcb[q], Iss[p], n, Nxt(t), r)
<1>1. /\ tcb[q] \in TCB /\ nsent[p] \in Nat /\ Nxt(tcb[p]) \in Nat /\ Nxt(t) \in Nat
  BY TalksFacts, PeerInv, OffTypes
<1>2. Heard(tcb[q], Iss[p], n, Nxt(tcb[p]), r)
  BY <1>1, HeardLater
<1> QED BY <1>1, <1>2, HeardMore

LEMMA IssType == \A p \in Peer : Iss[p] \in SeqNum
  BY DuplexAssumption

\* The moved peer and the other one.
LEMMA MovedParts ==
    ASSUME DuplexInv, NEW p \in Peer, NEW t, Moved(p, t)
    PROVE  LET u == [t EXCEPT !.out = {}] q == other(p) IN
             /\ tcb'[p] = u /\ u \in TCB /\ q \in Peer /\ q # p /\ other(q) = p
             /\ tcb'[q] = tcb[q] /\ tcb[q] \in TCB
             /\ nsent'[q] = nsent[q] /\ nread'[q] = nread[q]
             /\ nsent'[p] \in Nat /\ nread'[p] \in Nat /\ nsent[q] \in Nat /\ nread[q] \in Nat
<1> DEFINE u == [t EXCEPT !.out = {}]
           q == other(p)
<1>1. t \in TCB /\ tcb' = [tcb EXCEPT ![p] = u] /\ TypeOK
  BY PeerInv DEF Moved
<1>2. u \in TCB
  BY <1>1, StreamOut
<1>3. q \in Peer /\ q # p /\ other(q) = p
  BY OtherPeer
<1> HIDE DEF u, q
<1>4. tcb'[p] = u /\ tcb'[q] = tcb[q] /\ tcb[q] \in TCB
  BY <1>1, <1>3 DEF TypeOK
<1>5. /\ nsent'[q] = nsent[q] /\ nread'[q] = nread[q]
      /\ nsent'[p] \in Nat /\ nread'[p] \in Nat /\ nsent[q] \in Nat /\ nread[q] \in Nat
  BY <1>1, <1>3 DEF TypeOK, Moved
<1> QED BY <1>2, <1>3, <1>4, <1>5 DEF u, q

\* The moved peer says what it may.
LEMMA MovedVoice ==
    ASSUME DuplexInv, StreamInv, NEW p \in Peer, NEW t, Moved(p, t)
    PROVE  /\ tcb'[p].snd.iss = Iss[p] /\ tcb'[p].out = {}
           /\ (Silent(p) \/ Talks(p))'
           /\ Talks(p) => Talks(p)'
<1> DEFINE u == [t EXCEPT !.out = {}]
           q == other(p)
           n == nsent'[p]
           x == Nxt(t)
           olds == OldSyns
<1>1. /\ tcb'[p] = u /\ u.snd = t.snd /\ u.out = {} /\ Nxt(u) = x /\ t \in TCB
      /\ Mute(t) => Mute(u)
      /\ Numbered(t, n) => Numbered(u, n)
      /\ net'[q] = net[q] \cup t.out /\ (p \in opened => p \in opened')
  BY MovedParts, StreamOut DEF Moved
<1>2. Voice(p, t, n) /\ (Silent(p) \/ Talks(p))
  BY DEF Moved, StreamInv
<1>3. n \in Nat
  BY MovedParts
<1> HIDE DEF n, u
<1>4. tcb'[p].snd.iss = Iss[p] /\ tcb'[p].out = {} /\ Nxt(tcb'[p]) = x
  BY <1>1, <1>2 DEF Voice
<1>5. ASSUME Silent(p), Mute(t), n = 0, \A s \in t.out : Odd(s, olds)
      PROVE  Silent(p)'
  BY <1>1, <1>5 DEF Silent, n
<1>6. ASSUME p \in opened', Numbered(t, n), Speech(p, t, n),
             \A s \in net[q] : Odd(s, olds) \/ OwnText(s, Iss[p], n, x)
      PROVE  Talks(p)'
  <2>1. \A s \in net'[q] : Odd(s, olds) \/ OwnText(s, Iss[p], n, x)
    BY <1>1, <1>6 DEF Speech
  <2>2. \A s \in net'[q] : Odd(s, olds) \/ Own(s, p)'
    BY <1>4, <2>1 DEF Own, n
  <2>3. Numbered(tcb'[p], n)
    BY <1>1, <1>6
  <2> QED BY <1>6, <2>2, <2>3 DEF Talks, n
<1>7. ASSUME Silent(p) PROVE (Silent(p) \/ Talks(p))'
  <2>1. \A s \in net[q] : Odd(s, olds)
    BY <1>7 DEF Silent
  <2> QED BY <1>2, <1>5, <1>6, <1>7, <2>1 DEF Voice
<1>8. ASSUME Talks(p) PROVE Talks(p)'
  <2>1. /\ Numbered(t, n) /\ Speech(p, t, n) /\ Nxt(tcb[p]) <= x /\ nsent[p] <= n /\ p \in opened'
        /\ n = nsent[p] \/ Nxt(tcb[p]) <= nsent[p] + 1
    BY <1>1, <1>2, <1>8 DEF Voice, Talks
  <2>2. nsent[p] \in Nat /\ Nxt(tcb[p]) \in Nat /\ x \in Nat
    BY <1>1, <1>8, TalksFacts, OffTypes
  <2>3. ASSUME NEW s \in net[q], OwnText(s, Iss[p], nsent[p], Nxt(tcb[p]))
        PROVE  OwnText(s, Iss[p], n, x)
    <3>1. s \in Segment
      <4>1. net \in [Peer -> SUBSET Segment] /\ q \in Peer
        BY PeerInv, OtherPeer DEF TypeOK
      <4> QED BY <4>1
    <3>2. SeqSub(s.seq, Iss[p]) \in Nat /\ segLen(s) \in Nat
      BY <3>1, IssType, OwnLen, SegmentParts
    <3>3. /\ s.data \in Payload /\ Len(s.data) \in Nat
          /\ "FIN" \in s.flags => segLen(s) >= 1
      BY <3>1, SegmentParts, SegLenFin, LenProperties DEF Payload
    <3>4. OwnText(s, Iss[p], n, Nxt(tcb[p]))
      <4>1. CASE n = nsent[p]
        BY <2>3, <4>1
      <4>2. CASE Nxt(tcb[p]) <= nsent[p] + 1
        <5> DEFINE k == n - nsent[p]
        <5>1. k \in Nat /\ nsent[p] + k = n
          BY <1>3, <2>1, <2>2
        <5> HIDE DEF k
        <5>2. Nxt(tcb[p]) \in Int
          BY <2>2
        <5>3. OwnText(s, Iss[p], nsent[p] + k, Nxt(tcb[p]))
          BY <2>2, <2>3, <3>2, <3>3, <4>2, <5>1, <5>2, OwnTextLonger
        <5> QED BY <5>1, <5>3
      <4> QED BY <2>1, <4>1, <4>2
    <3> QED BY <2>1, <2>2, <3>2, <3>4, OwnTextMore
  <2>4. \A s \in net[q] : Odd(s, olds) \/ OwnText(s, Iss[p], n, x)
    BY <1>8, <2>3 DEF Talks, Own
  <2> QED BY <1>6, <2>1, <2>4
<1> QED BY <1>2, <1>4, <1>7, <1>8

\* The moved peer has heard what it may, and so has the other one.
LEMMA MovedEar ==
    ASSUME DuplexInv, StreamInv, NEW p \in Peer, NEW t, Moved(p, t)
    PROVE  LET q == other(p) IN
             /\ (Unaware(p) \/ Hearing(p))' /\ (Unaware(q) \/ Hearing(q))'
             /\ (Silent(q) \/ Talks(q))'
<1> DEFINE u == [t EXCEPT !.out = {}]
           q == other(p)
           r == nread'[p]
           n == nsent'[p]
<1>1. /\ tcb'[p] = u /\ q \in Peer /\ q # p /\ other(q) = p
      /\ tcb'[q] = tcb[q] /\ tcb[q] \in TCB /\ nsent'[q] = nsent[q] /\ nread'[q] = nread[q]
      /\ n \in Nat /\ r \in Nat /\ nsent[q] \in Nat /\ nread[q] \in Nat
  BY MovedParts
<1>2. /\ Voice(p, t, n) /\ Ear(p, t, r) /\ opened \subseteq opened' /\ net'[p] \subseteq net[p]
      /\ t \in TCB
  BY DEF Moved
<1>3. (Unaware(p) \/ Hearing(p)) /\ (Unaware(q) \/ Hearing(q)) /\ (Silent(q) \/ Talks(q))
  BY <1>1 DEF StreamInv
<1>4. /\ Deaf(t, OldSyns) => Deaf(u, OldSyns)
      /\ \A iss, m, x, rd : Heard(t, iss, m, x, rd) => Heard(u, iss, m, x, rd)
      /\ Nxt(u) = Nxt(t)
  BY <1>2, StreamOut
<1>5. Talks(p) => Talks(p)'
  BY MovedVoice
<1> HIDE DEF q, r, n, u
<1>6. Silent(q) => Silent(q)'
  BY <1>1, <1>2 DEF Silent
<1>7. Talks(q) => Talks(q)'
  BY <1>1, <1>2 DEF Talks, Own
<1>8. (Unaware(p) \/ Hearing(p))'
  <2>1. \/ Deaf(t, OldSyns) /\ r = 0
        \/ p \in opened' /\ Talks(q) /\ Heard(t, Iss[q], nsent[q], Nxt(tcb[q]), r)
    BY <1>2, <1>3 DEF Ear, Hearing, q
  <2>2. CASE Deaf(t, OldSyns) /\ r = 0
    BY <1>1, <1>4, <2>2 DEF Unaware, r
  <2>3. CASE p \in opened' /\ Talks(q) /\ Heard(t, Iss[q], nsent[q], Nxt(tcb[q]), r)
    <3>1. Heard(tcb'[p], Iss[q], nsent'[q], Nxt(tcb'[q]), nread'[p])
      BY <1>1, <1>4, <2>3 DEF r
    <3> QED BY <1>7, <2>3, <3>1 DEF Hearing, q
  <2> QED BY <2>1, <2>2, <2>3
<1>9. ASSUME Unaware(q) PROVE Unaware(q)'
  BY <1>1, <1>9 DEF Unaware
<1>10. ASSUME Hearing(q) PROVE Hearing(q)'
  <2>1. Talks(p) /\ q \in opened /\ Heard(tcb[q], Iss[p], nsent[p], Nxt(tcb[p]), nread[q])
    BY <1>1, <1>10 DEF Hearing
  <2>2. Nxt(tcb[p]) <= Nxt(t) /\ nsent[p] <= n /\ (n = nsent[p] \/ Nxt(tcb[p]) <= nsent[p] + 1)
    BY <1>2, <2>1 DEF Voice
  <2>3. Heard(tcb[q], Iss[p], n, Nxt(t), nread[q])
    BY <1>1, <1>2, <2>1, <2>2, StillHearing, IssType
  <2>4. Heard(tcb'[q], Iss[p], nsent'[p], Nxt(tcb'[p]), nread'[q])
    BY <1>1, <1>4, <2>3 DEF n
  <2>5. Talks(p)' /\ q \in opened'
    BY <1>2, <1>5, <2>1
  <2> QED BY <1>1, <2>4, <2>5 DEF Hearing
<1> QED BY <1>3, <1>6, <1>7, <1>8, <1>9, <1>10 DEF q

LEMMA MovedStream ==
    ASSUME DuplexInv, StreamInv, NEW p \in Peer, NEW t, Moved(p, t)
    PROVE  StreamInv'
<1> DEFINE q == other(p)
<1>1. Peer = {p, q} /\ tcb'[q] = tcb[q] /\ q \in Peer
  BY MovedParts, OtherPeer
<1>2. tcb'[q].snd.iss = Iss[q] /\ tcb'[q].out = {}
  BY <1>1 DEF StreamInv
<1>3. /\ tcb'[p].snd.iss = Iss[p] /\ tcb'[p].out = {}
      /\ (Silent(p) \/ Talks(p))' /\ (Silent(q) \/ Talks(q))'
      /\ (Unaware(p) \/ Hearing(p))' /\ (Unaware(q) \/ Hearing(q))'
  BY MovedVoice, MovedEar
<1> HIDE DEF q
<1> QED BY <1>1, <1>2, <1>3 DEF StreamInv

-----------------------------------------------------------------------------
(* One lemma per action: its peer moves as the stream allows.              *)

\* The streams this is true of: short, not closed too early, and far from the
\* SYNs of former incarnations.
Modest == ShortStreams /\ NoEagerClose /\ Apart

\* What is known of the peer that takes the step.
LEMMA PeerStream ==
    ASSUME DuplexInv, GivenOnly, Modest, StreamInv, NEW p \in Peer
    PROVE  /\ tcb[p] \in TCB /\ tcb[p].out = {} /\ tcb[p].snd.iss = Iss[p] /\ Iss[p] \in SeqNum
           /\ nsent[p] \in Nat /\ nread[p] \in Nat /\ AppBytes[p] \in Nat /\ nsent[p] <= AppBytes[p]
           /\ Fits(nsent[p]) /\ Fits(AppBytes[p])
           /\ \A o \in OldSyns : FarFrom(Iss[p], nsent[p], o)
<1>1. /\ tcb[p] \in TCB /\ tcb[p].out = {} /\ tcb[p].snd.iss = Iss[p] /\ Iss[p] \in SeqNum
      /\ nsent[p] \in Nat /\ nread[p] \in Nat
  BY PeerInv, IssType DEF StreamInv, TypeOK
<1>2. nsent[p] <= AppBytes[p] /\ AppBytes[p] \in Nat /\ AppBytes[p] + DefaultMSS + 4 <= HalfSeqSpace
  BY DuplexAssumption DEF GivenOnly, Modest, ShortStreams
<1>3. DefaultMSS \in Nat /\ HalfSeqSpace \in Nat
  BY TcbAssumption, HalfSeqSpaceAssumption
<1> DEFINE n == nsent[p]
           m == AppBytes[p]
<1>4. n \in Nat /\ m \in Nat /\ n <= m /\ m + DefaultMSS + 4 <= HalfSeqSpace
  BY <1>1, <1>2
<1>5. \A o \in OldSyns : FarFrom(Iss[p], m, o)
  BY DEF Modest, Apart
<1> HIDE DEF n, m
<1>6. n + DefaultMSS + 4 <= HalfSeqSpace
  BY <1>3, <1>4
<1>7. \A k \in 0..(n + 2) : k \in 0..(m + 2)
  BY <1>4
<1>8. \A o \in OldSyns : FarFrom(Iss[p], n, o)
  BY <1>5, <1>7 DEF FarFrom
<1> QED BY <1>1, <1>2, <1>4, <1>6, <1>8 DEF Fits, n, m

\* A step in which neither application gets or gives bytes.
LEMMA MovedBy ==
    ASSUME DuplexInv, NEW p \in Peer, NEW t \in TCB, NEW arrived, Moves(p, t, arrived),
           nsent' = nsent, nread' = nread,
           Voice(p, t, nsent[p]), Ear(p, t, nread[p]), Grown(tcb[p], t)
    PROVE  Moved(p, t)
<1>1. TypeOK
  BY PeerInv
<1>2. opened' \in SUBSET Peer /\ nsent' \in [Peer -> Nat] /\ nread' \in [Peer -> Nat]
  BY <1>1 DEF Moves, TypeOK
<1>3. Flow(p, t, nsent'[p], nread'[p])
  BY DEF Flow
<1> QED BY <1>2, <1>3 DEF Moved, Moves

\* What a peer that talks says is part of its stream, or a reset.
Speaks(p, t) ==
    /\ t.snd.iss = Iss[p]
    /\ Talks(p) => /\ Numbered(t, nsent[p]) /\ Nxt(tcb[p]) <= Nxt(t)
                   /\ \A s \in t.out : "RST" \in s.flags \/ OwnText(s, Iss[p], nsent[p], Nxt(t))

LEMMA SaysSpeaks ==
    ASSUME DuplexInv, GivenOnly, Modest, StreamInv, NEW p \in Peer, NEW t, NEW acks,
           Says(tcb[p], t, nsent[p], acks)
    PROVE  Speaks(p, t)
<1>1. tcb[p].out = {} /\ tcb[p].snd.iss = Iss[p]
  BY PeerStream
<1> QED BY <1>1 DEF Says, Spoken, Speaks, Talks

LEMMA RejectsSpeaks ==
    ASSUME DuplexInv, GivenOnly, Modest, StreamInv, NEW p \in Peer, NEW t, NEW s,
           Rejects(tcb[p], t, s)
    PROVE  Speaks(p, t)
<1> DEFINE k == tcb[p]
<1>1. k \in TCB /\ k.out = {} /\ k.snd.iss = Iss[p]
  BY PeerStream
<1> HIDE DEF k
<1>2. /\ t \in TCB /\ Calm(k, t) /\ t.reached = k.reached /\ QuietState(k.state, t.state)
  BY SameSndCalm DEF Rejects, Replied, SameRcv, QuietState, k
<1>3. t.snd = k.snd /\ Nxt(k) <= Nxt(t) /\ (Numbered(k, nsent[p]) => Numbered(t, nsent[p]))
  BY <1>1, <1>2, QuietNumbered
<1>4. \A x \in t.out : "RST" \in x.flags
  BY <1>1 DEF Rejects, ResetOf, k
<1> QED BY <1>1, <1>3, <1>4 DEF Speaks, Talks, k

\* What is said is said by the stream's owner.
LEMMA SaysVoice ==
    ASSUME DuplexInv, GivenOnly, Modest, StreamInv, NEW p \in Peer, NEW t, Speaks(p, t),
           Silent(p) => \/ Mute(t) /\ \A s \in t.out : "RST" \in s.flags
                        \/ /\ p \in opened' /\ Numbered(t, 0)
                           /\ \A s \in t.out : "RST" \in s.flags \/ OwnText(s, Iss[p], 0, Nxt(t))
    PROVE  Voice(p, t, nsent[p])
<1> DEFINE n == nsent[p]
<1>1. tcb[p].out = {} /\ tcb[p].snd.iss = Iss[p] /\ n \in Nat
  BY PeerStream
<1>2. t.snd.iss = Iss[p]
  BY DEF Speaks
<1>3. ASSUME Talks(p)
      PROVE  Numbered(t, n) /\ Speech(p, t, n) /\ Nxt(tcb[p]) <= Nxt(t)
  BY <1>3 DEF Speaks, Speech, Odd
<1>4. ASSUME Silent(p)
      PROVE  \/ Mute(t) /\ n = 0 /\ \A s \in t.out : Odd(s, OldSyns)
             \/ p \in opened' /\ Numbered(t, n) /\ Speech(p, t, n)
  BY <1>1, <1>4 DEF Silent, Odd, Speech
<1>5. n <= n
  BY <1>1
<1> QED BY <1>2, <1>3, <1>4, <1>5 DEF Voice

\* A step that leaves the receiving side alone hears nothing new.
LEMMA GoesEar ==
    ASSUME DuplexInv, NEW p \in Peer, NEW t \in TCB, Goes(tcb[p], t)
    PROVE  Ear(p, t, nread[p]) /\ Grown(tcb[p], t)
<1> DEFINE q == other(p)
           r == nread[p]
<1>1. tcb[p] \in TCB
  BY PeerInv
<1>2. ASSUME Unaware(p) PROVE Deaf(t, OldSyns) /\ r = 0
  BY <1>2, GoesDeaf DEF Unaware
<1>3. ASSUME Hearing(p) PROVE Heard(t, Iss[q], nsent[q], Nxt(tcb[q]), r)
  <2>1. Heard(tcb[p], Iss[q], nsent[q], Nxt(tcb[q]), r)
    BY <1>3 DEF Hearing
  <2> QED BY <1>1, <2>1, GoesHears DEF Hears
<1>4. Grown(tcb[p], t)
  <2>1. t.rcvBuf = tcb[p].rcvBuf /\ t.fin = tcb[p].fin
    BY DEF Goes, SameRcv
  <2>2. Len(tcb[p].rcvBuf) \in Nat
    BY <1>1, TcbParts, LenProperties
  <2> QED BY <2>1, <2>2 DEF Grown
<1> QED BY <1>2, <1>3, <1>4 DEF Ear

\* Time passes, the application closes.
LEMMA StayMoved ==
    ASSUME DuplexInv, GivenOnly, Modest, StreamInv, NEW p \in Peer, NEW t \in TCB, Becomes(p, t),
           UNCHANGED <<opened, nsent, nread>>, Goes(tcb[p], t),
           NEW acks, Says(tcb[p], t, nsent[p], acks),
           Silent(p) => Mute(t) /\ t.out = tcb[p].out
    PROVE  Moved(p, t)
<1>0. Speaks(p, t) /\ tcb[p].out = {}
  BY SaysSpeaks, PeerStream
<1>1. Voice(p, t, nsent[p])
  BY <1>0, SaysVoice
<1>2. Ear(p, t, nread[p]) /\ Grown(tcb[p], t)
  BY GoesEar
<1>3. Moves(p, t, {})
  BY BecomesMoves, PeerInv
<1> QED BY <1>1, <1>2, <1>3, MovedBy

LEMMA TimerMoved ==
    ASSUME DuplexInv, GivenOnly, Modest, StreamInv, NEW p \in Peer, Timer(p)
    PROVE  \E t : Moved(p, t)
<1>1. PICK due \in SUBSET armed(tcb[p]) : Becomes(p, Tick(tcb[p], due))
  BY DEF Timer
<1>2. UNCHANGED <<opened, nsent, nread>>
  BY DEF Timer
<1>3. tcb[p] \in TCB /\ Fits(nsent[p])
  BY PeerStream
<1> DEFINE t == Tick(tcb[p], due)
<1>4. Tells(tcb[p], t, nsent[p]) /\ Goes(tcb[p], t)
  BY <1>3, TickTells, TickGoes
<1>5. Silent(p) => Mute(t) /\ t.out = tcb[p].out
  BY <1>3, MuteTick DEF Silent
<1>6. Becomes(p, t)
  BY <1>1
<1> HIDE DEF t
<1>7. t \in TCB /\ Says(tcb[p], t, nsent[p], {tcb[p].rcv.nxt})
  BY <1>4 DEF Tells, Says
<1> QED BY <1>2, <1>4, <1>5, <1>6, <1>7, StayMoved

LEMMA AppCloseMoved ==
    ASSUME DuplexInv, GivenOnly, Modest, StreamInv, NEW p \in Peer, AppClose(p)
    PROVE  \E t : Moved(p, t)
<1> DEFINE t == Close(tcb[p])
<1>1. Becomes(p, t) /\ UNCHANGED <<opened, nsent, nread>>
  BY DEF AppClose, ghosts
<1>2. tcb[p].state \in CanClose /\ unsent(tcb[p]) <= 0
  BY DEF AppClose, canClose, CanClose, Modest, NoEagerClose
<1>3. tcb[p] \in TCB /\ Fits(nsent[p])
  BY PeerStream
<1>4. Tells(tcb[p], t, nsent[p]) /\ Goes(tcb[p], t)
  BY <1>2, <1>3, CloseTells, CloseGoes
<1>5. Silent(p) => Mute(t) /\ t.out = tcb[p].out
  BY <1>2, <1>3, MuteClose DEF Silent
<1> HIDE DEF t
<1>6. t \in TCB /\ Says(tcb[p], t, nsent[p], {tcb[p].rcv.nxt})
  BY <1>4 DEF Tells, Says
<1> QED BY <1>1, <1>4, <1>5, <1>6, StayMoved

\* The clock and the end of a challenge-ACK window.
LEMMA QuietMoved ==
    ASSUME DuplexInv, GivenOnly, Modest, StreamInv, NEW p \in Peer,
           ChallengeWindowPasses(p) \/ ClockAdvances(p)
    PROVE  \E t : Moved(p, t)
<1>1. tcb[p] \in TCB
  BY PeerInv
<1>2. PICK t : /\ Becomes(p, t) /\ Keeps(tcb[p], t) /\ SameSnd(tcb[p], t)
               /\ t.out = tcb[p].out /\ t.tmr = tcb[p].tmr
  <2>1. CASE ChallengeWindowPasses(p)
    <3> DEFINE u == challengeWindowPasses(tcb[p])
    <3>1. u.out = tcb[p].out /\ u.tmr = tcb[p].tmr
      BY <1>1 DEF challengeWindowPasses, TCB
    <3>2. Becomes(p, u) /\ Keeps(tcb[p], u) /\ SameSnd(tcb[p], u)
      BY <1>1, <2>1, ChallengeWindowKeeps DEF ChallengeWindowPasses
    <3> QED BY <3>1, <3>2
  <2>2. CASE ClockAdvances(p)
    <3> DEFINE u == [tcb[p] EXCEPT !.ts.now = @ + 1]
    <3>1. u.out = tcb[p].out /\ u.tmr = tcb[p].tmr
      BY <1>1 DEF TCB
    <3>2. Becomes(p, u)
      BY <2>2 DEF ClockAdvances
    <3>3. Keeps(tcb[p], u) /\ SameSnd(tcb[p], u)
      BY <2>2, ClockKeeps
    <3> QED BY <3>1, <3>2, <3>3
  <2> QED BY <2>1, <2>2
<1>3. UNCHANGED <<opened, nsent, nread>>
  BY DEF ChallengeWindowPasses, ClockAdvances, ghosts
<1>4. t \in TCB /\ t.state = tcb[p].state /\ t.reached = tcb[p].reached
  BY <1>2 DEF Keeps, KeepsRcv, SameRcv
<1>5. Says(tcb[p], t, nsent[p], {tcb[p].rcv.nxt})
  <2>1. Calm(tcb[p], t) /\ QuietState(tcb[p].state, t.state) /\ Utters(tcb[p], t)
    BY <1>2, <1>4, SameSndCalm, SameOutUtters DEF QuietState
  <2> QED BY <1>1, <1>4, <2>1, QuietSays
<1>6. Silent(p) => Mute(t) /\ t.out = tcb[p].out
  BY <1>2, <1>4 DEF Silent, Mute, SameSnd
<1>7. Goes(tcb[p], t)
  BY <1>2, KeepsGoes
<1> QED BY <1>2, <1>3, <1>4, <1>5, <1>6, <1>7, StayMoved

\* Who has not opened has neither said nor heard anything.
LEMMA UnopenedPeer ==
    ASSUME DuplexInv, StreamInv, NEW p \in Peer, p \notin opened
    PROVE  Silent(p) /\ Unaware(p) /\ ~Talks(p) /\ ~Hearing(p) /\ tcb[p].state = "Closed"
  BY PeerInv DEF StreamInv, Talks, Hearing

LEMMA OpenMoved ==
    ASSUME DuplexInv, GivenOnly, Modest, StreamInv, NEW p \in Peer, Open(p)
    PROVE  \E t : Moved(p, t)
<1> DEFINE k == tcb[p]
<1>1. k \in TCB /\ k.out = {} /\ k.snd.iss = Iss[p] /\ Iss[p] \in SeqNum
  BY PeerStream
<1>2. p \notin opened /\ opened' = opened \cup {p} /\ nsent' = nsent /\ nread' = nread
  BY DEF Open
<1>3. Silent(p) /\ Unaware(p) /\ ~Talks(p) /\ ~Hearing(p)
  BY <1>2, UnopenedPeer
<1>4. Mute(k) /\ nsent[p] = 0 /\ nread[p] = 0 /\ Deaf(k, OldSyns)
  BY <1>3 DEF Silent, Unaware
<1>5. PICK t \in TCB : /\ Becomes(p, t) /\ t.snd.iss = Iss[p]
                       /\ SameBuffers(k, t) /\ t.state \in {"Listen", "SynSent"}
                       /\ \/ Mute(t) /\ t.out = {}
                          \/ /\ Numbered(t, 0)
                             /\ \A s \in t.out : OwnText(s, Iss[p], 0, Nxt(t))
  <2>1. CASE Becomes(p, ActiveOpen(k, Iss[p]))
    <3> DEFINE u == ActiveOpen(k, Iss[p])
    <3>1. /\ u \in TCB /\ u.snd.iss = Iss[p] /\ Numbered(u, 0) /\ Nxt(u) = 1
          /\ \A s \in u.out : s \in k.out \/ OwnText(s, Iss[p], 0, 1)
      BY <1>1, <1>4, ActiveOpenSays
    <3>2. SameBuffers(k, u) /\ u.state = "SynSent"
      BY <1>1, ActiveOpenEffect
    <3>3. Becomes(p, u)
      BY <2>1
    <3> HIDE DEF u, k
    <3> QED BY <1>1, <3>1, <3>2, <3>3
  <2>2. CASE Becomes(p, PassiveOpen(k))
    <3> DEFINE u == PassiveOpen(k)
    <3>1. u \in TCB /\ Mute(u) /\ u.out = k.out /\ u.snd = k.snd
      BY <1>1, <1>4, MuteOpen
    <3>2. SameBuffers(k, u) /\ u.state = "Listen"
      BY <1>1, PassiveOpenEffect
    <3>3. Becomes(p, u)
      BY <2>2
    <3> HIDE DEF u, k
    <3> QED BY <1>1, <3>1, <3>2, <3>3
  <2> QED BY <2>1, <2>2 DEF Open
<1>6. Voice(p, t, nsent[p])
  <2>1. p \in opened'
    BY <1>2
  <2> QED BY <1>3, <1>4, <1>5, <2>1 DEF Voice, Speech
<1>7. Ear(p, t, nread[p])
  BY <1>3, <1>4, <1>5 DEF Ear, Deaf, Empty, Unmet, SameBuffers
<1>8. Grown(k, t)
  <2>1. Len(k.rcvBuf) \in Nat
    BY <1>1, TcbParts, LenProperties
  <2> QED BY <1>5, <2>1 DEF Grown, SameBuffers
<1>9. Moves(p, t, {})
  BY <1>2, <1>5, BecomesMoves, PeerInv
<1> QED BY <1>2, <1>6, <1>7, <1>8, <1>9, MovedBy

LEMMA AppSendMoved ==
    ASSUME DuplexInv, GivenOnly, Modest, StreamInv, NEW p \in Peer, AppSend(p)
    PROVE  \E t : Moved(p, t)
<1> DEFINE k == tcb[p]
           n == nsent[p]
<1>1. /\ k \in TCB /\ k.out = {} /\ k.snd.iss = Iss[p] /\ n \in Nat /\ AppBytes[p] \in Nat
      /\ Fits(AppBytes[p]) /\ TypeOK
  BY PeerStream, PeerInv
<1>2. k.state \in {"Established", "CloseWait"} /\ UNCHANGED <<opened, nread>>
  BY DEF AppSend
<1>3. PICK m \in SendSizes :
        /\ n + m <= AppBytes[p] /\ Becomes(p, Send(k, [i \in 1..m |-> n + i]))
        /\ nsent' = [nsent EXCEPT ![p] = @ + m]
  BY DEF AppSend
<1>4. m \in Nat \ {0}
  BY DuplexAssumption
<1> DEFINE data == [i \in 1..m |-> n + i]
           t == Send(k, data)
<1>5. data \in Seq(Nat) /\ Len(data) = m /\ \A i \in 1..Len(data) : data[i] = n + i
  <2>1. data \in [1..m -> Nat] /\ DOMAIN data = 1..m /\ \A i \in 1..m : data[i] = n + i
    BY <1>1, <1>4
  <2> HIDE DEF data
  <2>2. data \in Seq(Nat)
    BY <1>4, <2>1, FcnIsSeq
  <2>3. Len(data) = m
    BY <1>4, <2>1, <2>2, LenProperties
  <2> QED BY <2>1, <2>2, <2>3
<1>6. Becomes(p, t)
  BY <1>3
<1> HIDE DEF data
<1>7. Keeps(k, t)
  BY <1>1, <1>5, SendUserDataKeeps
<1>8. Talks(p) /\ ~Silent(p) /\ Numbered(k, n) /\ Nxt(k) <= n + 1
  <2>1. ~Silent(p)
    BY <1>2 DEF Silent, Mute
  <2>2. Talks(p)
    BY <2>1 DEF StreamInv
  <2> QED BY <1>2, <2>1, <2>2 DEF Talks, Numbered, Phase
<1>9. Fits(n + m)
  <2> DEFINE b == AppBytes[p]
  <2>1. n \in Nat /\ m \in Nat /\ b \in Nat /\ n + m <= b /\ b + DefaultMSS + 4 <= HalfSeqSpace
    BY <1>1, <1>3, <1>4 DEF Fits
  <2> HIDE DEF b, n
  <2>2. DefaultMSS \in Nat /\ HalfSeqSpace \in Nat
    BY TcbAssumption, HalfSeqSpaceAssumption
  <2>3. n + m + DefaultMSS + 4 <= HalfSeqSpace /\ n + m \in Nat
    BY <2>1, <2>2
  <2> QED BY <2>3 DEF Fits
<1>10. /\ t \in TCB /\ t.snd.iss = k.snd.iss
       /\ Numbered(t, n + m) /\ Nxt(k) <= Nxt(t)
       /\ \A s \in t.out : s \in k.out \/ Spoken(s, t, n + m, {k.rcv.nxt})
  <2>1. m \in Nat
    BY <1>4
  <2> HIDE DEF t, k, n
  <2>2. LET w == Send(k, data) IN
             /\ w \in TCB /\ w.snd.iss = k.snd.iss /\ w.rcv = k.rcv
             /\ Numbered(w, n + m) /\ Nxt(k) <= Nxt(w)
             /\ \A s \in w.out : s \in k.out \/ Spoken(s, w, n + m, {k.rcv.nxt})
    BY <1>1, <1>2, <1>5, <1>8, <1>9, <2>1, SendTells
  <2> QED BY <2>2 DEF t
<1> HIDE DEF t
<1>11. nsent' \in [Peer -> Nat] /\ nsent'[p] = n + m /\ \A q \in Peer \ {p} : nsent'[q] = nsent[q]
  BY <1>1, <1>3, <1>4 DEF TypeOK
<1>12. n <= n + m /\ n + m > n
  BY <1>1, <1>4
<1>13. Voice(p, t, n + m)
  BY <1>1, <1>8, <1>10, <1>12 DEF Voice, Speech, Spoken, Odd
<1>14. Ear(p, t, nread[p]) /\ Grown(k, t) /\ Len(t.rcvBuf) = Len(k.rcvBuf) /\ t.fin = k.fin
  BY <1>7, <1>10, KeepsGoes, GoesEar DEF Keeps, KeepsRcv, SameRcv
<1>15. Flow(p, t, n + m, nread[p])
  BY <1>8, <1>12, <1>14 DEF Flow
<1>16. Moves(p, t, {})
  BY <1>1, <1>2, <1>6, <1>10, BecomesMoves
<1>17. opened' \in SUBSET Peer /\ nread' \in [Peer -> Nat]
  BY <1>1, <1>2 DEF TypeOK
<1> HIDE DEF n, k
<1>18. Voice(p, t, nsent'[p]) /\ Ear(p, t, nread'[p]) /\ Flow(p, t, nsent'[p], nread'[p])
  BY <1>2, <1>11, <1>13, <1>14, <1>15
<1>19. Moved(p, t)
  BY <1>2, <1>10, <1>11, <1>16, <1>17, <1>18 DEF Moved, Moves
<1> QED BY <1>19

\* Reading from a connection that has said nothing does not make it speak.
LEMMA MuteRecv ==
    ASSUME NEW t \in TCB, Mute(t), NEW k \in 1..Len(t.rcvBuf)
    PROVE  Mute(Recv(t, k)) /\ Recv(t, k).out = t.out
<1> DEFINE b == SubSeq(t.rcvBuf, k + 1, Len(t.rcvBuf))
           read == [t EXCEPT !.rcvBuf = b]
           w == advertiseWindow(read)
           u == [read EXCEPT !.rcv.wnd = w]
<1>1. ~synchronized(t.state)
  BY DEF Mute, synchronized
<1>2. Recv(t, k) = u
  BY <1>1 DEF Recv
<1> HIDE DEF b
<1>3. /\ read.state = t.state /\ read.sndBuf = t.sndBuf /\ read.retxQueue = t.retxQueue
      /\ read.tmr = t.tmr /\ read.reached = t.reached /\ read.out = t.out
      /\ DOMAIN read = DOMAIN t
  BY DEF TCB
<1> HIDE DEF w, read
<1>4. /\ u.state = read.state /\ u.sndBuf = read.sndBuf /\ u.retxQueue = read.retxQueue
      /\ u.tmr = read.tmr /\ u.reached = read.reached /\ u.out = read.out
  BY <1>3 DEF TCB
<1> HIDE DEF u
<1> QED BY <1>2, <1>3, <1>4 DEF Mute

LEMMA AppRecvMoved ==
    ASSUME DuplexInv, GivenOnly, Modest, StreamInv, NEW p \in Peer, AppRecv(p)
    PROVE  \E t : Moved(p, t)
<1> DEFINE k == tcb[p]
           q == other(p)
           r == nread[p]
<1>1. k \in TCB /\ k.out = {} /\ r \in Nat /\ TypeOK /\ ConnInv(k, p \in opened)
  BY PeerStream, PeerInv
<1>2. UNCHANGED <<opened, nsent>>
  BY DEF AppRecv
<1>3. PICK m \in 1..Len(k.rcvBuf) :
        Becomes(p, Recv(k, m)) /\ nread' = [nread EXCEPT ![p] = @ + m]
  BY DEF AppRecv
<1>4. m \in Nat \ {0} /\ Len(k.rcvBuf) \in Nat /\ m <= Len(k.rcvBuf)
  <2>1. Len(k.rcvBuf) \in Nat
    BY <1>1, TcbParts, LenProperties
  <2> HIDE DEF k
  <2> QED BY <2>1
<1>5. k.rcvBuf # <<>>
  BY <1>4, EmptySeq
<1>6. ~Unaware(p) /\ Hearing(p)
  BY <1>5 DEF StreamInv, Unaware, Deaf, Empty
<1>7. k.state # "SynReceived"
  BY <1>1, <1>5 DEF ConnInv, Early, Young
<1> DEFINE t == Recv(k, m)
<1>8. Says(k, t, nsent[p], {k.rcv.nxt})
  BY <1>1, RecvSays
<1>9. Mute(k) => Mute(t) /\ t.out = k.out
  BY <1>1, MuteRecv
<1>10. Becomes(p, t) /\ t \in TCB
  BY <1>1, <1>3, RecvForm
<1>11. /\ Heard(t, Iss[q], nsent[q], Nxt(tcb[q]), r + m) /\ t.fin = k.fin
       /\ Len(t.rcvBuf) = Len(k.rcvBuf) - m
  <2> DEFINE iss == Iss[q]
             n == nsent[q]
             x == Nxt(tcb[q])
  <2>1. Heard(k, iss, n, x, r)
    BY <1>6 DEF Hearing
  <2> HIDE DEF iss, n, x, k, r
  <2>2. LET u == Recv(k, m) IN
             /\ Heard(u, iss, n, x, r + m) /\ u.fin = k.fin
             /\ Len(u.rcvBuf) = Len(k.rcvBuf) - m
    BY <1>1, <1>7, <2>1, RecvHeard
  <2> QED BY <2>2 DEF iss, n, x
<1> HIDE DEF t
<1>12. Voice(p, t, nsent[p])
  <2>1. Speaks(p, t) /\ k.out = {}
    BY <1>8, SaysSpeaks, PeerStream
  <2> QED BY <1>9, <2>1, SaysVoice DEF Silent
<1>13. Ear(p, t, r + m)
  BY <1>6, <1>11 DEF Ear
<1>14. r + m > r /\ r + m + Len(t.rcvBuf) = r + Len(k.rcvBuf)
  <2> HIDE DEF k, r
  <2> QED BY <1>1, <1>4, <1>11
<1>15. Flow(p, t, nsent[p], r + m)
  BY <1>11, <1>14 DEF Flow
<1>16. nread' \in [Peer -> Nat] /\ nread'[p] = r + m /\ \A z \in Peer \ {p} : nread'[z] = nread[z]
  BY <1>1, <1>3, <1>4 DEF TypeOK
<1>17. Moves(p, t, {})
  BY <1>1, <1>2, <1>10, BecomesMoves
<1>18. opened' \in SUBSET Peer /\ nsent' \in [Peer -> Nat] /\ nsent' = nsent
  BY <1>1, <1>2 DEF TypeOK
<1> HIDE DEF k, r
<1>19. Voice(p, t, nsent'[p]) /\ Ear(p, t, nread'[p]) /\ Flow(p, t, nsent'[p], nread'[p])
  BY <1>12, <1>13, <1>15, <1>16, <1>18
<1>20. Moved(p, t)
  BY <1>10, <1>16, <1>17, <1>18, <1>19 DEF Moved, Moves
<1> QED BY <1>20

\* What is in flight to p is odd, or a segment of its peer's stream.
LEMMA InFlight ==
    ASSUME DuplexInv, StreamInv, NEW p \in Peer, NEW s \in net[p]
    PROVE  LET q == other(p) IN
             /\ s \in Segment
             /\ Odd(s, OldSyns) \/ (Talks(q) /\ OwnText(s, Iss[q], nsent[q], Nxt(tcb[q])))
<1>1. other(p) \in Peer /\ other(other(p)) = p /\ net[p] \in SUBSET Segment
  BY OtherPeer, PeerInv DEF TypeOK
<1> QED BY <1>1 DEF StreamInv, Silent, Talks, Own

LEMMA StreamFinAlone ==
    ASSUME NEW s, NEW olds, NEW iss, NEW n, NEW x, Odd(s, olds) \/ OwnText(s, iss, n, x)
    PROVE  FinAlone(s)
  BY DEF FinAlone, Odd, OwnText, TextAt

\* A peer that has heard a part of the stream hears more of it, or listens again.
LEMMA HearingArrival ==
    ASSUME DuplexInv, GivenOnly, Modest, StreamInv, NEW p \in Peer, NEW s \in net[p], Hearing(p),
           opened' = opened
    PROVE  LET t == onSegment(tcb[p], s) IN
             /\ Ear(p, t, nread[p]) /\ Grown(tcb[p], t)
             /\ Got(t, Iss[other(p)]) = 1 + nread[p] + Len(t.rcvBuf) + FinBit(t)
<1> DEFINE k == tcb[p]
           q == other(p)
           r == nread[p]
           iss == Iss[q]
           n == nsent[q]
           x == Nxt(tcb[q])
           u == onSegment(k, s)
<1>1. k \in TCB /\ r \in Nat /\ ConnInv(k, p \in opened) /\ q \in Peer
  BY PeerStream, PeerInv, OtherPeer
<1>2. iss \in SeqNum /\ Fits(n)
  BY <1>1, PeerStream
<1>3. Talks(q) /\ Heard(k, iss, n, x, r)
  BY DEF Hearing
<1>4. x \in Nat /\ x <= n + 2
  BY <1>1, <1>3, TalksFacts
<1>5. s \in Segment /\ (Odd(s, OldSyns) \/ OwnText(s, iss, n, x))
  BY InFlight
<1>6. ~Unaware(p) \/ Deaf(k, OldSyns)
  BY DEF Unaware
<1> DEFINE heard == Heard(u, iss, n, x, r)
<1>7. ASSUME heard \/ (Deaf(u, OldSyns) /\ r = 0), Unaware(p) => r = 0
      PROVE  Ear(p, u, r)
  BY <1>3, <1>7 DEF Ear, Hearing
<1>8. Unaware(p) => r = 0
  BY DEF Unaware
<1> HIDE DEF k, iss, n, x, r
<1>9. Hears(k, u, iss, n, x, r) \/ Relistens(k, u)
  BY <1>1, <1>2, <1>3, <1>4, <1>5, HeardArrival DEF Odd
<1>10. CASE Relistens(k, u)
  <2>1. k.state = "SynReceived" /\ u.state = "Listen" /\ SameRcv(k, u)
    BY <1>10 DEF Relistens
  <2>2. k.rcvBuf = <<>> /\ k.oooSegs = {}
    BY <1>1, <2>1 DEF ConnInv, Early, Young
  <2>3. r = 0 /\ ~k.fin.seen
    BY <1>3, <2>1 DEF Heard
  <2>4. Deaf(u, OldSyns)
    BY <2>1, <2>2, <2>3 DEF Deaf, Empty, Unmet, SameRcv
  <2>5. Len(k.rcvBuf) \in Nat
    BY <2>2, EmptySeq
  <2>6. Grown(k, u)
    BY <2>1, <2>3, <2>5 DEF Grown, SameRcv
  <2>7. Got(u, iss) = 1 + r + Len(u.rcvBuf) + FinBit(u)
    BY <1>3, <2>1 DEF SameRcv, Heard, Got, FinBit
  <2> QED BY <1>7, <1>8, <2>3, <2>4, <2>6, <2>7 DEF k, r, iss
<1>11. CASE Hears(k, u, iss, n, x, r)
  <2>1. Ear(p, u, r) /\ Grown(k, u)
    BY <1>7, <1>8, <1>11 DEF Hears
  <2>2. Got(u, iss) = 1 + r + Len(u.rcvBuf) + FinBit(u)
    BY <1>11 DEF Hears, Heard
  <2> QED BY <2>1, <2>2 DEF k, r, iss
<1> QED BY <1>9, <1>10, <1>11

\* A peer that has heard nothing hears the beginning of the stream, or nothing.
LEMMA UnawareArrival ==
    ASSUME DuplexInv, GivenOnly, Modest, StreamInv, NEW p \in Peer, NEW s \in net[p], ~Hearing(p),
           opened' = opened
    PROVE  LET t == onSegment(tcb[p], s) IN Ear(p, t, nread[p]) /\ Grown(tcb[p], t)
<1> DEFINE k == tcb[p]
           q == other(p)
           r == nread[p]
           iss == Iss[q]
           n == nsent[q]
           x == Nxt(tcb[q])
           u == onSegment(k, s)
<1>1. k \in TCB /\ r = 0 /\ q \in Peer /\ Deaf(k, OldSyns)
  BY PeerInv, OtherPeer DEF StreamInv, Unaware
<1>2. iss \in SeqNum /\ Fits(n) /\ \A o \in OldSyns : FarFrom(iss, n, o)
  BY <1>1, PeerStream
<1>3. s \in Segment /\ (Odd(s, OldSyns) \/ (Talks(q) /\ OwnText(s, iss, n, x)))
  BY InFlight
<1>4. OldSyns \in SUBSET SeqNum
  BY DuplexAssumption
<1>5. p \notin opened => u.state = "Closed" /\ u.rcvBuf = <<>> /\ u.oooSegs = {}
  <2>1. ConnInv(u, p \in opened)
    BY ArrivalGood DEF Good
  <2> QED BY <2>1 DEF ConnInv, Young
<1> DEFINE heard == Heard(u, iss, n, x, r)
<1>6. ASSUME Deaf(u, OldSyns) \/ (p \in opened /\ Talks(q) /\ heard)
      PROVE  Ear(p, u, r)
  BY <1>1, <1>6 DEF Ear
<1>7. ASSUME Talks(q) PROVE x \in Nat /\ x <= n + 2
  BY <1>1, <1>7, TalksFacts
<1> HIDE DEF k, iss, n, x, r
<1>8. ASSUME NEW y \in Nat, y <= n + 2, Odd(s, OldSyns) \/ OwnText(s, iss, n, y)
      PROVE  /\ u.rcvBuf = k.rcvBuf /\ u.fin = k.fin /\ u \in TCB
             /\ Deaf(u, OldSyns) \/ (OwnText(s, iss, n, y) /\ Heard(u, iss, n, y, 0))
  <2> HIDE DEF u
  <2>1. LET v == onSegment(k, s) IN
             /\ v \in TCB /\ v.rcvBuf = k.rcvBuf /\ v.fin = k.fin
             /\ Deaf(v, OldSyns) \/ (OwnText(s, iss, n, y) /\ Heard(v, iss, n, y, 0))
    BY <1>1, <1>2, <1>3, <1>4, <1>8, DeafArrival
  <2> QED BY <2>1 DEF u
<1>9. n \in Nat
  BY <1>2 DEF Fits
<1> HIDE DEF u
<1>10. ASSUME u.rcvBuf = k.rcvBuf, u.fin = k.fin PROVE Grown(k, u)
  <2>1. Len(k.rcvBuf) \in Nat
    BY <1>1, TcbParts, LenProperties
  <2> QED BY <1>10, <2>1 DEF Grown
<1>11. ASSUME p \notin opened, u.fin = k.fin PROVE Deaf(u, OldSyns)
  BY <1>1, <1>5, <1>11 DEF Deaf, Empty, Unmet
<1>12. CASE Talks(q)
  <2>1. /\ u.rcvBuf = k.rcvBuf /\ u.fin = k.fin
        /\ Deaf(u, OldSyns) \/ heard
    BY <1>1, <1>3, <1>7, <1>8, <1>12
  <2>2. Deaf(u, OldSyns) \/ (p \in opened /\ Talks(q) /\ heard)
    BY <1>11, <1>12, <2>1
  <2>3. Ear(p, u, r) /\ Grown(k, u)
    BY <1>6, <1>10, <2>1, <2>2
  <2> QED BY <2>3 DEF u, k, r
<1>13. CASE ~Talks(q)
  <2>1. Odd(s, OldSyns) /\ 0 \in Nat /\ 0 <= n + 2
    BY <1>3, <1>9, <1>13
  <2>2. /\ u.rcvBuf = k.rcvBuf /\ u.fin = k.fin /\ u \in TCB
        /\ Deaf(u, OldSyns) \/ Heard(u, iss, n, 0, 0)
    BY <1>8, <2>1
  <2>3. ~Heard(u, iss, n, 0, 0)
    <3>1. Len(u.rcvBuf) \in Nat /\ FinBit(u) \in Nat
      BY <2>2, TcbParts, LenProperties DEF FinBit
    <3> QED BY <3>1 DEF Heard
  <2>4. Ear(p, u, r) /\ Grown(k, u)
    BY <1>6, <1>10, <2>2, <2>3
  <2> QED BY <2>4 DEF u, k, r
<1> QED BY <1>12, <1>13

\* A segment that arrives.
LEMMA ArrivalMoved ==
    ASSUME DuplexInv, GivenOnly, Modest, StreamInv, NEW p \in Peer, NEW s \in net[p],
           UNCHANGED <<opened, nsent, nread>>, NEW t, t = onSegment(tcb[p], s), Moves(p, t, {s})
    PROVE  Moved(p, t)
<1> DEFINE k == tcb[p]
           q == other(p)
<1>1. k \in TCB /\ k.out = {} /\ k.snd.iss = Iss[p] /\ Fits(nsent[p])
  BY PeerStream
<1>2. s \in Segment /\ FinAlone(s)
  BY InFlight, StreamFinAlone
<1>3. Says(k, t, nsent[p], {k.rcv.nxt, t.rcv.nxt}) \/ Rejects(k, t, s)
  BY <1>1, <1>2, OnSegmentSays
<1>8. Speaks(p, t)
  BY <1>3, SaysSpeaks, RejectsSpeaks
<1>4. ASSUME Silent(p)
      PROVE  \/ Mute(t) /\ \A e \in t.out : "RST" \in e.flags
             \/ /\ p \in opened' /\ Numbered(t, 0)
                /\ \A e \in t.out : "RST" \in e.flags \/ OwnText(e, Iss[p], 0, Nxt(t))
  <2>1. /\ t.snd.iss = k.snd.iss
        /\ \/ Mute(t) /\ Rejects(k, t, s)
           \/ /\ k.state = "Listen" /\ Numbered(t, 0)
              /\ \A e \in t.out : e \in k.out \/ Spoken(e, t, 0, {t.rcv.nxt})
    BY <1>1, <1>2, <1>4, MuteArrival DEF Silent
  <2>2. k.state = "Listen" => p \in opened'
    BY PeerInv
  <2> HIDE DEF k
  <2> QED BY <1>1, <2>1, <2>2 DEF Spoken, Rejects, ResetOf
<1>5. Voice(p, t, nsent[p])
  BY <1>4, <1>8, SaysVoice
<1>6. Ear(p, t, nread[p]) /\ Grown(k, t)
  BY HearingArrival, UnawareArrival
<1>7. t \in TCB
  BY <1>3 DEF Says, Rejects, Replied, SameRcv
<1> QED BY <1>5, <1>6, <1>7, MovedBy

LEMMA DeliverMoved ==
    ASSUME DuplexInv, GivenOnly, Modest, StreamInv, NEW p \in Peer, Deliver(p) \/ Duplicate(p)
    PROVE  \E t : Moved(p, t)
<1>1. UNCHANGED <<opened, nsent, nread>> /\ TypeOK
  BY PeerInv DEF Deliver, Duplicate, ghosts
<1>2. PICK s \in net[p] :
        LET t == onSegment(tcb[p], s) IN
          /\ tcb' = [tcb EXCEPT ![p] = [t EXCEPT !.out = {}]]
          /\ \/ net' = [net EXCEPT ![p] = @ \ {s}, ![other(p)] = @ \cup t.out]
             \/ net' = [net EXCEPT ![other(p)] = @ \cup t.out]
  BY DEF Deliver, Duplicate, Becomes
<1> DEFINE t == onSegment(tcb[p], s)
<1>3. /\ tcb' = [tcb EXCEPT ![p] = [t EXCEPT !.out = {}]]
      /\ \/ net' = [net EXCEPT ![p] = @ \ {s}, ![other(p)] = @ \cup t.out]
         \/ net' = [net EXCEPT ![other(p)] = @ \cup t.out]
  BY <1>2
<1>4. t \in TCB
  BY <1>1, ArrivalGood DEF Good
<1>5. t = onSegment(tcb[p], s)
  OBVIOUS
<1> HIDE DEF t
<1>6. t.out \in SUBSET Segment
  BY <1>4, OutEmptied
<1>7. other(p) \in Peer /\ other(p) # p /\ net \in [Peer -> SUBSET Segment]
  BY <1>1, OtherPeer DEF TypeOK
<1>8. /\ net' \in [Peer -> SUBSET Segment] /\ net'[other(p)] = net[other(p)] \cup t.out
      /\ net'[p] \subseteq net[p]
  BY <1>3, <1>6, <1>7
<1>9. Moves(p, t, {s})
  BY <1>1, <1>3, <1>8 DEF Moves
<1> QED BY <1>1, <1>5, <1>9, ArrivalMoved

-----------------------------------------------------------------------------
(* The theorems about the streams.                                         *)

LEMMA StreamInit == Init => StreamInv
<1> SUFFICES ASSUME Init, NEW p \in Peer
             PROVE  /\ tcb[p].snd.iss = Iss[p] /\ tcb[p].out = {} /\ Silent(p) /\ Unaware(p)
  BY DEF StreamInv
<1>1. tcb[p] = NewConn(Iss[p]) /\ nsent[p] = 0 /\ nread[p] = 0
  BY DEF Init
<1>2. tcb[p].snd.iss = Iss[p] /\ tcb[p].out = {} /\ Mute(tcb[p]) /\ Deaf(tcb[p], OldSyns)
  BY <1>1 DEF NewConn, Mute, Deaf, Empty, Unmet
<1>3. \A s \in net[other(p)] : Odd(s, OldSyns)
  <2>1. net[other(p)] \subseteq {oldSyn(o) : o \in OldSyns}
    BY OtherPeer DEF Init
  <2> QED BY <2>1 DEF oldSyn, Odd
<1> QED BY <1>1, <1>2, <1>3 DEF Silent, Unaware

\* Every step but a loss moves a peer.
LEMMA SomeMove ==
    ASSUME DuplexInv, GivenOnly, Modest, StreamInv, Next
    PROVE  \E p \in Peer : Lose(p) \/ \E t : Moved(p, t)
<1>1. PICK p \in Peer :
        \/ Open(p) \/ AppSend(p) \/ AppRecv(p) \/ AppClose(p)
        \/ Timer(p) \/ ChallengeWindowPasses(p) \/ ClockAdvances(p)
        \/ Deliver(p) \/ Duplicate(p) \/ Lose(p)
  BY DEF Next
<1> QED BY <1>1, OpenMoved, AppSendMoved, AppRecvMoved, AppCloseMoved, TimerMoved, QuietMoved,
           DeliverMoved

\* Segments that are lost change nothing of what was said and heard.
LEMMA StreamFewer ==
    ASSUME DuplexInv, StreamInv, UNCHANGED <<tcb, opened, nsent, nread>>,
           \A q \in Peer : net'[q] \subseteq net[q]
    PROVE  StreamInv'
<1>1. \A q \in Peer : other(q) \in Peer
  BY OtherPeer
<1>2. \A q \in Peer : (Silent(q) => Silent(q)') /\ (Talks(q) => Talks(q)')
  BY <1>1 DEF Silent, Talks, Own
<1>3. \A q \in Peer : (Unaware(q) => Unaware(q)') /\ (Hearing(q) => Hearing(q)')
  BY <1>1, <1>2 DEF Unaware, Hearing
<1> QED BY <1>2, <1>3 DEF StreamInv

LEMMA StreamStep ==
    ASSUME DuplexInv, GivenOnly, Modest, StreamInv, [Next]_vars
    PROVE  StreamInv'
<1>1. CASE UNCHANGED vars
  BY <1>1, StreamFewer DEF vars
<1>2. CASE \E p \in Peer : Lose(p)
  <2>1. UNCHANGED <<tcb, opened, nsent, nread>> /\ \A q \in Peer : net'[q] \subseteq net[q]
    BY <1>2, PeerInv DEF Lose, TypeOK
  <2> QED BY <2>1, StreamFewer
<1>3. CASE \E p \in Peer : \E t : Moved(p, t)
  BY <1>3, MovedStream
<1> QED BY <1>1, <1>2, <1>3, SomeMove

\* What has arrived at p, and the end of it.
Arrived(p) == nread[p] + Len(tcb[p].rcvBuf)
EndsMatch == \A p \in Peer : tcb[p].fin.seen => Arrived(p) = nsent[other(p)]

LEMMA StreamGives ==
    ASSUME DuplexInv, StreamInv
    PROVE  StreamIntegrity /\ EofComplete /\ EndsMatch
<1>1. ASSUME NEW p \in Peer
      PROVE  /\ \A i \in 1..Len(tcb[p].rcvBuf) : tcb[p].rcvBuf[i] = nread[p] + i
             /\ Arrived(p) <= nsent[other(p)]
             /\ tcb[p].fin.seen => Arrived(p) = nsent[other(p)]
             /\ Arrived(p) \in Nat
  <2> DEFINE b == tcb[p].rcvBuf
             r == nread[p]
             n == nsent[other(p)]
  <2>1. tcb[p] \in TCB /\ r \in Nat /\ n \in Nat
    BY OtherPeer, PeerInv DEF TypeOK
  <2>2. b \in Seq(Nat) /\ Len(b) \in Nat
    BY <2>1, TcbParts, LenProperties
  <2>3. \A i \in 1..Len(b) : b[i] \in Nat
    BY <2>2, ElementOfSeq
  <2>4. CASE Unaware(p)
    <3>1. b = <<>> /\ r = 0 /\ ~tcb[p].fin.seen
      BY <2>4 DEF Unaware, Deaf, Empty
    <3>2. Len(b) = 0
      BY <3>1, EmptySeq
    <3> HIDE DEF b, n, r
    <3>3. (\A i \in 1..Len(b) : b[i] = r + i) /\ r + Len(b) <= n /\ r + Len(b) \in Nat
      BY <2>1, <3>1, <3>2
    <3> QED BY <3>1, <3>3 DEF b, r, n, Arrived
  <2>5. CASE Hearing(p)
    <3>1. Text(b, r + 1) /\ r + Len(b) <= n /\ (tcb[p].fin.seen => r + Len(b) = n)
      BY <2>5 DEF Hearing, Heard
    <3> HIDE DEF b, n, r
    <3>2. \A i \in 1..Len(b) : b[i] = r + i
      BY <2>1, <2>2, <2>3, <3>1 DEF Text
    <3>3. r + Len(b) \in Nat
      BY <2>1, <2>2
    <3> QED BY <3>1, <3>2, <3>3 DEF b, r, n, Arrived
  <2> QED BY <2>4, <2>5 DEF StreamInv
<1>2. StreamIntegrity /\ EndsMatch
  BY <1>1 DEF StreamIntegrity, EndsMatch, Arrived
<1>3. ASSUME NEW p \in Peer, finReached(tcb[p]) PROVE nread[p] = nsent[other(p)]
  <2>1. tcb[p].rcvBuf = <<>> /\ tcb[p].fin.seen
    BY <1>3 DEF finReached
  <2>2. Arrived(p) = nsent[other(p)] /\ Len(tcb[p].rcvBuf) = 0 /\ nread[p] \in Nat
    BY <1>1, <2>1, EmptySeq, PeerInv DEF TypeOK
  <2> QED BY <2>2 DEF Arrived
<1> QED BY <1>2, <1>3 DEF EofComplete

\* Bytes reach the application in the order in which the other one has sent them,
\* none lost, repeated or invented, whatever the network does to the segments and
\* whenever the timers expire (acceptText, drainOoo, trimToWindow, sendData,
\* retransmitHead), as long as the streams are short beside the sequence space,
\* closed when all is sent, and far from the SYNs of former incarnations.
THEOREM StreamTheorem == Modest => (Spec => []StreamIntegrity)
<1> SUFFICES ASSUME Modest PROVE Spec => []StreamIntegrity
  OBVIOUS
<1>1. Init => DuplexInv /\ GivenOnly /\ StreamInv
  BY DuplexInit, SendsInit, StreamInit
<1>2. DuplexInv /\ GivenOnly /\ StreamInv /\ [Next]_vars => (DuplexInv /\ GivenOnly /\ StreamInv)'
  BY DuplexStep, SendsStep, StreamStep
<1>3. DuplexInv /\ StreamInv => StreamIntegrity
  BY StreamGives
<1> QED BY <1>1, <1>2, <1>3, PTL DEF Spec

\* When Recv answers io.EOF its application has had every byte that the other one
\* ever sends (processFin, drainOoo, finReached).
THEOREM EofTheorem == Modest => (Spec => []EofComplete)
<1> SUFFICES ASSUME Modest PROVE Spec => []EofComplete
  OBVIOUS
<1>1. Init => DuplexInv /\ GivenOnly /\ StreamInv
  BY DuplexInit, SendsInit, StreamInit
<1>2. DuplexInv /\ GivenOnly /\ StreamInv /\ [Next]_vars => (DuplexInv /\ GivenOnly /\ StreamInv)'
  BY DuplexStep, SendsStep, StreamStep
<1>3. DuplexInv /\ StreamInv => EofComplete
  BY StreamGives
<1> QED BY <1>1, <1>2, <1>3, PTL DEF Spec

-----------------------------------------------------------------------------
(* The two connections implement the byte stream.                          *)

\* What the byte stream sees of the peers.
ArrivedAt == [p \in Peer |-> Arrived(p)]
EndedAt == [p \in Peer |-> tcb[p].fin.seen]

\* The values of one peer in a step of it.
LEMMA StreamValues ==
    ASSUME DuplexInv, NEW p \in Peer, NEW t, Moved(p, t)
    PROVE  /\ nsent' = [nsent EXCEPT ![p] = nsent'[p]] /\ nread' = [nread EXCEPT ![p] = nread'[p]]
           /\ ArrivedAt' = [ArrivedAt EXCEPT ![p] = Arrived(p)']
           /\ EndedAt' = [EndedAt EXCEPT ![p] = tcb'[p].fin.seen]
           /\ Arrived(p)' = nread'[p] + Len(t.rcvBuf) /\ tcb'[p].fin.seen = t.fin.seen
           /\ Arrived(p) \in Nat /\ Arrived(p)' \in Nat
           /\ nread[p] \in Nat /\ nread'[p] \in Nat /\ nsent[p] \in Nat /\ nsent'[p] \in Nat
<1> DEFINE u == [t EXCEPT !.out = {}]
<1>1. /\ tcb'[p] = u /\ u \in TCB /\ u.fin = t.fin /\ u.rcvBuf = t.rcvBuf
      /\ nsent'[p] \in Nat /\ nread'[p] \in Nat
  BY MovedParts, StreamOut DEF Moved
<1> HIDE DEF u
<1>2. /\ nsent \in [Peer -> Nat] /\ nread \in [Peer -> Nat] /\ tcb \in [Peer -> TCB]
      /\ nsent' \in [Peer -> Nat] /\ nread' \in [Peer -> Nat]
      /\ \A q \in Peer \ {p} : nsent'[q] = nsent[q] /\ nread'[q] = nread[q]
  BY PeerInv DEF TypeOK, Moved
<1>3. \A q \in Peer \ {p} : tcb'[q] = tcb[q]
  <2>1. tcb' = [tcb EXCEPT ![p] = u]
    BY DEF Moved, u
  <2> QED BY <1>2, <2>1
<1>4. nsent' = [nsent EXCEPT ![p] = nsent'[p]] /\ nread' = [nread EXCEPT ![p] = nread'[p]]
  BY <1>2
<1>5. Arrived(p)' = nread'[p] + Len(t.rcvBuf) /\ tcb'[p].fin.seen = t.fin.seen
  BY <1>1 DEF Arrived
<1>6. ArrivedAt' = [ArrivedAt EXCEPT ![p] = Arrived(p)']
  <2>1. \A q \in Peer \ {p} : Arrived(q)' = Arrived(q)
    BY <1>2, <1>3 DEF Arrived
  <2> QED BY <2>1 DEF ArrivedAt
<1>7. EndedAt' = [EndedAt EXCEPT ![p] = tcb'[p].fin.seen]
  BY <1>3 DEF EndedAt
<1>8. nread[p] \in Nat /\ nsent[p] \in Nat /\ tcb[p] \in TCB
  BY <1>2
<1>9. Len(tcb[p].rcvBuf) \in Nat /\ Len(u.rcvBuf) \in Nat
  BY <1>1, <1>8, TcbParts, LenProperties
<1>10. Arrived(p) \in Nat /\ Arrived(p)' \in Nat
  <2>1. nread[p] + Len(tcb[p].rcvBuf) \in Nat
    BY <1>8, <1>9
  <2>2. Len(t.rcvBuf) \in Nat
    BY <1>1, <1>9
  <2>3. nread'[p] + Len(t.rcvBuf) \in Nat
    BY <1>1, <2>2
  <2> QED BY <1>5, <2>1, <2>3 DEF Arrived
<1> QED BY <1>1, <1>4, <1>5, <1>6, <1>7, <1>8, <1>10

\* Who writes has a reader that has not seen the end.
LEMMA WriterOpen ==
    ASSUME DuplexInv, StreamInv, NEW p \in Peer, Talks(p), Nxt(tcb[p]) <= nsent[p] + 1
    PROVE  ~tcb[other(p)].fin.seen
<1> DEFINE q == other(p)
           k == tcb[q]
           iss == Iss[p]
           n == nsent[p]
           x == Nxt(tcb[p])
           r == nread[q]
<1>1. q \in Peer /\ other(q) = p /\ k \in TCB /\ r \in Nat /\ iss \in SeqNum
  BY OtherPeer, PeerInv, IssType DEF TypeOK
<1>2. x \in Nat /\ n \in Nat /\ x <= n + 1
  BY TalksFacts
<1>3. CASE Unaware(q)
  BY <1>3 DEF Unaware, Deaf, Empty
<1>4. CASE Hearing(q)
  <2>1. Heard(k, iss, n, x, r)
    BY <1>1, <1>4 DEF Hearing
  <2> HIDE DEF k, iss, n, x, r
  <2>2. n <= n
    BY <1>2
  <2>3. ~k.fin.seen
    BY <1>1, <1>2, <2>1, <2>2, HeardLater
  <2> QED BY <2>3 DEF k
<1> QED BY <1>1, <1>3, <1>4 DEF StreamInv

\* What a step of p is to the byte stream.
LEMMA StreamMove ==
    ASSUME DuplexInv, StreamInv, (StreamIntegrity /\ EndsMatch)', NEW p \in Peer, NEW t, Moved(p, t)
    PROVE  \/ UNCHANGED <<nsent, ArrivedAt, nread, EndedAt>>
           \/ /\ ~tcb[other(p)].fin.seen /\ nsent'[p] > nsent[p]
              /\ UNCHANGED <<ArrivedAt, nread, EndedAt>>
           \/ /\ Arrived(p)' \in (Arrived(p) + 1)..nsent[other(p)]
              /\ UNCHANGED <<nsent, nread, EndedAt>>
           \/ /\ nread'[p] \in (nread[p] + 1)..Arrived(p)
              /\ UNCHANGED <<nsent, ArrivedAt, EndedAt>>
           \/ /\ Arrived(p) = nsent[other(p)] /\ EndedAt' = [EndedAt EXCEPT ![p] = TRUE]
              /\ UNCHANGED <<nsent, ArrivedAt, nread>>
<1> DEFINE k == tcb[p]
           a == Len(k.rcvBuf)
           b == Len(t.rcvBuf)
           n == nsent[p]
           r == nread[p]
           m == nsent'[p]
           v == nread'[p]
           g == Arrived(p)
           h == Arrived(p)'
           e == nsent[other(p)]
<1>1. /\ nsent' = [nsent EXCEPT ![p] = m] /\ nread' = [nread EXCEPT ![p] = v]
      /\ ArrivedAt' = [ArrivedAt EXCEPT ![p] = h]
      /\ EndedAt' = [EndedAt EXCEPT ![p] = t.fin.seen]
      /\ h = v + b /\ tcb'[p].fin.seen = t.fin.seen
      /\ g \in Nat /\ h \in Nat /\ r \in Nat /\ v \in Nat /\ n \in Nat /\ m \in Nat
  BY StreamValues
<1>2. nsent \in [Peer -> Nat] /\ nread \in [Peer -> Nat] /\ k \in TCB
  BY PeerInv DEF TypeOK
<1>3. ArrivedAt = [ArrivedAt EXCEPT ![p] = g] /\ EndedAt = [EndedAt EXCEPT ![p] = k.fin.seen]
  BY DEF ArrivedAt, EndedAt
<1>4. m = n => nsent' = nsent
  BY <1>1, <1>2
<1>5. v = r => nread' = nread
  BY <1>1, <1>2
<1>6. (h = g => ArrivedAt' = ArrivedAt) /\ (t.fin.seen = k.fin.seen => EndedAt' = EndedAt)
  BY <1>1, <1>3
<1>7. g = r + a /\ a \in Nat
  BY <1>2, TcbParts, LenProperties DEF Arrived
<1>8. e' = e /\ e \in Nat
  BY MovedParts
<1>9. h <= e /\ (t.fin.seen => h = e)
  <2>1. nread'[p] + Len(tcb'[p].rcvBuf) <= nsent'[other(p)]
    BY DEF StreamIntegrity
  <2>2. tcb'[p].fin.seen => h = e'
    BY DEF EndsMatch
  <2> QED BY <1>1, <1>8, <2>1, <2>2 DEF Arrived
<1>10. b \in Nat
  BY TcbParts, LenProperties DEF Moved
<1>11. Flow(p, t, m, v)
  BY DEF Moved
<1>12. t.fin.seen \in BOOLEAN /\ k.fin.seen \in BOOLEAN
  <2>1. t \in TCB
    BY DEF Moved
  <2>2. \A x \in TCB : x.fin \in FinVars
    BY DEF TCB
  <2>3. \A f \in FinVars : f.seen \in BOOLEAN
    BY DEF FinVars
  <2> QED BY <1>2, <2>1, <2>2, <2>3
<1>13. CASE m = n /\ v = r /\ Grown(k, t)
  <2>1. /\ a <= b /\ (k.fin.seen => t.fin.seen)
        /\ a = b \/ k.fin.seen = t.fin.seen
    BY <1>13 DEF Grown
  <2>2. nsent' = nsent /\ nread' = nread
    BY <1>4, <1>5, <1>13
  <2>3. CASE a # b
    <3>1. h \in (g + 1)..e
      <4> HIDE DEF a, b, g, h, e, v, r
      <4> QED BY <1>1, <1>7, <1>8, <1>9, <1>10, <1>13, <2>1, <2>3
    <3> QED BY <1>6, <2>1, <2>2, <2>3, <3>1
  <2>4. CASE a = b
    <3>1. h = g
      <4> HIDE DEF a, b, g, h, v, r
      <4> QED BY <1>1, <1>7, <1>13, <2>4
    <3>2. CASE t.fin.seen = k.fin.seen
      BY <1>6, <2>2, <3>1, <3>2
    <3>3. CASE t.fin.seen # k.fin.seen
      <4>1. t.fin.seen = TRUE
        BY <1>12, <2>1, <3>3
      <4>2. g = e /\ EndedAt' = [EndedAt EXCEPT ![p] = TRUE]
        BY <1>1, <1>9, <3>1, <4>1
      <4> QED BY <1>6, <2>2, <3>1, <4>2
    <3> QED BY <3>2, <3>3
  <2> QED BY <2>3, <2>4
<1>14. CASE /\ v = r /\ b = a /\ t.fin.seen = k.fin.seen
            /\ m > n /\ Talks(p) /\ Nxt(k) <= n + 1
  <2>1. h = g
    <3> HIDE DEF a, b, g, h, v, r
    <3> QED BY <1>1, <1>7, <1>14
  <2> QED BY <1>5, <1>6, <1>14, <2>1, WriterOpen
<1>15. CASE m = n /\ t.fin.seen = k.fin.seen /\ v > r /\ v + b = r + a
  <2>1. h = g /\ v \in (r + 1)..g
    <3> HIDE DEF a, b, g, h, v, r
    <3> QED BY <1>1, <1>7, <1>10, <1>15
  <2> QED BY <1>4, <1>6, <1>15, <2>1
<1> QED BY <1>11, <1>13, <1>14, <1>15 DEF Flow

\* To their applications the two connections are the byte stream of ByteStream: it
\* starts empty, and every step of either connection, of the network or of the
\* clocks is a write, an arrival, a read, an end of the stream or nothing at all.
THEOREM RefinementTheorem == Modest => (Spec => ImplementsByteStream)
<1> SUFFICES ASSUME Modest PROVE Spec => ImplementsByteStream
  OBVIOUS
<1>1. Init => DuplexInv /\ GivenOnly /\ StreamInv
  BY DuplexInit, SendsInit, StreamInit
<1>2. DuplexInv /\ GivenOnly /\ StreamInv /\ [Next]_vars => (DuplexInv /\ GivenOnly /\ StreamInv)'
  BY DuplexStep, SendsStep, StreamStep
<1>3. Init => Stream!Init
  <2> SUFFICES ASSUME Init PROVE Stream!Init
    OBVIOUS
  <2>1. \A p \in Peer : nread[p] + Len(tcb[p].rcvBuf) = 0 /\ tcb[p].fin.seen = FALSE
    BY EmptySeq DEF Init, NewConn
  <2> QED BY <2>1 DEF Init, Stream!Init
<1>4. DuplexInv /\ StreamInv => StreamIntegrity /\ EndsMatch
  BY StreamGives
<1>5. DuplexInv /\ GivenOnly /\ StreamInv /\ (StreamIntegrity /\ EndsMatch)' /\ [Next]_vars
        => [Stream!Next]_Stream!svars
  <2> SUFFICES ASSUME DuplexInv, GivenOnly, StreamInv, (StreamIntegrity /\ EndsMatch)', [Next]_vars
               PROVE  [Stream!Next]_Stream!svars
    OBVIOUS
  <2>1. ASSUME UNCHANGED <<nsent, ArrivedAt, nread, EndedAt>>
        PROVE  UNCHANGED Stream!svars
    BY <2>1 DEF Stream!svars, ArrivedAt, EndedAt, Arrived
  <2>2. CASE UNCHANGED <<tcb, nsent, nread>>
    BY <2>1, <2>2 DEF ArrivedAt, EndedAt, Arrived
  <2>3. ASSUME NEW p \in Peer, NEW t, Moved(p, t)
        PROVE  [Stream!Next]_Stream!svars
    <3>1. \/ UNCHANGED <<nsent, ArrivedAt, nread, EndedAt>>
          \/ /\ ~tcb[other(p)].fin.seen /\ nsent'[p] > nsent[p]
             /\ UNCHANGED <<ArrivedAt, nread, EndedAt>>
          \/ /\ Arrived(p)' \in (Arrived(p) + 1)..nsent[other(p)]
             /\ UNCHANGED <<nsent, nread, EndedAt>>
          \/ /\ nread'[p] \in (nread[p] + 1)..Arrived(p)
             /\ UNCHANGED <<nsent, ArrivedAt, EndedAt>>
          \/ /\ Arrived(p) = nsent[other(p)] /\ EndedAt' = [EndedAt EXCEPT ![p] = TRUE]
             /\ UNCHANGED <<nsent, ArrivedAt, nread>>
      BY <2>3, StreamMove
    <3>2. /\ nsent' = [nsent EXCEPT ![p] = nsent'[p]] /\ nread' = [nread EXCEPT ![p] = nread'[p]]
          /\ ArrivedAt' = [ArrivedAt EXCEPT ![p] = Arrived(p)']
      BY <2>3, StreamValues
    <3>3. other(p) \in Peer
      BY OtherPeer
    <3>4. CASE ~tcb[other(p)].fin.seen /\ nsent'[p] > nsent[p] /\ UNCHANGED <<ArrivedAt, nread, EndedAt>>
      <4>1. Stream!Write(p)
        BY <3>2, <3>3, <3>4 DEF Stream!Write, ArrivedAt, EndedAt, Arrived
      <4> QED BY <4>1 DEF Stream!Next
    <3>5. CASE /\ Arrived(p)' \in (Arrived(p) + 1)..nsent[other(p)]
               /\ UNCHANGED <<nsent, nread, EndedAt>>
      <4>1. Stream!Arrive(p)
        BY <3>2, <3>3, <3>5 DEF Stream!Arrive, ArrivedAt, EndedAt, Arrived
      <4> QED BY <4>1 DEF Stream!Next
    <3>6. CASE nread'[p] \in (nread[p] + 1)..Arrived(p) /\ UNCHANGED <<nsent, ArrivedAt, EndedAt>>
      <4>1. Stream!Read(p)
        BY <3>2, <3>3, <3>6 DEF Stream!Read, ArrivedAt, EndedAt, Arrived
      <4> QED BY <4>1 DEF Stream!Next
    <3>7. CASE /\ Arrived(p) = nsent[other(p)] /\ EndedAt' = [EndedAt EXCEPT ![p] = TRUE]
               /\ UNCHANGED <<nsent, ArrivedAt, nread>>
      <4>1. Stream!End(p)
        BY <3>3, <3>7 DEF Stream!End, ArrivedAt, EndedAt, Arrived
      <4> QED BY <4>1 DEF Stream!Next
    <3> QED BY <2>1, <3>1, <3>4, <3>5, <3>6, <3>7
  <2>4. CASE Next
    BY <2>2, <2>3, <2>4, SomeMove DEF Lose
  <2> QED BY <2>2, <2>4 DEF vars
<1> QED BY <1>1, <1>2, <1>3, <1>4, <1>5, PTL DEF Spec, ImplementsByteStream, Stream!Spec

-----------------------------------------------------------------------------
(* Acknowledging.  What a step does to SND.UNA, to IRS, and to a connection   *)
(* that acknowledges nothing yet.                                             *)

\* A step that writes no ACK.
NoAcks(t, u) == \A e \in u.out : e \in t.out \/ ~Acks(e)

\* A connection that acknowledges nothing yet.
Hushed(t) == /\ t.state \in {"Closed", "Listen", "SynSent"} /\ t.sndBuf = <<>> /\ ~t.tmr.delAck
             /\ \A i \in 1..Len(t.retxQueue) : "ACK" \notin t.retxQueue[i].flags
Hushes(t, u) == Hushed(t) => Hushed(u) /\ NoAcks(t, u)

\* What keeps a connection from acknowledging.
LEMMA HushedSame ==
    ASSUME NEW t, NEW u, u.state \in {t.state, "Closed"}, u.sndBuf = t.sndBuf, u.tmr = t.tmr,
           \/ SameQueue(t.retxQueue, u.retxQueue)
           \/ u.retxQueue = <<>>
    PROVE  Hushed(t) => Hushed(u)
<1>1. Len(<<>>) = 0
  BY EmptySeq
<1> QED BY <1>1 DEF Hushed, SameQueue

\* Two steps in a row.
LEMMA HushesTrans ==
    ASSUME NEW t, NEW u, NEW v, Hushes(t, u), Hushes(u, v)
    PROVE  Hushes(t, v)
  BY DEF Hushes, NoAcks

\* The head of a queue without ACKs is resent without one.
LEMMA RetransmitHushes ==
    ASSUME NEW t \in TCB
    PROVE  Hushes(t, checkRetransmit(t))
<1> DEFINE w == checkRetransmit(t)
<1>1. KeepsOrCloses(t, w) /\ Calm(t, w)
  BY CheckRetransmitKeeps
<1>2. w.tmr = t.tmr /\ (Hushed(t) => NoAcks(t, w))
  <2>1. CASE t.retxQueue = <<>>
    BY <2>1 DEF checkRetransmit, NoAcks
  <2>2. CASE t.retxQueue # <<>> /\ Head(t.retxQueue).retries >= MaxRetransmits
    <3>1. abandon(t).out = t.out /\ abandon(t).tmr = t.tmr
      BY DEF abandon, TCB
    <3> QED BY <2>2, <3>1 DEF checkRetransmit, NoAcks
  <2>3. CASE t.retxQueue # <<>> /\ ~(Head(t.retxQueue).retries >= MaxRetransmits)
    <3> DEFINE c == onRtoTimeout(t.cong, flightSize(t))
               q == t.retxQueue
               e == [q[1] EXCEPT !.retries = @ + 1]
               r == [q EXCEPT ![1] = e]
               u == [t EXCEPT !.cong = c, !.retxQueue = r]
    <3>1. q \in Seq(RetxSeg) /\ q # <<>> /\ Head(q) = q[1] /\ q[1] \in RetxSeg /\ Len(q) \in Nat \ {0}
      BY <2>3, TcbParts, HeadTailProperties, EmptySeq, LenProperties, ElementOfSeq
    <3>2. q[1].retries \in 0..MaxRetransmits /\ ~(q[1].retries >= MaxRetransmits)
      BY <2>3, <3>1 DEF RetxSeg
    <3>3. q[1].retries + 1 \in 0..MaxRetransmits
      BY <3>2, TcbAssumption
    <3>4. e \in RetxSeg /\ e.flags = q[1].flags
      BY <3>1, <3>3 DEF RetxSeg
    <3>5. w = resendFront(u)
      BY <2>3 DEF checkRetransmit, TCB
    <3> HIDE DEF e
    <3>6. r \in Seq(RetxSeg) /\ Len(r) = Len(q) /\ r[1] = e
      BY <3>1, <3>4, ExceptSeq, LenProperties
    <3>7. r # <<>> /\ Head(r) = r[1]
      BY <3>1, <3>6, EmptySeq, HeadTailProperties
    <3>8. c \in Cong
      BY TcbParts, FlightType, OnRtoTimeoutType
    <3> HIDE DEF r, c
    <3>9. u \in TCB /\ u.retxQueue = r /\ u.out = t.out /\ u.tmr = t.tmr
      BY <3>6, <3>8 DEF TCB
    <3>10. Hushed(t) => "ACK" \notin q[1].flags
      BY <3>1 DEF Hushed
    <3> HIDE DEF u, w, q
    <3>11. Adds(u, w, Head(r).flags, Head(r).seq, u.rcv.nxt, Head(r).data)
      BY <3>5, <3>9, WriteAdds DEF resendFront, writeSeg
    <3>12. w.tmr = u.tmr
      BY <3>5, <3>9 DEF resendFront, writeSeg, writeSegOpts, TCB
    <3>13. Hushed(t) => NoAcks(t, w)
      BY <3>4, <3>6, <3>7, <3>9, <3>10, <3>11 DEF Adds, NoAcks, Acks
    <3> QED BY <3>9, <3>12, <3>13 DEF w
  <2> QED BY <2>1, <2>2, <2>3
<1> HIDE DEF w
<1>3. w.state \in {t.state, "Closed"} /\ w.sndBuf = t.sndBuf
      /\ (SameQueue(t.retxQueue, w.retxQueue) \/ w.retxQueue = <<>>)
  BY <1>1 DEF KeepsOrCloses, Calm
<1>4. Hushed(t) => Hushed(w)
  BY <1>2, <1>3, HushedSame
<1> QED BY <1>2, <1>4 DEF Hushes, w

\* The timers of a connection that acknowledges nothing.
LEMMA TickHushes ==
    ASSUME NEW t \in TCB, NEW due \in SUBSET armed(t)
    PROVE  Hushes(t, Tick(t, due))
<1> SUFFICES ASSUME Hushed(t) PROVE Hushes(t, Tick(t, due))
  BY DEF Hushes
<1>1. {"timewait", "delack", "keepalive"} \cap due = {}
  BY DEF armed, Hushed, synchronized
<1> DEFINE r == IF "rtx" \in due THEN checkRetransmit(t) ELSE t
<1>2. r \in TCB /\ Hushes(t, r)
  <2>1. Hushes(t, t)
    BY DEF Hushes, NoAcks
  <2>2. checkRetransmit(t) \in TCB
    BY CheckRetransmitKeeps DEF KeepsOrCloses, KeepsRcv, SameRcv
  <2> QED BY <2>1, <2>2, RetransmitHushes
<1> HIDE DEF r
<1>3. unsent(r) <= 0
  <2>1. flightSize(r) \in SeqNum /\ Len(<<>>) = 0 /\ r.sndBuf = <<>>
    BY <1>2, FlightType, EmptySeq DEF Hushes, Hushed
  <2> QED BY <2>1, SeqNumNat DEF unsent
<1>4. probePersist(r) = r /\ fireOverride(r) = disarmOverride(r)
  BY <1>3 DEF probePersist, fireOverride
<1>5. Tick(t, due) \in {r, disarmOverride(r)}
  BY <1>1, <1>4 DEF Tick, r
<1>6. Hushes(r, disarmOverride(r))
  BY <1>2 DEF disarmOverride, Hushes, Hushed, NoAcks, TCB, TmrVars
<1>7. Hushes(r, r)
  BY DEF Hushes, NoAcks
<1> QED BY <1>2, <1>5, <1>6, <1>7, HushesTrans

\* Close before anything was acknowledged writes no ACK.
LEMMA CloseHushes ==
    ASSUME NEW t \in TCB
    PROVE  Hushes(t, Close(t))
<1> SUFFICES ASSUME Hushed(t) PROVE Hushes(t, Close(t))
  BY DEF Hushes
<1>1. Close(t) \in {t, [t EXCEPT !.state = "Closed"], [t EXCEPT !.state = "Closed", !.retxQueue = <<>>]}
  BY DEF Close, Hushed
<1> DEFINE u == Close(t)
<1>2. /\ u.state \in {t.state, "Closed"} /\ u.sndBuf = t.sndBuf /\ u.tmr = t.tmr /\ u.out = t.out
      /\ u.retxQueue \in {t.retxQueue, <<>>}
  BY <1>1 DEF TCB
<1> HIDE DEF u
<1>3. SameQueue(t.retxQueue, u.retxQueue) \/ u.retxQueue = <<>>
  BY <1>2, SameQueueRefl
<1>4. Hushed(u)
  BY <1>2, <1>3, HushedSame
<1> QED BY <1>2, <1>4 DEF Hushes, NoAcks, u

\* Opening acknowledges nothing, and leaves SND.UNA at the ISS.
LEMMA OpenHushes ==
    ASSUME NEW t \in TCB, Mute(t), NEW iss \in SeqNum
    PROVE  LET u == ActiveOpen(t, iss)
               v == PassiveOpen(t)
           IN  /\ Hushed(u) /\ NoAcks(t, u) /\ u.rcv.irs = t.rcv.irs /\ u.rcv.nxt = t.rcv.nxt
               /\ Hushed(v) /\ NoAcks(t, v) /\ v.rcv.irs = t.rcv.irs /\ v.rcv.nxt = t.rcv.nxt
               /\ u.snd.una = iss /\ v.snd.una = t.snd.una
               /\ u.reached = t.reached /\ v.reached = t.reached
<1> DEFINE u == ActiveOpen(t, iss)
           v == PassiveOpen(t)
           e == queueEntry({"SYN"}, iss, <<>>)
<1>1. /\ u.state = "SynSent" /\ u.snd.una = iss /\ u.sndBuf = t.sndBuf
      /\ u.retxQueue = Append(t.retxQueue, e)
  BY ActiveOpenEffect
<1>2. Adds(t, u, {"SYN"}, iss, 0, <<>>)
  BY ActiveOpenForm
<1>3. u.tmr = t.tmr /\ u.rcv.irs = t.rcv.irs /\ u.rcv.nxt = t.rcv.nxt /\ u.reached = t.reached
  BY DEF ActiveOpen, sendSyn, enqueue, writeSegOpts, TCB, RcvVars, SndVars
<1>4. /\ v.state = "Listen" /\ v.sndBuf = t.sndBuf /\ v.tmr = t.tmr /\ v.retxQueue = t.retxQueue
      /\ v.rcv.irs = t.rcv.irs /\ v.rcv.nxt = t.rcv.nxt /\ v.out = t.out /\ v.snd = t.snd
      /\ v.reached = t.reached
  BY DEF PassiveOpen, TCB, RcvVars
<1>5. e.flags = {"SYN"}
  BY DEF queueEntry
<1> HIDE DEF u, v, e
<1>6. u.retxQueue = <<e>> /\ Len(<<>>) = 0
  <2>1. Append(<<>>, e) = <<e>>
    OBVIOUS
  <2> QED BY <1>1, <2>1, EmptySeq DEF Mute
<1>7. Len(u.retxQueue) = 1 /\ u.retxQueue[1] = e
  BY <1>6
<1>8. Hushed(u)
  BY <1>1, <1>3, <1>5, <1>7 DEF Hushed, Mute
<1>9. Hushed(v)
  BY <1>4, <1>6 DEF Hushed, Mute
<1>10. NoAcks(t, u)
  BY <1>2 DEF NoAcks, Acks, Adds
<1> QED BY <1>1, <1>3, <1>4, <1>8, <1>9, <1>10 DEF NoAcks, u, v

\* The arrival of a segment: a reset answers it, or it is the SYN that was waited for.
LEMMA ReplyHushes ==
    ASSUME NEW t, NEW u, NEW s, Rejects(t, u, s), u.tmr = t.tmr
    PROVE  Hushes(t, u)
<1>1. SameQueue(t.retxQueue, u.retxQueue) /\ u.sndBuf = t.sndBuf /\ u.state = t.state
  BY SameQueueRefl DEF Rejects, Replied, SameSnd
<1> QED BY <1>1, HushedSame DEF Hushes, NoAcks, Rejects, ResetOf, Acks

\* A segment that arrives: only one that begins a connection makes it acknowledge.
LEMMA ArrivalHushes ==
    ASSUME NEW t \in TCB, NEW s \in Segment
    PROVE  LET u == onSegment(t, s) IN Hushes(t, u) \/ Begins(t, u, s)
<1> DEFINE k == [t EXCEPT !.keepaliveProbes = 0]
           u == onSegment(t, s)
<1> SUFFICES ASSUME Hushed(t) PROVE Hushes(t, u) \/ Begins(t, u, s)
  BY DEF Hushes
<1>0. 0 \in 0..KeepaliveMaxProbes
  BY TcbAssumption
<1>1. /\ k \in TCB /\ k.state = t.state /\ k.rcv = t.rcv /\ k.fin = t.fin /\ k.tmr = t.tmr
      /\ k.rcvBuf = t.rcvBuf /\ k.oooSegs = t.oooSegs /\ k.out = t.out /\ k.reached = t.reached
      /\ k.sndBuf = t.sndBuf /\ k.retxQueue = t.retxQueue
  BY <1>0 DEF TCB
<1>2. u = CASE k.state = "Closed" -> onSegmentClosed(k, s)
            [] k.state = "Listen" -> onSegmentListen(k, s)
            [] k.state = "SynSent" -> onSegmentSynSent(k, s)
            [] OTHER -> onSegmentSynchronized(k, s)
  BY DEF onSegment
<1> HIDE DEF k, u
<1>3. Hushes(k, u) \/ Begins(k, u, s)
  <2>1. CASE k.state = "Closed"
    <3>1. u = onSegmentClosed(k, s)
      BY <1>2, <2>1
    <3>2. Rejects(k, u, s) /\ u.tmr = k.tmr
      BY <1>1, <2>1, <3>1, ClosedRejects, ClosedTmr
    <3> QED BY <3>2, ReplyHushes
  <2>2. CASE k.state = "Listen"
    <3>1. u = onSegmentListen(k, s)
      BY <1>2, <2>2
    <3>2. \/ Rejects(k, u, s) /\ u.tmr = k.tmr
          \/ Greets(k, u, s) /\ "ACK" \notin s.flags
      BY <1>1, <2>2, <3>1, ListenForm
    <3> QED BY <2>2, <3>2, ReplyHushes, GreetsBegins
  <2>3. CASE k.state = "SynSent"
    <3>1. u = onSegmentSynSent(k, s)
      BY <1>2, <2>3
    <3>2. \/ Rejects(k, u, s) /\ u.tmr = k.tmr
          \/ SameSnd(k, u) /\ u.state = "Closed" /\ u.out = k.out /\ u.tmr = k.tmr
          \/ Connects(k, u, s)
          \/ Greets(k, u, s)
      BY <1>1, <2>3, <3>1, SynSentForm
    <3>3. SameSnd(k, u) /\ u.state = "Closed" /\ u.out = k.out /\ u.tmr = k.tmr => Hushes(k, u)
      BY HushedSame, SameQueueRefl DEF Hushes, SameSnd, NoAcks
    <3>4. Connects(k, u, s) => Begins(k, u, s)
      BY <2>3 DEF Connects, Begins, Word
    <3> QED BY <2>3, <3>2, <3>3, <3>4, ReplyHushes, GreetsBegins
  <2>4. CASE k.state \notin {"Closed", "Listen", "SynSent"}
    BY <1>1, <2>4 DEF Hushed
  <2> QED BY <2>1, <2>2, <2>3, <2>4
<1>4. Hushes(k, u) => Hushes(t, u)
  BY <1>1 DEF Hushes, Hushed, NoAcks
<1>5. Begins(k, u, s) => Begins(t, u, s)
  BY <1>1 DEF Begins, SameBuffers
<1> QED BY <1>3, <1>4, <1>5

\* SND.UNA: only the arrival of an ACK moves it.
LEMMA TickUna ==
    ASSUME NEW t \in TCB, NEW due
    PROVE  Tick(t, due).snd.una = t.snd.una
<1> DEFINE t1 == IF "timewait" \in due THEN [t EXCEPT !.state = "Closed"] ELSE t
           t2 == IF "rtx" \in due THEN checkRetransmit(t1) ELSE t1
           t3 == IF "persist" \in due THEN probePersist(t2) ELSE t2
           t4 == IF "override" \in due THEN fireOverride(t3) ELSE t3
           t5 == IF "delack" \in due THEN sendAck(t4) ELSE t4
           t6 == IF "keepalive" \in due THEN checkKeepAlive(t5) ELSE t5
<1>0. Tick(t, due) = t6
  BY DEF Tick
<1>1. t1 \in TCB /\ t1.snd = t.snd
  BY DEF TCB, State
<1> HIDE DEF t1
<1>2. t2 \in TCB /\ t2.snd = t1.snd
  BY <1>1, CheckRetransmitKeeps DEF KeepsOrCloses, KeepsRcv, SameRcv, Calm
<1> HIDE DEF t2
<1>3. t3 \in TCB /\ t3.snd.una = t2.snd.una
  BY <1>2, ProbePersistPieces DEF Pieces
<1> HIDE DEF t3
<1>4. t4 \in TCB /\ t4.snd.una = t3.snd.una
  BY <1>3, FireOverridePieces DEF Pieces
<1> HIDE DEF t4
<1>5. t5 \in TCB /\ t5.snd = t4.snd
  BY <1>4, SendAckKeeps DEF Keeps, KeepsRcv, SameRcv, SameSnd
<1> HIDE DEF t5
<1>6. t6.snd = t5.snd
  BY <1>5, CheckKeepAliveKeeps DEF Calm
<1> QED BY <1>0, <1>1, <1>2, <1>3, <1>4, <1>5, <1>6

\* Close (sendFin) leaves SND.UNA alone.
LEMMA CloseUna ==
    ASSUME NEW t \in TCB, t.state \in CanClose
    PROVE  Close(t).snd.una = t.snd.una
<1> DEFINE u == Close(t)
<1>1. FinSent(t, u) => u.snd.una = t.snd.una
  BY SndParts DEF FinSent, SndVars, TCB
<1>2. t.state \in {"Listen", "SynSent"} => u.snd = t.snd
  BY DEF Close, TCB
<1>3. t.state \in {"Listen", "SynSent"} \/ FinSent(t, u)
  BY CloseEffect
<1> QED BY <1>1, <1>2, <1>3

\* So does Send.
LEMMA SendUna ==
    ASSUME NEW t \in TCB, NEW d \in Seq(Nat)
    PROVE  Send(t, d).snd.una = t.snd.una /\ Send(t, d).rcv = t.rcv
<1> DEFINE b == t.sndBuf \o d
           w == [t EXCEPT !.sndBuf = b]
<1>1. b \in Seq(Nat)
  BY TcbParts, ConcatProperties
<1>2. Send(t, d) = flushSend(w)
  BY DEF Send
<1> HIDE DEF b
<1>3. w \in TCB /\ w.snd = t.snd /\ w.rcv = t.rcv
  BY <1>1 DEF TCB
<1> HIDE DEF w
<1>4. flushSend(w).snd.una = w.snd.una /\ flushSend(w).rcv = w.rcv
  BY <1>3, FlushSendPieces, FlushSendKeeps DEF Pieces, Keeps, KeepsRcv, SameRcv
<1> QED BY <1>2, <1>3, <1>4

\* A valid ACK field is what SND.UNA becomes, and IRS stays.
AckMoves(t, u, s) ==
    /\ u.rcv.irs = t.rcv.irs
    /\ u.snd.una = t.snd.una \/ (Acks(s) /\ u.snd.una = s.ack)

\* handleAck moves SND.UNA to the ACK of the segment or not at all.
LEMMA HandleAckMoves ==
    ASSUME NEW t \in TCB, NEW s \in Segment, Acks(s)
    PROVE  AckMoves(t, handleAck(t, s), s)
<1> DEFINE v == IF advances(t, s) THEN newlyAcked(t, s)
                ELSE IF isDupAck(t, s) THEN onDuplicateAck(t, s)
                ELSE t
           w == updateSendWindow(v, s)
           a == advanceStateOnAck(w)
           z == flushSend(a)
<1>0. handleAck(t, s) = z
  BY DEF handleAck, newlyAcked
<1>1. v \in TCB /\ v.rcv = t.rcv /\ v.snd.una \in {t.snd.una, s.ack}
  <2>1. CASE advances(t, s)
    <3>1. v = newlyAcked(t, s)
      BY <2>1
    <3> HIDE DEF v
    <3>2. Keeps(t, v) /\ v.snd = [t.snd EXCEPT !.una = s.ack]
      BY <3>1, NewlyAckedForm
    <3>3. v.snd.una = s.ack
      BY <3>2, TcbParts DEF SndVars
    <3> QED BY <3>2, <3>3 DEF Keeps, KeepsRcv, SameRcv
  <2>2. CASE ~advances(t, s) /\ isDupAck(t, s)
    <3>1. v = onDuplicateAck(t, s) /\ t.retxQueue # <<>>
      BY <2>2 DEF isDupAck
    <3> HIDE DEF v
    <3>2. Keeps(t, v) /\ v.snd = t.snd
      BY <3>1, OnDuplicateAckKeeps, OnDuplicateAckUtters
    <3> QED BY <3>2 DEF Keeps, KeepsRcv, SameRcv
  <2>3. CASE ~advances(t, s) /\ ~isDupAck(t, s)
    BY <2>3
  <2> QED BY <2>1, <2>2, <2>3
<1> HIDE DEF v
<1>2. w \in TCB /\ w.snd.una = v.snd.una
  BY <1>1, UpdateSendWindowKeeps, UpdateSendWindowQuiet DEF Keeps, KeepsRcv, SameRcv
<1> HIDE DEF w
<1>3. a \in TCB /\ a.snd = w.snd
  BY <1>2, AdvanceStateEffect DEF KeepsRcv, SameRcv, SameSnd
<1> HIDE DEF a
<1>4. z.snd.una = a.snd.una
  BY <1>3, FlushSendPieces DEF Pieces
<1>5. z.rcv = t.rcv
  BY <1>0, HandleAckEffect DEF KeepsRcv, SameRcv
<1> QED BY <1>0, <1>1, <1>2, <1>3, <1>4, <1>5 DEF AckMoves

\* The same of the whole of processAck.
LEMMA ProcessAckMoves ==
    ASSUME NEW t \in TCB, NEW s \in Segment, "RST" \notin s.flags
    PROVE  AckMoves(t, processAck(t, s), s)
<1> DEFINE h == handleAck(t, s)
           x == processText(h, s)
           f == processFin(x, s)
           u == processAck(t, s)
<1>1. CASE "ACK" \notin s.flags
  BY <1>1 DEF processAck, AckMoves
<1>2. CASE "ACK" \in s.flags /\ ~ackOK(t, s)
  BY <1>2, RefuseAckKeeps DEF processAck, AckMoves, Keeps, KeepsRcv, SameRcv, SameSnd
<1>3. CASE "ACK" \in s.flags /\ ackOK(t, s)
  <2>1. u = f
    BY <1>3 DEF processAck
  <2>2. h \in TCB /\ AckMoves(t, h, s)
    BY <1>3, HandleAckMoves, HandleAckEffect DEF Acks, KeepsRcv, SameRcv
  <2> HIDE DEF u, h
  <2>3. x \in TCB /\ x.rcv.irs = h.rcv.irs /\ x.snd = h.snd
    <3>1. s.seq \in SeqNum /\ s.data \in Payload
      BY SegmentParts
    <3> QED BY <2>2, <3>1, AcceptTextEdge, AcceptTextEffect DEF processText, SameSnd
  <2> HIDE DEF x
  <2>4. f.rcv.irs = x.rcv.irs /\ f.snd = x.snd
    BY <2>3, HandleFinEffect DEF processFin, SameSnd
  <2> QED BY <2>1, <2>2, <2>3, <2>4 DEF AckMoves, u
<1> QED BY <1>1, <1>2, <1>3

\* And of onSegmentSynchronized.
LEMMA SynchronizedMoves ==
    ASSUME NEW t \in TCB, NEW s \in Segment
    PROVE  AckMoves(t, onSegmentSynchronized(t, s), s)
<1> DEFINE x == tsRecentUpdate(t, s)
           v == processAck(x, s)
           r == handleRst(t, s)
           u == onSegmentSynchronized(t, s)
<1>0. u \in {sendAck(t), r, sendChallengeAck(t)} \/ ("RST" \notin s.flags /\ u = v)
  BY DEF onSegmentSynchronized
<1>1. SameRcv(t, sendAck(t)) /\ SameSnd(t, sendAck(t))
  BY SendAckKeeps DEF Keeps, KeepsRcv
<1>2. SameRcv(t, sendChallengeAck(t)) /\ SameSnd(t, sendChallengeAck(t))
  BY SendChallengeAckKeeps DEF Keeps, KeepsRcv
<1>3. SameRcv(t, r) /\ SameSnd(t, r)
  BY HandleRstEffect DEF KeepsRcv
<1>4. x \in TCB /\ x.rcv = t.rcv /\ x.snd = t.snd
  BY TsRecentUpdateKeeps DEF Keeps, KeepsRcv, SameRcv, SameSnd
<1> HIDE DEF u, r, x
<1>5. "RST" \notin s.flags => AckMoves(x, v, s)
  BY <1>4, ProcessAckMoves
<1> HIDE DEF v
<1>6. AckMoves(t, u, s)
  BY <1>0, <1>1, <1>2, <1>3, <1>4, <1>5 DEF AckMoves, SameRcv, SameSnd
<1> QED BY <1>6 DEF u

\* The arrival of a segment in any state.
LEMMA ArrivalUna ==
    ASSUME NEW t \in TCB, NEW s \in Segment
    PROVE  LET u == onSegment(t, s) IN
             /\ \/ u.snd.una \in {t.snd.una, t.snd.iss}
                \/ Acks(s) /\ u.snd.una = s.ack
             /\ t.state \notin {"Listen", "SynSent"} => u.rcv.irs = t.rcv.irs
<1> DEFINE k == [t EXCEPT !.keepaliveProbes = 0]
           u == onSegment(t, s)
<1>0. 0 \in 0..KeepaliveMaxProbes
  BY TcbAssumption
<1>1. k \in TCB /\ k.state = t.state /\ k.rcv = t.rcv /\ k.snd = t.snd
  BY <1>0 DEF TCB
<1>2. u = CASE k.state = "Closed" -> onSegmentClosed(k, s)
            [] k.state = "Listen" -> onSegmentListen(k, s)
            [] k.state = "SynSent" -> onSegmentSynSent(k, s)
            [] OTHER -> onSegmentSynchronized(k, s)
  BY DEF onSegment
<1> DEFINE P(v) == /\ \/ v.snd.una \in {k.snd.una, k.snd.iss}
                      \/ Acks(s) /\ v.snd.una = s.ack
                   /\ k.state \notin {"Listen", "SynSent"} => v.rcv.irs = k.rcv.irs
<1> SUFFICES P(u)
  BY <1>1
<1> HIDE DEF k, u
<1>3. CASE k.state = "Closed"
  <2>1. u = onSegmentClosed(k, s)
    BY <1>2, <1>3
  <2>2. Replied(k, u)
    BY <1>1, <2>1, OnSegmentClosedEffect
  <2> QED BY <2>2 DEF Replied, SameRcv, SameSnd
<1>4. CASE k.state = "Listen"
  <2>1. u = onSegmentListen(k, s)
    BY <1>2, <1>4
  <2>2. Replied(k, u) \/ u.snd.una = k.snd.iss
    BY <1>1, <1>4, <2>1, ListenForm DEF Rejects
  <2> QED BY <1>4, <2>2 DEF Replied, SameSnd
<1>5. CASE k.state = "SynSent"
  <2>1. u = onSegmentSynSent(k, s)
    BY <1>2, <1>5
  <2>2. Replied(k, u) \/ SameSnd(k, u) \/ Connects(k, u, s) \/ u.snd = k.snd
    BY <1>1, <1>5, <2>1, SynSentForm DEF Rejects
  <2> QED BY <1>5, <2>2 DEF Replied, SameSnd, Connects, Acks
<1>6. CASE k.state \notin {"Closed", "Listen", "SynSent"}
  <2>1. u = onSegmentSynchronized(k, s)
    BY <1>2, <1>6
  <2>2. AckMoves(k, u, s)
    BY <1>1, <2>1, SynchronizedMoves
  <2> QED BY <2>2 DEF AckMoves
<1> QED BY <1>3, <1>4, <1>5, <1>6

-----------------------------------------------------------------------------
(* Acknowledgements.  What a peer believes acknowledged the other one has     *)
(* taken.                                                                     *)

\* A connection that is still to end: its numbers are being acknowledged.
Alive(p) == p \notin opened \/ tcb[p].state # "Closed"

\* p knows its peer's incarnation, and has taken what it tells its application.
Taken(p) == Got(tcb[p], Iss[other(p)])
Counted(p) == Taken(p) = 1 + Arrived(p) + FinBit(tcb[p])
Knows(p) == tcb[p].rcv.irs = Iss[other(p)] /\ Counted(p)

\* What p wrote in a step.
Fresh(p) == net'[other(p)] \ net[other(p)]

\* A step of p that takes nothing, its peer's SYN or one of a former incarnation,
\* or more of the stream.
Remains(p) ==
    /\ tcb'[p].rcv.irs = tcb[p].rcv.irs /\ tcb'[p].rcv.nxt = tcb[p].rcv.nxt
    /\ Arrived(p)' = Arrived(p) /\ tcb'[p].fin.seen = tcb[p].fin.seen
    /\ Unaware(p) => /\ Unaware(p)' /\ tcb'[p].reached = tcb[p].reached
                     /\ Hushed(tcb[p]) => Hushed(tcb'[p]) /\ \A e \in Fresh(p) : ~Acks(e)
Meets(p, s) ==
    /\ "SYN" \in s.flags /\ "RST" \notin s.flags
    /\ tcb'[p].rcv.irs = s.seq /\ tcb'[p].rcv.nxt = SeqAdd(s.seq, 1)
    /\ tcb'[p].state \in {"SynReceived", "Established"}
    /\ tcb'[p].state = "SynReceived" \/ "ACK" \in s.flags
    /\ tcb[p].state \in {"Listen", "SynSent"} /\ (tcb[p].state = "Listen" => "ACK" \notin s.flags)
    /\ SameBuffers(tcb[p], tcb'[p]) /\ nread'[p] = nread[p]
    /\ \A e \in Fresh(p) : Acks(e) => e.ack = tcb'[p].rcv.nxt
Continues(p) == tcb'[p].rcv.irs = tcb[p].rcv.irs /\ Counted(p)'

Answers(p) ==
    /\ \A e \in Fresh(p) : Acks(e) => e.ack \in {tcb[p].rcv.nxt, tcb'[p].rcv.nxt}
    /\ \/ tcb'[p].snd.una \in {tcb[p].snd.una, Iss[p]}
       \/ \E s \in net[p] : Acks(s) /\ tcb'[p].snd.una = s.ack
    /\ p \in opened /\ tcb[p].state = "Closed" => tcb'[p].state = "Closed"
    /\ ~Talks(p) => tcb'[p].state \in Early \cup {"Closed"}
    /\ \/ Remains(p)
       \/ Unaware(p) /\ \E s \in net[p] : Meets(p, s)
       \/ ~Unaware(p) /\ Continues(p)

\* The TCB after the step, and what it wrote.
Turns(p, t) == /\ tcb' = [tcb EXCEPT ![p] = [t EXCEPT !.out = {}]]
               /\ net'[other(p)] \subseteq net[other(p)] \cup t.out

\* A step that writes only what is in out.
LEMMA BecomesTurns ==
    ASSUME DuplexInv, NEW p \in Peer, NEW t, Becomes(p, t)
    PROVE  Turns(p, t)
<1>1. net \in [Peer -> SUBSET Segment] /\ other(p) \in Peer
  BY PeerInv, OtherPeer DEF TypeOK
<1> QED BY <1>1 DEF Becomes, Turns

\* What p wrote was in out.
LEMMA FreshOut ==
    ASSUME DuplexInv, StreamInv, NEW p \in Peer, NEW t \in TCB, Turns(p, t)
    PROVE  LET u == tcb'[p] IN
             /\ u.state = t.state /\ u.rcv = t.rcv /\ u.fin = t.fin /\ u.rcvBuf = t.rcvBuf
             /\ u.oooSegs = t.oooSegs /\ u.sndBuf = t.sndBuf /\ u.tmr = t.tmr
             /\ u.retxQueue = t.retxQueue /\ u.reached = t.reached /\ u.snd = t.snd
             /\ tcb[p].out = {} /\ Fresh(p) \subseteq t.out
             /\ Deaf(t, OldSyns) => Deaf(u, OldSyns)
             /\ Hushed(t) => Hushed(u)
<1> DEFINE u == [t EXCEPT !.out = {}]
<1>1. /\ u.state = t.state /\ u.rcv = t.rcv /\ u.fin = t.fin /\ u.rcvBuf = t.rcvBuf
      /\ u.oooSegs = t.oooSegs /\ u.sndBuf = t.sndBuf /\ u.tmr = t.tmr
      /\ u.retxQueue = t.retxQueue /\ u.reached = t.reached /\ u.snd = t.snd
  BY OutEmptied
<1>2. tcb'[p] = u
  BY PeerInv DEF TypeOK, Turns
<1> HIDE DEF u
<1>3. tcb[p].out = {} /\ Fresh(p) \subseteq t.out
  BY DEF StreamInv, Fresh, Turns
<1>4. \A olds : Deaf(t, olds) => Deaf(u, olds)
  BY <1>1 DEF Deaf, Empty, Unmet
<1>5. Hushed(t) => Hushed(u)
  BY <1>1 DEF Hushed
<1> QED BY <1>1, <1>2, <1>3, <1>4, <1>5

\* What is written quotes RCV.NXT.
LEMMA FreshQuotes ==
    ASSUME DuplexInv, StreamInv, NEW p \in Peer, NEW t, Fresh(p) \subseteq t.out,
           NEW n, NEW acks, Numbered(tcb[p], n), Says(tcb[p], t, n, acks)
    PROVE  \A e \in Fresh(p) : Acks(e) => e.ack \in acks
<1>1. tcb[p].out = {}
  BY DEF StreamInv
<1> QED BY <1>1 DEF Says, Spoken, Quotes, Acks

\* The steps that leave the receiving side alone.
LEMMA RemainsBy ==
    ASSUME DuplexInv, StreamInv, NEW p \in Peer, NEW t \in TCB, Turns(p, t),
           nread' = nread, SameBuffers(tcb[p], t),
           t.rcv.irs = tcb[p].rcv.irs, t.rcv.nxt = tcb[p].rcv.nxt,
           Unaware(p) => /\ Deaf(t, OldSyns) /\ t.reached = tcb[p].reached
                         /\ Hushes(tcb[p], t)
    PROVE  Remains(p)
<1> DEFINE u == tcb'[p]
<1>2. /\ u.rcv = t.rcv /\ u.fin = t.fin /\ u.rcvBuf = t.rcvBuf /\ u.reached = t.reached
      /\ tcb[p].out = {} /\ Fresh(p) \subseteq t.out
  BY FreshOut
<1>h. Hushed(t) => Hushed(u)
  BY FreshOut
<1>d. Deaf(t, OldSyns) => Deaf(u, OldSyns)
  BY FreshOut
<1>3. u.fin = tcb[p].fin /\ u.rcvBuf = tcb[p].rcvBuf
  BY <1>2 DEF SameBuffers
<1>4. Arrived(p)' = Arrived(p)
  BY <1>3 DEF Arrived
<1>5. Unaware(p) => Unaware(p)' /\ u.reached = tcb[p].reached
  BY <1>2, <1>d DEF Unaware
<1>6. Unaware(p) /\ Hushed(tcb[p]) => Hushed(u) /\ \A e \in Fresh(p) : ~Acks(e)
  BY <1>2, <1>h DEF Hushes, NoAcks
<1> QED BY <1>2, <1>3, <1>4, <1>5, <1>6 DEF Remains

\* Time passes, the application closes.
LEMMA StayAnswers ==
    ASSUME DuplexInv, StreamInv, NEW p \in Peer, NEW t \in TCB, Becomes(p, t),
           nread' = nread, Goes(tcb[p], t),
           Says(tcb[p], t, nsent[p], {tcb[p].rcv.nxt}),
           Silent(p) => Mute(t) /\ t.out = tcb[p].out,
           t.snd.una = tcb[p].snd.una, t.reached = tcb[p].reached, Hushes(tcb[p], t)
    PROVE  Answers(p)
<1> DEFINE u == tcb'[p]
           k == tcb[p]
<1>1. Turns(p, t)
  BY BecomesTurns
<1>2. /\ u.state = t.state /\ u.snd = t.snd /\ u.rcv = t.rcv
      /\ k.out = {} /\ Fresh(p) \subseteq t.out
  BY <1>1, FreshOut
<1>3. Silent(p) \/ Talks(p)
  BY DEF StreamInv
<1>4. \A e \in Fresh(p) : Acks(e) => e.ack \in {k.rcv.nxt}
  <2>1. CASE Silent(p)
    BY <1>2, <2>1
  <2>2. CASE Talks(p)
    BY <1>2, <2>2, FreshQuotes DEF Talks
  <2> QED BY <1>3, <2>1, <2>2
<1>5. k.state = "Closed" => u.state = "Closed"
  BY <1>2 DEF Goes
<1>6. ~Talks(p) => u.state \in Early \cup {"Closed"}
  BY <1>2, <1>3 DEF Mute, Early
<1>7. Unaware(p) => Deaf(t, OldSyns)
  BY GoesDeaf DEF Unaware
<1>8. SameBuffers(k, t) /\ t.rcv = k.rcv
  BY DEF Goes, SameRcv, SameBuffers
<1>9. Remains(p)
  BY <1>1, <1>7, <1>8, RemainsBy
<1> QED BY <1>2, <1>4, <1>5, <1>6, <1>9 DEF Answers

\* Timers, Close and the passing of time.
LEMMA TimerAnswers ==
    ASSUME DuplexInv, GivenOnly, Modest, StreamInv, NEW p \in Peer, Timer(p)
    PROVE  Answers(p)
<1>1. PICK due \in SUBSET armed(tcb[p]) : Becomes(p, Tick(tcb[p], due))
  BY DEF Timer
<1>2. nread' = nread
  BY DEF Timer
<1>3. tcb[p] \in TCB /\ Fits(nsent[p])
  BY PeerStream
<1> DEFINE t == Tick(tcb[p], due)
<1>4. Tells(tcb[p], t, nsent[p]) /\ Goes(tcb[p], t)
  BY <1>3, TickTells, TickGoes
<1>5. Silent(p) => Mute(t) /\ t.out = tcb[p].out
  BY <1>3, MuteTick DEF Silent
<1>6. t.snd.una = tcb[p].snd.una /\ t.reached = tcb[p].reached /\ Hushes(tcb[p], t)
  BY <1>3, TickUna, TickHushes, TickEffect DEF TickPart, KeepsOrCloses
<1>7. Becomes(p, t)
  BY <1>1
<1> HIDE DEF t
<1>8. t \in TCB /\ Says(tcb[p], t, nsent[p], {tcb[p].rcv.nxt})
  BY <1>4 DEF Tells, Says
<1> QED BY <1>2, <1>4, <1>5, <1>6, <1>7, <1>8, StayAnswers

\* Close writes at most a FIN that acknowledges RCV.NXT.
LEMMA AppCloseAnswers ==
    ASSUME DuplexInv, GivenOnly, Modest, StreamInv, NEW p \in Peer, AppClose(p)
    PROVE  Answers(p)
<1> DEFINE t == Close(tcb[p])
<1>1. Becomes(p, t) /\ nread' = nread
  BY DEF AppClose, ghosts
<1>2. tcb[p].state \in CanClose /\ unsent(tcb[p]) <= 0
  BY DEF AppClose, canClose, CanClose, Modest, NoEagerClose
<1>3. tcb[p] \in TCB /\ Fits(nsent[p])
  BY PeerStream
<1>4. Tells(tcb[p], t, nsent[p]) /\ Goes(tcb[p], t)
  BY <1>2, <1>3, CloseTells, CloseGoes
<1>5. Silent(p) => Mute(t) /\ t.out = tcb[p].out
  BY <1>2, <1>3, MuteClose DEF Silent
<1>6. t.snd.una = tcb[p].snd.una /\ t.reached = tcb[p].reached /\ Hushes(tcb[p], t)
  BY <1>2, <1>3, CloseUna, CloseHushes, CloseEffect
<1> HIDE DEF t
<1>7. t \in TCB /\ Says(tcb[p], t, nsent[p], {tcb[p].rcv.nxt})
  BY <1>4 DEF Tells, Says
<1> QED BY <1>1, <1>4, <1>5, <1>6, <1>7, StayAnswers

\* Time that passes writes nothing.
LEMMA QuietAnswers ==
    ASSUME DuplexInv, GivenOnly, Modest, StreamInv, NEW p \in Peer,
           ChallengeWindowPasses(p) \/ ClockAdvances(p)
    PROVE  Answers(p)
<1>1. tcb[p] \in TCB
  BY PeerInv
<1>2. PICK t : /\ Becomes(p, t) /\ Keeps(tcb[p], t) /\ SameSnd(tcb[p], t)
               /\ t.out = tcb[p].out /\ t.tmr = tcb[p].tmr
  <2>1. CASE ChallengeWindowPasses(p)
    <3> DEFINE u == challengeWindowPasses(tcb[p])
    <3>1. u.out = tcb[p].out /\ u.tmr = tcb[p].tmr
      BY <1>1 DEF challengeWindowPasses, TCB
    <3>2. Becomes(p, u) /\ Keeps(tcb[p], u) /\ SameSnd(tcb[p], u)
      BY <1>1, <2>1, ChallengeWindowKeeps DEF ChallengeWindowPasses
    <3> QED BY <3>1, <3>2
  <2>2. CASE ClockAdvances(p)
    <3> DEFINE u == [tcb[p] EXCEPT !.ts.now = @ + 1]
    <3>1. u.out = tcb[p].out /\ u.tmr = tcb[p].tmr
      BY <1>1 DEF TCB
    <3>2. Becomes(p, u)
      BY <2>2 DEF ClockAdvances
    <3>3. Keeps(tcb[p], u) /\ SameSnd(tcb[p], u)
      BY <2>2, ClockKeeps
    <3> QED BY <3>1, <3>2, <3>3
  <2> QED BY <2>1, <2>2
<1>3. nread' = nread
  BY DEF ChallengeWindowPasses, ClockAdvances, ghosts
<1>4. t \in TCB /\ t.state = tcb[p].state /\ t.reached = tcb[p].reached /\ t.snd.una = tcb[p].snd.una
  BY <1>2 DEF Keeps, KeepsRcv, SameRcv, SameSnd
<1>5. Says(tcb[p], t, nsent[p], {tcb[p].rcv.nxt})
  <2>1. Calm(tcb[p], t) /\ QuietState(tcb[p].state, t.state) /\ Utters(tcb[p], t)
    BY <1>2, <1>4, SameSndCalm, SameOutUtters DEF QuietState
  <2> QED BY <1>1, <1>4, <2>1, QuietSays
<1>6. Silent(p) => Mute(t) /\ t.out = tcb[p].out
  BY <1>2, <1>4 DEF Silent, Mute, SameSnd
<1>7. Goes(tcb[p], t)
  BY <1>2, KeepsGoes
<1>8. Hushes(tcb[p], t)
  <2>1. Hushed(tcb[p]) => Hushed(t)
    BY <1>2, <1>4, HushedSame, SameQueueRefl DEF SameSnd
  <2> QED BY <1>2, <2>1 DEF Hushes, NoAcks
<1> QED BY <1>2, <1>3, <1>4, <1>5, <1>6, <1>7, <1>8, StayAnswers

\* Open, Send and Recv.
LEMMA OpenAnswers ==
    ASSUME DuplexInv, GivenOnly, Modest, StreamInv, NEW p \in Peer, Open(p)
    PROVE  Answers(p)
<1> DEFINE k == tcb[p]
           u == tcb'[p]
<1>1. k \in TCB /\ k.out = {} /\ k.snd.iss = Iss[p] /\ Iss[p] \in SeqNum
  BY PeerStream
<1>2. p \notin opened /\ nread' = nread
  BY DEF Open
<1>3. Silent(p) /\ Unaware(p)
  BY <1>2, UnopenedPeer
<1>4. Mute(k) /\ nread[p] = 0 /\ Deaf(k, OldSyns)
  BY <1>3 DEF Silent, Unaware
<1>5. PICK t \in TCB : /\ Becomes(p, t) /\ t.snd.una \in {k.snd.una, Iss[p]}
                       /\ SameBuffers(k, t) /\ t.state \in {"Listen", "SynSent"}
                       /\ Hushed(t) /\ NoAcks(k, t) /\ t.reached = k.reached
                       /\ t.rcv.irs = k.rcv.irs /\ t.rcv.nxt = k.rcv.nxt
  <2>1. CASE Becomes(p, ActiveOpen(k, Iss[p]))
    <3> DEFINE v == ActiveOpen(k, Iss[p])
    <3>1. v \in TCB
      BY <1>1, <1>4, ActiveOpenSays
    <3>2. SameBuffers(k, v) /\ v.state = "SynSent"
      BY <1>1, ActiveOpenEffect
    <3>3. /\ Hushed(v) /\ NoAcks(k, v) /\ v.reached = k.reached
          /\ v.rcv.irs = k.rcv.irs /\ v.rcv.nxt = k.rcv.nxt /\ v.snd.una = Iss[p]
      BY <1>1, <1>4, OpenHushes
    <3>4. Becomes(p, v)
      BY <2>1
    <3> HIDE DEF v, k
    <3> QED BY <3>1, <3>2, <3>3, <3>4
  <2>2. CASE Becomes(p, PassiveOpen(k))
    <3> DEFINE v == PassiveOpen(k)
    <3>1. v \in TCB
      BY <1>1, <1>4, MuteOpen
    <3>2. SameBuffers(k, v) /\ v.state = "Listen"
      BY <1>1, PassiveOpenEffect
    <3>3. /\ Hushed(v) /\ NoAcks(k, v) /\ v.reached = k.reached
          /\ v.rcv.irs = k.rcv.irs /\ v.rcv.nxt = k.rcv.nxt /\ v.snd.una = k.snd.una
      BY <1>1, <1>4, OpenHushes
    <3>4. Becomes(p, v)
      BY <2>2
    <3> HIDE DEF v, k
    <3> QED BY <3>1, <3>2, <3>3, <3>4
  <2> QED BY <2>1, <2>2 DEF Open
<1>6. Turns(p, t)
  BY <1>5, BecomesTurns
<1>7. u.state = t.state /\ u.snd = t.snd /\ Fresh(p) \subseteq t.out
  BY <1>6, FreshOut
<1>8. Deaf(t, OldSyns)
  BY <1>4, <1>5 DEF Deaf, Empty, Unmet, SameBuffers
<1>9. Remains(p)
  BY <1>2, <1>5, <1>6, <1>8, RemainsBy DEF Hushes
<1>10. \A e \in Fresh(p) : ~Acks(e)
  BY <1>1, <1>5, <1>7 DEF NoAcks
<1> QED BY <1>2, <1>5, <1>7, <1>9, <1>10 DEF Answers, Early

\* Send writes ACKs of RCV.NXT.
LEMMA AppSendAnswers ==
    ASSUME DuplexInv, GivenOnly, Modest, StreamInv, NEW p \in Peer, AppSend(p)
    PROVE  Answers(p)
<1> DEFINE k == tcb[p]
           n == nsent[p]
           u == tcb'[p]
<1>1. k \in TCB /\ k.out = {} /\ n \in Nat /\ AppBytes[p] \in Nat /\ Fits(AppBytes[p])
  BY PeerStream
<1>2. k.state \in {"Established", "CloseWait"} /\ nread' = nread
  BY DEF AppSend
<1>3. PICK m \in SendSizes :
        n + m <= AppBytes[p] /\ Becomes(p, Send(k, [i \in 1..m |-> n + i]))
  BY DEF AppSend
<1>4. m \in Nat \ {0}
  BY DuplexAssumption
<1> DEFINE data == [i \in 1..m |-> n + i]
           t == Send(k, data)
<1>5. data \in Seq(Nat) /\ Len(data) = m /\ \A i \in 1..Len(data) : data[i] = n + i
  <2>1. data \in [1..m -> Nat] /\ DOMAIN data = 1..m /\ \A i \in 1..m : data[i] = n + i
    BY <1>1, <1>4
  <2> HIDE DEF data
  <2>2. data \in Seq(Nat)
    BY <1>4, <2>1, FcnIsSeq
  <2>3. Len(data) = m
    BY <1>4, <2>1, <2>2, LenProperties
  <2> QED BY <2>1, <2>2, <2>3
<1>6. Becomes(p, t)
  BY <1>3
<1> HIDE DEF data
<1>7. Talks(p) /\ Numbered(k, n)
  <2>1. ~Silent(p)
    BY <1>2 DEF Silent, Mute
  <2> QED BY <2>1 DEF StreamInv, Talks
<1>8. Fits(n + m)
  <2> DEFINE b == AppBytes[p]
  <2>1. n \in Nat /\ m \in Nat /\ b \in Nat /\ n + m <= b /\ b + DefaultMSS + 4 <= HalfSeqSpace
    BY <1>1, <1>3, <1>4 DEF Fits
  <2> HIDE DEF b, n
  <2>2. DefaultMSS \in Nat /\ HalfSeqSpace \in Nat
    BY TcbAssumption, HalfSeqSpaceAssumption
  <2>3. n + m + DefaultMSS + 4 <= HalfSeqSpace /\ n + m \in Nat
    BY <2>1, <2>2
  <2> QED BY <2>3 DEF Fits
<1>9. m \in Nat
  BY <1>4
<1> HIDE DEF t, k, n
<1>10. /\ Keeps(k, t) /\ t.snd.una = k.snd.una /\ t.rcv = k.rcv
       /\ \A e \in t.out : e \in k.out \/ Spoken(e, t, n + m, {k.rcv.nxt})
  <2>1. Keeps(k, Send(k, data)) /\ Send(k, data).snd.una = k.snd.una /\ Send(k, data).rcv = k.rcv
    BY <1>1, <1>5, SendUserDataKeeps, SendUna
  <2>2. LET w == Send(k, data) IN
             \A e \in w.out : e \in k.out \/ Spoken(e, w, n + m, {k.rcv.nxt})
    BY <1>1, <1>2, <1>5, <1>7, <1>8, <1>9, SendTells
  <2> QED BY <2>1, <2>2 DEF t
<1>11. t \in TCB /\ t.state = k.state /\ t.reached = k.reached /\ Goes(k, t)
  BY <1>10, KeepsGoes DEF Keeps, KeepsRcv, SameRcv
<1>12. Turns(p, t)
  BY <1>6, <1>11, BecomesTurns
<1>13. u.state = t.state /\ u.snd = t.snd /\ Fresh(p) \subseteq t.out
  BY <1>11, <1>12, FreshOut
<1>14. Hushes(k, t)
  BY <1>2 DEF Hushes, Hushed
<1>15. SameBuffers(k, t) /\ t.rcv = k.rcv
  BY <1>11 DEF Goes, SameRcv, SameBuffers
<1>16. Unaware(p) => Deaf(t, OldSyns)
  BY <1>11, GoesDeaf DEF Unaware, k
<1>17. Remains(p)
  BY <1>2, <1>11, <1>12, <1>14, <1>15, <1>16, RemainsBy DEF k
<1>18. \A e \in Fresh(p) : Acks(e) => e.ack \in {k.rcv.nxt}
  BY <1>1, <1>10, <1>13 DEF Spoken, Quotes, Acks
<1>19. k.state # "Closed"
  BY <1>2
<1> QED BY <1>7, <1>10, <1>13, <1>17, <1>18, <1>19 DEF Answers, k

\* Recv writes at most a window update.
LEMMA AppRecvAnswers ==
    ASSUME DuplexInv, GivenOnly, Modest, StreamInv, NEW p \in Peer, AppRecv(p)
    PROVE  Answers(p)
<1> DEFINE k == tcb[p]
           r == nread[p]
           u == tcb'[p]
<1>1. k \in TCB /\ k.out = {} /\ r \in Nat /\ TypeOK
  BY PeerStream, PeerInv
<1>3. PICK m \in 1..Len(k.rcvBuf) :
        Becomes(p, Recv(k, m)) /\ nread' = [nread EXCEPT ![p] = @ + m]
  BY DEF AppRecv
<1>4. m \in Nat \ {0} /\ Len(k.rcvBuf) \in Nat /\ m <= Len(k.rcvBuf)
  <2>1. Len(k.rcvBuf) \in Nat
    BY <1>1, TcbParts, LenProperties
  <2> HIDE DEF k
  <2> QED BY <2>1
<1>5. k.rcvBuf # <<>>
  BY <1>4, EmptySeq
<1>6. ~Unaware(p)
  BY <1>5 DEF Unaware, Deaf, Empty
<1> DEFINE t == Recv(k, m)
<1>7. Says(k, t, nsent[p], {k.rcv.nxt})
  BY <1>1, RecvSays
<1>8. Mute(k) => Mute(t) /\ t.out = k.out
  BY <1>1, MuteRecv
<1>9. Becomes(p, t)
  BY <1>3
<1>10. /\ t \in TCB /\ t.state = k.state /\ t.rcv.nxt = k.rcv.nxt /\ t.fin = k.fin
       /\ t.rcv.irs = k.rcv.irs /\ t.rcvBuf = SubSeq(k.rcvBuf, m + 1, Len(k.rcvBuf))
  BY <1>1, RecvForm
<1>11. t.snd = k.snd
  BY <1>1, RecvInv DEF SameSnd
<1> HIDE DEF t
<1>12. Len(t.rcvBuf) = Len(k.rcvBuf) - m
  <2>1. k.rcvBuf \in Seq(Nat)
    BY <1>1, TcbParts
  <2> HIDE DEF k
  <2>2. m + 1 \in Nat /\ Len(k.rcvBuf) \in Nat /\ m + 1 <= Len(k.rcvBuf) + 1 /\ m + 1 \in 1..(Len(k.rcvBuf) + 1)
    BY <1>4
  <2>3. Len(SubSeq(k.rcvBuf, m + 1, Len(k.rcvBuf))) =
          IF m + 1 <= Len(k.rcvBuf) THEN Len(k.rcvBuf) - (m + 1) + 1 ELSE 0
    BY <2>1, <2>2, SubSeqProperties
  <2> QED BY <1>4, <1>10, <2>3
<1>13. Turns(p, t)
  BY <1>9, <1>10, BecomesTurns
<1>14. /\ u.state = t.state /\ u.snd = t.snd /\ u.rcv = t.rcv /\ u.fin = t.fin /\ u.rcvBuf = t.rcvBuf
       /\ Fresh(p) \subseteq t.out
  BY <1>10, <1>13, FreshOut
<1>15. Arrived(p)' = Arrived(p)
  <2>1. nread'[p] = r + m
    BY <1>1, <1>3 DEF TypeOK
  <2>2. Arrived(p)' = r + m + Len(t.rcvBuf)
    BY <1>14, <2>1 DEF Arrived
  <2>3. Arrived(p) = r + Len(k.rcvBuf)
    BY DEF Arrived
  <2>4. \A x, y, z \in Nat : x + y + (z - y) = x + z
    OBVIOUS
  <2>5. m \in Nat
    BY <1>4
  <2> HIDE DEF k, r
  <2>6. r + m + (Len(k.rcvBuf) - m) = r + Len(k.rcvBuf)
    BY <1>1, <1>4, <2>4, <2>5
  <2> QED BY <1>12, <2>2, <2>3, <2>6
<1>16. Remains(p)
  BY <1>6, <1>10, <1>14, <1>15 DEF Remains
<1>17. Silent(p) \/ Talks(p)
  BY DEF StreamInv
<1>18. \A e \in Fresh(p) : Acks(e) => e.ack \in {k.rcv.nxt}
  <2>1. CASE Silent(p)
    BY <1>1, <1>8, <1>14, <2>1 DEF Silent
  <2>2. CASE Talks(p)
    BY <1>7, <1>14, <2>2, FreshQuotes DEF Talks
  <2> QED BY <1>17, <2>1, <2>2
<1>19. ~Talks(p) => u.state \in Early \cup {"Closed"}
  BY <1>10, <1>14, <1>17 DEF Silent, Mute, Early
<1> QED BY <1>10, <1>11, <1>14, <1>16, <1>18, <1>19 DEF Answers

\* A segment that arrives.
LEMMA SilentArrival ==
    ASSUME DuplexInv, GivenOnly, Modest, StreamInv, NEW p \in Peer, NEW s \in net[p], ~Talks(p)
    PROVE  LET t == onSegment(tcb[p], s) IN
             /\ t.state \in Early \cup {"Closed"}
             /\ \A e \in t.out : Acks(e) => e.ack = t.rcv.nxt
<1> DEFINE c == tcb[p]
           k == [c EXCEPT !.keepaliveProbes = 0]
           t == onSegment(c, s)
<1>1. c \in TCB /\ c.out = {} /\ s \in Segment
  BY PeerStream, InFlight
<1>2. Mute(c)
  BY DEF StreamInv, Silent
<1>3. 0 \in 0..KeepaliveMaxProbes
  BY TcbAssumption
<1> HIDE DEF c
<1>4. k \in TCB /\ k.state = c.state /\ k.out = {}
  BY <1>1, <1>3 DEF TCB
<1>5. t = IF k.state = "Closed" THEN onSegmentClosed(k, s) ELSE onSegmentListen(k, s)
  BY <1>2, <1>4 DEF onSegment, Mute
<1> HIDE DEF k, t
<1>c. k.state = "Closed" => Rejects(k, t, s)
  BY <1>1, <1>4, <1>5, ClosedRejects
<1>l. k.state = "Listen" => Rejects(k, t, s) \/ Greets(k, t, s)
  <2>1. CASE k.state = "Listen"
    <3>1. t = onSegmentListen(k, s)
      BY ONLY <1>5, <2>1
    <3>2. LET u == onSegmentListen(k, s) IN
            \/ Rejects(k, u, s) /\ u.tmr = k.tmr
            \/ /\ Greets(k, u, s) /\ "ACK" \notin s.flags
               /\ u.snd.una = k.snd.iss /\ u.snd.nxt = SeqAdd(k.snd.iss, 1)
      BY <1>1, <1>4, <2>1, ListenForm
    <3> QED BY ONLY <3>1, <3>2
  <2> QED BY <2>1
<1>6. \/ Rejects(k, t, s)
      \/ k.state = "Listen" /\ Greets(k, t, s)
  BY <1>2, <1>4, <1>c, <1>l DEF Mute
<1>7. t.state \in Early \cup {"Closed"}
  BY <1>2, <1>4, <1>6 DEF Rejects, Replied, Greets, SynTaken, Early, Mute
<1>8. \A e \in t.out : Acks(e) => e.ack = t.rcv.nxt
  BY <1>4, <1>6 DEF Rejects, ResetOf, Greets, Adds, Acks
<1> QED BY <1>7, <1>8 DEF t, c

\* A connection that has heard nothing takes a SYN, or nothing.
LEMMA UnawareMeets ==
    ASSUME DuplexInv, GivenOnly, Modest, StreamInv, NEW p \in Peer, NEW s \in net[p], Unaware(p),
           nread' = nread, NEW t, t = onSegment(tcb[p], s), Turns(p, t)
    PROVE  Remains(p) \/ Meets(p, s)
<1> DEFINE k == tcb[p]
           q == other(p)
           iss == Iss[q]
           n == nsent[q]
           x == IF Talks(q) THEN Nxt(tcb[q]) ELSE 0
           u == tcb'[p]
<1>1. k \in TCB /\ k.out = {} /\ q \in Peer /\ Deaf(k, OldSyns)
  BY PeerStream, OtherPeer DEF Unaware
<1>2. iss \in SeqNum /\ Fits(n) /\ \A o \in OldSyns : FarFrom(iss, n, o)
  BY <1>1, PeerStream
<1>3. s \in Segment /\ (Odd(s, OldSyns) \/ OwnText(s, iss, n, x))
  BY InFlight
<1>4. OldSyns \in SUBSET SeqNum
  BY DuplexAssumption
<1>5. x \in Nat /\ x <= n + 2
  <2>1. Talks(q) => Nxt(tcb[q]) \in Nat /\ Nxt(tcb[q]) <= n + 2
    BY <1>1, TalksFacts
  <2>2. n \in Nat
    BY <1>2 DEF Fits
  <2>3. 0 \in Nat /\ 0 <= n + 2
    BY <2>2
  <2> QED BY <2>1, <2>3
<1> HIDE DEF k, iss, n, x
<1>6. Deafens(k, t) \/ Begins(k, t, s)
  BY <1>1, <1>2, <1>3, <1>4, <1>5, DeafSegment DEF k
<1>7. Hushes(k, t) \/ Begins(k, t, s)
  BY <1>1, <1>3, ArrivalHushes DEF k
<1>8. CASE Begins(k, t, s)
  <2>1. t \in TCB
    BY <1>8 DEF Begins
  <2>2. /\ u.state = t.state /\ u.rcv = t.rcv /\ u.fin = t.fin /\ u.rcvBuf = t.rcvBuf
        /\ u.oooSegs = t.oooSegs /\ Fresh(p) \subseteq t.out
    BY <2>1, FreshOut
  <2>3. SameBuffers(k, u)
    BY <1>8, <2>2 DEF Begins, SameBuffers
  <2>4. \A e \in Fresh(p) : Acks(e) => e.ack = u.rcv.nxt
    BY <1>1, <1>8, <2>2 DEF Begins, Quotes, Acks
  <2>5. Meets(p, s)
    BY <1>8, <2>2, <2>3, <2>4 DEF Begins, Meets, k
  <2> QED BY <2>5
<1>9. CASE ~Begins(k, t, s)
  <2>1. Deafens(k, t) /\ Hushes(k, t)
    BY <1>6, <1>7, <1>9
  <2>2. t \in TCB /\ t.rcv = k.rcv /\ SameBuffers(k, t) /\ t.reached = k.reached
    BY <2>1 DEF Deafens, SameRcv, SameBuffers
  <2>3. Deaf(t, OldSyns)
    BY <1>1, <2>1, StillDeaf
  <2>4. Remains(p)
    BY <2>1, <2>2, <2>3, RemainsBy DEF k
  <2> QED BY <2>4
<1> QED BY <1>8, <1>9

\* onSegment.
LEMMA ArrivalAnswers ==
    ASSUME DuplexInv, GivenOnly, Modest, StreamInv, NEW p \in Peer, NEW s \in net[p],
           UNCHANGED <<opened, nsent, nread>>, NEW t, t = onSegment(tcb[p], s), Turns(p, t),
           t \in TCB
    PROVE  Answers(p)
<1> DEFINE k == tcb[p]
           u == tcb'[p]
           q == other(p)
<1>1. k \in TCB /\ k.out = {} /\ k.snd.iss = Iss[p] /\ Fits(nsent[p])
  BY PeerStream
<1>2. s \in Segment /\ FinAlone(s)
  BY InFlight, StreamFinAlone
<1>3. /\ u.state = t.state /\ u.rcv = t.rcv /\ u.fin = t.fin /\ u.rcvBuf = t.rcvBuf /\ u.snd = t.snd
      /\ Fresh(p) \subseteq t.out
  BY FreshOut
<1>d. Deaf(t, OldSyns) => Deaf(u, OldSyns)
  BY FreshOut
<1>4. \A e \in Fresh(p) : Acks(e) => e.ack \in {k.rcv.nxt, t.rcv.nxt}
  <2>1. CASE Talks(p)
    <3>1. Says(k, t, nsent[p], {k.rcv.nxt, t.rcv.nxt}) \/ Rejects(k, t, s)
      BY <1>1, <1>2, OnSegmentSays
    <3>2. CASE Says(k, t, nsent[p], {k.rcv.nxt, t.rcv.nxt})
      BY <1>3, <2>1, <3>2, FreshQuotes DEF Talks
    <3>3. CASE Rejects(k, t, s)
      BY <1>1, <1>3, <3>3 DEF Rejects, ResetOf, Acks
    <3> QED BY <3>1, <3>2, <3>3
  <2>2. CASE ~Talks(p)
    BY <1>3, <2>2, SilentArrival
  <2> QED BY <2>1, <2>2
<1>5. /\ t.snd.una \in {k.snd.una, Iss[p]} \/ (Acks(s) /\ t.snd.una = s.ack)
      /\ k.state \notin {"Listen", "SynSent"} => t.rcv.irs = k.rcv.irs
  BY <1>1, <1>2, ArrivalUna
<1>6. k.state = "Closed" => t.state = "Closed"
  BY <1>1, <1>2, OnSegmentEffect
<1>7. ~Talks(p) => t.state \in Early \cup {"Closed"}
  BY SilentArrival
<1>8. Unaware(p) => Remains(p) \/ Meets(p, s)
  BY UnawareMeets
<1>9. ~Unaware(p) => Continues(p)
  <2> SUFFICES ASSUME ~Unaware(p) PROVE Continues(p)
    OBVIOUS
  <2>1. Hearing(p)
    BY DEF StreamInv
  <2>2. u.rcv.irs = k.rcv.irs
    BY <1>3, <1>5, <2>1 DEF Hearing, Heard
  <2>3. Got(t, Iss[q]) = 1 + nread[p] + Len(t.rcvBuf) + FinBit(t)
    BY <2>1, HearingArrival
  <2>4. Got(u, Iss[q]) = 1 + nread'[p] + Len(u.rcvBuf) + FinBit(u)
    BY <1>3, <2>3 DEF Got, FinBit
  <2>5. nread[p] \in Nat /\ Len(u.rcvBuf) \in Nat /\ FinBit(u) \in Nat
    <3>1. Len(t.rcvBuf) \in Nat
      BY TcbParts, LenProperties
    <3> QED BY <1>3, <3>1, PeerStream DEF FinBit
  <2>6. \A x, y, z \in Nat : 1 + x + y + z = 1 + (x + y) + z
    OBVIOUS
  <2>7. Got(u, Iss[q]) = 1 + (nread'[p] + Len(u.rcvBuf)) + FinBit(u)
    BY <1>3, <2>4, <2>5, <2>6
  <2>8. Counted(p)'
    BY <2>7 DEF Counted, Taken, Arrived
  <2> QED BY <2>2, <2>8 DEF Continues
<1> QED BY <1>3, <1>4, <1>5, <1>6, <1>7, <1>8, <1>9 DEF Answers

\* A segment that is delivered, or delivered and kept by the network.
LEMMA DeliverAnswers ==
    ASSUME DuplexInv, GivenOnly, Modest, StreamInv, NEW p \in Peer, Deliver(p) \/ Duplicate(p)
    PROVE  Answers(p)
<1>1. UNCHANGED <<opened, nsent, nread>> /\ TypeOK
  BY PeerInv DEF Deliver, Duplicate, ghosts
<1>2. PICK s \in net[p] :
        LET t == onSegment(tcb[p], s) IN
          /\ tcb' = [tcb EXCEPT ![p] = [t EXCEPT !.out = {}]]
          /\ \/ net' = [net EXCEPT ![p] = @ \ {s}, ![other(p)] = @ \cup t.out]
             \/ net' = [net EXCEPT ![other(p)] = @ \cup t.out]
  BY DEF Deliver, Duplicate, Becomes
<1> DEFINE t == onSegment(tcb[p], s)
<1>3. /\ tcb' = [tcb EXCEPT ![p] = [t EXCEPT !.out = {}]]
      /\ \/ net' = [net EXCEPT ![p] = @ \ {s}, ![other(p)] = @ \cup t.out]
         \/ net' = [net EXCEPT ![other(p)] = @ \cup t.out]
  BY <1>2
<1>4. t \in TCB
  BY <1>1, ArrivalGood DEF Good
<1>5. t = onSegment(tcb[p], s)
  OBVIOUS
<1> HIDE DEF t
<1>6. other(p) \in Peer /\ other(p) # p /\ net \in [Peer -> SUBSET Segment]
  BY <1>1, OtherPeer DEF TypeOK
<1>7. net'[other(p)] \subseteq net[other(p)] \cup t.out
  BY <1>3, <1>6
<1>8. Turns(p, t)
  BY <1>3, <1>7 DEF Turns
<1> QED BY <1>1, <1>4, <1>5, <1>8, ArrivalAnswers

\* Every step but a loss moves a peer, and is answered as it must.
LEMMA SomeAnswer ==
    ASSUME DuplexInv, GivenOnly, Modest, StreamInv, Next
    PROVE  \E p \in Peer : Lose(p) \/ ((\E t : Moved(p, t)) /\ Answers(p))
<1>1. PICK p \in Peer :
        \/ Open(p) \/ AppSend(p) \/ AppRecv(p) \/ AppClose(p)
        \/ Timer(p) \/ ChallengeWindowPasses(p) \/ ClockAdvances(p)
        \/ Deliver(p) \/ Duplicate(p) \/ Lose(p)
  BY DEF Next
<1>2. Lose(p) \/ \E t : Moved(p, t)
  BY <1>1, OpenMoved, AppSendMoved, AppRecvMoved, AppCloseMoved, TimerMoved, QuietMoved,
     DeliverMoved
<1>3. Lose(p) \/ Answers(p)
  BY <1>1, OpenAnswers, AppSendAnswers, AppRecvAnswers, AppCloseAnswers, TimerAnswers,
     QuietAnswers, DeliverAnswers
<1> QED BY <1>2, <1>3

\* An ACK of a SYN of a former incarnation; an ACK of what p's peer has taken.
OldAck(a) == \E o \in OldSyns : a = SeqAdd(o, 1)
TrueAck(p, a) == Knows(other(p)) /\ SeqSub(a, Iss[p]) \in 1..Taken(other(p))

\* Every ACK in flight to p, what p has taken from them, and what p's next ACK
\* would say are true.
Ready(p) == Knows(p) \/ OldAck(tcb[p].rcv.nxt) \/ Hushed(tcb[p])
TrueAcks(p) == \A s \in net[p] : Acks(s) => OldAck(s.ack) \/ TrueAck(p, s.ack)
TrueUna(p) ==
    p \in opened /\ Numbered(tcb[p], nsent[p]) /\ Una(tcb[p]) >= 1 =>
        Knows(other(p)) /\ Una(tcb[p]) <= Taken(other(p))
AckInv == \A p \in Peer :
    /\ Unaware(p) \/ Knows(p)
    /\ tcb[p].reached /\ tcb[p].state # "Closed" => Knows(p)
    /\ Alive(p) => TrueAcks(p) /\ TrueUna(p) /\ Ready(other(p))

\* p takes a SYN of a former incarnation for its peer's.
Forgets(p) == Knows(p) /\ ~Knows(p)' /\ Alive(other(p))

\* What the numbers of a peer that talks can be.
LEMMA NumberedFacts ==
    ASSUME NEW t \in TCB, NEW n \in Nat, Numbered(t, n)
    PROVE  /\ Una(t) \in Nat /\ Nxt(t) \in Nat /\ Una(t) <= Nxt(t) /\ Nxt(t) <= n + 2
           /\ t.state \in Early => Una(t) = 0
           /\ t.reached => Una(t) >= 1
           /\ t.state \in {"FinWait2", "TimeWait"} => Una(t) = n + 2
<1>1. Una(t) \in Nat /\ Nxt(t) \in Nat
  BY OffTypes
<1> QED BY <1>1 DEF Numbered, Body, Counts, Phase, Ending

\* The rest of the system in a step of p.
LEMMA OthersSame ==
    ASSUME DuplexInv, NEW p \in Peer, NEW t, Moved(p, t)
    PROVE  LET q == other(p) IN
             /\ tcb'[q] = tcb[q] /\ nsent'[q] = nsent[q] /\ nread'[q] = nread[q]
             /\ net'[p] \subseteq net[p] /\ opened \subseteq opened'
             /\ Knows(q)' = Knows(q) /\ Unaware(q)' = Unaware(q) /\ Taken(q)' = Taken(q)
             /\ Ready(q)' = Ready(q) /\ Hushed(tcb'[q]) = Hushed(tcb[q])
<1> DEFINE q == other(p)
<1>1. q \in Peer /\ q # p /\ tcb \in [Peer -> TCB]
  BY OtherPeer, PeerInv DEF TypeOK
<1>2. tcb'[q] = tcb[q] /\ nsent'[q] = nsent[q] /\ nread'[q] = nread[q]
  BY <1>1 DEF Moved
<1>3. net'[p] \subseteq net[p] /\ opened \subseteq opened'
  BY DEF Moved
<1>4. Taken(q)' = Taken(q)
  BY <1>2 DEF Taken
<1>5. Knows(q)' = Knows(q)
  BY <1>2, <1>4 DEF Knows, Counted, Arrived
<1>6. Unaware(q)' = Unaware(q)
  BY <1>2 DEF Unaware
<1>7. Ready(q)' = Ready(q)
  BY <1>2, <1>5 DEF Ready
<1> QED BY <1>2, <1>3, <1>4, <1>5, <1>6, <1>7

\* What p has taken grows.
LEMMA TakenGrows ==
    ASSUME DuplexInv, NEW p \in Peer, NEW t, Moved(p, t), Knows(p), Knows(p)'
    PROVE  Taken(p) \in Nat \ {0} /\ Taken(p)' \in Nat /\ Taken(p) <= Taken(p)'
<1> DEFINE k == tcb[p]
           u == tcb'[p]
<1>1. /\ Arrived(p) \in Nat /\ Arrived(p)' \in Nat /\ u.fin.seen = t.fin.seen
      /\ Arrived(p)' = nread'[p] + Len(t.rcvBuf) /\ nread[p] \in Nat
  BY StreamValues
<1>2. Len(k.rcvBuf) \in Nat /\ Len(t.rcvBuf) \in Nat
  BY PeerInv, TcbParts, LenProperties DEF Moved
<1>3. Arrived(p) <= Arrived(p)' /\ (k.fin.seen => u.fin.seen)
  <2>1. CASE nread'[p] = nread[p] /\ Grown(k, t)
    BY <1>1, <1>2, <2>1 DEF Grown, Arrived
  <2>2. CASE /\ nread'[p] = nread[p] /\ Len(t.rcvBuf) = Len(k.rcvBuf) /\ t.fin.seen = k.fin.seen
    BY <1>1, <1>2, <2>2 DEF Arrived
  <2>3. CASE /\ t.fin.seen = k.fin.seen /\ nread'[p] + Len(t.rcvBuf) = nread[p] + Len(k.rcvBuf)
    BY <1>1, <1>2, <2>3 DEF Arrived
  <2> QED BY <2>1, <2>2, <2>3 DEF Moved, Flow
<1>4. Taken(p) = 1 + Arrived(p) + FinBit(k) /\ Taken(p)' = 1 + Arrived(p)' + FinBit(u)
  BY DEF Knows, Counted
<1>5. FinBit(k) \in {0, 1} /\ FinBit(u) \in {0, 1} /\ FinBit(k) <= FinBit(u)
  BY <1>3 DEF FinBit
<1> QED BY <1>1, <1>3, <1>4, <1>5

\* What a step can be to what p knows.
Learns(p) == /\ Unaware(p) /\ Knows(p)'
             /\ \A e \in Fresh(p) : Acks(e) => e.ack = tcb'[p].rcv.nxt
Misled(p) == /\ Unaware(p) /\ Unaware(p)' /\ tcb'[p].state = "SynReceived"
             /\ OldAck(tcb'[p].rcv.nxt)
             /\ \A e \in Fresh(p) : Acks(e) => e.ack = tcb'[p].rcv.nxt
Follows(p) == Knows(p) /\ Knows(p)'

\* The SYN that begins a connection is the peer's, or an old one.
LEMMA SynsKnown ==
    ASSUME DuplexInv, StreamInv, NEW p \in Peer, NEW s \in net[p], Meets(p, s)
    PROVE  \/ s.seq = Iss[other(p)]
           \/ s.seq \in OldSyns /\ tcb'[p].state = "SynReceived"
<1> DEFINE q == other(p)
<1>1. s \in Segment /\ (Odd(s, OldSyns) \/ OwnText(s, Iss[q], nsent[q], Nxt(tcb[q])))
  BY InFlight
<1>2. "SYN" \in s.flags /\ "RST" \notin s.flags
      /\ (tcb'[p].state = "SynReceived" \/ "ACK" \in s.flags)
  BY DEF Meets
<1>3. CASE Odd(s, OldSyns)
  BY <1>2, <1>3 DEF Odd
<1>4. CASE OwnText(s, Iss[q], nsent[q], Nxt(tcb[q]))
  <2>1. SeqSub(s.seq, Iss[q]) = 0
    BY <1>2, <1>4 DEF OwnText, TextAt
  <2>2. s.seq \in SeqNum /\ Iss[q] \in SeqNum
    BY <1>1, SegmentParts, OtherPeer, IssType
  <2>3. \A a, b \in SeqNum : SeqSub(a, b) = 0 => a = b
    BY HalfSeqSpaceAssumption DEF SeqSub, SeqNum, SeqSize
  <2> QED BY <2>1, <2>2, <2>3
<1> QED BY <1>1, <1>3, <1>4

\* A connection that has heard nothing has taken nothing.
LEMMA UnawareCount ==
    ASSUME DuplexInv, NEW p \in Peer, Unaware(p)
    PROVE  Arrived(p) = 0 /\ FinBit(tcb[p]) = 0
<1>1. tcb[p].rcvBuf = <<>> /\ ~tcb[p].fin.seen /\ nread[p] = 0
  BY DEF Unaware, Deaf, Empty
<1>2. Len(tcb[p].rcvBuf) = 0
  BY <1>1, EmptySeq
<1> QED BY <1>1, <1>2 DEF Arrived, FinBit

\* What the SYN is decides what is known of the peer.
LEMMA MeetsOutcome ==
    ASSUME DuplexInv, StreamInv, NEW p \in Peer, NEW s \in net[p], Unaware(p), Meets(p, s)
    PROVE  Learns(p) \/ Misled(p)
<1> DEFINE q == other(p)
           k == tcb[p]
           u == tcb'[p]
<1>1. /\ u.rcv.irs = s.seq /\ u.rcv.nxt = SeqAdd(s.seq, 1)
      /\ SameBuffers(k, u) /\ nread'[p] = nread[p]
      /\ \A e \in Fresh(p) : Acks(e) => e.ack = u.rcv.nxt
  BY DEF Meets
<1>2. u.rcvBuf = k.rcvBuf /\ u.oooSegs = k.oooSegs /\ u.fin = k.fin
  BY <1>1 DEF SameBuffers
<1>3. CASE s.seq = Iss[q]
  <2>1. Iss[q] \in SeqNum
    BY OtherPeer, IssType
  <2>2. SeqSub(SeqAdd(Iss[q], 1), Iss[q]) = 1
    BY <2>1, HalfSeqSpaceAssumption DEF SeqSub, SeqAdd, SeqNum, SeqSize
  <2>3. Got(u, Iss[q]) = 1
    BY <1>1, <1>3, <2>2 DEF Got
  <2>4. Arrived(p) = 0 /\ FinBit(k) = 0
    BY UnawareCount
  <2>5. Arrived(p)' = 0 /\ FinBit(u) = 0
    BY <1>1, <1>2, <2>4 DEF Arrived, FinBit
  <2>6. Counted(p)'
    BY <2>3, <2>5 DEF Counted, Taken
  <2> QED BY <1>1, <1>3, <2>6 DEF Learns, Knows
<1>4. CASE s.seq \in OldSyns /\ u.state = "SynReceived"
  <2>1. OldAck(u.rcv.nxt)
    BY <1>1, <1>4 DEF OldAck
  <2>2. Deaf(u, OldSyns)
    BY <1>1, <1>2, <1>4 DEF Unaware, Deaf, Empty, Unmet
  <2>3. Unaware(p)'
    BY <1>1, <2>2 DEF Unaware
  <2> QED BY <1>1, <1>4, <2>1, <2>3 DEF Misled
<1> QED BY <1>3, <1>4, SynsKnown

\* Where nothing is received nothing is forgotten.
LEMMA RemainsKnows ==
    ASSUME NEW p \in Peer, Remains(p)
    PROVE  (Knows(p) => Knows(p)') /\ (Unaware(p) => Unaware(p)')
<1>1. Taken(p)' = Taken(p) /\ FinBit(tcb'[p]) = FinBit(tcb[p]) /\ Arrived(p)' = Arrived(p)
  BY DEF Remains, Taken, Got, FinBit
<1>2. Knows(p) => Knows(p)'
  BY <1>1 DEF Knows, Counted, Remains
<1> QED BY <1>2 DEF Remains

\* Every step is one of the four.
LEMMA Outcome ==
    ASSUME DuplexInv, StreamInv, AckInv, NEW p \in Peer, Answers(p)
    PROVE  \/ Remains(p) /\ (Knows(p) => Knows(p)') /\ (Unaware(p) => Unaware(p)')
           \/ Learns(p) \/ Misled(p) \/ Follows(p)
<1>1. CASE Remains(p)
  BY <1>1, RemainsKnows
<1>2. CASE Unaware(p) /\ \E s \in net[p] : Meets(p, s)
  BY <1>2, MeetsOutcome
<1>3. CASE ~Unaware(p) /\ Continues(p)
  <2>1. Knows(p)
    BY <1>3 DEF AckInv
  <2>2. Knows(p)'
    BY <1>3, <2>1 DEF Knows, Continues
  <2> QED BY <2>1, <2>2 DEF Follows
<1> QED BY <1>1, <1>2, <1>3 DEF Answers

\* A connection that has connected knows its peer.
LEMMA KnowledgeStep ==
    ASSUME DuplexInv, StreamInv, StreamInv', AckInv, NEW p \in Peer, NEW t, Moved(p, t), Answers(p)
    PROVE  /\ Unaware(p)' \/ Knows(p)'
           /\ tcb'[p].reached /\ tcb'[p].state # "Closed" => Knows(p)'
<1> DEFINE k == tcb[p]
           u == tcb'[p]
<1>1. \/ Remains(p) /\ (Knows(p) => Knows(p)') /\ (Unaware(p) => Unaware(p)')
      \/ Learns(p) \/ Misled(p) \/ Follows(p)
  BY Outcome
<1>2. Unaware(p) \/ Knows(p)
  BY DEF AckInv
<1>3. Unaware(p)' \/ Knows(p)'
  BY <1>1, <1>2 DEF Learns, Misled, Follows
<1>4. ASSUME u.reached, u.state # "Closed", Remains(p), ~Knows(p)
      PROVE  FALSE
  <2>1. Unaware(p) /\ k.reached
    BY <1>2, <1>4 DEF Remains
  <2>2. k.state = "Closed"
    BY <1>4, <2>1 DEF AckInv
  <2>3. p \notin opened
    BY <1>4, <2>2 DEF Answers
  <2>4. Silent(p)
    BY <2>3 DEF StreamInv, Talks
  <2> QED BY <2>1, <2>4 DEF Silent, Mute
<1>5. ASSUME u.reached, u.state = "SynReceived"
      PROVE  FALSE
  <2>1. (Silent(p) \/ Talks(p))'
    BY DEF StreamInv
  <2>2. CASE Silent(p)'
    BY <1>5, <2>2 DEF Silent, Mute
  <2>3. CASE Talks(p)'
    <3>1. Numbered(u, nsent'[p])
      BY <2>3 DEF Talks
    <3>2. u.state \in Early
      BY <1>5 DEF Early
    <3>3. u \in TCB /\ nsent'[p] \in Nat
      BY MovedParts, StreamOut DEF Moved
    <3>4. Una(u) = 0 /\ Una(u) >= 1
      BY <1>5, <3>1, <3>2, <3>3, NumberedFacts
    <3> QED BY <3>4
  <2> QED BY <2>1, <2>2, <2>3
<1>6. u.reached /\ u.state # "Closed" => Knows(p)'
  BY <1>1, <1>4, <1>5 DEF Learns, Misled, Follows
<1> QED BY <1>3, <1>6

\* What p's next ACK would say is true.
LEMMA ReadyStep ==
    ASSUME DuplexInv, StreamInv, AckInv, NEW p \in Peer, NEW t, Moved(p, t), Answers(p),
           ~Forgets(p), Alive(other(p))
    PROVE  (Knows(p) => Knows(p)') /\ Ready(p)'
<1> DEFINE k == tcb[p]
           u == tcb'[p]
<1>1. \/ Remains(p) /\ (Knows(p) => Knows(p)') /\ (Unaware(p) => Unaware(p)')
      \/ Learns(p) \/ Misled(p) \/ Follows(p)
  BY Outcome
<1>2. Unaware(p) \/ Knows(p)
  BY DEF AckInv
<1>3. Knows(p) => Knows(p)'
  BY DEF Forgets
<1>4. Ready(p)
  BY OtherPeer DEF AckInv
<1>5. ASSUME Remains(p), ~Knows(p)
      PROVE  Ready(p)'
  <2>1. Unaware(p) /\ u.rcv.nxt = k.rcv.nxt
    BY <1>2, <1>5 DEF Remains
  <2>2. OldAck(k.rcv.nxt) => OldAck(u.rcv.nxt)
    BY <2>1
  <2>3. Hushed(k) => Hushed(u)
    BY <1>5, <2>1 DEF Remains
  <2> QED BY <1>4, <1>5, <2>2, <2>3 DEF Ready
<1>6. Ready(p)'
  BY <1>1, <1>3, <1>5 DEF Learns, Misled, Follows, Ready
<1> QED BY <1>3, <1>6

\* What p writes, and all that is in flight to its peer, is true.
LEMMA AcksStep ==
    ASSUME DuplexInv, StreamInv, AckInv, NEW p \in Peer, NEW t, Moved(p, t), Answers(p),
           ~Forgets(p), Alive(other(p))
    PROVE  TrueAcks(other(p))'
<1> DEFINE q == other(p)
           k == tcb[p]
           u == tcb'[p]
<1>0. q \in Peer /\ other(q) = p
  BY OtherPeer
<1>1. \/ Remains(p) /\ (Knows(p) => Knows(p)') /\ (Unaware(p) => Unaware(p)')
      \/ Learns(p) \/ Misled(p) \/ Follows(p)
  BY Outcome
<1>2. Unaware(p) \/ Knows(p)
  BY DEF AckInv
<1>3. (Knows(p) => Knows(p)') /\ Ready(p) /\ TrueAcks(q)
  BY <1>0, ReadyStep DEF AckInv
<1>4. Knows(p) /\ Knows(p)' => Taken(p) \in Nat \ {0} /\ Taken(p)' \in Nat /\ Taken(p) <= Taken(p)'
  BY TakenGrows
<1>5. Knows(p)' => Taken(p)' \in Nat \ {0}
  <2>1. Arrived(p)' \in Nat
    BY StreamValues
  <2>2. FinBit(u) \in {0, 1}
    BY DEF FinBit
  <2>3. Knows(p)' => Taken(p)' = 1 + Arrived(p)' + FinBit(u)
    BY DEF Knows, Counted
  <2> QED BY <2>1, <2>2, <2>3
<1> DEFINE Fine(a) == OldAck(a) \/ (Knows(p)' /\ SeqSub(a, Iss[q]) \in 1..Taken(p)')
<1>6. ASSUME NEW a, Knows(p), SeqSub(a, Iss[q]) \in 1..Taken(p)
      PROVE  Fine(a)
  <2>1. Knows(p)'
    BY <1>3, <1>6
  <2>2. SeqSub(a, Iss[q]) \in 1..Taken(p)'
    BY <1>4, <1>6, <2>1
  <2> QED BY <2>1, <2>2
<1>7. ASSUME NEW s \in net[q], Acks(s)
      PROVE  Fine(s.ack)
  <2>1. OldAck(s.ack) \/ (Knows(p) /\ SeqSub(s.ack, Iss[q]) \in 1..Taken(p))
    BY <1>0, <1>3, <1>7 DEF TrueAcks, TrueAck
  <2> QED BY <1>6, <2>1
<1>8. Knows(p)' => Fine(u.rcv.nxt)
  <2>1. SeqSub(u.rcv.nxt, Iss[q]) = Taken(p)'
    BY DEF Taken, Got
  <2> QED BY <1>5, <2>1
<1>9. Knows(p) => Fine(k.rcv.nxt)
  <2>1. SeqSub(k.rcv.nxt, Iss[q]) = Taken(p)
    BY DEF Taken, Got
  <2>2. Knows(p) => SeqSub(k.rcv.nxt, Iss[q]) \in 1..Taken(p)
    BY <1>3, <1>4, <2>1
  <2> QED BY <1>6, <2>2
<1>10. OldAck(u.rcv.nxt) => Fine(u.rcv.nxt)
  OBVIOUS
<1>11. OldAck(k.rcv.nxt) => Fine(k.rcv.nxt)
  OBVIOUS
<1> HIDE DEF Fine
<1>12. ASSUME NEW e \in Fresh(p), Acks(e)
       PROVE  Fine(e.ack)
  <2>1. e.ack \in {k.rcv.nxt, u.rcv.nxt}
    BY <1>12 DEF Answers
  <2>2. CASE Follows(p)
    BY <1>8, <1>9, <2>1, <2>2 DEF Follows
  <2>3. CASE Learns(p)
    BY <1>8, <1>12, <2>3 DEF Learns
  <2>4. CASE Misled(p)
    BY <1>10, <1>12, <2>4 DEF Misled
  <2>5. CASE Remains(p)
    <3>1. e.ack = k.rcv.nxt
      BY <2>1, <2>5 DEF Remains
    <3>2. ~Knows(p) => ~Hushed(k)
      BY <1>2, <1>12, <2>5 DEF Remains
    <3> QED BY <1>3, <1>9, <1>11, <3>1, <3>2 DEF Ready
  <2> QED BY <1>1, <2>2, <2>3, <2>4, <2>5
<1>13. ASSUME NEW s \in net'[q], Acks(s)
       PROVE  Fine(s.ack)
  BY <1>7, <1>12, <1>13 DEF Fresh
<1>14. \A a : Fine(a) => (OldAck(a) \/ TrueAck(q, a)')
  BY <1>0 DEF Fine, TrueAck
<1> QED BY <1>13, <1>14 DEF TrueAcks

\* A connection that has ended stays so.
LEMMA StillAlive ==
    ASSUME DuplexInv, NEW p \in Peer, NEW t, Moved(p, t), Answers(p)
    PROVE  /\ Alive(p)' => Alive(p)
           /\ Alive(other(p))' => Alive(other(p))
           /\ Alive(p)' /\ p \in opened' => tcb'[p].state # "Closed"
<1>1. opened \subseteq opened' /\ tcb'[other(p)] = tcb[other(p)]
  BY OthersSame
<1> QED BY <1>1 DEF Alive, Answers

\* What p takes for acknowledged was.
LEMMA UnaStep ==
    ASSUME DuplexInv, GivenOnly, Modest, StreamInv, GivenOnly', AckInv,
           NEW p \in Peer, NEW t, Moved(p, t), Answers(p), Alive(p)'
    PROVE  TrueUna(p)'
<1> DEFINE q == other(p)
           k == tcb[p]
           u == tcb'[p]
           n == nsent'[p]
           iss == Iss[p]
<1> SUFFICES ASSUME p \in opened', Numbered(u, n), Una(u) >= 1
             PROVE  Knows(q)' /\ Una(u) <= Taken(q)'
  BY DEF TrueUna
<1>1. Knows(q)' = Knows(q) /\ Taken(q)' = Taken(q)
  BY OthersSame
<1>2. Alive(p) /\ u.state # "Closed"
  BY StillAlive
<1>3. TrueAcks(p) /\ TrueUna(p)
  BY <1>2 DEF AckInv
<1>4. u \in TCB /\ n \in Nat /\ u.snd.iss = iss /\ k.snd.iss = iss /\ iss \in SeqNum /\ k \in TCB
  <2>1. u \in TCB /\ n \in Nat
    BY MovedParts, StreamOut DEF Moved
  <2>2. u.snd = t.snd
    <3>1. t \in TCB
      BY DEF Moved
    <3>2. [t EXCEPT !.out = {}].snd = t.snd
      BY <3>1, StreamOut
    <3>3. u = [t EXCEPT !.out = {}]
      BY MovedParts
    <3> QED BY <3>2, <3>3
  <2>3. t.snd.iss = iss
    BY DEF Moved, Voice
  <2> QED BY <2>1, <2>2, <2>3, PeerStream
<1>5. Una(u) \in Nat /\ Una(u) <= n + 2 /\ (u.state \in Early => Una(u) = 0)
  BY <1>4, NumberedFacts
<1>6. Talks(p)
  BY <1>2, <1>5 DEF Answers
<1>7. CASE u.snd.una = k.snd.una
  <2>1. Una(u) = Una(k)
    BY <1>4, <1>7 DEF Una
  <2> QED BY <1>1, <1>3, <1>6, <2>1 DEF TrueUna, Talks
<1>8. CASE u.snd.una = iss
  <2>1. SeqSub(iss, iss) = 0
    BY <1>4, HalfSeqSpaceAssumption DEF SeqSub, SeqNum, SeqSize
  <2> QED BY <1>4, <1>8, <2>1 DEF Una
<1>9. ASSUME NEW s \in net[p], Acks(s), u.snd.una = s.ack
      PROVE  Knows(q) /\ Una(u) <= Taken(q)
  <2>1. CASE TrueAck(p, s.ack)
    <3>1. Una(u) \in 1..Taken(q) /\ Knows(q)
      BY <1>4, <1>9, <2>1 DEF TrueAck, Una
    <3> QED BY <3>1
  <2>2. CASE OldAck(s.ack)
    <3>1. PICK o \in OldSyns : s.ack = SeqAdd(o, 1)
      BY <2>2 DEF OldAck
    <3>2. FarFrom(iss, AppBytes[p], o)
      BY DEF Modest, Apart
    <3>3. n <= AppBytes[p] /\ AppBytes[p] \in Nat
      BY PeerStream DEF GivenOnly
    <3>4. Una(u) \in 0..(AppBytes[p] + 2)
      BY <1>4, <1>5, <3>3
    <3>5. u.snd.una \in SeqNum
      BY <1>4, SndParts
    <3>6. SeqAdd(iss, Una(u)) = u.snd.una
      BY <1>4, <3>5, HalfSeqSpaceAssumption DEF Una, SeqAdd, SeqSub, SeqNum, SeqSize
    <3>7. SeqSub(u.snd.una, u.snd.una) = 0
      BY <3>5, HalfSeqSpaceAssumption DEF SeqSub, SeqNum, SeqSize
    <3>8. SeqSub(u.snd.una, u.snd.una) >= RcvBuff
      BY <1>9, <3>1, <3>2, <3>4, <3>6 DEF FarFrom
    <3> QED BY <3>7, <3>8, TcbAssumption
  <2> QED BY <1>3, <1>9, <2>1, <2>2 DEF TrueAcks
<1> QED BY <1>1, <1>7, <1>8, <1>9 DEF Answers

\* What its peer takes for acknowledged still is.
LEMMA UnaOther ==
    ASSUME DuplexInv, StreamInv, AckInv, NEW p \in Peer, NEW t, Moved(p, t), Answers(p),
           ~Forgets(p), Alive(other(p))'
    PROVE  TrueUna(other(p))'
<1> DEFINE q == other(p)
           k == tcb[q]
           n == nsent[q]
<1>0. q \in Peer /\ other(q) = p
  BY OtherPeer
<1>1. tcb'[q] = k /\ nsent'[q] = n /\ k \in TCB /\ n \in Nat
  BY <1>0, OthersSame, PeerInv DEF TypeOK
<1> HIDE DEF k, n
<1> SUFFICES ASSUME q \in opened', Numbered(k, n), Una(k) >= 1
             PROVE  Knows(p)' /\ Una(k) <= Taken(p)'
  BY <1>0, <1>1 DEF TrueUna
<1>2. Alive(q) /\ k.state # "Closed"
  BY <1>1, StillAlive DEF Alive
<1>3. TrueUna(q) /\ (Knows(p) => Knows(p)')
  BY <1>0, <1>2, ReadyStep DEF AckInv
<1>4. q \in opened
  <2>1. ASSUME q \notin opened PROVE FALSE
    <3>1. Mute(k)
      BY <1>0, <2>1 DEF StreamInv, Silent, Talks, k
    <3>2. k.state \in Early
      BY <1>2, <3>1 DEF Mute, Early
    <3>3. Una(k) = 0
      BY <1>1, <3>2, NumberedFacts
    <3> QED BY <3>3
  <2> QED BY <2>1
<1>5. Knows(p) /\ Una(k) <= Taken(p)
  BY <1>0, <1>3, <1>4 DEF TrueUna, k, n
<1>6. Taken(p) \in Nat /\ Taken(p)' \in Nat /\ Taken(p) <= Taken(p)'
  BY <1>3, <1>5, TakenGrows
<1>7. Una(k) \in Nat
  BY <1>1, NumberedFacts
<1>8. Una(k) <= Taken(p)'
  BY <1>5, <1>6, <1>7
<1> QED BY <1>3, <1>5, <1>8

\* A step of p keeps what is acknowledged true, unless p forgets its peer.
LEMMA AckMove ==
    ASSUME DuplexInv, GivenOnly, Modest, StreamInv, GivenOnly', StreamInv', AckInv,
           NEW p \in Peer, NEW t, Moved(p, t), Answers(p), ~Forgets(p)
    PROVE  AckInv'
<1> DEFINE q == other(p)
<1>0. q \in Peer /\ q # p /\ other(q) = p /\ Peer = {p, q}
  BY OtherPeer
<1>1. /\ tcb'[q] = tcb[q] /\ net'[p] \subseteq net[p]
      /\ Knows(q)' = Knows(q) /\ Unaware(q)' = Unaware(q) /\ Taken(q)' = Taken(q)
      /\ Ready(q)' = Ready(q)
  BY OthersSame
<1>2. /\ Unaware(p)' \/ Knows(p)'
      /\ tcb'[p].reached /\ tcb'[p].state # "Closed" => Knows(p)'
  BY KnowledgeStep
<1>3. /\ Unaware(q)' \/ Knows(q)'
      /\ tcb'[q].reached /\ tcb'[q].state # "Closed" => Knows(q)'
  BY <1>0, <1>1 DEF AckInv
<1>4. Alive(p)' => TrueAcks(p)'
  <2>1. Alive(p)' => TrueAcks(p)
    BY StillAlive DEF AckInv
  <2> QED BY <1>1, <2>1 DEF TrueAcks, TrueAck
<1>5. Alive(p)' => TrueUna(p)' /\ Ready(q)'
  <2>1. Alive(p)' => Ready(q)
    BY StillAlive DEF AckInv
  <2>2. Alive(p)' => TrueUna(p)'
    BY UnaStep
  <2> QED BY <1>1, <2>1, <2>2
<1>6. Alive(q)' => TrueAcks(q)' /\ TrueUna(q)' /\ Ready(p)'
  <2>1. Alive(q)' => Alive(q)
    BY StillAlive
  <2>2. Alive(q)' => TrueAcks(q)'
    BY <2>1, AcksStep
  <2>3. Alive(q)' => TrueUna(q)'
    BY UnaOther
  <2>4. Alive(q)' => Ready(p)'
    BY <2>1, ReadyStep
  <2> QED BY <2>2, <2>3, <2>4
<1> QED BY <1>0, <1>2, <1>3, <1>4, <1>5, <1>6 DEF AckInv

\* At first nothing is acknowledged.
LEMMA AckInit == Init => AckInv
<1> SUFFICES ASSUME Init, NEW p \in Peer
             PROVE  /\ Unaware(p) /\ ~tcb[p].reached /\ TrueAcks(p) /\ TrueUna(p)
                    /\ Ready(other(p))
  BY DEF AckInv
<1>1. \A q \in Peer : tcb[q] = NewConn(Iss[q])
  BY DEF Init
<1>2. \A q \in Peer : Ready(q) /\ Unaware(q) /\ ~tcb[q].reached
  <2>1. Init => StreamInv
    BY StreamInit
  <2>2. \A q \in Peer : Hushed(tcb[q]) /\ ~tcb[q].reached /\ Deaf(tcb[q], OldSyns) /\ nread[q] = 0
    <3>1. ASSUME NEW q \in Peer
          PROVE  /\ tcb[q].state = "Closed" /\ tcb[q].sndBuf = <<>> /\ ~tcb[q].tmr.delAck
                 /\ tcb[q].retxQueue = <<>> /\ ~tcb[q].reached
                 /\ Deaf(tcb[q], OldSyns) /\ nread[q] = 0
      BY <1>1 DEF NewConn, Deaf, Empty, Unmet, Init
    <3>2. \A q \in Peer : Len(tcb[q].retxQueue) = 0
      BY <3>1, EmptySeq
    <3> QED BY <3>1, <3>2 DEF Hushed
  <2> QED BY <2>2 DEF Ready, Unaware
<1>3. TrueUna(p)
  BY DEF TrueUna, Init
<1>4. TrueAcks(p)
  <2>1. net[p] \subseteq {oldSyn(o) : o \in OldSyns}
    BY DEF Init
  <2> QED BY <2>1 DEF oldSyn, TrueAcks, Acks
<1> QED BY <1>2, <1>3, <1>4, OtherPeer

\* Segments that are lost acknowledge nothing.
LEMMA AckFewer ==
    ASSUME DuplexInv, AckInv, UNCHANGED <<tcb, opened, nsent, nread>>,
           \A q \in Peer : net'[q] \subseteq net[q]
    PROVE  AckInv'
<1>1. \A p \in Peer : /\ Taken(p)' = Taken(p) /\ Arrived(p)' = Arrived(p)
                      /\ Unaware(p)' = Unaware(p) /\ Alive(p)' = Alive(p)
  BY DEF Taken, Arrived, Unaware, Alive
<1>2. \A p \in Peer : Knows(p)' = Knows(p)
  BY <1>1 DEF Knows, Counted
<1>3. \A p \in Peer : other(p) \in Peer
  BY OtherPeer
<1>4. \A p \in Peer : TrueAcks(p) => TrueAcks(p)'
  BY <1>1, <1>2, <1>3 DEF TrueAcks, TrueAck
<1>5. \A p \in Peer : TrueUna(p) => TrueUna(p)'
  BY <1>1, <1>2, <1>3 DEF TrueUna
<1>6. \A p \in Peer : Ready(p) => Ready(p)'
  BY <1>2 DEF Ready
<1> QED BY <1>1, <1>2, <1>3, <1>4, <1>5, <1>6 DEF AckInv

\* What is acknowledged was sent by one and taken by the other.
LEMMA AckedTaken ==
    ASSUME DuplexInv, GivenOnly, Modest, StreamInv, AckInv, NEW p \in Peer, Talks(p),
           tcb[p].state # "Closed", Una(tcb[p]) >= 1
    PROVE  LET q == other(p) IN
             /\ Knows(q) /\ Taken(q) \in Nat
             /\ Una(tcb[p]) <= Taken(q) /\ Taken(q) <= Nxt(tcb[p])
             /\ Taken(q) = 1 + Arrived(q) + FinBit(tcb[q])
             /\ Arrived(q) \in Nat /\ Arrived(q) <= nsent[p]
             /\ tcb[q].fin.seen => Arrived(q) = nsent[p]
<1> DEFINE q == other(p)
           k == tcb[p]
<1>0. q \in Peer /\ other(q) = p
  BY OtherPeer
<1>1. Alive(p) /\ p \in opened /\ Numbered(k, nsent[p])
  BY DEF Alive, Talks
<1>2. Knows(q) /\ Una(k) <= Taken(q)
  BY <1>1 DEF AckInv, TrueUna
<1>3. Taken(q) = 1 + Arrived(q) + FinBit(tcb[q])
  BY <1>2 DEF Knows, Counted
<1>4. Arrived(q) \in Nat /\ Arrived(q) <= nsent[p] /\ (tcb[q].fin.seen => Arrived(q) = nsent[p])
  <2>1. Arrived(q) <= nsent[p] /\ (tcb[q].fin.seen => Arrived(q) = nsent[p])
    BY <1>0, StreamGives DEF StreamIntegrity, EndsMatch, Arrived
  <2>2. tcb[q].rcvBuf \in Seq(Nat) /\ nread[q] \in Nat
    BY <1>0, PeerInv, TcbParts DEF TypeOK
  <2> QED BY <2>1, <2>2, LenProperties DEF Arrived
<1>5. FinBit(tcb[q]) \in {0, 1}
  BY DEF FinBit
<1>6. Taken(q) \in Nat
  BY <1>3, <1>4, <1>5
<1>7. Taken(q) <= Nxt(k)
  <2>1. CASE Unaware(q)
    <3>1. Taken(q) = 1
      BY <1>0, <1>3, <2>1, UnawareCount
    <3>2. 1 <= Nxt(k)
      BY <1>1 DEF Numbered, Body, Counts
    <3> QED BY <3>1, <3>2
  <2>2. CASE Hearing(q)
    BY <1>0, <2>2 DEF Hearing, Heard, Taken
  <2> QED BY <1>0, <2>1, <2>2 DEF StreamInv
<1> QED BY <1>2, <1>3, <1>4, <1>6, <1>7

\* Numbers in the order of their offsets are in the order of the code's comparison.
LEMMA OrderedOffs ==
    ASSUME NEW i \in SeqNum, NEW a \in SeqNum, NEW b \in SeqNum,
           SeqSub(a, i) <= SeqSub(b, i), SeqSub(b, i) < HalfSeqSpace
    PROVE  SeqLEQ(a, b)
  BY HalfSeqSpaceAssumption DEF SeqLEQ, SeqLT, SeqSub, SeqNum, SeqSize

\* What is acknowledged was taken: a FIN with the bytes before it, a SYN in the
\* incarnation that is there.
LEMMA AckGives ==
    ASSUME DuplexInv, GivenOnly, Modest, StreamInv, AckInv
    PROVE  FinAckedMeansDelivered /\ PeersAgree
<1>1. ASSUME NEW p \in Peer, tcb[p].state \in {"FinWait2", "TimeWait"}
      PROVE  LET q == other(p) IN
               tcb[q].fin.seen /\ nread[q] + Len(tcb[q].rcvBuf) = nsent[p]
  <2> DEFINE q == other(p)
             k == tcb[p]
  <2>1. Talks(p)
    BY <1>1 DEF StreamInv, Silent, Mute
  <2>2. nsent[p] \in Nat /\ k \in TCB
    BY TalksFacts, <2>1
  <2>3. Una(k) = nsent[p] + 2
    BY <1>1, <2>1, <2>2, NumberedFacts DEF Talks
  <2>4. /\ Una(k) <= Taken(q) /\ Taken(q) = 1 + Arrived(q) + FinBit(tcb[q])
        /\ Arrived(q) \in Nat /\ Arrived(q) <= nsent[p]
        /\ tcb[q].fin.seen => Arrived(q) = nsent[p]
    <3>1. Una(k) >= 1 /\ k.state # "Closed"
      BY <1>1, <2>2, <2>3
    <3> QED BY <2>1, <3>1, AckedTaken
  <2>5. tcb[q].fin.seen
    <3>1. FinBit(tcb[q]) # 0
      BY <2>2, <2>3, <2>4
    <3> QED BY <3>1 DEF FinBit
  <2> QED BY <2>4, <2>5 DEF Arrived
<1>2. ASSUME NEW p \in Peer, tcb[p].reached, tcb[p].state # "Closed"
      PROVE  LET t == tcb[p] q == tcb[other(p)] IN
               /\ q.rcv.irs = t.snd.iss /\ t.rcv.irs = q.snd.iss
               /\ SeqLEQ(t.snd.una, q.rcv.nxt) /\ SeqLEQ(q.rcv.nxt, t.snd.nxt)
  <2> DEFINE q == other(p)
             k == tcb[p]
             iss == Iss[p]
  <2>0. q \in Peer /\ other(q) = p
    BY OtherPeer
  <2>1. Talks(p)
    BY <1>2 DEF StreamInv, Silent, Mute
  <2>2. nsent[p] \in Nat /\ k \in TCB /\ Nxt(k) \in Nat /\ Nxt(k) <= nsent[p] + 2
    BY TalksFacts, <2>1
  <2>3. Una(k) >= 1
    BY <1>2, <2>1, <2>2, NumberedFacts DEF Talks
  <2>4. Knows(q) /\ Una(k) <= Taken(q) /\ Taken(q) <= Nxt(k) /\ Taken(q) \in Nat
    BY <1>2, <2>1, <2>3, AckedTaken
  <2>5. Knows(p)
    BY <1>2 DEF AckInv
  <2>6. /\ k.snd.iss = iss /\ tcb[q].snd.iss = Iss[q] /\ iss \in SeqNum /\ Fits(nsent[p])
        /\ tcb[q] \in TCB
    BY <2>0, PeerStream
  <2>7. /\ SeqSub(k.snd.una, iss) = Una(k) /\ SeqSub(k.snd.nxt, iss) = Nxt(k)
        /\ SeqSub(tcb[q].rcv.nxt, iss) = Taken(q)
    BY <2>0, <2>6 DEF Una, Nxt, Taken, Got
  <2>8. k.snd.una \in SeqNum /\ k.snd.nxt \in SeqNum /\ tcb[q].rcv.nxt \in SeqNum
    BY <2>2, <2>6, SndParts, TcbParts DEF RcvVars
  <2>9. Taken(q) < HalfSeqSpace /\ Nxt(k) < HalfSeqSpace
    BY <2>2, <2>4, <2>6, TcbAssumption, HalfSeqSpaceAssumption DEF Fits
  <2>10. SeqLEQ(k.snd.una, tcb[q].rcv.nxt)
    BY <2>4, <2>6, <2>7, <2>8, <2>9, OrderedOffs
  <2>11. SeqLEQ(tcb[q].rcv.nxt, k.snd.nxt)
    BY <2>4, <2>6, <2>7, <2>8, <2>9, OrderedOffs
  <2> QED BY <2>0, <2>4, <2>5, <2>6, <2>10, <2>11 DEF Knows
<1> QED BY <1>1, <1>2 DEF FinAckedMeansDelivered, PeersAgree

-----------------------------------------------------------------------------
(* Waiting.  What a step does to a connection that waits for its peer: one    *)
(* in LISTEN, or in SYN-RECEIVED and ready to go back to it.                  *)

\* A SYN that acknowledges nothing; a connection that has only SYNs with an ACK to resend.
PureSyn(s) == "SYN" \in s.flags /\ "ACK" \notin s.flags /\ "RST" \notin s.flags
SynAcked(t) == \A i \in 1..Len(t.retxQueue) :
                  "SYN" \in t.retxQueue[i].flags => "ACK" \in t.retxQueue[i].flags

\* A connection that waits; a step that only such a connection leaves waiting, and
\* in which it writes no SYN of its own.
Patient(t) == t.state = "Listen" \/ (t.state = "SynReceived" /\ t.origin = "passive")
NoSyns(t, u) == \A e \in u.out : e \in t.out \/ ~PureSyn(e)
Waits(t, u) == Patient(u) => Patient(t) /\ (SynAcked(t) => SynAcked(u) /\ NoSyns(t, u))

\* Two steps in a row.
LEMMA WaitsTrans ==
    ASSUME NEW t, NEW u, NEW v, Waits(t, u), Waits(u, v)
    PROVE  Waits(t, v)
  BY DEF Waits, NoSyns

\* A step that says what any connection says, and keeps its queue.
LEMMA WordsWait ==
    ASSUME NEW t, NEW u, u.origin = t.origin,
           \/ u.state \in {t.state, "Closed"}
           \/ u.state = "Listen" /\ t.state = "SynReceived" /\ t.origin = "passive",
           SameQueue(t.retxQueue, u.retxQueue) \/ u.retxQueue = <<>>,
           \A e \in u.out : e \in t.out \/ Word(e, t) \/ "RST" \in e.flags
    PROVE  Waits(t, u)
<1>1. Len(<<>>) = 0
  BY EmptySeq
<1>2. SynAcked(t) => SynAcked(u)
  BY <1>1 DEF SynAcked, SameQueue
<1>3. Patient(u) => Patient(t)
  BY DEF Patient
<1>4. ASSUME SynAcked(t), NEW e, Word(e, t)
      PROVE  ~PureSyn(e)
  BY <1>4 DEF SynAcked, Word, Bare, CopyOf, PureSyn
<1>5. SynAcked(t) => NoSyns(t, u)
  BY <1>4 DEF NoSyns, PureSyn
<1> QED BY <1>2, <1>3, <1>5 DEF Waits

\* How the connection was opened is told by the SYN alone.
LEMMA OriginKept ==
    ASSUME NEW t \in TCB, NEW s, NEW n
    PROVE  /\ sendAck(t).origin = t.origin /\ sendChallengeAck(t).origin = t.origin
           /\ sendRst(t, n).origin = t.origin /\ tsRecentUpdate(t, s).origin = t.origin
           /\ disarmOverride(t).origin = t.origin /\ resetConnection(t).origin = t.origin
           /\ challengeWindowPasses(t).origin = t.origin
<1>1. sendAck(t).origin = t.origin
  BY DEF sendAck, send, sendData, writeSeg, writeSegOpts, enqueue, TCB
<1>2. sendChallengeAck(t).origin = t.origin
  BY DEF sendChallengeAck, send, sendData, writeSeg, writeSegOpts, enqueue, TCB
<1>3. sendRst(t, n).origin = t.origin
  BY DEF sendRst, send, sendData, writeSeg, writeSegOpts, enqueue, TCB
<1>4. tsRecentUpdate(t, s).origin = t.origin
  BY DEF tsRecentUpdate, TCB
<1>5. disarmOverride(t).origin = t.origin
  BY DEF disarmOverride, TCB
<1>6. resetConnection(t).origin = t.origin
  BY DEF resetConnection, TCB
<1>7. challengeWindowPasses(t).origin = t.origin
  BY DEF challengeWindowPasses, TCB
<1> QED BY <1>1, <1>2, <1>3, <1>4, <1>5, <1>6, <1>7

\* A reset, and a refused ACK, leave it too.
LEMMA ResetOrigin ==
    ASSUME NEW t \in TCB, NEW s
    PROVE  /\ handleRst(t, s).origin = t.origin /\ refuseAck(t, s).origin = t.origin
           /\ handleRst(t, s).state = "Listen" /\ t.state # "Listen" =>
                t.state = "SynReceived" /\ t.origin = "passive" /\ s.seq = t.rcv.nxt
<1>1. handleRst(t, s) \in {t, sendChallengeAck(t), resetConnection(t)}
      /\ (s.seq # t.rcv.nxt => handleRst(t, s) \in {t, sendChallengeAck(t)})
  BY DEF handleRst
<1>2. refuseAck(t, s) \in {sendRst(t, s.ack), sendChallengeAck(t)}
  BY DEF refuseAck
<1>3. sendChallengeAck(t).state = t.state
  BY SendChallengeAckKeeps DEF Keeps
<1>4. resetConnection(t).state = "Listen" => t.state = "SynReceived" /\ t.origin = "passive"
  BY DEF resetConnection, TCB
<1>5. handleRst(t, s).origin = t.origin /\ refuseAck(t, s).origin = t.origin
  BY <1>1, <1>2, OriginKept
<1>6. handleRst(t, s).state = "Listen" /\ t.state # "Listen" =>
        t.state = "SynReceived" /\ t.origin = "passive" /\ s.seq = t.rcv.nxt
  BY <1>1, <1>3, <1>4
<1> QED BY <1>5, <1>6

\* The retransmission timer.
LEMMA RetransmitWaits ==
    ASSUME NEW t \in TCB
    PROVE  Waits(t, checkRetransmit(t))
<1> DEFINE w == checkRetransmit(t)
<1>1. KeepsOrCloses(t, w) /\ Calm(t, w) /\ Utters(t, w)
  BY CheckRetransmitKeeps, CheckRetransmitUtters
<1>2. w.origin = t.origin
  <2>1. abandon(t).origin = t.origin
    BY DEF abandon, TCB
  <2>2. ASSUME NEW c, NEW q
        PROVE  resendFront([t EXCEPT !.cong = c, !.retxQueue = q]).origin = t.origin
    BY DEF resendFront, writeSeg, writeSegOpts, TCB
  <2> DEFINE q == [t.retxQueue EXCEPT ![1] = [t.retxQueue[1] EXCEPT !.retries = @ + 1]]
             u == [t EXCEPT !.cong = onRtoTimeout(t.cong, flightSize(t)), !.retxQueue = q]
  <2>3. w \in {t, abandon(t), resendFront(u)}
    BY DEF checkRetransmit, TCB
  <2>4. resendFront(u).origin = t.origin
    BY <2>2
  <2> HIDE DEF u, w
  <2> QED BY <2>1, <2>3, <2>4
<1> HIDE DEF w
<1>3. SameQueue(t.retxQueue, w.retxQueue) \/ w.retxQueue = <<>>
  BY <1>1 DEF Calm
<1>4. w.state \in {t.state, "Closed"}
  BY <1>1 DEF KeepsOrCloses
<1>5. \A e \in w.out : e \in t.out \/ Word(e, t) \/ "RST" \in e.flags
  BY <1>1 DEF Utters
<1> QED BY <1>2, <1>3, <1>4, <1>5, WordsWait DEF w

\* An ACK that is sent.
LEMMA AckWaits ==
    ASSUME NEW t \in TCB
    PROVE  Waits(t, sendAck(t))
<1> DEFINE u == sendAck(t)
<1>1. u.state = t.state /\ SameSnd(t, u) /\ Utters(t, u) /\ u.origin = t.origin
  BY SendAckKeeps, SendAckUtters, OriginKept DEF Keeps
<1>2. SameQueue(t.retxQueue, u.retxQueue)
  BY <1>1, SameQueueRefl DEF SameSnd
<1> HIDE DEF u
<1>3. \A e \in u.out : e \in t.out \/ Word(e, t) \/ "RST" \in e.flags
  BY <1>1 DEF Utters
<1> QED BY <1>1, <1>2, <1>3, WordsWait DEF u

\* The timers.
LEMMA TickWaits ==
    ASSUME NEW t \in TCB, NEW due \in SUBSET armed(t),
           t.state \in {"Listen", "SynReceived"} => t.sndBuf = <<>>
    PROVE  Waits(t, Tick(t, due))
<1> DEFINE u == Tick(t, due)
           r == IF "rtx" \in due THEN checkRetransmit(t) ELSE t
<1>1. u.state \in {t.state, "Closed"}
  BY TickEffect DEF TickPart, KeepsOrCloses
<1>2. CASE t.state \notin {"Listen", "SynReceived"}
  BY <1>1, <1>2 DEF Waits, Patient
<1>3. CASE t.state \in {"Listen", "SynReceived"}
  <2>1. {"timewait", "keepalive"} \cap due = {}
    BY <1>3 DEF armed, synchronized
  <2>2. checkRetransmit(t) \in TCB /\ checkRetransmit(t).sndBuf = <<>>
    BY <1>3, CheckRetransmitKeeps DEF KeepsOrCloses, KeepsRcv, SameRcv, Calm
  <2>3. Waits(t, t) /\ Waits(t, checkRetransmit(t))
    BY RetransmitWaits DEF Waits, NoSyns
  <2>4. r \in TCB /\ Waits(t, r) /\ r.sndBuf = <<>>
    BY <1>3, <2>2, <2>3
  <2>5. Tick(t, due) = LET t3 == IF "persist" \in due THEN probePersist(r) ELSE r
                           t4 == IF "override" \in due THEN fireOverride(t3) ELSE t3
                       IN IF "delack" \in due THEN sendAck(t4) ELSE t4
    BY <2>1 DEF Tick
  <2> HIDE DEF r, u
  <2>6. unsent(r) <= 0
    <3>1. flightSize(r) \in SeqNum /\ Len(<<>>) = 0
      BY <2>4, FlightType, EmptySeq
    <3> QED BY <2>4, <3>1, SeqNumNat DEF unsent
  <2>7. probePersist(r) = r /\ fireOverride(r) = disarmOverride(r)
    BY <2>6 DEF probePersist, fireOverride
  <2> DEFINE v == IF "override" \in due THEN disarmOverride(r) ELSE r
  <2>8. v \in TCB /\ Waits(r, v)
    <3>1. disarmOverride(r) \in TCB /\ Waits(r, disarmOverride(r)) /\ Waits(r, r)
      BY <2>4 DEF disarmOverride, Waits, Patient, SynAcked, NoSyns, TCB, TmrVars
    <3> QED BY <2>4, <3>1
  <2>9. Tick(t, due) = IF "delack" \in due THEN sendAck(v) ELSE v
    BY <2>5, <2>7
  <2> HIDE DEF v
  <2>10. Waits(v, sendAck(v)) /\ Waits(v, v)
    BY <2>8, AckWaits DEF Waits, NoSyns
  <2>11. Waits(v, Tick(t, due))
    BY <2>9, <2>10
  <2> QED BY <2>4, <2>8, <2>11, WaitsTrans
<1> QED BY <1>2, <1>3

\* Where handleAck goes on, the connection has left LISTEN, SYN-SENT and SYN-RECEIVED.
LEMMA AckLeaves ==
    ASSUME NEW t \in TCB, NEW s \in Segment, t.state \notin {"Closed", "Listen", "SynSent"}
    PROVE  processFin(processText(handleAck(t, s), s), s).state
             \notin {"Listen", "SynSent", "SynReceived"}
<1> DEFINE a == handleAck(t, s)
           x == processText(a, s)
<1>1. a \in TCB /\ AckStep(t, a)
  BY HandleAckEffect DEF KeepsRcv, SameRcv
<1>2. a.state \notin {"Listen", "SynSent", "SynReceived"}
  BY <1>1 DEF AckStep
<1> HIDE DEF a
<1>3. x \in TCB /\ x.state = a.state
  <2>1. s.seq \in SeqNum /\ s.data \in Payload
    BY SegmentParts
  <2>2. acceptText(a, s) \in TCB /\ acceptText(a, s).state = a.state
    BY <1>1, <2>1, AcceptTextEdge
  <2> QED BY <1>1, <2>2 DEF processText
<1> HIDE DEF x
<1>4. handleFin(x).state \notin {"Listen", "SynSent", "SynReceived"}
  BY <1>2, <1>3, HandleFinState
<1>5. processFin(x, s).state \notin {"Listen", "SynSent", "SynReceived"}
  BY <1>2, <1>3, <1>4 DEF processFin
<1> QED BY <1>5 DEF x, a

\* A reset takes a connection back to LISTEN only from SYN-RECEIVED, and only when it
\* is at the left edge of the window.
Relisted(t, u, s) == /\ t.state = "SynReceived" /\ t.origin = "passive" /\ u.rcv = t.rcv
                     /\ "RST" \in s.flags /\ s.seq = t.rcv.nxt

\* A segment that arrives in a synchronized state or in SYN-RECEIVED.
LEMMA SynchronizedWaits ==
    ASSUME NEW t \in TCB, NEW s \in Segment, t.state \notin {"Closed", "Listen", "SynSent"}
    PROVE  LET u == onSegmentSynchronized(t, s) IN
             /\ Waits(t, u)
             /\ u.state \in {"Listen", "SynSent"} => Relisted(t, u, s)
<1> DEFINE u == onSegmentSynchronized(t, s)
           v == tsRecentUpdate(t, s)
           h == handleRst(t, s)
           c == sendChallengeAck(t)
           r == refuseAck(v, s)
           a == processFin(processText(handleAck(v, s), s), s)
           Good1(w) == Waits(t, w) /\ (w.state \in {"Listen", "SynSent"} => Relisted(t, w, s))
<1>1. Good1(sendAck(t))
  <2>1. sendAck(t).state = t.state
    BY SendAckKeeps DEF Keeps
  <2> QED BY <2>1, AckWaits
<1>2. Good1(c)
  <2>1. c.state = t.state /\ c.origin = t.origin /\ SameSnd(t, c) /\ Utters(t, c)
    BY SendChallengeAckKeeps, ChallengeUtters, OriginKept DEF Keeps
  <2> HIDE DEF c
  <2>2. SameQueue(t.retxQueue, c.retxQueue)
    BY <2>1, SameQueueRefl DEF SameSnd
  <2>3. \A e \in c.out : e \in t.out \/ Word(e, t) \/ "RST" \in e.flags
    BY <2>1 DEF Utters
  <2> QED BY <2>1, <2>2, <2>3, WordsWait
<1>3. "RST" \in s.flags => Good1(h)
  <2>1. /\ KeepsRcv(t, h) /\ SameSnd(t, h) /\ Utters(t, h) /\ h.origin = t.origin
        /\ \/ h.state \in {t.state, "Closed"}
           \/ t.state = "SynReceived" /\ h.state = "Listen"
        /\ h.state = "Listen" /\ t.state # "Listen" =>
             t.state = "SynReceived" /\ t.origin = "passive" /\ s.seq = t.rcv.nxt
    <3>1. LET w == handleRst(t, s) IN
            /\ KeepsRcv(t, w) /\ NoNewFin(t, w) /\ SameSnd(t, w) /\ w.reached = t.reached
            /\ \/ w.state \in {t.state, "Closed"}
               \/ t.state = "SynReceived" /\ w.state = "Listen"
      BY HandleRstEffect
    <3>2. Utters(t, h)
      BY HandleRstUtters
    <3>3. /\ h.origin = t.origin
          /\ h.state = "Listen" /\ t.state # "Listen" =>
               t.state = "SynReceived" /\ t.origin = "passive" /\ s.seq = t.rcv.nxt
      BY ResetOrigin
    <3> QED BY <3>1, <3>2, <3>3
  <2> HIDE DEF h
  <2>2. SameQueue(t.retxQueue, h.retxQueue)
    BY <2>1, SameQueueRefl DEF SameSnd
  <2>3. \A e \in h.out : e \in t.out \/ Word(e, t) \/ "RST" \in e.flags
    BY <2>1 DEF Utters
  <2>4. Waits(t, h)
    BY <2>1, <2>2, <2>3, WordsWait
  <2>5. h.rcv = t.rcv
    BY <2>1 DEF KeepsRcv, SameRcv
  <2> QED BY <2>1, <2>4, <2>5 DEF Relisted
<1>4. v \in TCB /\ v.state = t.state /\ v.origin = t.origin /\ SameSnd(t, v) /\ v.out = t.out
  <2>1. v.out = t.out
    BY DEF tsRecentUpdate, TCB
  <2>2. Keeps(t, v) /\ SameSnd(t, v) /\ v.origin = t.origin
    BY TsRecentUpdateKeeps, OriginKept
  <2> QED BY <2>1, <2>2 DEF Keeps, KeepsRcv, SameRcv
<1> HIDE DEF v
<1>5. SameQueue(t.retxQueue, v.retxQueue)
  BY <1>4, SameQueueRefl DEF SameSnd
<1>6. Good1(v) /\ Waits(t, v)
  BY <1>4, <1>5, WordsWait
<1>7. Good1(r)
  <2>1. r.state = v.state /\ r.origin = v.origin /\ SameSnd(v, r)
    BY <1>4, RefuseAckKeeps, ResetOrigin DEF Keeps
  <2>2. \A e \in r.out : e \in v.out \/ Word(e, v) \/ "RST" \in e.flags
    <3>1. \/ Utters(v, r)
          \/ r = sendRst(v, s.ack)
      BY <1>4, RefuseAckUtters
    <3>2. s.ack \in SeqNum
      BY SegmentParts
    <3>3. \A x \in sendRst(v, s.ack).out : x \in v.out \/ "RST" \in x.flags
      BY <1>4, <3>2, SendRstOnly
    <3> HIDE DEF r
    <3> QED BY <3>1, <3>3 DEF Utters
  <2> HIDE DEF r
  <2>3. SameQueue(v.retxQueue, r.retxQueue)
    BY <2>1, SameQueueRefl DEF SameSnd
  <2>4. Waits(v, r)
    BY <2>1, <2>2, <2>3, WordsWait
  <2> QED BY <1>4, <1>6, <2>1, <2>4, WaitsTrans
<1>8. Good1(a)
  <2>1. a.state \notin {"Listen", "SynSent", "SynReceived"}
    BY <1>4, AckLeaves
  <2> HIDE DEF a
  <2> QED BY <2>1 DEF Waits, Patient
<1>9. processAck(v, s) \in {v, r, a}
  BY DEF processAck
<1>10. u \in {sendAck(t), c, processAck(v, s)} \/ (u = h /\ "RST" \in s.flags)
  BY DEF onSegmentSynchronized, v
<1> HIDE DEF u, r, a, h, c, Good1
<1>11. Good1(u)
  BY <1>1, <1>2, <1>3, <1>6, <1>7, <1>8, <1>9, <1>10
<1> QED BY <1>11 DEF Good1, u

\* A SYN that is answered: by an ACK with a SYN of one's own.
LEMMA GreetsWaits ==
    ASSUME NEW t \in TCB, NEW u, NEW s, Greets(t, u, s), t.state = "Listen"
    PROVE  Waits(t, u)
<1> DEFINE e == queueEntry({"SYN", "ACK"}, t.snd.iss, <<>>)
<1>1. u.retxQueue = Append(t.retxQueue, e) /\ Adds(t, u, {"SYN", "ACK"}, t.snd.iss, u.rcv.nxt, <<>>)
  BY DEF Greets, SynTaken
<1>2. "ACK" \in e.flags
  BY DEF queueEntry
<1>3. t.retxQueue \in Seq(RetxSeg)
  BY TcbParts
<1> HIDE DEF e
<1>4. /\ Len(u.retxQueue) = Len(t.retxQueue) + 1 /\ Len(t.retxQueue) \in Nat
      /\ \A i \in 1..Len(t.retxQueue) : u.retxQueue[i] = t.retxQueue[i]
      /\ u.retxQueue[Len(t.retxQueue) + 1] = e
  <2> DEFINE q == t.retxQueue
  <2>1. q \in Seq({q[i] : i \in 1..Len(q)} \cup {e}) /\ e \in {q[i] : i \in 1..Len(q)} \cup {e} /\ Len(q) \in Nat
    <3>1. Len(q) \in Nat /\ q \in [1..Len(q) -> RetxSeg]
      BY <1>3, LenProperties
    <3>2. q \in [1..Len(q) -> {q[i] : i \in 1..Len(q)} \cup {e}]
      BY <3>1
    <3> QED BY <3>1, <3>2, FcnIsSeq
  <2> HIDE DEF q
  <2>2. LET r == Append(q, e) IN
          /\ Len(r) = Len(q) + 1
          /\ \A i \in 1..Len(q) : r[i] = q[i]
          /\ r[Len(q) + 1] = e
    BY <2>1, AppendProperties
  <2> QED BY <1>1, <2>1, <2>2 DEF q
<1>5. SynAcked(t) => SynAcked(u)
  BY <1>2, <1>4 DEF SynAcked
<1>6. NoSyns(t, u)
  BY <1>1 DEF NoSyns, Adds, PureSyn
<1> QED BY <1>5, <1>6 DEF Waits, Patient

\* A segment that arrives.
LEMMA ArrivalWaits ==
    ASSUME NEW t \in TCB, NEW s \in Segment
    PROVE  LET u == onSegment(t, s) IN
             /\ Waits(t, u)
             /\ u.state \in {"Listen", "SynSent"} =>
                  t.state \in {"Listen", "SynSent"} \/ Relisted(t, u, s)
<1> DEFINE k == [t EXCEPT !.keepaliveProbes = 0]
           u == onSegment(t, s)
<1>0. 0 \in 0..KeepaliveMaxProbes
  BY TcbAssumption
<1>1. /\ k \in TCB /\ k.state = t.state /\ k.rcv = t.rcv /\ k.origin = t.origin
      /\ k.retxQueue = t.retxQueue /\ k.out = t.out
  BY <1>0 DEF TCB
<1>2. u = CASE k.state = "Closed" -> onSegmentClosed(k, s)
            [] k.state = "Listen" -> onSegmentListen(k, s)
            [] k.state = "SynSent" -> onSegmentSynSent(k, s)
            [] OTHER -> onSegmentSynchronized(k, s)
  BY DEF onSegment
<1> HIDE DEF k, u
<1>3. /\ Waits(k, u)
      /\ u.state \in {"Listen", "SynSent"} => k.state \in {"Listen", "SynSent"} \/ Relisted(k, u, s)
  <2>1. CASE k.state = "Closed"
    <3>1. u = onSegmentClosed(k, s)
      BY <1>2, <2>1
    <3>2. u.state = "Closed"
      BY <1>1, <2>1, <3>1, ClosedRejects DEF Rejects, Replied
    <3> QED BY <3>2 DEF Waits, Patient
  <2>2. CASE k.state = "Listen"
    <3>1. u = onSegmentListen(k, s)
      BY <1>2, <2>2
    <3>2. Rejects(k, u, s) \/ Greets(k, u, s)
      BY <1>1, <2>2, <3>1, ListenForm
    <3>3. ASSUME Rejects(k, u, s) PROVE Waits(k, u)
      <4>1. SameQueue(k.retxQueue, u.retxQueue)
        BY <3>3, SameQueueRefl DEF Rejects, Replied, SameSnd
      <4>2. SynAcked(k) => SynAcked(u)
        BY <4>1 DEF SynAcked, SameQueue
      <4>3. NoSyns(k, u)
        BY <3>3 DEF NoSyns, Rejects, ResetOf, PureSyn
      <4> QED BY <2>2, <4>2, <4>3 DEF Waits, Patient
    <3> QED BY <1>1, <2>2, <3>2, <3>3, GreetsWaits
  <2>3. CASE k.state = "SynSent"
    <3>1. u = onSegmentSynSent(k, s)
      BY <1>2, <2>3
    <3>2. \/ Rejects(k, u, s)
          \/ u.state = "Closed"
          \/ Connects(k, u, s)
          \/ Greets(k, u, s) /\ u.origin = "active"
      BY <1>1, <2>3, <3>1, SynSentForm
    <3> QED BY <2>3, <3>2 DEF Waits, Patient, Rejects, Replied, Connects, Greets, SynTaken
  <2>4. CASE k.state \notin {"Closed", "Listen", "SynSent"}
    <3>1. u = onSegmentSynchronized(k, s)
      BY <1>2, <2>4
    <3> QED BY <1>1, <2>4, <3>1, SynchronizedWaits
  <2> QED BY <2>1, <2>2, <2>3, <2>4
<1>4. Waits(k, u) => Waits(t, u)
  BY <1>1 DEF Waits, Patient, SynAcked, NoSyns
<1>5. Relisted(k, u, s) => Relisted(t, u, s)
  BY <1>1 DEF Relisted
<1> QED BY <1>1, <1>3, <1>4, <1>5 DEF u

\* The application's calls.
LEMMA CloseWaits ==
    ASSUME NEW t \in TCB, t.state \in CanClose
    PROVE  Waits(t, Close(t)) /\ Close(t).state \notin {"Listen", "SynSent", "SynReceived"}
<1>1. Close(t).state \in {"Closed", "FinWait1", "LastAck"}
  BY CloseEffect
<1> QED BY <1>1 DEF Waits, Patient

LEMMA RecvWaits ==
    ASSUME NEW t \in TCB, NEW n \in 1..Len(t.rcvBuf)
    PROVE  Waits(t, Recv(t, n))
<1> DEFINE u == Recv(t, n)
<1>1. u.state = t.state /\ SameSnd(t, u) /\ Utters(t, u)
  BY RecvForm, RecvInv, RecvUtters
<1>2. u.origin = t.origin
  <2>1. u.origin = t.origin
    BY DEF Recv, sendAck, send, sendData, writeSeg, writeSegOpts, enqueue, TCB
  <2> QED BY <2>1
<1> HIDE DEF u
<1>3. SameQueue(t.retxQueue, u.retxQueue)
  BY <1>1, SameQueueRefl DEF SameSnd
<1>4. \A e \in u.out : e \in t.out \/ Word(e, t) \/ "RST" \in e.flags
  BY <1>1 DEF Utters
<1> QED BY <1>1, <1>2, <1>3, <1>4, WordsWait DEF u

-----------------------------------------------------------------------------
(* The same of the two peers.                                                 *)

\* p is not open yet or waits for its peer; p is to hear from its peer first.
Fluid(p) == p \notin opened \/ Patient(tcb[p])
Expects(p) == p \notin opened \/ tcb[p].state \in {"Listen", "SynSent"}

\* Only a peer that waited waits after a step, and it writes no SYN of its own; only a
\* reset at the left edge of its window makes a peer expect a SYN again; a reset that
\* is written answers an ACK, which is not that of the peer's own SYN unless it waits.
Waiting(p) ==
    Fluid(p)' => /\ Fluid(p)
                 /\ SynAcked(tcb[p]) => SynAcked(tcb'[p]) /\ \A e \in Fresh(p) : ~PureSyn(e)
Renews(p) ==
    Expects(p)' => \/ Expects(p)
                   \/ /\ p \in opened /\ Patient(tcb[p]) /\ tcb'[p].rcv = tcb[p].rcv
                      /\ \E s \in net[p] : "RST" \in s.flags /\ s.seq = tcb[p].rcv.nxt
Resets(p) ==
    Alive(p) => \A e \in Fresh(p) : "RST" \in e.flags =>
        \/ e.seq = 0
        \/ \E s \in net[p] : /\ Acks(s) /\ e.seq = s.ack
                             /\ Fluid(p) \/ s.ack # SeqAdd(Iss[p], 1)
Behaves(p) == Waiting(p) /\ Renews(p) /\ Resets(p)

\* What was written is what the step sets apart.
LEMMA FreshPatient ==
    ASSUME DuplexInv, StreamInv, NEW p \in Peer, NEW t \in TCB, Turns(p, t)
    PROVE  LET u == tcb'[p] IN
             /\ u.state = t.state /\ u.rcv = t.rcv
             /\ Patient(u) <=> Patient(t)
             /\ SynAcked(t) => SynAcked(u)
             /\ tcb[p].out = {} /\ Fresh(p) \subseteq t.out
<1> DEFINE u == tcb'[p]
<1>1. /\ u.state = t.state /\ u.rcv = t.rcv /\ u.retxQueue = t.retxQueue
      /\ tcb[p].out = {} /\ Fresh(p) \subseteq t.out
  BY FreshOut
<1>2. u = [t EXCEPT !.out = {}]
  BY PeerInv DEF TypeOK, Turns
<1>3. u.origin = t.origin
  BY <1>2 DEF TCB
<1> HIDE DEF u
<1>4. (Patient(u) <=> Patient(t)) /\ (SynAcked(t) => SynAcked(u))
  BY <1>1, <1>3 DEF Patient, SynAcked
<1> QED BY <1>1, <1>4 DEF u

\* A step that keeps what the connection waits for.
LEMMA TurnWaits ==
    ASSUME DuplexInv, StreamInv, NEW p \in Peer, NEW t \in TCB, Turns(p, t), opened' = opened,
           Waits(tcb[p], t),
           p \notin opened => Mute(t) /\ \A e \in t.out : e \in tcb[p].out \/ "RST" \in e.flags
    PROVE  Waiting(p)
<1> DEFINE u == tcb'[p]
           k == tcb[p]
<1>1. /\ u.state = t.state /\ (Patient(u) <=> Patient(t)) /\ (SynAcked(t) => SynAcked(u))
      /\ k.out = {} /\ Fresh(p) \subseteq t.out
  BY FreshPatient
<1> HIDE DEF u, k
<1>2. CASE p \notin opened
  <2>1. SynAcked(t)
    <3>1. Len(<<>>) = 0
      BY EmptySeq
    <3> QED BY <1>2, <3>1 DEF Mute, SynAcked
  <2>2. \A e \in Fresh(p) : ~PureSyn(e)
    BY <1>1, <1>2 DEF PureSyn, k
  <2> QED BY <1>1, <1>2, <2>1, <2>2 DEF Waiting, Fluid, u
<1>3. CASE p \in opened
  <2>1. Fluid(p)' => Patient(u)
    BY <1>3 DEF Fluid, u
  <2>2. Patient(u) => Patient(k) /\ (SynAcked(k) => SynAcked(u) /\ \A e \in Fresh(p) : ~PureSyn(e))
    BY <1>1 DEF Waits, NoSyns, k
  <2> QED BY <2>1, <2>2 DEF Waiting, Fluid, u, k
<1> QED BY <1>2, <1>3

\* Time passes, the application sends, reads or closes.
LEMMA StayBehaves ==
    ASSUME DuplexInv, StreamInv, NEW p \in Peer, NEW t \in TCB, Becomes(p, t), opened' = opened,
           Waits(tcb[p], t),
           t.state \in {"Listen", "SynSent"} => t.state = tcb[p].state,
           p \notin opened => Mute(t),
           \A e \in t.out : e \in tcb[p].out \/ "RST" \notin e.flags,
           p \notin opened => t.out = tcb[p].out
    PROVE  Behaves(p)
<1> DEFINE u == tcb'[p]
           k == tcb[p]
<1>1. Turns(p, t)
  BY BecomesTurns
<1>2. u.state = t.state /\ k.out = {} /\ Fresh(p) \subseteq t.out
  BY <1>1, FreshPatient
<1>3. Waiting(p)
  BY <1>1, TurnWaits
<1>4. Renews(p)
  BY <1>2 DEF Renews, Expects
<1>5. Resets(p)
  BY <1>2 DEF Resets
<1> QED BY <1>3, <1>4, <1>5 DEF Behaves

\* What a connection says is no reset.
LEMMA NoResets ==
    ASSUME DuplexInv, StreamInv, NEW p \in Peer, NEW t, NEW n, NEW acks, Says(tcb[p], t, nsent[p], acks),
           Silent(p) => t.out = tcb[p].out
    PROVE  \A e \in t.out : e \in tcb[p].out \/ "RST" \notin e.flags
<1>1. Silent(p) \/ Talks(p)
  BY DEF StreamInv
<1>2. CASE Silent(p)
  BY <1>2
<1>3. CASE Talks(p)
  BY <1>3 DEF Talks, Says, Spoken
<1> QED BY <1>1, <1>2, <1>3

\* Timers.
LEMMA TimerBehaves ==
    ASSUME DuplexInv, GivenOnly, Modest, StreamInv, NEW p \in Peer, Timer(p)
    PROVE  Behaves(p)
<1>1. PICK due \in SUBSET armed(tcb[p]) : Becomes(p, Tick(tcb[p], due))
  BY DEF Timer
<1>2. opened' = opened
  BY DEF Timer
<1>3. tcb[p] \in TCB /\ Fits(nsent[p]) /\ nsent[p] \in Nat
  BY PeerStream
<1> DEFINE t == Tick(tcb[p], due)
<1>4. Tells(tcb[p], t, nsent[p]) /\ Goes(tcb[p], t)
  BY <1>3, TickTells, TickGoes
<1>5. Silent(p) => Mute(t) /\ t.out = tcb[p].out
  BY <1>3, MuteTick DEF Silent
<1>6. tcb[p].state \in {"Listen", "SynReceived"} => tcb[p].sndBuf = <<>>
  <2>1. CASE Silent(p)
    BY <2>1 DEF Silent, Mute
  <2>2. CASE Talks(p)
    BY <1>3, <2>2, EarlyNumbered DEF Talks, Early
  <2> QED BY <2>1, <2>2 DEF StreamInv
<1>7. Waits(tcb[p], t)
  BY <1>3, <1>6, TickWaits
<1>8. Becomes(p, t)
  BY <1>1
<1> HIDE DEF t
<1>9. t \in TCB /\ \A e \in t.out : e \in tcb[p].out \/ "RST" \notin e.flags
  <2>1. Says(tcb[p], t, nsent[p], {tcb[p].rcv.nxt})
    BY <1>4 DEF Tells
  <2>2. \A e \in t.out : e \in tcb[p].out \/ "RST" \notin e.flags
    BY <1>5, <2>1, NoResets
  <2> QED BY <2>1, <2>2 DEF Says
<1>10. t.state \in {"Listen", "SynSent"} => t.state = tcb[p].state
  BY <1>4 DEF Goes
<1>11. p \notin opened => Silent(p)
  BY UnopenedPeer
<1> QED BY <1>2, <1>5, <1>7, <1>8, <1>9, <1>10, <1>11, StayBehaves

\* Close.
LEMMA AppCloseBehaves ==
    ASSUME DuplexInv, GivenOnly, Modest, StreamInv, NEW p \in Peer, AppClose(p)
    PROVE  Behaves(p)
<1> DEFINE t == Close(tcb[p])
<1>1. Becomes(p, t) /\ opened' = opened
  BY DEF AppClose, ghosts
<1>2. tcb[p].state \in CanClose /\ unsent(tcb[p]) <= 0
  BY DEF AppClose, canClose, CanClose, Modest, NoEagerClose
<1>3. tcb[p] \in TCB /\ Fits(nsent[p])
  BY PeerStream
<1>4. Tells(tcb[p], t, nsent[p])
  BY <1>2, <1>3, CloseTells
<1>5. Silent(p) => Mute(t) /\ t.out = tcb[p].out
  BY <1>2, <1>3, MuteClose DEF Silent
<1>6. Waits(tcb[p], t) /\ t.state \notin {"Listen", "SynSent", "SynReceived"}
  BY <1>2, <1>3, CloseWaits
<1> HIDE DEF t
<1>7. t \in TCB /\ \A e \in t.out : e \in tcb[p].out \/ "RST" \notin e.flags
  <2>1. Says(tcb[p], t, nsent[p], {tcb[p].rcv.nxt})
    BY <1>4 DEF Tells
  <2>2. \A e \in t.out : e \in tcb[p].out \/ "RST" \notin e.flags
    BY <1>5, <2>1, NoResets
  <2> QED BY <2>1, <2>2 DEF Says
<1>8. p \notin opened => Silent(p)
  BY UnopenedPeer
<1> QED BY <1>1, <1>5, <1>6, <1>7, <1>8, StayBehaves

\* The passing of time writes nothing.
LEMMA QuietBehaves ==
    ASSUME DuplexInv, GivenOnly, Modest, StreamInv, NEW p \in Peer,
           ChallengeWindowPasses(p) \/ ClockAdvances(p)
    PROVE  Behaves(p)
<1> DEFINE k == tcb[p]
<1>1. k \in TCB
  BY PeerInv
<1>2. PICK t \in TCB : /\ Becomes(p, t) /\ t.state = k.state /\ t.origin = k.origin
                       /\ t.retxQueue = k.retxQueue /\ t.out = k.out
                       /\ t.sndBuf = k.sndBuf /\ t.tmr = k.tmr /\ t.reached = k.reached
  <2>1. CASE ChallengeWindowPasses(p)
    <3> DEFINE u == challengeWindowPasses(k)
    <3>1. /\ u.state = k.state /\ u.origin = k.origin /\ u.retxQueue = k.retxQueue /\ u.out = k.out
          /\ u.sndBuf = k.sndBuf /\ u.tmr = k.tmr /\ u.reached = k.reached
      BY <1>1 DEF challengeWindowPasses, TCB
    <3>2. u \in TCB /\ Becomes(p, u)
      BY <1>1, <2>1, ChallengeWindowKeeps DEF ChallengeWindowPasses, Keeps, KeepsRcv, SameRcv
    <3> HIDE DEF u
    <3> QED BY <3>1, <3>2
  <2>2. CASE ClockAdvances(p)
    <3> DEFINE u == [k EXCEPT !.ts.now = @ + 1]
    <3>1. /\ u.state = k.state /\ u.origin = k.origin /\ u.retxQueue = k.retxQueue /\ u.out = k.out
          /\ u.sndBuf = k.sndBuf /\ u.tmr = k.tmr /\ u.reached = k.reached
      BY <1>1 DEF TCB
    <3>2. u \in TCB /\ Becomes(p, u)
      BY <2>2, ClockKeeps DEF ClockAdvances, Keeps, KeepsRcv, SameRcv
    <3> HIDE DEF u
    <3> QED BY <3>1, <3>2
  <2> QED BY <2>1, <2>2
<1>3. opened' = opened
  BY DEF ChallengeWindowPasses, ClockAdvances, ghosts
<1>4. Waits(k, t)
  BY <1>2 DEF Waits, Patient, SynAcked, NoSyns
<1>5. p \notin opened => Mute(t)
  BY <1>2, UnopenedPeer DEF Silent, Mute
<1> QED BY <1>2, <1>3, <1>4, <1>5, StayBehaves

\* Send.
LEMMA AppSendBehaves ==
    ASSUME DuplexInv, GivenOnly, Modest, StreamInv, NEW p \in Peer, AppSend(p)
    PROVE  Behaves(p)
<1> DEFINE k == tcb[p]
           n == nsent[p]
<1>1. k \in TCB /\ k.out = {} /\ n \in Nat /\ AppBytes[p] \in Nat /\ Fits(AppBytes[p])
  BY PeerStream
<1>2. k.state \in {"Established", "CloseWait"} /\ opened' = opened
  BY DEF AppSend
<1>3. PICK m \in SendSizes :
        n + m <= AppBytes[p] /\ Becomes(p, Send(k, [i \in 1..m |-> n + i]))
  BY DEF AppSend
<1>4. m \in Nat \ {0}
  BY DuplexAssumption
<1> DEFINE data == [i \in 1..m |-> n + i]
           t == Send(k, data)
<1>5. data \in Seq(Nat) /\ Len(data) = m /\ \A i \in 1..Len(data) : data[i] = n + i
  <2>1. data \in [1..m -> Nat] /\ DOMAIN data = 1..m /\ \A i \in 1..m : data[i] = n + i
    BY <1>1, <1>4
  <2> HIDE DEF data
  <2>2. data \in Seq(Nat)
    BY <1>4, <2>1, FcnIsSeq
  <2>3. Len(data) = m
    BY <1>4, <2>1, <2>2, LenProperties
  <2> QED BY <2>1, <2>2, <2>3
<1>6. Becomes(p, t)
  BY <1>3
<1> HIDE DEF data
<1>7. Numbered(k, n)
  <2>1. ~Silent(p)
    BY <1>2 DEF Silent, Mute
  <2> QED BY <2>1 DEF StreamInv, Talks
<1>8. Fits(n + m)
  <2> DEFINE b == AppBytes[p]
  <2>1. n \in Nat /\ m \in Nat /\ b \in Nat /\ n + m <= b /\ b + DefaultMSS + 4 <= HalfSeqSpace
    BY <1>1, <1>3, <1>4 DEF Fits
  <2> HIDE DEF b, n
  <2>2. DefaultMSS \in Nat /\ HalfSeqSpace \in Nat
    BY TcbAssumption, HalfSeqSpaceAssumption
  <2>3. n + m + DefaultMSS + 4 <= HalfSeqSpace /\ n + m \in Nat
    BY <2>1, <2>2
  <2> QED BY <2>3 DEF Fits
<1>9. m \in Nat
  BY <1>4
<1> HIDE DEF t, k, n
<1>10. /\ Keeps(k, t)
       /\ \A e \in t.out : e \in k.out \/ "RST" \notin e.flags
  <2>1. Keeps(k, Send(k, data))
    BY <1>1, <1>5, SendUserDataKeeps
  <2>2. LET w == Send(k, data) IN
             \A e \in w.out : e \in k.out \/ Spoken(e, w, n + m, {k.rcv.nxt})
    BY <1>1, <1>2, <1>5, <1>7, <1>8, <1>9, SendTells
  <2> QED BY <2>1, <2>2 DEF t, Spoken
<1>11. t \in TCB /\ t.state = k.state
  BY <1>10 DEF Keeps, KeepsRcv, SameRcv
<1>12. Waits(k, t)
  BY <1>2, <1>11 DEF Waits, Patient
<1>13. p \in opened
  BY <1>2, UnopenedPeer DEF k
<1> QED BY <1>2, <1>6, <1>10, <1>11, <1>12, <1>13, StayBehaves DEF k

\* Recv.
LEMMA AppRecvBehaves ==
    ASSUME DuplexInv, GivenOnly, Modest, StreamInv, NEW p \in Peer, AppRecv(p)
    PROVE  Behaves(p)
<1> DEFINE k == tcb[p]
<1>1. k \in TCB
  BY PeerStream
<1>2. opened' = opened
  BY DEF AppRecv
<1>3. PICK m \in 1..Len(k.rcvBuf) : Becomes(p, Recv(k, m))
  BY DEF AppRecv
<1> DEFINE t == Recv(k, m)
<1>4. Says(k, t, nsent[p], {k.rcv.nxt}) /\ Waits(k, t)
  BY <1>1, RecvSays, RecvWaits
<1>5. Mute(k) => Mute(t) /\ t.out = k.out
  BY <1>1, MuteRecv
<1>6. t \in TCB /\ t.state = k.state
  BY <1>1, RecvForm
<1>7. Becomes(p, t)
  BY <1>3
<1> HIDE DEF t
<1>8. p \notin opened => Mute(k)
  BY UnopenedPeer DEF Silent
<1>9. \A e \in t.out : e \in k.out \/ "RST" \notin e.flags
  BY <1>4, <1>5, NoResets DEF Silent
<1> QED BY <1>2, <1>4, <1>5, <1>6, <1>7, <1>8, <1>9, StayBehaves

\* Open.
LEMMA OpenBehaves ==
    ASSUME DuplexInv, GivenOnly, Modest, StreamInv, NEW p \in Peer, Open(p)
    PROVE  Behaves(p)
<1> DEFINE k == tcb[p]
           u == tcb'[p]
<1>1. k \in TCB /\ k.out = {} /\ Iss[p] \in SeqNum
  BY PeerStream
<1>2. p \notin opened /\ p \in opened'
  BY DEF Open
<1>3. Mute(k)
  BY <1>2, UnopenedPeer DEF Silent
<1>4. Expects(p) /\ Fluid(p)
  BY <1>2 DEF Expects, Fluid
<1>5. PICK t \in TCB : /\ Becomes(p, t) /\ \A e \in t.out : "RST" \notin e.flags
                       /\ Patient(t) => t.retxQueue = <<>> /\ t.out = {}
  <2>1. CASE Becomes(p, ActiveOpen(k, Iss[p]))
    <3> DEFINE v == ActiveOpen(k, Iss[p])
    <3>1. v \in TCB /\ v.state = "SynSent" /\ Adds(k, v, {"SYN"}, Iss[p], 0, <<>>)
      BY <1>1, ActiveOpenEffect, ActiveOpenForm
    <3>2. Becomes(p, v)
      BY <2>1
    <3> HIDE DEF v
    <3> QED BY <1>1, <3>1, <3>2 DEF Patient, Adds
  <2>2. CASE Becomes(p, PassiveOpen(k))
    <3> DEFINE v == PassiveOpen(k)
    <3>1. v \in TCB /\ Mute(v) /\ v.out = k.out
      BY <1>1, <1>3, MuteOpen
    <3>2. Becomes(p, v)
      BY <2>2
    <3> HIDE DEF v
    <3> QED BY <1>1, <3>1, <3>2 DEF Mute
  <2> QED BY <2>1, <2>2 DEF Open
<1>6. Turns(p, t)
  BY <1>5, BecomesTurns
<1>7. /\ (Patient(u) <=> Patient(t)) /\ (SynAcked(t) => SynAcked(u)) /\ Fresh(p) \subseteq t.out
  BY <1>6, FreshPatient
<1> HIDE DEF u
<1>8. t.retxQueue = <<>> => SynAcked(t)
  <2>1. Len(<<>>) = 0
    BY EmptySeq
  <2> QED BY <2>1 DEF SynAcked
<1>9. Waiting(p)
  BY <1>2, <1>4, <1>5, <1>7, <1>8 DEF Waiting, Fluid, u
<1>10. Renews(p) /\ Resets(p)
  BY <1>4, <1>5, <1>7 DEF Renews, Resets
<1> QED BY <1>9, <1>10 DEF Behaves

\* The ACK of one's own SYN is neither wrong in SYN-SENT nor out of range in SYN-RECEIVED.
LEMMA SynAckFits ==
    ASSUME NEW t \in TCB, NEW s, s.ack = SeqAdd(t.snd.iss, 1), t.snd.una = t.snd.iss,
           t.snd.nxt = SeqAdd(t.snd.iss, 1)
    PROVE  ~badAck(t, s) /\ ~ackOutOfRange(t, s)
<1> DEFINE i == t.snd.iss
           w == t.snd.maxWnd
<1>1. i \in SeqNum /\ w \in 0..(MaxWindow * WScale) /\ MaxWindow * WScale < HalfSeqSpace
      /\ MaxWindow * WScale \in Nat
  BY SndParts, TcbAssumption
<1>2. w \in Nat /\ w < HalfSeqSpace
  BY <1>1, HalfSeqSpaceAssumption
<1> HIDE DEF i, w
<1>3. ~SeqLEQ(SeqAdd(i, 1), i) /\ ~SeqGT(SeqAdd(i, 1), SeqAdd(i, 1))
  BY <1>1, HalfSeqSpaceAssumption DEF SeqLEQ, SeqGT, SeqLT, SeqSub, SeqAdd, SeqNum, SeqSize
<1>4. ~SeqLT(SeqAdd(i, 1), SeqSub(i, w))
  BY <1>1, <1>2, HalfSeqSpaceAssumption DEF SeqLT, SeqSub, SeqAdd, SeqNum, SeqSize
<1> QED BY <1>3, <1>4 DEF badAck, ackOutOfRange, i, w

\* A segment that arrives.
LEMMA ArrivalBehaves ==
    ASSUME DuplexInv, GivenOnly, Modest, StreamInv, NEW p \in Peer, NEW s \in net[p],
           UNCHANGED <<opened, nsent, nread>>, NEW t, t = onSegment(tcb[p], s), Turns(p, t),
           t \in TCB
    PROVE  Behaves(p)
<1> DEFINE k == tcb[p]
           u == tcb'[p]
<1>1. k \in TCB /\ k.out = {} /\ k.snd.iss = Iss[p] /\ Fits(nsent[p]) /\ nsent[p] \in Nat
  BY PeerStream
<1>2. s \in Segment /\ FinAlone(s)
  BY InFlight, StreamFinAlone
<1>3. u.state = t.state /\ u.rcv = t.rcv /\ Fresh(p) \subseteq t.out
  BY FreshPatient
<1>4. /\ Waits(k, t)
      /\ t.state \in {"Listen", "SynSent"} => k.state \in {"Listen", "SynSent"} \/ Relisted(k, t, s)
  BY <1>1, <1>2, ArrivalWaits
<1>5. Mute(k) => \/ Mute(t) /\ Rejects(k, t, s)
                 \/ /\ k.state = "Listen"
                    /\ \A e \in t.out : e \in k.out \/ "RST" \notin e.flags
  <2>1. Mute(k) => LET v == onSegment(k, s) IN
                     \/ Mute(v) /\ Rejects(k, v, s)
                     \/ /\ k.state = "Listen" /\ Numbered(v, 0)
                        /\ \A e \in v.out : e \in k.out \/ Spoken(e, v, 0, {v.rcv.nxt})
    BY <1>1, <1>2, MuteArrival
  <2> QED BY <2>1 DEF Spoken
<1>6. p \notin opened => Mute(k) /\ k.state = "Closed"
  BY UnopenedPeer DEF Silent
<1> HIDE DEF u, k
<1>7. Waiting(p)
  <2>1. p \notin opened => Mute(t) /\ \A e \in t.out : e \in k.out \/ "RST" \in e.flags
    BY <1>5, <1>6 DEF Rejects, ResetOf
  <2> QED BY <1>4, <2>1, TurnWaits DEF k
<1>8. Renews(p)
  <2>1. opened' = opened
    OBVIOUS
  <2>2. ASSUME p \in opened, u.state \in {"Listen", "SynSent"}, k.state \notin {"Listen", "SynSent"}
        PROVE  /\ Patient(k) /\ u.rcv = k.rcv
               /\ \E x \in net[p] : "RST" \in x.flags /\ x.seq = k.rcv.nxt
    BY <1>3, <1>4, <2>2 DEF Relisted, Patient
  <2> QED BY <2>1, <2>2 DEF Renews, Expects, u, k
<1>9. ASSUME Rejects(k, t, s), Alive(p), NEW e \in Fresh(p), "RST" \in e.flags, e.seq # 0
      PROVE  Acks(s) /\ e.seq = s.ack /\ (Fluid(p) \/ s.ack # SeqAdd(Iss[p], 1))
  <2>1. e.seq = s.ack /\ Acks(s) /\ Refuses(k, s)
    BY <1>1, <1>3, <1>9 DEF Rejects, ResetOf
  <2>2. k.state = "Closed" => Fluid(p)
    BY <1>9 DEF Alive, Fluid, k
  <2>3. k.state = "Listen" => Fluid(p)
    BY DEF Fluid, Patient, k
  <2>4. ASSUME k.state \in {"SynSent", "SynReceived"}, s.ack = SeqAdd(Iss[p], 1)
        PROVE  ~badAck(k, s) /\ ~ackOutOfRange(k, s)
    <3>1. Numbered(k, nsent[p])
      BY <2>4 DEF StreamInv, Talks, Silent, Mute, k
    <3>2. k.snd.una = k.snd.iss /\ k.snd.nxt = SeqAdd(k.snd.iss, 1)
      <4>1. k.state \in Early
        BY <2>4 DEF Early
      <4> QED BY <1>1, <3>1, <4>1, EarlyNumbered
    <3> QED BY <1>1, <2>4, <3>2, SynAckFits
  <2> QED BY <2>1, <2>2, <2>3, <2>4 DEF Refuses
<1>10. Rejects(k, t, s) \/ \A e \in t.out : e \in k.out \/ "RST" \notin e.flags
  <2>1. CASE Silent(p)
    BY <1>5, <2>1 DEF Silent, k
  <2>2. CASE Talks(p)
    <3>1. LET v == onSegment(k, s) IN
            Says(k, v, nsent[p], {k.rcv.nxt, v.rcv.nxt}) \/ Rejects(k, v, s)
      BY <1>1, <1>2, OnSegmentSays
    <3>2. t = onSegment(k, s)
      BY DEF k
    <3>3. Says(k, t, nsent[p], {k.rcv.nxt, t.rcv.nxt}) \/ Rejects(k, t, s)
      BY <3>1, <3>2
    <3> QED BY <2>2, <3>3 DEF Talks, Says, Spoken, k
  <2> QED BY <2>1, <2>2 DEF StreamInv
<1>11. Resets(p)
  BY <1>1, <1>3, <1>9, <1>10 DEF Resets
<1> QED BY <1>7, <1>8, <1>11 DEF Behaves

\* A segment that is delivered, or delivered and kept by the network.
LEMMA DeliverBehaves ==
    ASSUME DuplexInv, GivenOnly, Modest, StreamInv, NEW p \in Peer, Deliver(p) \/ Duplicate(p)
    PROVE  Behaves(p)
<1>1. UNCHANGED <<opened, nsent, nread>> /\ TypeOK
  BY PeerInv DEF Deliver, Duplicate, ghosts
<1>2. PICK s \in net[p] :
        LET t == onSegment(tcb[p], s) IN
          /\ tcb' = [tcb EXCEPT ![p] = [t EXCEPT !.out = {}]]
          /\ \/ net' = [net EXCEPT ![p] = @ \ {s}, ![other(p)] = @ \cup t.out]
             \/ net' = [net EXCEPT ![other(p)] = @ \cup t.out]
  BY DEF Deliver, Duplicate, Becomes
<1> DEFINE t == onSegment(tcb[p], s)
<1>3. /\ tcb' = [tcb EXCEPT ![p] = [t EXCEPT !.out = {}]]
      /\ \/ net' = [net EXCEPT ![p] = @ \ {s}, ![other(p)] = @ \cup t.out]
         \/ net' = [net EXCEPT ![other(p)] = @ \cup t.out]
  BY <1>2
<1>4. t \in TCB
  BY <1>1, ArrivalGood DEF Good
<1>5. t = onSegment(tcb[p], s)
  OBVIOUS
<1> HIDE DEF t
<1>6. other(p) \in Peer /\ other(p) # p /\ net \in [Peer -> SUBSET Segment]
  BY <1>1, OtherPeer DEF TypeOK
<1>7. net'[other(p)] \subseteq net[other(p)] \cup t.out
  BY <1>3, <1>6
<1>8. Turns(p, t)
  BY <1>3, <1>7 DEF Turns
<1> QED BY <1>1, <1>4, <1>5, <1>8, ArrivalBehaves

\* Every step but a loss moves a peer, is answered and behaves as it must.
LEMMA SomeBehavior ==
    ASSUME DuplexInv, GivenOnly, Modest, StreamInv, Next
    PROVE  \E p \in Peer : Lose(p) \/ ((\E t : Moved(p, t)) /\ Answers(p) /\ Behaves(p))
<1>1. PICK p \in Peer :
        \/ Open(p) \/ AppSend(p) \/ AppRecv(p) \/ AppClose(p)
        \/ Timer(p) \/ ChallengeWindowPasses(p) \/ ClockAdvances(p)
        \/ Deliver(p) \/ Duplicate(p) \/ Lose(p)
  BY DEF Next
<1>2. Lose(p) \/ \E t : Moved(p, t)
  BY <1>1, OpenMoved, AppSendMoved, AppRecvMoved, AppCloseMoved, TimerMoved, QuietMoved,
     DeliverMoved
<1>3. Lose(p) \/ Answers(p)
  BY <1>1, OpenAnswers, AppSendAnswers, AppRecvAnswers, AppCloseAnswers, TimerAnswers,
     QuietAnswers, DeliverAnswers
<1>4. Lose(p) \/ Behaves(p)
  BY <1>1, OpenBehaves, AppSendBehaves, AppRecvBehaves, AppCloseBehaves, TimerBehaves,
     QuietBehaves, DeliverBehaves
<1> QED BY <1>2, <1>3, <1>4

-----------------------------------------------------------------------------
(* Old SYNs.  Why a peer that took a SYN of a former incarnation, and with it *)
(* a reset, has not yet taken anything of the present one.                    *)

\* No peer's first acknowledgement is number 0, the number of a reset that answers a
\* segment without an ACK (onSegmentClosed).
ResetsApart == \A p \in Peer : SeqAdd(Iss[p], 1) # 0

\* While p waits: its SYN is answered wherever it resends it; no reset would be taken
\* by one that has heard its peer's SYN; two that wait know nothing of each other, and
\* only old SYNs are on their way; who expects a SYN has not taken the one there is.
FluidInv == \A p \in Peer :
    /\ Fluid(p) => SynAcked(tcb[p])
    /\ Fluid(p) /\ Alive(other(p)) =>
         \A s \in net[p] : "RST" \in s.flags => s.seq # SeqAdd(Iss[other(p)], 1)
    /\ Fluid(p) /\ Fluid(other(p)) =>
         ~Knows(p) /\ \A s \in net[p] : PureSyn(s) => s.seq \in OldSyns
    /\ Expects(p) /\ Alive(other(p)) => ~Knows(p)

\* No number of a peer is that of an old SYN.
LEMMA IssNotOld ==
    ASSUME Modest, NEW p \in Peer
    PROVE  Iss[p] \notin OldSyns /\ ~OldAck(SeqAdd(Iss[p], 1))
<1>1. Iss[p] \in SeqNum /\ AppBytes[p] \in Nat /\ RcvBuff \in Nat \ {0}
  BY IssType, DuplexAssumption, TcbAssumption
<1> DEFINE x == SeqAdd(Iss[p], 1)
<1>2. ASSUME NEW o \in OldSyns, SeqAdd(o, 1) = x
      PROVE  FALSE
  <2>1. \A k \in 0..(AppBytes[p] + 2) : SeqSub(SeqAdd(Iss[p], k), SeqAdd(o, 1)) >= RcvBuff
    BY DEF Modest, Apart, FarFrom
  <2>2. 1 \in 0..(AppBytes[p] + 2)
    BY <1>1
  <2>3. SeqSub(x, x) >= RcvBuff
    BY <1>2, <2>1, <2>2
  <2>4. SeqSub(x, x) = 0
    BY <1>1, HalfSeqSpaceAssumption DEF SeqSub, SeqAdd, SeqNum, SeqSize
  <2> HIDE DEF x
  <2> QED BY <1>1, <2>3, <2>4
<1> QED BY <1>2 DEF OldAck

\* A step that takes nothing.
LEMMA RemainsAlike ==
    ASSUME NEW p \in Peer, Remains(p)
    PROVE  Knows(p)' <=> Knows(p)
<1>1. Taken(p)' = Taken(p) /\ FinBit(tcb'[p]) = FinBit(tcb[p]) /\ Arrived(p)' = Arrived(p)
  BY DEF Remains, Taken, Got, FinBit
<1> QED BY <1>1 DEF Knows, Counted, Remains

\* How a peer can come to know the other one, or cease to.
LEMMA KnowingTurns ==
    ASSUME DuplexInv, StreamInv, AckInv, NEW p \in Peer, Answers(p)
    PROVE  /\ Knows(p)' => \/ Knows(p)
                           \/ Unaware(p) /\ \E s \in net[p] : Meets(p, s)
           /\ Forgets(p) => \E s \in net[p] : Meets(p, s)
<1>1. CASE Remains(p)
  BY <1>1, RemainsAlike DEF Forgets
<1>2. CASE Unaware(p) /\ \E s \in net[p] : Meets(p, s)
  BY <1>2
<1>3. CASE ~Unaware(p) /\ Continues(p)
  <2>1. Knows(p)
    BY <1>3 DEF AckInv
  <2>2. Knows(p)'
    BY <1>3, <2>1 DEF Knows, Continues
  <2> QED BY <2>1, <2>2 DEF Forgets
<1> QED BY <1>1, <1>2, <1>3 DEF Answers

\* Who meets a SYN expected one.
LEMMA MeetsExpected ==
    ASSUME DuplexInv, NEW p \in Peer, NEW s, Meets(p, s)
    PROVE  p \in opened /\ Expects(p)
           /\ (Patient(tcb[p]) => PureSyn(s))
<1>1. tcb[p].state \in {"Listen", "SynSent"} /\ (tcb[p].state = "Listen" => "ACK" \notin s.flags)
      /\ "SYN" \in s.flags /\ "RST" \notin s.flags
  BY DEF Meets
<1>2. p \in opened
  BY <1>1, PeerInv
<1> QED BY <1>1, <1>2 DEF Expects, Patient, PureSyn

\* Nothing in flight makes a peer forget the other one.
LEMMA NoneForgets ==
    ASSUME DuplexInv, StreamInv, AckInv, FluidInv, NEW p \in Peer, Answers(p)
    PROVE  ~Forgets(p)
<1> SUFFICES ASSUME Forgets(p) PROVE FALSE
  OBVIOUS
<1>1. PICK s \in net[p] : Meets(p, s)
  BY KnowingTurns
<1>2. Expects(p) /\ Knows(p) /\ Alive(other(p))
  BY <1>1, MeetsExpected DEF Forgets
<1> QED BY <1>2 DEF FluidInv

\* A step of p: what p writes.
LEMMA FluidWrites ==
    ASSUME DuplexInv, Modest, ResetsApart, StreamInv, AckInv, FluidInv,
           NEW p \in Peer, NEW t, Moved(p, t), Answers(p), Behaves(p),
           Fluid(other(p))
    PROVE  /\ Alive(p) => \A e \in Fresh(p) : "RST" \in e.flags => e.seq # SeqAdd(Iss[p], 1)
           /\ Fluid(p)' => \A e \in Fresh(p) : ~PureSyn(e)
<1> DEFINE q == other(p)
<1>0. q \in Peer /\ other(q) = p
  BY OtherPeer
<1>1. ASSUME Alive(p), NEW e \in Fresh(p), "RST" \in e.flags, e.seq = SeqAdd(Iss[p], 1)
      PROVE  FALSE
  <2>1. e.seq # 0
    BY <1>1 DEF ResetsApart
  <2>2. PICK r \in net[p] : Acks(r) /\ e.seq = r.ack /\ (Fluid(p) \/ r.ack # SeqAdd(Iss[p], 1))
    BY <1>1, <2>1 DEF Behaves, Resets
  <2>3. Fluid(p)
    BY <1>1, <2>2
  <2>4. ~Knows(q)
    BY <1>0, <2>3 DEF FluidInv
  <2>5. OldAck(r.ack) \/ TrueAck(p, r.ack)
    BY <1>1, <2>2 DEF AckInv, TrueAcks
  <2> QED BY <1>1, <2>2, <2>4, <2>5, IssNotOld DEF TrueAck
<1>2. ASSUME Fluid(p)'
      PROVE  \A e \in Fresh(p) : ~PureSyn(e)
  BY <1>2 DEF Behaves, Waiting, FluidInv
<1> QED BY <1>1, <1>2

\* What p itself knows.
LEMMA FluidKnows ==
    ASSUME DuplexInv, Modest, StreamInv, StreamInv', AckInv, FluidInv,
           NEW p \in Peer, NEW t, Moved(p, t), Answers(p), Behaves(p)
    PROVE  /\ Fluid(p)' /\ Fluid(other(p)) => ~Knows(p)'
           /\ Expects(p)' /\ Alive(other(p)) => ~Knows(p)'
<1> DEFINE q == other(p)
           u == tcb'[p]
           k == tcb[p]
<1>0. q \in Peer /\ other(q) = p /\ opened \subseteq opened'
  BY OtherPeer DEF Moved
<1>1. ASSUME Fluid(p)', Fluid(q), Knows(p)'
      PROVE  FALSE
  <2>1. Fluid(p)
    BY <1>1 DEF Behaves, Waiting
  <2>2. ~Knows(p) /\ \A s \in net[p] : PureSyn(s) => s.seq \in OldSyns
    BY <1>1, <2>1 DEF FluidInv
  <2>3. PICK s \in net[p] : Meets(p, s)
    BY <1>1, <2>2, KnowingTurns
  <2>4. p \in opened /\ (Patient(k) => PureSyn(s))
    BY <2>3, MeetsExpected
  <2>5. s.seq \in OldSyns
    BY <2>1, <2>2, <2>4 DEF Fluid
  <2>6. s.seq = Iss[q]
    BY <1>1, <2>3 DEF Meets, Knows
  <2> QED BY <1>0, <2>5, <2>6, IssNotOld
<1>2. ASSUME Expects(p)', Alive(q), Knows(p)', Expects(p)
      PROVE  FALSE
  <2>1. ~Knows(p)
    BY <1>2 DEF FluidInv
  <2>2. PICK s \in net[p] : Meets(p, s)
    BY <1>2, <2>1, KnowingTurns
  <2>3. u.state \in {"SynReceived", "Established"} /\ p \in opened
    BY <2>2, MeetsExpected DEF Meets
  <2> QED BY <1>0, <1>2, <2>3 DEF Expects
<1>3. ASSUME Expects(p)', Alive(q), Knows(p)', ~Expects(p)
      PROVE  FALSE
  <2>1. /\ p \in opened /\ Patient(k) /\ u.rcv = k.rcv
        /\ \E s \in net[p] : "RST" \in s.flags /\ s.seq = k.rcv.nxt
    BY <1>3 DEF Behaves, Renews
  <2>2. u.state \in {"Listen", "SynSent"}
    BY <1>0, <1>3, <2>1 DEF Expects
  <2>3. Unaware(p)'
    <3>1. (Unaware(p) \/ Hearing(p))'
      BY DEF StreamInv
    <3>2. ~Hearing(p)'
      BY <2>2 DEF Hearing, Heard
    <3> QED BY <3>1, <3>2
  <2>4. u.rcvBuf = <<>> /\ ~u.fin.seen /\ nread'[p] = 0
    BY <2>3 DEF Unaware, Deaf, Empty
  <2>5. Arrived(p)' = 0 /\ FinBit(u) = 0
    <3>1. Len(u.rcvBuf) = 0
      BY <2>4, EmptySeq
    <3> QED BY <2>4, <3>1 DEF Arrived, FinBit
  <2>6. SeqSub(u.rcv.nxt, Iss[q]) = 1
    BY <1>3, <2>5 DEF Knows, Counted, Taken, Got
  <2>7. k.rcv.nxt = SeqAdd(Iss[q], 1)
    <3>1. k.rcv.nxt \in SeqNum /\ Iss[q] \in SeqNum
      BY <1>0, PeerInv, TcbParts, IssType DEF RcvVars
    <3> QED BY <2>1, <2>6, <3>1, SynNumbers
  <2>8. Fluid(p)
    BY <2>1 DEF Fluid
  <2> QED BY <1>3, <2>1, <2>7, <2>8 DEF FluidInv
<1> QED BY <1>1, <1>2, <1>3

\* A step of a peer keeps all this.
LEMMA FluidMove ==
    ASSUME DuplexInv, Modest, ResetsApart, StreamInv, StreamInv', AckInv, FluidInv,
           NEW p \in Peer, NEW t, Moved(p, t), Answers(p), Behaves(p)
    PROVE  FluidInv'
<1> DEFINE q == other(p)
<1>0. q \in Peer /\ q # p /\ other(q) = p /\ Peer = {p, q}
  BY OtherPeer
<1>1. /\ tcb'[q] = tcb[q] /\ net'[p] \subseteq net[p] /\ opened \subseteq opened'
      /\ Knows(q)' = Knows(q)
  BY OthersSame
<1>2. (Fluid(q)' => Fluid(q)) /\ (Expects(q)' => Expects(q)) /\ (Fluid(p)' => Fluid(p))
  BY <1>1 DEF Fluid, Expects, Behaves, Waiting
<1>3. (Alive(p)' => Alive(p)) /\ (Alive(q)' => Alive(q))
  BY StillAlive
<1>4. \A s \in net'[q] : s \in net[q] \/ s \in Fresh(p)
  BY DEF Fresh
<1>5. /\ Fluid(p)' => SynAcked(tcb'[p])
      /\ Fluid(q)' => SynAcked(tcb'[q])
  BY <1>0, <1>1, <1>2 DEF Behaves, Waiting, FluidInv
<1>6. Fluid(p)' /\ Alive(q)' => \A s \in net'[p] : "RST" \in s.flags => s.seq # SeqAdd(Iss[q], 1)
  BY <1>1, <1>2, <1>3 DEF FluidInv
<1>7. Fluid(q)' /\ Alive(p)' => \A s \in net'[q] : "RST" \in s.flags => s.seq # SeqAdd(Iss[p], 1)
  <2>1. Fluid(q) /\ Alive(p) => \A s \in net[q] : "RST" \in s.flags => s.seq # SeqAdd(Iss[p], 1)
    BY <1>0 DEF FluidInv
  <2>2. Fluid(q) /\ Alive(p) => \A e \in Fresh(p) : "RST" \in e.flags => e.seq # SeqAdd(Iss[p], 1)
    BY FluidWrites
  <2> QED BY <1>2, <1>3, <1>4, <2>1, <2>2
<1>8. Fluid(p)' /\ Fluid(q)' =>
        ~Knows(p)' /\ \A s \in net'[p] : PureSyn(s) => s.seq \in OldSyns
  <2>1. Fluid(p)' /\ Fluid(q)' => ~Knows(p)'
    BY <1>2, FluidKnows
  <2>2. Fluid(p)' /\ Fluid(q)' => \A s \in net[p] : PureSyn(s) => s.seq \in OldSyns
    BY <1>2 DEF FluidInv
  <2> QED BY <1>1, <2>1, <2>2
<1>9. Fluid(q)' /\ Fluid(p)' =>
        ~Knows(q)' /\ \A s \in net'[q] : PureSyn(s) => s.seq \in OldSyns
  <2>1. Fluid(q)' /\ Fluid(p)' => ~Knows(q) /\ \A s \in net[q] : PureSyn(s) => s.seq \in OldSyns
    BY <1>0, <1>2 DEF FluidInv
  <2>2. Fluid(q)' /\ Fluid(p)' => \A e \in Fresh(p) : ~PureSyn(e)
    BY <1>2, FluidWrites
  <2> QED BY <1>1, <1>4, <2>1, <2>2
<1>10. Expects(p)' /\ Alive(q)' => ~Knows(p)'
  BY <1>3, FluidKnows
<1>11. Expects(q)' /\ Alive(p)' => ~Knows(q)'
  BY <1>0, <1>1, <1>2, <1>3 DEF FluidInv
<1> QED BY <1>0, <1>5, <1>6, <1>7, <1>8, <1>9, <1>10, <1>11 DEF FluidInv

\* Segments that are lost.
LEMMA FluidFewer ==
    ASSUME DuplexInv, FluidInv, UNCHANGED <<tcb, opened, nsent, nread>>,
           \A q \in Peer : net'[q] \subseteq net[q]
    PROVE  FluidInv'
<1>1. \A p \in Peer : /\ Taken(p)' = Taken(p) /\ Arrived(p)' = Arrived(p) /\ Alive(p)' = Alive(p)
                      /\ Fluid(p)' = Fluid(p) /\ Expects(p)' = Expects(p)
  BY DEF Taken, Arrived, Alive, Fluid, Expects
<1>2. \A p \in Peer : Knows(p)' = Knows(p)
  BY <1>1 DEF Knows, Counted
<1>3. \A p \in Peer : other(p) \in Peer
  BY OtherPeer
<1> QED BY <1>1, <1>2, <1>3 DEF FluidInv

\* At first nobody is open.
LEMMA FluidInit ==
    ASSUME Init
    PROVE  FluidInv
<1> SUFFICES ASSUME NEW p \in Peer
             PROVE  /\ SynAcked(tcb[p]) /\ ~Knows(p)
                    /\ \A s \in net[p] : "RST" \notin s.flags /\ s.seq \in OldSyns
  BY DEF FluidInv
<1>1. tcb[p] = NewConn(Iss[p]) /\ nread[p] = 0
  BY DEF Init
<1>2. /\ tcb[p].retxQueue = <<>> /\ tcb[p].rcv.irs = 0 /\ tcb[p].rcv.nxt = 0 /\ tcb[p].rcvBuf = <<>>
      /\ ~tcb[p].fin.seen
  BY <1>1 DEF NewConn
<1>3. Len(<<>>) = 0
  BY EmptySeq
<1>4. SynAcked(tcb[p])
  BY <1>2, <1>3 DEF SynAcked
<1>5. ASSUME Knows(p) PROVE FALSE
  <2>1. Iss[other(p)] = 0
    BY <1>2, <1>5 DEF Knows
  <2>2. Taken(p) = SeqSub(0, 0)
    BY <1>2, <2>1 DEF Taken, Got
  <2>3. Arrived(p) = 0 /\ FinBit(tcb[p]) = 0
    BY <1>1, <1>2, <1>3 DEF Arrived, FinBit
  <2>4. SeqSub(0, 0) = 1 + 0 + 0
    BY <1>5, <2>2, <2>3 DEF Knows, Counted
  <2> QED BY <2>4 DEF SeqSub
<1>6. net[p] \subseteq {oldSyn(o) : o \in OldSyns}
  BY DEF Init
<1> QED BY <1>4, <1>5, <1>6 DEF oldSyn

\* No SYN of a former incarnation is in the network; or, where there is one, no reset
\* that answers it can be taken for one of the present incarnation.
NoOldSyns == OldSyns = {}
OldSynsHarmless == NoOldSyns \/ ResetsApart

\* Without SYNs of former incarnations nobody is misled.
LEMMA NothingForgotten ==
    ASSUME NoOldSyns, DuplexInv, StreamInv, AckInv, NEW p \in Peer, Answers(p)
    PROVE  ~Forgets(p)
<1>1. ~Misled(p)
  BY DEF Misled, OldAck, NoOldSyns
<1> QED BY <1>1, Outcome DEF Forgets, Learns, Follows

\* The inductive invariant: what is acknowledged, and what old SYNs may do.
TrustInv == AckInv /\ (ResetsApart => FluidInv)

\* Every step keeps what is acknowledged true.
LEMMA TrustStep ==
    ASSUME OldSynsHarmless, DuplexInv, GivenOnly, Modest, StreamInv, TrustInv, [Next]_vars
    PROVE  TrustInv'
<1>1. GivenOnly' /\ StreamInv'
  BY SendsStep, StreamStep
<1>2. AckInv /\ (ResetsApart => FluidInv)
  BY DEF TrustInv
<1>3. ASSUME UNCHANGED <<tcb, opened, nsent, nread>>, \A q \in Peer : net'[q] \subseteq net[q]
      PROVE  TrustInv'
  <2>1. AckInv' /\ (FluidInv => FluidInv')
    BY <1>2, <1>3, AckFewer, FluidFewer
  <2>2. ResetsApart' = ResetsApart
    BY DEF ResetsApart
  <2> QED BY <1>2, <2>1, <2>2 DEF TrustInv
<1>4. CASE UNCHANGED vars
  BY <1>3, <1>4 DEF vars
<1>5. CASE Next
  <2>1. PICK p \in Peer : Lose(p) \/ ((\E t : Moved(p, t)) /\ Answers(p) /\ Behaves(p))
    BY <1>5, SomeBehavior
  <2>2. CASE Lose(p)
    <3>1. UNCHANGED <<tcb, opened, nsent, nread>> /\ \A q \in Peer : net'[q] \subseteq net[q]
      BY <2>2, PeerInv DEF Lose, TypeOK
    <3> QED BY <1>3, <3>1
  <2>3. CASE (\E t : Moved(p, t)) /\ Answers(p) /\ Behaves(p)
    <3>1. PICK t : Moved(p, t)
      BY <2>3
    <3>2. ~Forgets(p)
      BY <1>2, <2>3, NothingForgotten, NoneForgets DEF OldSynsHarmless
    <3>3. AckInv'
      BY <1>1, <1>2, <2>3, <3>1, <3>2, AckMove
    <3>4. ResetsApart => FluidInv'
      BY <1>1, <1>2, <2>3, <3>1, FluidMove
    <3>5. ResetsApart' = ResetsApart
      BY DEF ResetsApart
    <3> QED BY <3>3, <3>4, <3>5 DEF TrustInv
  <2> QED BY <2>1, <2>2, <2>3
<1> QED BY <1>4, <1>5

\* What holds in every state of a connection pair with short streams.
LEMMA TrustAlways ==
    ASSUME Modest, OldSynsHarmless
    PROVE  /\ Init => DuplexInv /\ GivenOnly /\ StreamInv /\ TrustInv
           /\ DuplexInv /\ GivenOnly /\ StreamInv /\ TrustInv /\ [Next]_vars
              => (DuplexInv /\ GivenOnly /\ StreamInv /\ TrustInv)'
<1>1. Init => DuplexInv /\ GivenOnly /\ StreamInv /\ TrustInv
  BY DuplexInit, SendsInit, StreamInit, AckInit, FluidInit DEF TrustInv
<1>2. ASSUME DuplexInv, GivenOnly, StreamInv, TrustInv, [Next]_vars
      PROVE  (DuplexInv /\ GivenOnly /\ StreamInv /\ TrustInv)'
  <2>1. DuplexInv' /\ GivenOnly' /\ StreamInv'
    BY <1>2, DuplexStep, SendsStep, StreamStep
  <2>2. TrustInv'
    BY <1>2, TrustStep
  <2> QED BY <2>1, <2>2
<1> QED BY <1>1, <1>2

\* Two connections that have both connected are of the same incarnations and their
\* numbers agree: SND.UNA, RCV.NXT and SND.NXT of the two ends are in order (onSegment,
\* handleAck, processText, handleRst), whatever SYNs of former incarnations are left in
\* the network.
THEOREM AgreeTheorem == Modest /\ OldSynsHarmless => (Spec => []PeersAgree)
<1> SUFFICES ASSUME Modest, OldSynsHarmless PROVE Spec => []PeersAgree
  OBVIOUS
<1>1. Init => DuplexInv /\ GivenOnly /\ StreamInv /\ TrustInv
  BY TrustAlways
<1>2. DuplexInv /\ GivenOnly /\ StreamInv /\ TrustInv /\ [Next]_vars
      => (DuplexInv /\ GivenOnly /\ StreamInv /\ TrustInv)'
  BY TrustAlways
<1>3. DuplexInv /\ GivenOnly /\ StreamInv /\ TrustInv => PeersAgree
  BY AckGives DEF TrustInv
<1> QED BY <1>1, <1>2, <1>3, PTL DEF Spec

\* When a FIN is acknowledged (FIN-WAIT-2, TIME-WAIT) the other side has had every
\* byte and the FIN (handleAck, processFin), whatever SYNs of former incarnations are
\* left in the network.
THEOREM FinAckTheorem == Modest /\ OldSynsHarmless => (Spec => []FinAckedMeansDelivered)
<1> SUFFICES ASSUME Modest, OldSynsHarmless PROVE Spec => []FinAckedMeansDelivered
  OBVIOUS
<1>1. Init => DuplexInv /\ GivenOnly /\ StreamInv /\ TrustInv
  BY TrustAlways
<1>2. DuplexInv /\ GivenOnly /\ StreamInv /\ TrustInv /\ [Next]_vars
      => (DuplexInv /\ GivenOnly /\ StreamInv /\ TrustInv)'
  BY TrustAlways
<1>3. DuplexInv /\ GivenOnly /\ StreamInv /\ TrustInv => FinAckedMeansDelivered
  BY AckGives DEF TrustInv
<1> QED BY <1>1, <1>2, <1>3, PTL DEF Spec
=============================================================================
