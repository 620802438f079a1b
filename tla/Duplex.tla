------------------------------- MODULE Duplex -------------------------------
(***************************************************************************)
(* Two connections of this stack talking to each other over a network that *)
(* loses, duplicates and reorders segments, each used by an application    *)
(* that opens, sends, reads and closes in any order.  Every step is one    *)
(* critical section of Conn.mu: a user call, a Tick, or the arrival of a   *)
(* segment.                                                                *)
(***************************************************************************)
EXTENDS StateMachine, ConnLife

CONSTANTS Active,         \* the peers that may ActiveOpen
          Passive,        \* the peers that may PassiveOpen
          Iss,            \* the initial send sequence number of each peer
          OldSyns,        \* sequence numbers of delayed SYNs of a former incarnation
          AppBytes,       \* how many bytes each application sends at most
          SendSizes,      \* how many bytes one call of Send carries
          Closers,        \* the peers whose application calls Close
          EagerClose,     \* may an application Close while sndBuf has unsent bytes?
          MaxLoss,        \* bound: segments the network loses
          MaxExtra,       \* bound: extra copies, made by the network or by an early timer
          MaxClock        \* bound: how far the two timestamp clocks advance together

Peer == {"a", "b"}
other(p) == IF p = "a" THEN "b" ELSE "a"

ASSUME DuplexAssumption ==
    /\ Active \subseteq Peer /\ Passive \subseteq Peer /\ Closers \subseteq Peer /\ OldSyns \subseteq SeqNum
    /\ Iss \in [Peer -> SeqNum] /\ AppBytes \in [Peer -> Nat] /\ SendSizes \subseteq Nat \ {0}
    /\ EagerClose \in BOOLEAN
    /\ MaxLoss \in Nat /\ MaxExtra \in Nat /\ MaxClock \in SeqNum

VARIABLES tcb,      \* the TCB of each peer
          net,      \* the segments in flight to each peer
          opened,   \* the peers whose application has opened its connection
          nsent,    \* how many bytes each application has given to Send
          nread,    \* how many bytes each application has got from Recv
          faults    \* how many losses and extra copies there were so far

vars == <<tcb, net, opened, nsent, nread, faults>>
ghosts == <<opened, nsent, nread, faults>>

\* A SYN of a former incarnation, still on its way to a listener.
oldSyn(seq) == [flags |-> {"SYN"}, seq |-> seq, ack |-> 0, win |-> minU32(RcvBuff, MaxWindow),
                data |-> <<>>, opts |-> "syn", tsval |-> 0]

Init == /\ tcb = [p \in Peer |-> NewConn(Iss[p])]
        /\ net = [p \in Peer |-> IF p \in Passive THEN {oldSyn(q) : q \in OldSyns} ELSE {}]
        /\ opened = {}
        /\ nsent = [p \in Peer |-> 0]
        /\ nread = [p \in Peer |-> 0]
        /\ faults = [lost |-> 0, extra |-> 0]

\* Peer p's connection becomes t; what it wrote is in flight to the other peer.
Becomes(p, t) ==
    /\ tcb' = [tcb EXCEPT ![p] = [t EXCEPT !.out = {}]]
    /\ net' = [net EXCEPT ![other(p)] = @ \cup t.out]

-----------------------------------------------------------------------------
(* The applications.                                                       *)

Open(p) ==
    /\ p \notin opened
    /\ opened' = opened \cup {p}
    /\ \/ p \in Active /\ Becomes(p, ActiveOpen(tcb[p], Iss[p]))
       \/ p \in Passive /\ Becomes(p, PassiveOpen(tcb[p]))
    /\ UNCHANGED <<nsent, nread, faults>>

canSendMore(p) == /\ tcb[p].state \in {"Established", "CloseWait"}
                  /\ \E n \in SendSizes : nsent[p] + n <= AppBytes[p]

\* Send n bytes; in the other states Send returns an error and changes nothing.
AppSend(p) ==
    /\ tcb[p].state \in {"Established", "CloseWait"}
    /\ \E n \in SendSizes :
          /\ nsent[p] + n <= AppBytes[p]
          /\ Becomes(p, Send(tcb[p], [i \in 1..n |-> nsent[p] + i]))
          /\ nsent' = [nsent EXCEPT ![p] = @ + n]
    /\ UNCHANGED <<opened, nread, faults>>

AppRecv(p) ==
    /\ \E n \in 1..Len(tcb[p].rcvBuf) :
          /\ Becomes(p, Recv(tcb[p], n))
          /\ nread' = [nread EXCEPT ![p] = @ + n]
    /\ UNCHANGED <<opened, nsent, faults>>

canClose(p) ==
    /\ p \in Closers
    /\ tcb[p].state \in {"Listen", "SynSent", "SynReceived", "Established", "CloseWait"}
    /\ EagerClose \/ unsent(tcb[p]) <= 0

AppClose(p) ==
    /\ canClose(p)
    /\ Becomes(p, Close(tcb[p]))
    /\ UNCHANGED ghosts

-----------------------------------------------------------------------------
(* Time.                                                                   *)

Quiet == \A q \in Peer : net[q] = {}

\* tickLoop drives Tick; any of the armed timers may have expired, normally only
\* when the answer cannot be on its way.
Timer(p) ==
    /\ \E due \in SUBSET armed(tcb[p]) \ {{}} : Becomes(p, Tick(tcb[p], due))
    /\ Quiet \/ faults.extra < MaxExtra
    /\ faults' = IF Quiet THEN faults ELSE [faults EXCEPT !.extra = @ + 1]
    /\ UNCHANGED <<opened, nsent, nread>>

ChallengeWindowPasses(p) ==
    /\ tcb[p].challengeCount > 0
    /\ Becomes(p, challengeWindowPasses(tcb[p]))
    /\ UNCHANGED ghosts

ClockAdvances(p) ==
    /\ tcb[p].ts.now + tcb[other(p)].ts.now < MaxClock
    /\ Becomes(p, [tcb[p] EXCEPT !.ts.now = @ + 1])
    /\ UNCHANGED ghosts

-----------------------------------------------------------------------------
(* The network.                                                            *)

Deliver(p) ==
    /\ \E s \in net[p] :
          LET t == onSegment(tcb[p], s)
          IN /\ tcb' = [tcb EXCEPT ![p] = [t EXCEPT !.out = {}]]
             /\ net' = [net EXCEPT ![p] = @ \ {s}, ![other(p)] = @ \cup t.out]
    /\ UNCHANGED ghosts

\* Deliver a segment of which a copy stays in flight.
Duplicate(p) ==
    /\ faults.extra < MaxExtra
    /\ \E s \in net[p] : Becomes(p, onSegment(tcb[p], s))
    /\ faults' = [faults EXCEPT !.extra = @ + 1]
    /\ UNCHANGED <<opened, nsent, nread>>

Lose(p) ==
    /\ faults.lost < MaxLoss
    /\ \E s \in net[p] : net' = [net EXCEPT ![p] = @ \ {s}]
    /\ faults' = [faults EXCEPT !.lost = @ + 1]
    /\ UNCHANGED <<tcb, opened, nsent, nread>>

Next == \E p \in Peer :
            \/ Open(p) \/ AppSend(p) \/ AppRecv(p) \/ AppClose(p)
            \/ Timer(p) \/ ChallengeWindowPasses(p) \/ ClockAdvances(p)
            \/ Deliver(p) \/ Duplicate(p) \/ Lose(p)

Spec == Init /\ [][Next]_vars

\* recvLoop reads every segment that arrives, tickLoop never stops, and these
\* applications open, send and read what they can, and close.  Each conjunct is
\* the weak fairness of its action, []<>~enabled \/ []<>taken, with ENABLED
\* written out as a state predicate (TLC needs minutes to compute it).
Fairness == \A p \in Peer :
    /\ []<>(p \in opened) \/ []<><<Open(p)>>_vars
    /\ []<>~canSendMore(p) \/ []<><<AppSend(p)>>_vars
    /\ []<>(tcb[p].rcvBuf = <<>>) \/ []<><<AppRecv(p)>>_vars
    /\ []<>~canClose(p) \/ []<><<AppClose(p)>>_vars
    /\ []<>~(Quiet /\ armed(tcb[p]) # {}) \/ []<><<Timer(p)>>_vars
    /\ []<>(net[p] = {}) \/ []<><<Deliver(p)>>_vars
FairSpec == Spec /\ Fairness

-----------------------------------------------------------------------------
\* Every field of both TCBs keeps the range its Go type and the constants give
\* it: sequence numbers wrap, windows and counters stay under their limits.
TypeOK == /\ tcb \in [Peer -> TCB]
          /\ net \in [Peer -> SUBSET Segment]
          /\ opened \subseteq Peer
          /\ nsent \in [Peer -> Nat] /\ nread \in [Peer -> Nat]
          /\ faults \in [lost: Nat, extra: Nat]

\* Bytes reach the reader's buffer in the order they were sent, none lost,
\* repeated or invented (acceptText, drainOoo, trimToWindow, flushSend).
StreamIntegrity ==
    \A p \in Peer :
        /\ \A i \in 1..Len(tcb[p].rcvBuf) : tcb[p].rcvBuf[i] = nread[p] + i
        /\ nread[p] + Len(tcb[p].rcvBuf) <= nsent[other(p)]

\* When Recv answers io.EOF the reader has had every byte the peer ever sent.
EofComplete == \A p \in Peer : finReached(tcb[p]) => nread[p] = nsent[other(p)]

\* Seen from the applications the two connections are a reliable byte stream.
Stream == INSTANCE ByteStream WITH
             sent <- nsent, read <- nread,
             got <- [p \in Peer |-> nread[p] + Len(tcb[p].rcvBuf)],
             ended <- [p \in Peer |-> tcb[p].fin.seen]
ImplementsByteStream == Stream!Spec

\* Two connected peers are in the same incarnation, and what one believes
\* acknowledged the other has taken, what one has taken the other has sent.
PeersAgree ==
    \A p \in Peer : LET t == tcb[p] q == tcb[other(p)] IN
        t.reached /\ t.state # "Closed" =>
            /\ q.rcv.irs = t.snd.iss /\ t.rcv.irs = q.snd.iss
            /\ SeqLEQ(t.snd.una, q.rcv.nxt) /\ SeqLEQ(q.rcv.nxt, t.snd.nxt)

\* A peer whose FIN is acknowledged (FIN-WAIT-2 and after) has delivered its
\* whole stream to the other side.
FinAckedMeansDelivered ==
    \A p \in Peer : LET q == other(p) IN
        tcb[p].state \in {"FinWait2", "TimeWait"} =>
            tcb[q].fin.seen /\ nread[q] + Len(tcb[q].rcvBuf) = nsent[p]

\* Whatever is sent and not acknowledged can be retransmitted: each number of
\* [SND.UNA, SND.NXT) belongs to an entry of retxQueue.
RetxCovers ==
    \A p \in Peer : LET t == tcb[p] IN
        t.state \notin {"Closed", "Listen"} =>
            \A j \in 0..(flightSize(t) - 1) : \E i \in 1..Len(t.retxQueue) :
                SeqSub(SeqAdd(t.snd.una, j), t.retxQueue[i].seq) < segLen(t.retxQueue[i])

\* Nothing a receiver still waits for is lost to it for good: of two connected
\* peers the one that has sent the number RCV.NXT holds it in retxQueue, and if it
\* retransmitted that now the other would take it, whatever clocks have advanced
\* and whatever arrived out of order (pawsStale, acceptable, handleAck, acceptText).
StillDeliverable ==
    \A p \in Peer : LET t == tcb[p] q == tcb[other(p)] IN
        /\ synchronized(t.state) /\ synchronized(q.state)
        /\ SeqLT(t.rcv.nxt, q.snd.nxt) /\ t.rcv.wnd > 0
        => \E i \in 1..Len(q.retxQueue) : LET e == q.retxQueue[i] IN
              \A s \in writeSeg(q, e.flags, e.seq, q.rcv.nxt, e.data).out :
                  onSegment(t, s).rcv.nxt # t.rcv.nxt

\* A sender with unsent bytes always has something that will wake it: a segment
\* in flight, the persist timer or the override timer.
SenderCanWake ==
    \A p \in Peer : LET t == tcb[p] IN
        synchronized(t.state) /\ unsent(t) > 0 =>
            t.retxQueue # <<>> \/ t.tmr.persist \/ t.tmr.override

\* Fast recovery lasts no longer than the loss: a connection in it still has the
\* lost segment to retransmit (onDuplicateAck, onNewAck, ackRetxQueue).
RecoveryHasLoss ==
    \A p \in Peer : LET t == tcb[p] IN
        t.cong.state = "FastRecovery" /\ t.state # "Closed" =>
            t.retxQueue # <<>> /\ flightSize(t) > 0

\* A receiver that has taken bytes it has not acknowledged owes an ACK: the
\* delayed-ACK timer is running.
AckOwed ==
    \A p \in Peer : LET t == tcb[p] IN
        synchronized(t.state) /\ t.ts.lastAckSent # t.rcv.nxt => t.tmr.delAck

\* The window the receiver offers never exceeds the buffer it has left.
RcvBufBounded ==
    \A p \in Peer : Len(tcb[p].rcvBuf) + tcb[p].rcv.wnd <= RcvBuff

\* The sender never believes in more window than the receiver has: between peers
\* that agree on scaling, what writeSegOpts rounds and saturates and what
\* updateSendWindow restores from ACKs in any order ends, counted from the ACK it
\* came with (SND.WL2), within the receiver's right edge.  Counted from SND.UNA, as
\* flushSend does, it ends there as long as the peer has sent nothing itself: else
\* a retransmission, old by SEG.SEQ, moves SND.UNA on and brings no window.
SenderWithinWindow ==
    \A p \in Peer : LET t == tcb[p] q == tcb[other(p)] edge == SeqAdd(q.rcv.nxt, q.rcv.wnd) IN
        /\ synchronized(t.state) /\ synchronized(q.state)
        /\ t.opt.scaled = q.opt.scaled /\ t.snd.wnd > 0
        => /\ SeqLEQ(SeqAdd(t.snd.wl2, t.snd.wnd), edge)
           /\ q.snd.nxt = SeqAdd(q.snd.iss, 1) => SeqLEQ(SeqAdd(t.snd.una, t.snd.wnd), edge)

\* The FIN is the last number sent (finAcked takes SND.NXT for its end).
FinAtEnd ==
    \A p \in Peer : \A i \in 1..Len(tcb[p].retxQueue) :
        "FIN" \in tcb[p].retxQueue[i].flags =>
            SeqAdd(tcb[p].retxQueue[i].seq, 1) = tcb[p].snd.nxt

\* The right edge RCV.NXT + RCV.WND of the receive window never moves left.
RightEdgeNeverShrinks ==
    [][\A p \in Peer : synchronized(tcb[p].state) =>
          SeqLEQ(SeqAdd(tcb[p].rcv.nxt, tcb[p].rcv.wnd),
                 SeqAdd(tcb'[p].rcv.nxt, tcb'[p].rcv.wnd))]_vars

\* Neither the network nor a slow reader ends a connection: no peer gives up an
\* ESTABLISHED or CLOSE-WAIT connection that the other side still answers.
NeverGivesUp ==
    [][\A p \in Peer : tcb[p].state \in {"Established", "CloseWait"} =>
                       tcb'[p].state # "Closed"]_vars

\* The connection as the Stack sees it.
lifeOf(t) ==
    [reached |-> t.reached,
     state |-> CASE t.state = "Listen" /\ t.retxQueue # <<>> -> "Relisten"
                 [] t.state = "CloseWait" -> "Established"
                 [] t.state \in {"FinWait1", "FinWait2", "LastAck"} -> "Closing"
                 [] OTHER -> t.state]

\* Keepalive does not give up on a peer that is there: of two connected peers
\* neither has more than one probe unanswered, and one for each lost segment and
\* each early timer (checkKeepAlive, onSegment).
ProbesAnswered ==
    \A p \in Peer : LET t == tcb[p] q == tcb[other(p)] IN
        t.state # "Closed" /\ q.reached /\ q.state # "Closed" =>
            t.keepaliveProbes <= 1 + faults.lost + faults.extra

\* No step of a connection surprises the Stack: every change of what State() and
\* ReachedEstablished() answer is one that ConnLife allows, so that a connection
\* leaves CLOSED only by an open, LISTEN comes back only from SYN-RECEIVED, and
\* TIME-WAIT leads to CLOSED alone (onSegment, Tick, Close).  LifeTheorem proves it.
LifeCycle ==
    [][\A p \in Peer : LET l == lifeOf(tcb[p]) IN
          lifeOf(tcb'[p]) \in {l, closeLife(l)} \cup openLife(l) \cup tickLife(l)
                              \cup UNION {segmentLife(l, k) : k \in SegKind}]_vars

\* Every byte given to Send is eventually read by the other application: the
\* applications stop sending at some point, and then the readers catch up.
SentIsRead == <>[](\A p \in Peer : nread[other(p)] = nsent[p])

\* Once both applications close, both connections come to rest in CLOSED.
CloseCompletes == <>[](\A p \in Peer : tcb[p].state = "Closed")
=============================================================================
