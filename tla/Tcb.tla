-------------------------------- MODULE Tcb ---------------------------------
(***************************************************************************)
(* The state of one TCP connection (tcp/transport/tcb.go) as a record, and *)
(* the helpers of statemachine.go that write segments.  Every operation a  *)
(* goroutine performs under Conn.mu is an operator from one TCB to the     *)
(* next; the segments it writes to the link collect in the field out.      *)
(*                                                                         *)
(* Time is abstract (timers are armed or not), RTT estimation, the SACK    *)
(* blocks of an ACK (nothing reads them back) and the wire format are left *)
(* to other modules.                                                       *)
(***************************************************************************)
EXTENDS SeqSpace, Congestion

CONSTANTS DefaultMSS,           \* defaultMSS: the bytes emitSegment puts in a segment
          DefaultSendMSS,       \* defaultSendMSS: assumed of a peer whose SYN had no MSS
          WScale,               \* 2^myWindowScale
          RcvBuff,              \* rcvBuffCap(): capacity of the receive buffer
          MaxRetransmits,       \* maxRetransmits (R2)
          ChallengeAckLimit,    \* challengeAckLimit
          KeepaliveMaxProbes,   \* keepaliveMaxProbes
          KeepAlive,            \* keepaliveEnabled (SetKeepAlive)
          NoDelay               \* nagleDisabled (SetNoDelay)

\* What seq.go relies on: every window and segment is shorter than half the space.
ASSUME TcbAssumption ==
    /\ DefaultMSS \in Nat \ {0} /\ DefaultSendMSS \in 1..DefaultMSS
    /\ WScale \in Nat \ {0} /\ RcvBuff \in Nat \ {0} /\ MaxWindow \in Nat \ {0}
    /\ DefaultMSS + 2 <= HalfSeqSpace
    /\ RcvBuff + 2 <= HalfSeqSpace /\ MaxWindow * WScale < HalfSeqSpace
    /\ MaxRetransmits \in Nat /\ ChallengeAckLimit \in Nat /\ KeepaliveMaxProbes \in Nat
    /\ KeepAlive \in BOOLEAN /\ NoDelay \in BOOLEAN

State == {"Closed", "Listen", "SynSent", "SynReceived", "Established", "FinWait1",
          "FinWait2", "CloseWait", "Closing", "LastAck", "TimeWait"}
synchronized(st) == st \in State \ {"Closed", "Listen", "SynSent", "SynReceived"}

\* Segments.  A payload byte is its position in the sender's stream, so that
\* loss, duplication and reordering of bytes show.  opts says which options
\* the header carries: "syn" (MSS, window scale, timestamp, SACK-permitted,
\* as synOptionBytes always sends together), "ts" (timestamp alone) or "none".
Payload == {d \in Seq(Nat) : Len(d) <= DefaultMSS}
Segment == [flags: SUBSET {"SYN", "ACK", "FIN", "RST"}, seq: SeqNum, ack: SeqNum,
            win: 0..MaxWindow, data: Payload, opts: {"none", "syn", "ts"}, tsval: SeqNum]
RetxSeg == [flags: SUBSET {"SYN", "ACK", "FIN"}, seq: SeqNum, data: Payload,
            retries: 0..MaxRetransmits]
Fragment == [seq: SeqNum, data: Payload]

\* The length in sequence numbers of a segment or a retransmission entry.
segLen(s) == Len(s.data) + (IF "SYN" \in s.flags THEN 1 ELSE 0)
                         + (IF "FIN" \in s.flags THEN 1 ELSE 0)

\* sndVars with maxSndWnd, rcvVars, the results of option negotiation (both
\* window shifts are set together, by myWindowScale or not at all), timestamps,
\* the armed flags of flowcontrol.go, peerFin with peerFinSeq.
SndVars == [una: SeqNum, nxt: SeqNum, iss: SeqNum, wl1: SeqNum, wl2: SeqNum,
            wnd: 0..(MaxWindow * WScale), maxWnd: 0..(MaxWindow * WScale)]
RcvVars == [nxt: SeqNum, wnd: 0..RcvBuff, irs: SeqNum]
OptVars == [scaled: BOOLEAN, tsOK: BOOLEAN, sendMSS: {0, DefaultSendMSS, DefaultMSS}]
TsVars == [now: SeqNum, recent: SeqNum, lastAckSent: SeqNum]
TmrVars == [persist: BOOLEAN, override: BOOLEAN, delAck: BOOLEAN, delAckCount: {0, 1}]
FinVars == [seen: BOOLEAN, seq: SeqNum]

TCB == [state: State, origin: {"passive", "active"}, reached: BOOLEAN, snd: SndVars,
        rcv: RcvVars, opt: OptVars, ts: TsVars, tmr: TmrVars, fin: FinVars, cong: Cong,
        retxQueue: Seq(RetxSeg), challengeCount: 0..ChallengeAckLimit,
        keepaliveProbes: 0..KeepaliveMaxProbes, sndBuf: Seq(Nat), rcvBuf: Seq(Nat),
        oooSegs: SUBSET Fragment, out: SUBSET Segment]

\* A fresh connection; snd.iss is what demuxListen or ActiveOpen will give it.
NewConn(iss) ==
    [state |-> "Closed", origin |-> "passive", reached |-> FALSE,
     snd |-> [una |-> 0, nxt |-> 0, wnd |-> 0, wl1 |-> 0, wl2 |-> 0, iss |-> iss,
              maxWnd |-> MaxWindow],
     rcv |-> [nxt |-> 0, wnd |-> 0, irs |-> 0],
     opt |-> [scaled |-> FALSE, tsOK |-> FALSE, sendMSS |-> 0],
     ts |-> [now |-> 0, recent |-> 0, lastAckSent |-> 0],
     tmr |-> [persist |-> FALSE, override |-> FALSE, delAck |-> FALSE, delAckCount |-> 0],
     fin |-> [seen |-> FALSE, seq |-> 0],
     cong |-> newCongestion(DefaultMSS), retxQueue |-> <<>>, challengeCount |-> 0,
     keepaliveProbes |-> 0, sndBuf |-> <<>>, rcvBuf |-> <<>>, oooSegs |-> {}, out |-> {}]

effSndMSS(t) == IF t.opt.sendMSS # 0 /\ t.opt.sendMSS < DefaultMSS
                THEN t.opt.sendMSS ELSE DefaultMSS
flightSize(t) == SeqSub(t.snd.nxt, t.snd.una)

-----------------------------------------------------------------------------
(* Writing segments.                                                       *)

\* Mutant: the scaled window is rounded up.
advertisedRoundsUp(t, flags) ==
    minU32(IF "SYN" \notin flags /\ t.opt.scaled
           THEN (t.rcv.wnd + WScale - 1) \div WScale ELSE t.rcv.wnd, MaxWindow)

\* The window is sent raw in a SYN, scaled down otherwise, saturated at 16 bits.
advertised(t, flags) ==
    minU32(IF "SYN" \notin flags /\ t.opt.scaled THEN t.rcv.wnd \div WScale ELSE t.rcv.wnd,
           MaxWindow)

writeSegOpts(t, flags, seq, ack, data, o) ==
    LET opts == IF o = "none" /\ t.opt.tsOK /\ "SYN" \notin flags /\ "RST" \notin flags
                THEN "ts" ELSE o
    IN [t EXCEPT !.out = @ \cup
                    {[flags |-> flags, seq |-> seq, ack |-> ack, win |-> advertised(t, flags),
                      data |-> data, opts |-> opts,
                      tsval |-> IF opts = "none" THEN 0 ELSE t.ts.now]},
                 !.ts.lastAckSent = IF "ACK" \in flags THEN ack ELSE @]

writeSeg(t, flags, seq, ack, data) == writeSegOpts(t, flags, seq, ack, data, "none")

enqueue(t, flags, seq, data) ==
    [t EXCEPT !.retxQueue = Append(@, [flags |-> flags, seq |-> seq, data |-> data,
                                       retries |-> 0])]

\* Only what occupies sequence numbers is queued for retransmission.
sendData(t, flags, seq, ack, data) ==
    LET w == writeSeg(t, flags, seq, ack, data)
    IN IF segLen([flags |-> flags, data |-> data]) = 0 THEN w ELSE enqueue(w, flags, seq, data)

send(t, flags, seq, ack) == sendData(t, flags, seq, ack, <<>>)

\* The options go out once: a retransmission is written by writeSeg.
sendSyn(t, flags, seq, ack) ==
    enqueue(writeSegOpts(t, flags, seq, ack, <<>>, "syn"), flags, seq, <<>>)

sendAck(t) ==
    send([t EXCEPT !.tmr.delAck = FALSE, !.tmr.delAckCount = 0],
         {"ACK"}, t.snd.nxt, t.rcv.nxt)

sendRst(t, seq) == send(t, {"RST"}, seq, 0)

sendChallengeAck(t) ==
    IF t.challengeCount >= ChallengeAckLimit THEN t
    ELSE send([t EXCEPT !.challengeCount = @ + 1], {"ACK"}, t.snd.nxt, t.rcv.nxt)

\* allowChallengeAck starts a new counting window once the old one has passed.
challengeWindowPasses(t) == [t EXCEPT !.challengeCount = 0]
=============================================================================
