------------------------------ MODULE RtoTimer ------------------------------
(***************************************************************************)
(* The retransmission timer of a connection (checkRetransmit, ackRetxQueue *)
(* and the RTT sampling of statemachine.go) together with the congestion   *)
(* controller it drives.  Time is in milliseconds and the constants are    *)
(* those of the code; every segment is full-sized, and an entry of the     *)
(* retransmission queue is known by its age, the time since sentAt.        *)
(*                                                                         *)
(* Tick runs every 100 ms, so time does not pass a deadline without a      *)
(* Tick.  Each bound of Budget limits one kind of event.                   *)
(***************************************************************************)
EXTENDS CongestionControl, Rto, SequencesExt

CONSTANTS MaxRetransmits,   \* maxRetransmits (R2)
          Delays,           \* the steps in which time passes
          Budget            \* how many sends, delays and segments that acknowledge nothing

ASSUME RtoTimerAssumption ==
    /\ MaxRetransmits \in Nat /\ Delays \subseteq Nat
    /\ Budget \in [{"send", "delay", "idle"} -> Nat]

VARIABLES
    queue,      \* retxQueue: age is the time since sentAt; transmitted (how long ago
                \* the segment last went out) and resent (it went out twice) are not in the code
    curRTO,     \* 0: the timer is stopped
    rtt,        \* rttEstimator
    rttValid,
    tsOK,       \* timestamps are negotiated
    recent,     \* the age of the TSval the peer echoes
    closed,     \* R2 was reached
    longest,    \* the longest sample taken so far
    ambiguous,  \* a sample was taken from a segment that had been sent twice
    left        \* what is left of Budget

rvars == <<cong, queue, curRTO, rtt, rttValid, tsOK, recent, closed, longest, ambiguous, left>>

inFlight == Len(queue) * SMSS
spend(kind) == left[kind] > 0 /\ left' = [left EXCEPT ![kind] = @ - 1]

RtoInit ==
    /\ Init
    /\ queue = <<>> /\ curRTO = 0
    /\ rtt = [srtt |-> 0, rttvar |-> 0] /\ rttValid = FALSE
    /\ tsOK \in BOOLEAN /\ recent = 0 /\ closed = FALSE
    /\ longest = 0 /\ ambiguous = FALSE /\ left = Budget

-----------------------------------------------------------------------------
\* sampleRTT, sampleRTTFromTimestamp: less than a millisecond counts as one
sample(elapsed, s) ==
    LET r == IF elapsed < 1 THEN 1 ELSE elapsed
    IN [est |-> IF s.valid THEN UpdateEst(s.est, r) ELSE initEst(r), valid |-> TRUE,
        longest |-> IF r > s.longest THEN r ELSE s.longest]

\* mutant: before the first sample the timer is not started
currentRTOZero(s) == IF s.valid THEN Rto(s.est) ELSE 0

currentRTO(s) == IF s.valid THEN Rto(s.est) ELSE InitialRTO

\* what was measured so far
measured == [est |-> rtt, valid |-> rttValid, longest |-> longest]

\* Karn's rule; with timestamps TSecr is measured instead
measurable(e) == ~e.retransmitted /\ ~tsOK

\* the samples of the acknowledged entries, first to last
sampleAll(acked, s) ==
    LET after[i \in 0..Len(acked)] ==
            IF i = 0 THEN s
            ELSE IF measurable(acked[i]) THEN sample(acked[i].age, after[i - 1]) ELSE after[i - 1]
    IN after[Len(acked)]

-----------------------------------------------------------------------------
\* mutant: after a retransmission the segment is still measured
resendUnmarked(e) == [e EXCEPT !.age = 0, !.transmitted = 0, !.resent = TRUE]

\* fastRetransmit, and what checkRetransmit does besides counting
resend(e) == [e EXCEPT !.age = 0, !.transmitted = 0, !.resent = TRUE, !.retransmitted = TRUE]

\* sendData; flushSend keeps what is in flight within cwnd
Send ==
    /\ ~closed /\ spend("send")
    /\ inFlight + SMSS <= cong.cwnd
    /\ queue' = Append(queue, [age |-> 0, retries |-> 0, retransmitted |-> FALSE,
                               transmitted |-> 0, resent |-> FALSE])
    /\ curRTO' = IF queue = <<>> THEN currentRTO(measured) ELSE curRTO
    /\ UNCHANGED <<cong, rtt, rttValid, tsOK, recent, closed, longest, ambiguous>>

\* mutant: onNewAck is called for every entry taken off the queue
ackedEach(c, n) == FoldLeft(LAMBDA d, i : onNewAck(d, SMSS), c, [i \in 1..n |-> i])

\* the controller hears of an ACK once, whatever it acknowledges
ackedOnce(c, n) == onNewAck(c, n * SMSS)

\* handleAck, ackRetxQueue: the first n entries are acknowledged.  With
\* timestamps the ACK echoes the TSval of one of them and is measured first.
Ack ==
    \E n \in 1..Len(queue) : \E echoed \in {queue[i].transmitted : i \in 1..n} :
        LET acked == SubSeq(queue, 1, n)
            rest == SubSeq(queue, n + 1, Len(queue))
            s == sampleAll(acked, IF tsOK THEN sample(echoed, measured) ELSE measured)
            taken == {acked[i] : i \in {j \in 1..n : measurable(acked[j])}}
        IN /\ rtt' = s.est /\ rttValid' = s.valid /\ longest' = s.longest
           /\ curRTO' = IF rest = <<>> THEN 0 ELSE currentRTO(s)
           /\ queue' = IF rest = <<>> THEN rest ELSE [rest EXCEPT ![1].age = 0]
           /\ recent' = echoed
           /\ ambiguous' = (ambiguous \/ \E e \in taken : e.resent)
           /\ cong' = ackedOnce(cong, n)
           /\ UNCHANGED <<tsOK, closed, left>>

\* With timestamps every segment that carries an ACK is measured, whether or
\* not it acknowledges anything
echoSample ==
    LET s == IF tsOK THEN sample(recent, measured) ELSE measured
    IN rtt' = s.est /\ rttValid' = s.valid /\ longest' = s.longest

\* onDuplicateAck: the third one retransmits the first segment
DuplicateAck ==
    /\ queue # <<>> /\ spend("idle")
    /\ cong' = onDupAck(cong, inFlight)
    /\ echoSample
    /\ queue' = IF cong.state # "FastRecovery" /\ cong'.state = "FastRecovery"
                THEN [queue EXCEPT ![1] = resend(@)] ELSE queue
    /\ UNCHANGED <<curRTO, tsOK, recent, closed, ambiguous>>

\* The peer sends data of its own or a probe, which acknowledges nothing new
StraySegment ==
    /\ tsOK /\ ~closed /\ spend("idle")
    /\ echoSample
    /\ UNCHANGED <<cong, queue, curRTO, tsOK, recent, closed, ambiguous>>

due == queue # <<>> /\ queue[1].age >= curRTO

\* checkRetransmit counts what it sends again
retry(e) == [resend(e) EXCEPT !.retries = @ + 1]

\* checkRetransmit
Tick ==
    /\ due
    /\ IF queue[1].retries >= MaxRetransmits
       THEN closed' = TRUE /\ queue' = <<>> /\ curRTO' = 0 /\ UNCHANGED cong
       ELSE /\ cong' = onRtoTimeout(cong, inFlight)
            /\ queue' = [queue EXCEPT ![1] = retry(@)]
            /\ curRTO' = backoff(curRTO)
            /\ UNCHANGED closed
    /\ UNCHANGED <<rtt, rttValid, tsOK, recent, longest, ambiguous, left>>

Older(e, d) == [e EXCEPT !.age = @ + d, !.transmitted = @ + d]

TimePasses ==
    \E d \in Delays :
        LET rest == IF queue = <<>> THEN d ELSE curRTO - queue[1].age
            step == IF rest < d THEN rest ELSE d
        IN /\ ~closed /\ ~due /\ spend("delay")
           /\ queue' = [i \in DOMAIN queue |-> Older(queue[i], step)]
           /\ recent' = recent + step
           /\ UNCHANGED <<cong, curRTO, rtt, rttValid, tsOK, closed, longest, ambiguous>>

RtoNext == Send \/ Ack \/ DuplicateAck \/ StraySegment \/ Tick \/ TimePasses

RtoSpec == RtoInit /\ [][RtoNext]_rvars

-----------------------------------------------------------------------------
\* The timer runs exactly while something is unacknowledged, and never shorter
\* than the minimum: curRTO is restarted, doubled and stopped in four places.
TimerRuns ==
    /\ queue = <<>> <=> curRTO = 0
    /\ queue # <<>> => curRTO >= RtoMin

\* Karn's rule: no sample comes from a segment that was sent twice, whether the
\* timer or three duplicate ACKs sent it again.
KarnsRule == ~ambiguous

\* The estimator stays within the samples it was given (it does not diverge), and
\* so does the timeout it yields.
EstimatorBounded ==
    rttValid => /\ rtt.srtt <= longest /\ rtt.rttvar <= longest
                /\ Rto(rtt) <= RtoMin + 5 * longest

\* Every step of the timer and every ACK is at most one event of the congestion
\* controller, so that what is proved of CongestionControl holds here.
DrivesCongestion == [][Next]_cong
=============================================================================
