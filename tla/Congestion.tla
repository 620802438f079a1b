----------------------------- MODULE Congestion -----------------------------
(***************************************************************************)
(* Congestion control of one connection (tcp/transport/congestion.go): its *)
(* state as a record, and the three events that drive it as operators from *)
(* one record to the next.                                                 *)
(***************************************************************************)
EXTENDS Integers

CONSTANT MaxWindow   \* maxWindow, the largest window of a TCP header (65535)

\* congestion
Cong == [smss: Nat, cwnd: Nat, ssthresh: Nat, dupAckCnt: Nat, bytesAcked: Nat,
         state: {"SlowStart", "CongestionAvoidance", "FastRecovery"},
         retransmitted: BOOLEAN]

initialWindow(smss) == IF smss <= 1095 THEN 4 * smss
                       ELSE IF smss <= 2190 THEN 3 * smss ELSE 2 * smss

newCongestion(smss) ==
    [smss |-> smss, cwnd |-> initialWindow(smss), ssthresh |-> MaxWindow,
     dupAckCnt |-> 0, bytesAcked |-> 0, state |-> "SlowStart", retransmitted |-> FALSE]

\* Mutant: no floor of two segments.
halveSsthreshNoFloor(c, flight) == flight \div 2

halveSsthresh(c, flight) ==
    IF flight \div 2 > 2 * c.smss THEN flight \div 2 ELSE 2 * c.smss

\* Mutant: recovery is never left.
exitRecoveryStays(c) == [c EXCEPT !.bytesAcked = 0]

exitRecovery(c) ==
    [c EXCEPT !.bytesAcked = 0,
              !.state = IF c.cwnd < c.ssthresh THEN "SlowStart" ELSE "CongestionAvoidance"]

onNewAck(c0, acked) ==
    LET c == [c0 EXCEPT !.retransmitted = FALSE, !.dupAckCnt = 0]
        grown == c.cwnd + (IF acked < c.smss THEN acked ELSE c.smss)
        bytes == c.bytesAcked + acked
    IN IF c.state = "FastRecovery" THEN exitRecovery([c EXCEPT !.cwnd = c.ssthresh])
       ELSE IF c.cwnd < c.ssthresh
       THEN [c EXCEPT !.cwnd = grown,
                      !.state = IF grown >= c.ssthresh THEN "CongestionAvoidance" ELSE @]
       ELSE IF bytes >= c.cwnd
       THEN [c EXCEPT !.state = "CongestionAvoidance", !.bytesAcked = bytes - c.cwnd,
                      !.cwnd = @ + c.smss]
       ELSE [c EXCEPT !.state = "CongestionAvoidance", !.bytesAcked = bytes]

onDupAck(c, flight) ==
    IF c.state = "FastRecovery" THEN [c EXCEPT !.cwnd = @ + c.smss]
    ELSE IF c.dupAckCnt + 1 < 3 THEN [c EXCEPT !.dupAckCnt = @ + 1]
    ELSE [c EXCEPT !.dupAckCnt = @ + 1, !.ssthresh = halveSsthresh(c, flight),
                   !.retransmitted = TRUE, !.state = "FastRecovery",
                   !.cwnd = halveSsthresh(c, flight) + 3 * c.smss]

\* Mutant: the phase is not reset.
onRtoTimeoutKeepsPhase(c, flight) ==
    [c EXCEPT !.ssthresh = halveSsthresh(c, flight), !.retransmitted = TRUE, !.cwnd = c.smss,
              !.dupAckCnt = 0, !.bytesAcked = 0]

onRtoTimeout(c, flight) ==
    [c EXCEPT !.ssthresh = IF c.retransmitted THEN @ ELSE halveSsthresh(c, flight),
              !.retransmitted = TRUE, !.cwnd = c.smss, !.state = "SlowStart",
              !.dupAckCnt = 0, !.bytesAcked = 0]
=============================================================================
