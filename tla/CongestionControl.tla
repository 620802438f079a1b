-------------------------- MODULE CongestionControl --------------------------
(***************************************************************************)
(* The congestion controller on its own: new ACKs, duplicate ACKs and RTO  *)
(* expiries arrive in any order, reporting any number of bytes in flight.  *)
(***************************************************************************)
EXTENDS Congestion

CONSTANTS SMSS,        \* defaultMSS, the SMSS NewConn passes to newCongestion
          MaxFlight,   \* bound: the bytes in flight an event can report
          MaxCwnd      \* bound: no ACK is taken once cwnd has passed it

ASSUME CongestionAssumption ==
    /\ SMSS \in Nat \ {0} /\ MaxFlight \in Nat /\ MaxCwnd \in Nat /\ MaxWindow \in Nat
    /\ initialWindow(SMSS) < MaxWindow

VARIABLE cong

Init == cong = newCongestion(SMSS)

NewAck == \E flight \in 1..MaxFlight : \E acked \in 1..flight :
              cong.cwnd <= MaxCwnd /\ cong' = onNewAck(cong, acked)

DupAck == \E flight \in 1..MaxFlight :
              cong.cwnd <= MaxCwnd /\ cong' = onDupAck(cong, flight)

RtoTimeout == \E flight \in 0..MaxFlight : cong' = onRtoTimeout(cong, flight)

Next == NewAck \/ DupAck \/ RtoTimeout
Spec == Init /\ [][Next]_cong

-----------------------------------------------------------------------------
\* congestion has the types of its struct.
TypeOK == cong \in Cong

\* The phase the code remembers is the one cwnd and ssthresh imply: outside
\* fast recovery, SlowStart is exactly cwnd < ssthresh (onNewAck tests the
\* numbers, fastRetransmit and the tests look at the phase).
PhaseMatchesWindow ==
    cong.state # "FastRecovery" => (cong.state = "SlowStart" <=> cong.cwnd < cong.ssthresh)

\* No sequence of losses starves the sender: cwnd never falls below one
\* segment nor ssthresh below two, and fast recovery always holds at least the
\* three segments the duplicate ACKs reported as having left the network.
NeverStarved ==
    /\ cong.cwnd >= SMSS
    /\ cong.ssthresh >= 2 * SMSS
    /\ cong.state = "FastRecovery" => cong.cwnd >= cong.ssthresh + 3 * SMSS

\* The inductive invariant of the proofs.
CongInv == TypeOK /\ cong.smss = SMSS /\ PhaseMatchesWindow /\ NeverStarved
=============================================================================
