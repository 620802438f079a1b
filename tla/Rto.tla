--------------------------------- MODULE Rto ---------------------------------
(***************************************************************************)
(* The retransmission timeout of RFC 6298 (tcp/transport/rto.go): the      *)
(* estimator of the round-trip time as a record, in uint32 milliseconds.   *)
(***************************************************************************)
EXTENDS Integers

CONSTANTS RtoMin,        \* rtoMinMS
          InitialRTO,    \* initialRTO
          MaxRTO,        \* maxRTO
          ClockGran,     \* clockGranMS
          Uint32Size     \* 2^32, or less where TLC's integers end

ASSUME RtoAssumption ==
    /\ RtoMin \in Nat \ {0} /\ InitialRTO \in Nat /\ MaxRTO \in Nat /\ ClockGran \in Nat
    /\ RtoMin <= InitialRTO /\ InitialRTO <= MaxRTO
    /\ Uint32Size \in Nat /\ 2 * MaxRTO < Uint32Size /\ ClockGran <= RtoMin

u32(n) == n % Uint32Size

\* rttEstimator; g is always ClockGran
Est == [srtt: Nat, rttvar: Nat]

initEst(r) == [srtt |-> r, rttvar |-> r \div 2]

absDiff(a, b) == IF a > b THEN a - b ELSE b - a

\* mutant: the mean deviation is summed and not averaged
UpdateEstSums(e, r) ==
    [srtt |-> u32(7 * e.srtt + r) \div 8, rttvar |-> u32(e.rttvar + absDiff(e.srtt, r))]

\* RTTVAR from the old SRTT, then SRTT
UpdateEst(e, r) ==
    [srtt |-> u32(7 * e.srtt + r) \div 8,
     rttvar |-> u32(3 * e.rttvar + absDiff(e.srtt, r)) \div 4]

Rto(e) ==
    LET dev == u32(4 * e.rttvar)
        raw == u32(e.srtt + (IF ClockGran > dev THEN ClockGran ELSE dev))
    IN IF raw > RtoMin THEN raw ELSE RtoMin

backoff(cur) == IF u32(2 * cur) < MaxRTO THEN u32(2 * cur) ELSE MaxRTO
=============================================================================
