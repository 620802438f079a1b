-------------------------- MODULE RtoTimerTheorems --------------------------
(***************************************************************************)
(* The congestion controller, the RTT estimator and the retransmission     *)
(* timer that drives both, for every segment size, window, width and       *)
(* bound.                                                                  *)
(***************************************************************************)
EXTENDS RtoTimer, CongestionTheorems, SequenceTheorems

-----------------------------------------------------------------------------
(* CongInv is an inductive invariant of the congestion controller.         *)

\* The initial window lies below the initial threshold, so the controller
\* starts in slow start as newCongestion says.
LEMMA CongInit == Init => CongInv
<1> SUFFICES ASSUME Init PROVE CongInv
  OBVIOUS
<1>1. TypeOK
  BY NewCongestionType, CongestionAssumption DEF Init, TypeOK
<1>2. /\ cong.smss = SMSS /\ cong.cwnd = initialWindow(SMSS)
      /\ cong.ssthresh = MaxWindow /\ cong.state = "SlowStart"
  BY DEF Init, newCongestion
<1>3. initialWindow(SMSS) \in Nat /\ initialWindow(SMSS) >= 2 * SMSS
  BY CongestionAssumption DEF initialWindow
<1>4. PhaseMatchesWindow /\ NeverStarved
  BY <1>2, <1>3, CongestionAssumption DEF PhaseMatchesWindow, NeverStarved
<1> QED BY <1>1, <1>2, <1>4 DEF CongInv

\* An ACK of any number of bytes preserves CongInv.
LEMMA NewAckKeeps ==
    ASSUME CongInv, NEW acked \in Nat \ {0}, cong' = onNewAck(cong, acked)
    PROVE  CongInv'
<1>1. /\ cong \in Cong /\ cong.smss = SMSS /\ SMSS \in Nat \ {0}
      /\ cong.cwnd \in Nat /\ cong.ssthresh \in Nat /\ cong.bytesAcked \in Nat
  BY CongestionAssumption DEF CongInv, TypeOK, Cong
<1>2. cong' \in Cong
  BY <1>1, OnNewAckType
<1> QED BY <1>1, <1>2
        DEF CongInv, TypeOK, PhaseMatchesWindow, NeverStarved, onNewAck, exitRecovery, Cong

\* A duplicate ACK, with any number of bytes in flight.
LEMMA DupAckKeeps ==
    ASSUME CongInv, NEW flight \in Nat, cong' = onDupAck(cong, flight)
    PROVE  CongInv'
<1>1. /\ cong \in Cong /\ cong.smss = SMSS /\ SMSS \in Nat \ {0}
      /\ cong.cwnd \in Nat /\ cong.ssthresh \in Nat /\ cong.bytesAcked \in Nat
  BY CongestionAssumption DEF CongInv, TypeOK, Cong
<1>2. cong' \in Cong /\ halveSsthresh(cong, flight) \in Nat
      /\ halveSsthresh(cong, flight) >= 2 * SMSS
  BY <1>1, OnDupAckType, HalveSsthreshType
<1> QED BY <1>1, <1>2 DEF CongInv, TypeOK, PhaseMatchesWindow, NeverStarved, onDupAck, Cong

\* A timeout, with any number of bytes in flight.
LEMMA TimeoutKeeps ==
    ASSUME CongInv, NEW flight \in Nat, cong' = onRtoTimeout(cong, flight)
    PROVE  CongInv'
<1>1. /\ cong \in Cong /\ cong.smss = SMSS /\ SMSS \in Nat \ {0}
      /\ cong.cwnd \in Nat /\ cong.ssthresh \in Nat /\ cong.bytesAcked \in Nat
  BY CongestionAssumption DEF CongInv, TypeOK, Cong
<1>2. cong' \in Cong /\ halveSsthresh(cong, flight) \in Nat
      /\ halveSsthresh(cong, flight) >= 2 * SMSS
  BY <1>1, OnRtoTimeoutType, HalveSsthreshType
<1> QED BY <1>1, <1>2 DEF CongInv, TypeOK, PhaseMatchesWindow, NeverStarved, onRtoTimeout, Cong

\* Every event preserves CongInv.
LEMMA CongStep == CongInv /\ [Next]_cong => CongInv'
<1> SUFFICES ASSUME CongInv, [Next]_cong PROVE CongInv'
  OBVIOUS
<1>1. CASE NewAck
  <2>1. PICK flight \in 1..MaxFlight : \E acked \in 1..flight : cong' = onNewAck(cong, acked)
    BY <1>1 DEF NewAck
  <2>2. PICK acked \in 1..flight : cong' = onNewAck(cong, acked)
    BY <2>1
  <2>3. flight \in Nat /\ acked \in Nat \ {0}
    BY CongestionAssumption
  <2> QED BY <2>2, <2>3, NewAckKeeps
<1>2. CASE DupAck
  <2>1. PICK flight \in 1..MaxFlight : cong' = onDupAck(cong, flight)
    BY <1>2 DEF DupAck
  <2>2. flight \in Nat
    BY CongestionAssumption
  <2> QED BY <2>1, <2>2, DupAckKeeps
<1>3. CASE RtoTimeout
  <2>1. PICK flight \in 0..MaxFlight : cong' = onRtoTimeout(cong, flight)
    BY <1>3 DEF RtoTimeout
  <2>2. flight \in Nat
    BY CongestionAssumption
  <2> QED BY <2>1, <2>2, TimeoutKeeps
<1>4. CASE UNCHANGED cong
  BY <1>4 DEF CongInv, TypeOK, PhaseMatchesWindow, NeverStarved
<1> QED BY <1>1, <1>2, <1>3, <1>4 DEF Next

\* The inductive invariant holds of every behaviour.
THEOREM CongInvariance == Spec => []CongInv
  BY CongInit, CongStep, PTL DEF Spec

\* congestion.state is the phase that cwnd and ssthresh imply, after any
\* sequence of new ACKs, duplicate ACKs and timeouts (congestion.go).
THEOREM PhaseTheorem == Spec => []PhaseMatchesWindow
<1>1. CongInv => PhaseMatchesWindow
  BY DEF CongInv
<1> QED BY CongInvariance, <1>1, PTL

\* No sequence of losses takes cwnd below one segment or ssthresh below two.
THEOREM NeverStarvedTheorem == Spec => []NeverStarved
<1>1. CongInv => NeverStarved
  BY DEF CongInv
<1> QED BY CongInvariance, <1>1, PTL

-----------------------------------------------------------------------------
(* The estimator does not diverge and does not overflow: samples below a   *)
(* bound M keep it below M, for every M up to an eighth of the range.      *)

\* The estimates are at most M.
Within(e, M) == e \in Est /\ e.srtt <= M /\ e.rttvar <= M

\* A value within uint32 is not changed by its width.
LEMMA U32Small ==
    ASSUME NEW n \in Nat, n < Uint32Size
    PROVE  u32(n) = n
  BY RtoAssumption DEF u32

\* Distances of values up to M are at most M.
LEMMA AbsDiffBound ==
    ASSUME NEW M \in Nat, NEW a \in Nat, NEW b \in Nat, a <= M, b <= M
    PROVE  absDiff(a, b) \in Nat /\ absDiff(a, b) <= M
  BY DEF absDiff

\* The first sample starts the estimator within its bound.
THEOREM InitEstWithin ==
    ASSUME NEW M \in Nat, NEW r \in Nat, r <= M
    PROVE  Within(initEst(r), M)
  <1>1. r \div 2 \in Nat /\ r \div 2 <= r
    OBVIOUS
  <1> QED BY <1>1 DEF Within, initEst, Est

\* UpdateEst keeps both estimates within the bound of the samples, and its
\* uint32 arithmetic does not wrap.
THEOREM UpdateEstWithin ==
    ASSUME NEW M \in Nat, 8 * M < Uint32Size,
           NEW e, Within(e, M), NEW r \in Nat, r <= M
    PROVE  /\ Within(UpdateEst(e, r), M)
           /\ UpdateEst(e, r) = [srtt |-> (7 * e.srtt + r) \div 8,
                                 rttvar |-> (3 * e.rttvar + absDiff(e.srtt, r)) \div 4]
  <1>1. e.srtt \in Nat /\ e.rttvar \in Nat /\ e.srtt <= M /\ e.rttvar <= M
    BY DEF Within, Est
  <1> DEFINE d == absDiff(e.srtt, r)
  <1>2. d \in Nat /\ d <= M
    BY <1>1, AbsDiffBound
  <1> HIDE DEF d
  <1>3. u32(7 * e.srtt + r) = 7 * e.srtt + r
    <2>1. 7 * e.srtt + r \in Nat /\ 7 * e.srtt + r <= 8 * M
      BY <1>1
    <2> QED BY <2>1, U32Small, RtoAssumption
  <1>4. u32(3 * e.rttvar + d) = 3 * e.rttvar + d
    <2>1. 3 * e.rttvar + d \in Nat /\ 3 * e.rttvar + d <= 8 * M
      BY <1>1, <1>2
    <2> QED BY <2>1, U32Small, RtoAssumption
  <1>5. (7 * e.srtt + r) \div 8 \in Nat /\ (7 * e.srtt + r) \div 8 <= M
    BY <1>1
  <1>6. (3 * e.rttvar + d) \div 4 \in Nat /\ (3 * e.rttvar + d) \div 4 <= M
    BY <1>1, <1>2
  <1>7. UpdateEst(e, r) = [srtt |-> (7 * e.srtt + r) \div 8,
                           rttvar |-> (3 * e.rttvar + d) \div 4]
    BY <1>3, <1>4 DEF UpdateEst, d
  <1> QED BY <1>5, <1>6, <1>7 DEF Within, Est, d

\* The timeout is at least the minimum and, for a bound of the samples that is not
\* far below the minimum, at most five times that bound:
\* nothing else caps it, and MaxRTO does not.
THEOREM RtoWithin ==
    ASSUME NEW M \in Nat, 8 * M < Uint32Size, RtoMin <= 3 * M, NEW e, Within(e, M)
    PROVE  RtoMin <= Rto(e) /\ Rto(e) <= 5 * M
  <1>1. e.srtt \in Nat /\ e.rttvar \in Nat /\ e.srtt <= M /\ e.rttvar <= M
    BY DEF Within, Est
  <1>2. u32(4 * e.rttvar) = 4 * e.rttvar
    <2>1. 4 * e.rttvar \in Nat /\ 4 * e.rttvar <= 8 * M
      BY <1>1
    <2> QED BY <2>1, U32Small, RtoAssumption
  <1> DEFINE dev == IF ClockGran > 4 * e.rttvar THEN ClockGran ELSE 4 * e.rttvar
  <1>3. dev \in Nat /\ dev <= 4 * M
    BY <1>1, RtoAssumption
  <1>4. u32(e.srtt + dev) = e.srtt + dev
    <2>1. e.srtt + dev \in Nat /\ e.srtt + dev <= 8 * M
      BY <1>1, <1>3
    <2> HIDE DEF dev
    <2> QED BY <2>1, U32Small, RtoAssumption
  <1>5. Rto(e) = IF e.srtt + dev > RtoMin THEN e.srtt + dev ELSE RtoMin
    BY <1>2, <1>4 DEF Rto
  <1> HIDE DEF dev
  <1> QED BY <1>1, <1>3, <1>5, RtoAssumption

-----------------------------------------------------------------------------
(* The samples of one ACK: sampleAll is a recursive function, whose steps  *)
(* are taken one by one.                                                   *)

\* The samples fit the width of the estimator: with the constants of the code,
\* a bound of five days.
InRange(M) == 2 * (RtoMin + 5 * M) < Uint32Size

Sample == [est: Est, valid: BOOLEAN, longest: Nat]

\* A segment in the retransmission queue; one that went out twice is marked.
Entry == [age: Nat, retries: Nat, retransmitted: BOOLEAN, transmitted: Nat, resent: BOOLEAN]
Sent == {e \in Entry : e.resent => e.retransmitted}

\* What was measured is bounded by the longest sample.
Good(s) == s \in Sample /\ (InRange(s.longest) /\ s.valid => Within(s.est, s.longest))

LEMMA InRangeDown ==
    ASSUME NEW M \in Nat, NEW N \in Nat, M <= N, InRange(N)
    PROVE  InRange(M) /\ 8 * N < Uint32Size
  BY RtoAssumption DEF InRange

LEMMA UpdateEstType ==
    ASSUME NEW e \in Est, NEW r \in Nat PROVE UpdateEst(e, r) \in Est
<1>1. e.srtt \in Nat /\ e.rttvar \in Nat
  BY DEF Est
<1> DEFINE d == absDiff(e.srtt, r)
<1>2. d \in Nat
  BY <1>1 DEF absDiff
<1> HIDE DEF d
<1>3. u32(7 * e.srtt + r) \in Nat /\ u32(3 * e.rttvar + d) \in Nat
  BY <1>1, <1>2, RtoAssumption DEF u32
<1>4. u32(7 * e.srtt + r) \div 8 \in Nat /\ u32(3 * e.rttvar + d) \div 4 \in Nat
  BY <1>3
<1> QED BY <1>4 DEF UpdateEst, Est, d

\* One more sample keeps what was measured bounded.
LEMMA SampleGood ==
    ASSUME NEW s, Good(s), NEW elapsed \in Nat
    PROVE  Good(sample(elapsed, s)) /\ s.longest <= sample(elapsed, s).longest
<1> DEFINE r == IF elapsed < 1 THEN 1 ELSE elapsed
           M == IF r > s.longest THEN r ELSE s.longest
           e == IF s.valid THEN UpdateEst(s.est, r) ELSE initEst(r)
<1>1. s.est \in Est /\ s.longest \in Nat /\ s.valid \in BOOLEAN
  BY DEF Good, Sample
<1>2. r \in Nat /\ M \in Nat /\ r <= M /\ s.longest <= M
  BY <1>1
<1>3. sample(elapsed, s) = [est |-> e, valid |-> TRUE, longest |-> M]
  BY DEF sample
<1> HIDE DEF r, M
<1>4. e \in Est
  <2>1. initEst(r) \in Est
    BY <1>2 DEF initEst, Est
  <2> QED BY <1>1, <1>2, <2>1, UpdateEstType
<1>5. ASSUME InRange(M) PROVE Within(e, M)
  <2>1. InRange(s.longest) /\ 8 * M < Uint32Size
    BY <1>1, <1>2, <1>5, InRangeDown
  <2>2. CASE s.valid
    <3>1. Within(s.est, s.longest)
      BY <2>1, <2>2 DEF Good
    <3>2. Within(s.est, M)
      BY <1>1, <1>2, <3>1 DEF Within, Est
    <3> QED BY <1>2, <2>1, <2>2, <3>2, UpdateEstWithin
  <2>3. CASE ~s.valid
    BY <1>2, <2>3, InitEstWithin
  <2> QED BY <1>1, <2>2, <2>3
<1> HIDE DEF e
<1> QED BY <1>2, <1>3, <1>4, <1>5 DEF Good, Sample

\* What one acknowledged entry adds.
measure(s, e) == IF measurable(e) THEN sample(e.age, s) ELSE s

\* f holds what was measured after each of the first n entries.
Sampling(f, acked, s, n) ==
    f = [i \in 0..n |-> IF i = 0 THEN s ELSE measure(f[i - 1], acked[i])]

\* The recursive function of sampleAll exists: otherwise there would be a least
\* number of entries for which it does not.
LEMMA SamplingExists ==
    ASSUME NEW acked, NEW s, NEW n \in Nat
    PROVE  \E f : Sampling(f, acked, s, n)
<1> DEFINE T == {k \in Nat : ~\E f : Sampling(f, acked, s, k)}
<1>1. SUFFICES T = {}
  OBVIOUS
<1>2. SUFFICES ASSUME T # {} PROVE FALSE
  OBVIOUS
<1>3. PICK k \in T : \A j \in T : k <= j
  <2> HIDE DEF T
  <2>1. T \in SUBSET Nat
    BY DEF T
  <2> QED BY <1>2, <2>1, LeastElement
<1>4. k \in Nat
  OBVIOUS
<1>5. k # 0
  <2>1. Sampling([i \in 0..0 |-> s], acked, s, 0)
    BY DEF Sampling
  <2> QED BY <1>3, <2>1
<1>6. PICK g : Sampling(g, acked, s, k - 1)
  <2>1. k - 1 \in Nat /\ k - 1 \notin T
    <3> HIDE DEF T
    <3> QED BY <1>3, <1>4, <1>5
  <2> QED BY <2>1
<1> DEFINE h == [i \in 0..k |-> IF i = k THEN measure(g[k - 1], acked[k]) ELSE g[i]]
<1>7. h = [i \in 0..k |-> IF i = 0 THEN s ELSE measure(h[i - 1], acked[i])]
  <2>1. \A i \in 0..(k - 1) : g[i] = IF i = 0 THEN s ELSE measure(g[i - 1], acked[i])
    BY <1>6 DEF Sampling
  <2>2. \A i \in 0..k : h[i] = IF i = k THEN measure(g[k - 1], acked[k]) ELSE g[i]
    OBVIOUS
  <2>3. \A i \in 0..(k - 1) : h[i] = g[i] /\ i # k /\ i \in 0..k
    BY <1>4, <2>2
  <2>4. ASSUME NEW i \in 0..k
        PROVE  h[i] = IF i = 0 THEN s ELSE measure(h[i - 1], acked[i])
    <3> HIDE DEF h
    <3>1. CASE i = k
      <4>1. k - 1 \in 0..(k - 1)
        BY <1>4, <1>5
      <4> QED BY <1>5, <2>2, <2>3, <3>1, <4>1
    <3>2. CASE i # k
      <4>1. i \in 0..(k - 1) /\ (i # 0 => i - 1 \in 0..(k - 1))
        BY <1>4, <3>2
      <4> QED BY <2>1, <2>3, <4>1
    <3> QED BY <3>1, <3>2
  <2> HIDE DEF h
  <2>5. h = [i \in 0..k |-> h[i]]
    BY DEF h
  <2> QED BY <2>4, <2>5
<1>8. Sampling(h, acked, s, k)
  BY <1>7 DEF Sampling
<1> QED BY <1>3, <1>8

\* An ACK keeps what was measured bounded, however many entries it measures.
LEMMA SampleAllGood ==
    ASSUME NEW acked \in Seq(Sent), NEW s, Good(s)
    PROVE  Good(sampleAll(acked, s)) /\ s.longest <= sampleAll(acked, s).longest
<1> DEFINE n == Len(acked)
           f == CHOOSE g : Sampling(g, acked, s, n)
<1>1. n \in Nat
  OBVIOUS
<1>2. sampleAll(acked, s) = f[n]
  BY DEF sampleAll, measure, Sampling
<1>3. f = [i \in 0..n |-> IF i = 0 THEN s ELSE measure(f[i - 1], acked[i])]
  <2>1. \E g : Sampling(g, acked, s, n)
    <3> HIDE DEF n
    <3> QED BY <1>1, SamplingExists
  <2>2. Sampling(f, acked, s, n)
    BY <2>1, Zenon
  <2> QED BY <2>2 DEF Sampling
<1> HIDE DEF f
<1>4. \A i \in 0..n : f[i] = IF i = 0 THEN s ELSE measure(f[i - 1], acked[i])
  BY <1>3
<1> DEFINE T == {i \in 0..n : ~(Good(f[i]) /\ s.longest <= f[i].longest)}
<1>5. T = {}
  <2> SUFFICES ASSUME T # {} PROVE FALSE
    OBVIOUS
  <2>1. PICK k \in T : \A j \in T : k <= j
    <3>1. T \in SUBSET Nat
      OBVIOUS
    <3> HIDE DEF T
    <3> QED BY <3>1, LeastElement
  <2>2. k \in 0..n
    OBVIOUS
  <2>3. s.longest \in Nat
    BY DEF Good, Sample
  <2>4. k # 0
    BY <1>1, <1>4, <2>1, <2>3
  <2>5. k - 1 \in 0..n /\ k - 1 \notin T /\ k \in 1..n
    BY <1>1, <2>1, <2>2, <2>4
  <2>6. Good(f[k - 1]) /\ s.longest <= f[k - 1].longest
    BY <2>5
  <2>7. f[k] = measure(f[k - 1], acked[k])
    BY <1>4, <2>2, <2>4
  <2>8. acked[k] \in Sent
    BY <2>5
  <2>9. acked[k].age \in Nat
    BY <2>8 DEF Sent, Entry
  <2>10. Good(measure(f[k - 1], acked[k])) /\ f[k - 1].longest <= measure(f[k - 1], acked[k]).longest
    <3>1. f[k - 1].longest \in Nat
      BY <2>6 DEF Good, Sample
    <3>2. Good(sample(acked[k].age, f[k - 1]))
          /\ f[k - 1].longest <= sample(acked[k].age, f[k - 1]).longest
      BY ONLY <2>6, <2>9, SampleGood
    <3>3. CASE measurable(acked[k])
      BY ONLY <3>2, <3>3 DEF measure
    <3>4. CASE ~measurable(acked[k])
      BY ONLY <2>6, <3>1, <3>4 DEF measure
    <3> QED BY <3>3, <3>4
  <2>11. f[k - 1].longest \in Nat /\ f[k].longest \in Nat
    BY <2>6, <2>7, <2>10 DEF Good, Sample
  <2>12. Good(f[k]) /\ s.longest <= f[k].longest
    BY <2>3, <2>6, <2>7, <2>10, <2>11
  <2> QED BY <2>1, <2>12
<1>6. n \in 0..n
  BY <1>1
<1> QED BY <1>2, <1>5, <1>6

-----------------------------------------------------------------------------
(* The retransmission timer.                                               *)

\* What the timer is set to when it is (re)started.
LEMMA CurrentRTOBounds ==
    ASSUME NEW s, Good(s)
    PROVE  /\ currentRTO(s) \in Nat /\ currentRTO(s) >= RtoMin /\ currentRTO(s) # 0
           /\ InRange(s.longest) => /\ 2 * currentRTO(s) < Uint32Size
                                    /\ s.valid => Rto(s.est) <= RtoMin + 5 * s.longest
<1>1. s.est \in Est /\ s.longest \in Nat /\ s.valid \in BOOLEAN
  BY DEF Good, Sample
<1>2. s.est.srtt \in Nat /\ s.est.rttvar \in Nat
  BY <1>1 DEF Est
<1> DEFINE dev == u32(4 * s.est.rttvar)
           wide == IF ClockGran > dev THEN ClockGran ELSE dev
           raw == u32(s.est.srtt + wide)
<1>3. dev \in Nat
  BY <1>2, RtoAssumption DEF u32
<1>4. wide \in Nat
  BY <1>3, RtoAssumption
<1>5. raw \in Nat
  <2> HIDE DEF wide
  <2> QED BY <1>2, <1>4, RtoAssumption DEF u32
<1>6. Rto(s.est) = IF raw > RtoMin THEN raw ELSE RtoMin
  BY DEF Rto
<1>7. ASSUME InRange(s.longest), s.valid PROVE raw <= RtoMin + 5 * s.longest
  <2>1. s.est.srtt <= s.longest /\ s.est.rttvar <= s.longest
    BY <1>7 DEF Good, Within
  <2>2. 4 * s.est.rttvar \in Nat /\ 4 * s.est.rttvar <= 4 * s.longest
        /\ 4 * s.est.rttvar < Uint32Size
    BY <1>1, <1>2, <1>7, <2>1, RtoAssumption DEF InRange
  <2>3. dev <= 4 * s.longest
    BY <2>2, U32Small
  <2>4. s.est.srtt + wide \in Nat /\ s.est.srtt + wide <= RtoMin + 5 * s.longest
    BY <1>1, <1>2, <1>3, <2>1, <2>3, RtoAssumption
  <2>5. s.est.srtt + wide < Uint32Size
    <3> HIDE DEF wide
    <3> QED BY <1>1, <1>7, <2>4, RtoAssumption DEF InRange
  <2> HIDE DEF wide
  <2> QED BY <2>4, <2>5, U32Small
<1> HIDE DEF raw
<1>8. Rto(s.est) \in Nat /\ Rto(s.est) >= RtoMin
  BY <1>5, <1>6, RtoAssumption
<1>9. ASSUME InRange(s.longest), s.valid PROVE Rto(s.est) <= RtoMin + 5 * s.longest
  BY <1>1, <1>5, <1>6, <1>7, <1>9, RtoAssumption
<1>10. CASE s.valid
  <2>1. currentRTO(s) = Rto(s.est)
    BY <1>10 DEF currentRTO
  <2> QED BY <1>1, <1>8, <1>9, <1>10, <2>1, RtoAssumption DEF InRange
<1>11. CASE ~s.valid
  <2>1. currentRTO(s) = InitialRTO
    BY <1>11 DEF currentRTO
  <2> QED BY <1>11, <2>1, RtoAssumption
<1> QED BY <1>1, <1>10, <1>11

\* Doubling the timeout does not take it below the minimum unless it wraps.
LEMMA BackoffBounds ==
    ASSUME NEW cur \in Nat
    PROVE  /\ backoff(cur) \in Nat /\ 2 * backoff(cur) < Uint32Size
           /\ cur >= RtoMin /\ 2 * cur < Uint32Size => backoff(cur) >= RtoMin
<1>1. u32(2 * cur) \in Nat
  BY RtoAssumption DEF u32
<1>2. 2 * cur < Uint32Size => u32(2 * cur) = 2 * cur
  BY U32Small
<1> QED BY <1>1, <1>2, RtoAssumption DEF backoff

\* The inductive invariant: the types, Karn's rule for what is in the queue, the
\* estimator within its samples, and the timer.
TimerOK == InRange(longest) => TimerRuns /\ 2 * curRTO < Uint32Size
RtoInv ==
    /\ CongInv /\ queue \in Seq(Sent) /\ curRTO \in Nat /\ recent \in Nat /\ tsOK \in BOOLEAN
    /\ Good(measured) /\ ~ambiguous /\ TimerOK

\* An entry of the queue stays one.
LEMMA SentSteps ==
    /\ [age |-> 0, retries |-> 0, retransmitted |-> FALSE,
        transmitted |-> 0, resent |-> FALSE] \in Sent
    /\ \A e \in Sent : /\ resend(e) \in Sent
                       /\ retry(e) \in Sent
                       /\ [e EXCEPT !.age = 0] \in Sent
                       /\ \A d \in Nat : Older(e, d) \in Sent
<1>1. [age |-> 0, retries |-> 0, retransmitted |-> FALSE,
       transmitted |-> 0, resent |-> FALSE] \in Sent
  BY DEF Sent, Entry
<1>2. ASSUME NEW e \in Sent
      PROVE  /\ resend(e) \in Sent
             /\ retry(e) \in Sent
             /\ [e EXCEPT !.age = 0] \in Sent
             /\ \A d \in Nat : Older(e, d) \in Sent
  <2>1. e \in Entry /\ e.age \in Nat /\ e.transmitted \in Nat
    BY DEF Sent, Entry
  <2>2. resend(e) \in Entry /\ resend(e).retransmitted = TRUE
    BY <2>1 DEF resend, Entry
  <2>3. resend(e) \in Sent
    BY <2>2 DEF Sent
  <2> DEFINE r == resend(e)
             s == [r EXCEPT !.retries = @ + 1]
  <2>4. s \in Entry /\ s.retransmitted = TRUE
    <3> HIDE DEF r
    <3>1. r \in Entry /\ r.retransmitted = TRUE
      BY <2>2 DEF r
    <3> QED BY <3>1 DEF Entry
  <2>5. retry(e) \in Sent
    <3>1. retry(e) = s
      BY DEF retry
    <3> QED BY <2>4, <3>1 DEF Sent
  <2>6. [e EXCEPT !.age = 0] \in Sent
    BY <2>1 DEF Sent, Entry
  <2>7. ASSUME NEW d \in Nat PROVE Older(e, d) \in Sent
    <3> DEFINE x == e.age + d
               y == e.transmitted + d
               o == [e EXCEPT !.age = x, !.transmitted = y]
    <3>1. x \in Nat /\ y \in Nat
      BY <2>1
    <3>2. Older(e, d) = o
      BY DEF Older
    <3> HIDE DEF x, y
    <3>3. o \in Entry /\ o.resent = e.resent /\ o.retransmitted = e.retransmitted
      BY <2>1, <3>1 DEF Entry
    <3> HIDE DEF o
    <3> QED BY <3>2, <3>3 DEF Sent
  <2> QED BY <2>3, <2>5, <2>6, <2>7
<1> QED BY <1>1, <1>2

LEMMA SeqPut ==
    ASSUME NEW S, NEW q \in Seq(S), NEW i \in 1..Len(q), NEW e \in S,
           NEW p, p = [q EXCEPT ![i] = e]
    PROVE  /\ p \in Seq(S) /\ Len(p) = Len(q)
           /\ \A j \in 1..Len(q) : p[j] = IF j = i THEN e ELSE q[j]
  BY ExceptSeq

\* The first entry of a queue that has one is replaced.
LEMMA PutFirst ==
    ASSUME NEW q \in Seq(Sent), q # <<>>, NEW e \in Sent, NEW p, p = [q EXCEPT ![1] = e]
    PROVE  p \in Seq(Sent) /\ p # <<>> /\ q[1] \in Sent
<1>1. Len(q) \in Nat /\ Len(q) # 0
  BY EmptySeq
<1>2. 1 \in 1..Len(q)
  BY <1>1
<1>3. p \in Seq(Sent) /\ Len(p) = Len(q)
  BY <1>2, SeqPut
<1> QED BY <1>1, <1>2, <1>3

\* The timer is right when something is in flight, and when nothing is.
LEMMA Running ==
    ASSUME queue' # <<>>, curRTO' \in Nat, curRTO' >= RtoMin, 2 * curRTO' < Uint32Size
    PROVE  TimerOK'
<1>1. curRTO' # 0
  BY RtoAssumption
<1>2. TimerRuns'
  BY <1>1 DEF TimerRuns
<1> QED BY <1>2 DEF TimerOK

LEMMA Stopped ==
    ASSUME queue' = <<>>, curRTO' = 0 PROVE TimerOK'
  BY RtoAssumption DEF TimerOK, TimerRuns

\* What is measured next is again bounded, and no sample so far was longer.
LEMMA MeasuredNext ==
    ASSUME NEW s, Good(s), longest \in Nat, longest <= s.longest,
           rtt' = s.est, rttValid' = s.valid, longest' = s.longest
    PROVE  /\ Good(measured)' /\ (InRange(longest') => InRange(longest)) /\ longest' \in Nat
<1>1. s \in Sample /\ s.longest \in Nat
  BY DEF Good, Sample
<1>2. s = [est |-> s.est, valid |-> s.valid, longest |-> s.longest]
  BY <1>1 DEF Sample
<1>3. measured' = s
  BY <1>2 DEF measured
<1>4. Good(measured)'
  BY <1>3 DEF Good
<1> QED BY <1>1, <1>4, InRangeDown

LEMMA SendStep == ASSUME RtoInv, Send PROVE RtoInv'
<1> DEFINE e == [age |-> 0, retries |-> 0, retransmitted |-> FALSE,
                 transmitted |-> 0, resent |-> FALSE]
<1>1. /\ UNCHANGED <<cong, rtt, rttValid, tsOK, recent, longest, ambiguous>>
      /\ queue' = Append(queue, e)
      /\ curRTO' = IF queue = <<>> THEN currentRTO(measured) ELSE curRTO
  BY DEF Send
<1>2. e \in Sent /\ queue \in Seq(Sent)
  BY SentSteps DEF RtoInv
<1> HIDE DEF e
<1>3. queue' \in Seq(Sent) /\ queue' # <<>>
  BY <1>1, <1>2, AppendProperties
<1>4. Good(measured) /\ measured.longest = longest /\ Good(measured)'
  BY <1>1 DEF RtoInv, measured
<1>5. curRTO' \in Nat
  BY <1>1, <1>4, CurrentRTOBounds DEF RtoInv
<1>6. TimerOK'
  <2> SUFFICES ASSUME InRange(longest) PROVE TimerOK'
    BY <1>1 DEF TimerOK
  <2>1. CASE queue = <<>>
    <3>1. curRTO' = currentRTO(measured)
      BY <1>1, <2>1
    <3>2. curRTO' >= RtoMin /\ 2 * curRTO' < Uint32Size
      BY <1>4, <3>1, CurrentRTOBounds
    <3> QED BY <1>3, <1>5, <3>2, Running
  <2>2. CASE queue # <<>>
    <3>1. curRTO' >= RtoMin /\ 2 * curRTO' < Uint32Size
      BY <1>1, <2>2 DEF RtoInv, TimerOK, TimerRuns
    <3> QED BY <1>3, <1>5, <3>1, Running
  <2> QED BY <2>1, <2>2
<1>7. CongInv'
  BY <1>1 DEF RtoInv, CongInv, TypeOK, PhaseMatchesWindow, NeverStarved
<1> QED BY <1>1, <1>3, <1>4, <1>5, <1>6, <1>7 DEF RtoInv

LEMMA AckStep == ASSUME RtoInv, Ack PROVE RtoInv'
<1>0. PICK n \in 1..Len(queue) : \E echoed \in {queue[i].transmitted : i \in 1..n} :
        LET acked == SubSeq(queue, 1, n)
            rest == SubSeq(queue, n + 1, Len(queue))
            s == sampleAll(acked, IF tsOK THEN sample(echoed, measured) ELSE measured)
            taken == {acked[i] : i \in {j \in 1..n : measurable(acked[j])}}
        IN /\ rtt' = s.est /\ rttValid' = s.valid /\ longest' = s.longest
           /\ curRTO' = IF rest = <<>> THEN 0 ELSE currentRTO(s)
           /\ queue' = IF rest = <<>> THEN rest ELSE [rest EXCEPT ![1].age = 0]
           /\ recent' = echoed
           /\ ambiguous' = (ambiguous \/ \E e \in taken : e.resent)
           /\ cong' = ackedOnce(cong, n)
           /\ UNCHANGED <<tsOK, closed, left>>
  BY Zenon DEF Ack
<1> DEFINE acked == SubSeq(queue, 1, n)
           rest == SubSeq(queue, n + 1, Len(queue))
           first(x) == IF tsOK THEN sample(x, measured) ELSE measured
           taken == {acked[i] : i \in {j \in 1..n : measurable(acked[j])}}
<1>1. PICK echoed \in {queue[i].transmitted : i \in 1..n} :
        /\ rtt' = sampleAll(acked, first(echoed)).est
        /\ rttValid' = sampleAll(acked, first(echoed)).valid
        /\ longest' = sampleAll(acked, first(echoed)).longest
        /\ curRTO' = IF rest = <<>> THEN 0 ELSE currentRTO(sampleAll(acked, first(echoed)))
        /\ queue' = IF rest = <<>> THEN rest ELSE [rest EXCEPT ![1].age = 0]
        /\ recent' = echoed
        /\ ambiguous' = (ambiguous \/ \E e \in taken : e.resent)
        /\ cong' = ackedOnce(cong, n)
        /\ tsOK' = tsOK
  BY <1>0
<1> DEFINE s == sampleAll(acked, first(echoed))
<1>2. /\ rtt' = s.est /\ rttValid' = s.valid /\ longest' = s.longest
      /\ curRTO' = IF rest = <<>> THEN 0 ELSE currentRTO(s)
      /\ queue' = IF rest = <<>> THEN rest ELSE [rest EXCEPT ![1].age = 0]
      /\ recent' = echoed
      /\ ambiguous' = (ambiguous \/ \E e \in taken : e.resent)
      /\ cong' = ackedOnce(cong, n)
      /\ tsOK' = tsOK
  BY <1>1
<1>3. queue \in Seq(Sent) /\ Len(queue) \in Nat /\ n \in Nat /\ n >= 1 /\ n <= Len(queue)
  BY DEF RtoInv
<1>4. \A i \in 1..Len(queue) : queue[i] \in Sent
  BY <1>3
<1>5. acked \in Seq(Sent) /\ Len(acked) = n
  <2>1. \A i \in 1..n : queue[i] \in Sent
    BY <1>3, <1>4
  <2> QED BY <1>3, <2>1, SubSeqProperties
<1>6. rest \in Seq(Sent)
  <2>1. \A i \in (n + 1)..Len(queue) : queue[i] \in Sent
    BY <1>3, <1>4
  <2> QED BY <1>3, <2>1, SubSeqProperties
<1> HIDE DEF acked, rest
<1>7. echoed \in Nat
  <2>1. PICK i \in 1..n : echoed = queue[i].transmitted
    OBVIOUS
  <2>2. queue[i] \in Sent
    BY <1>3, <1>4
  <2> QED BY <2>1, <2>2 DEF Sent, Entry
<1>8. Good(first(echoed)) /\ longest \in Nat /\ longest <= first(echoed).longest
  <2>1. Good(measured) /\ measured.longest = longest /\ longest \in Nat
    BY DEF RtoInv, Good, Sample, measured
  <2>2. Good(sample(echoed, measured)) /\ longest <= sample(echoed, measured).longest
    BY <1>7, <2>1, SampleGood
  <2> QED BY <2>1, <2>2
<1> HIDE DEF first
<1>9. Good(s) /\ longest <= s.longest
  <2>1. Good(s) /\ first(echoed).longest <= s.longest
    BY <1>5, <1>8, SampleAllGood
  <2>2. first(echoed).longest \in Nat /\ s.longest \in Nat
    BY <1>8, <2>1 DEF Good, Sample
  <2> QED BY <1>8, <2>1, <2>2
<1> HIDE DEF s
<1>10. Good(measured)' /\ (InRange(longest') => InRange(longest))
  BY <1>2, <1>8, <1>9, MeasuredNext
<1>11. queue' \in Seq(Sent) /\ (rest # <<>> => queue' # <<>>)
  <2>1. CASE rest = <<>>
    BY <1>2, <1>6, <2>1
  <2>2. CASE rest # <<>>
    <3>1. queue' = [rest EXCEPT ![1] = [rest[1] EXCEPT !.age = 0]]
      BY <1>2, <1>6, <2>2
    <3>2. rest[1] \in Sent
      BY <1>6, <2>2, EmptySeq
    <3>3. [rest[1] EXCEPT !.age = 0] \in Sent
      BY <3>2, SentSteps
    <3> QED BY ONLY <1>6, <2>2, <3>1, <3>3, PutFirst
  <2> QED BY <2>1, <2>2
<1>12. curRTO' \in Nat
  BY <1>2, <1>9, CurrentRTOBounds
<1>13. TimerOK'
  <2>1. CASE rest = <<>>
    BY <1>2, <2>1, Stopped
  <2>2. CASE rest # <<>>
    <3> SUFFICES ASSUME InRange(longest') PROVE TimerOK'
      BY DEF TimerOK
    <3>1. curRTO' >= RtoMin /\ 2 * curRTO' < Uint32Size
      BY <1>2, <1>9, <2>2, CurrentRTOBounds
    <3> QED BY <1>11, <1>12, <2>2, <3>1, Running
  <2> QED BY <2>1, <2>2
<1>14. CongInv'
  <2>1. n * SMSS \in Nat \ {0}
    BY <1>3, CongestionAssumption
  <2>2. cong' = onNewAck(cong, n * SMSS)
    BY <1>2 DEF ackedOnce
  <2> QED BY <2>1, <2>2, NewAckKeeps DEF RtoInv
<1>15. ~ambiguous'
  <2>1. ASSUME NEW e \in taken PROVE ~e.resent
    <3>1. PICK j \in 1..n : e = acked[j] /\ measurable(acked[j])
      OBVIOUS
    <3>2. acked[j] \in Sent
      BY <1>5
    <3> QED BY <3>1, <3>2 DEF measurable, Sent
  <2> QED BY <1>2, <2>1 DEF RtoInv
<1> QED BY <1>2, <1>7, <1>10, <1>11, <1>12, <1>13, <1>14, <1>15 DEF RtoInv

\* A segment that acknowledges nothing is measured or not.
LEMMA EchoStep ==
    ASSUME RtoInv, echoSample
    PROVE  /\ Good(measured)' /\ (InRange(longest') => InRange(longest))
<1> DEFINE s == IF tsOK THEN sample(recent, measured) ELSE measured
<1>1. rtt' = s.est /\ rttValid' = s.valid /\ longest' = s.longest
  BY DEF echoSample
<1>2. Good(measured) /\ measured.longest = longest /\ longest \in Nat /\ recent \in Nat
  BY DEF RtoInv, Good, Sample, measured
<1>3. Good(s) /\ longest <= s.longest
  BY <1>2, SampleGood
<1> HIDE DEF s
<1> QED BY <1>1, <1>2, <1>3, MeasuredNext

LEMMA DuplicateAckStep == ASSUME RtoInv, DuplicateAck PROVE RtoInv'
<1>1. /\ queue # <<>> /\ cong' = onDupAck(cong, inFlight) /\ echoSample
      /\ queue' = queue \/ queue' = [queue EXCEPT ![1] = resend(@)]
      /\ UNCHANGED <<curRTO, tsOK, recent, ambiguous>>
  BY DEF DuplicateAck
<1>2. queue \in Seq(Sent) /\ queue[1] \in Sent
  BY <1>1, EmptySeq DEF RtoInv
<1>3. queue' \in Seq(Sent) /\ queue' # <<>>
  <2>1. resend(queue[1]) \in Sent
    BY <1>2, SentSteps
  <2>2. CASE queue' = [queue EXCEPT ![1] = resend(queue[1])]
    BY <1>1, <1>2, <2>1, <2>2, PutFirst
  <2> QED BY <1>1, <1>2, <2>2
<1>4. Good(measured)' /\ (InRange(longest') => InRange(longest))
  BY <1>1, EchoStep
<1>5. TimerOK'
  BY <1>1, <1>3, <1>4 DEF RtoInv, TimerOK, TimerRuns
<1>6. CongInv'
  <2>1. inFlight \in Nat
    BY <1>2, CongestionAssumption DEF inFlight
  <2> QED BY <1>1, <2>1, DupAckKeeps DEF RtoInv
<1> QED BY <1>1, <1>3, <1>4, <1>5, <1>6 DEF RtoInv

LEMMA StraySegmentStep == ASSUME RtoInv, StraySegment PROVE RtoInv'
<1>1. echoSample /\ UNCHANGED <<cong, queue, curRTO, tsOK, recent, ambiguous>>
  BY DEF StraySegment
<1>2. Good(measured)' /\ (InRange(longest') => InRange(longest))
  BY <1>1, EchoStep
<1>3. TimerOK'
  BY <1>1, <1>2 DEF RtoInv, TimerOK, TimerRuns
<1>4. CongInv'
  BY <1>1 DEF RtoInv, CongInv, TypeOK, PhaseMatchesWindow, NeverStarved
<1> QED BY <1>1, <1>2, <1>3, <1>4 DEF RtoInv

\* checkRetransmit: give up and stop the timer, or send again and double it.
LEMMA TickStep == ASSUME RtoInv, Tick PROVE RtoInv'
<1>1. queue # <<>> /\ UNCHANGED <<rtt, rttValid, tsOK, recent, longest, ambiguous>>
  BY DEF Tick, due
<1>2. queue \in Seq(Sent) /\ queue[1] \in Sent /\ curRTO \in Nat
  BY <1>1, EmptySeq DEF RtoInv
<1>3. Good(measured)'
  BY <1>1 DEF RtoInv, measured
<1>4. CASE queue[1].retries >= MaxRetransmits
  <2>1. queue' = <<>> /\ curRTO' = 0 /\ cong' = cong
    BY <1>4 DEF Tick
  <2>2. TimerOK'
    BY <2>1, Stopped
  <2>3. CongInv'
    BY <2>1 DEF RtoInv, CongInv, TypeOK, PhaseMatchesWindow, NeverStarved
  <2> QED BY <1>1, <1>3, <2>1, <2>2, <2>3 DEF RtoInv
<1>5. CASE ~(queue[1].retries >= MaxRetransmits)
  <2> DEFINE e == retry(queue[1])
  <2>1. /\ cong' = onRtoTimeout(cong, inFlight) /\ curRTO' = backoff(curRTO)
        /\ queue' = [queue EXCEPT ![1] = e]
    BY <1>5 DEF Tick
  <2>2. e \in Sent
    BY <1>2, SentSteps
  <2> HIDE DEF e
  <2>3. queue' \in Seq(Sent) /\ queue' # <<>>
    BY <1>1, <1>2, <2>1, <2>2, PutFirst
  <2>4. curRTO' \in Nat
    BY <1>2, <2>1, BackoffBounds
  <2>5. TimerOK'
    <3> SUFFICES ASSUME InRange(longest) PROVE TimerOK'
      BY <1>1 DEF TimerOK
    <3>1. curRTO >= RtoMin /\ 2 * curRTO < Uint32Size
      BY <1>1 DEF RtoInv, TimerOK, TimerRuns
    <3>2. curRTO' >= RtoMin /\ 2 * curRTO' < Uint32Size
      BY <1>2, <2>1, <3>1, BackoffBounds
    <3> QED BY <2>3, <2>4, <3>2, Running
  <2>6. CongInv'
    <3>1. inFlight \in Nat
      BY <1>2, CongestionAssumption DEF inFlight
    <3> QED BY <2>1, <3>1, TimeoutKeeps DEF RtoInv
  <2> QED BY <1>1, <1>3, <2>3, <2>4, <2>5, <2>6 DEF RtoInv
<1> QED BY <1>4, <1>5

\* Time does not run past a deadline, so that ages stay natural numbers.
LEMMA TimePassesStep == ASSUME RtoInv, TimePasses PROVE RtoInv'
<1>1. PICK d \in Delays :
        LET rest == IF queue = <<>> THEN d ELSE curRTO - queue[1].age
            step == IF rest < d THEN rest ELSE d
        IN /\ ~due
           /\ queue' = [i \in DOMAIN queue |-> Older(queue[i], step)]
           /\ recent' = recent + step
           /\ UNCHANGED <<cong, curRTO, rtt, rttValid, tsOK, closed, longest, ambiguous>>
  BY DEF TimePasses
<1> DEFINE rest == IF queue = <<>> THEN d ELSE curRTO - queue[1].age
           step == IF rest < d THEN rest ELSE d
<1>2. /\ ~due /\ queue' = [i \in DOMAIN queue |-> Older(queue[i], step)]
      /\ recent' = recent + step
      /\ UNCHANGED <<cong, curRTO, rtt, rttValid, tsOK, longest, ambiguous>>
  BY <1>1
<1>3. queue \in Seq(Sent) /\ curRTO \in Nat /\ d \in Nat /\ Len(queue) \in Nat
  BY RtoTimerAssumption DEF RtoInv
<1>4. step \in Nat
  <2>1. CASE queue = <<>>
    BY <1>3, <2>1
  <2>2. CASE queue # <<>>
    <3>1. queue[1] \in Sent
      BY <1>3, <2>2, EmptySeq
    <3>2. queue[1].age \in Nat
      BY <3>1 DEF Sent, Entry
    <3>3. ~(queue[1].age >= curRTO)
      BY <1>2, <2>2 DEF due
    <3> QED BY <1>3, <2>2, <3>2, <3>3
  <2> QED BY <2>1, <2>2
<1> HIDE DEF step
<1>5. queue' = [i \in 1..Len(queue) |-> Older(queue[i], step)]
  BY <1>2, <1>3
<1>6. ASSUME NEW i \in 1..Len(queue) PROVE Older(queue[i], step) \in Sent
  <2>1. queue[i] \in Sent
    BY <1>3
  <2> QED BY <1>4, <2>1, SentSteps
<1>7. queue' \in Seq(Sent) /\ Len(queue') = Len(queue)
  BY <1>3, <1>5, <1>6
<1>8. queue' = <<>> <=> queue = <<>>
  BY <1>3, <1>7, EmptySeq
<1>9. recent' \in Nat
  BY <1>2, <1>4 DEF RtoInv
<1>10. TimerOK'
  BY <1>2, <1>8 DEF RtoInv, TimerOK, TimerRuns
<1>11. CongInv' /\ Good(measured)'
  BY <1>2 DEF RtoInv, CongInv, TypeOK, PhaseMatchesWindow, NeverStarved, measured
<1> QED BY <1>2, <1>7, <1>9, <1>10, <1>11 DEF RtoInv

LEMMA RtoInitOK == RtoInit => RtoInv
<1> SUFFICES ASSUME RtoInit PROVE RtoInv
  OBVIOUS
<1>1. CongInv
  BY CongInit DEF RtoInit
<1>2. queue = <<>> /\ curRTO = 0 /\ recent = 0 /\ tsOK \in BOOLEAN /\ ~ambiguous
      /\ measured = [est |-> [srtt |-> 0, rttvar |-> 0], valid |-> FALSE, longest |-> 0]
  BY DEF RtoInit, measured
<1>3. Good(measured)
  BY <1>2 DEF Good, Sample, Est
<1>4. TimerOK
  BY <1>2, RtoAssumption DEF TimerOK, TimerRuns
<1> QED BY <1>1, <1>2, <1>3, <1>4 DEF RtoInv

LEMMA RtoStep == RtoInv /\ [RtoNext]_rvars => RtoInv'
<1> SUFFICES ASSUME RtoInv, [RtoNext]_rvars PROVE RtoInv'
  OBVIOUS
<1>1. CASE UNCHANGED rvars
  BY <1>1 DEF rvars, RtoInv, CongInv, TypeOK, PhaseMatchesWindow, NeverStarved, measured,
              TimerOK, TimerRuns
<1> QED BY <1>1, SendStep, AckStep, DuplicateAckStep, StraySegmentStep, TickStep, TimePassesStep
        DEF RtoNext

\* RtoInv holds of every behaviour of the timer.
THEOREM RtoInvariance == RtoSpec => []RtoInv
  BY RtoInitOK, RtoStep, PTL DEF RtoSpec

\* Karn's rule: no sample is taken from a segment that went out twice, whether
\* checkRetransmit or fastRetransmit sent it again.
THEOREM KarnTheorem == RtoSpec => []KarnsRule
<1>1. RtoInv => KarnsRule
  BY DEF RtoInv, KarnsRule
<1> QED BY RtoInvariance, <1>1, PTL

\* As long as no sample was longer than the width of the estimator allows, the
\* timer runs exactly while something is in flight, and never shorter than the
\* minimum: sendData, ackRetxQueue and checkRetransmit together.
THEOREM TimerTheorem == RtoSpec => [](InRange(longest) => TimerRuns)
<1>1. RtoInv => (InRange(longest) => TimerRuns)
  BY DEF RtoInv, TimerOK
<1> QED BY RtoInvariance, <1>1, PTL

\* As long as no sample was longer than the width of the estimator allows, the
\* estimates stay within the samples and the timeout within five times the longest.
THEOREM EstimatorTheorem == RtoSpec => [](InRange(longest) => EstimatorBounded)
<1>1. RtoInv => (InRange(longest) => EstimatorBounded)
  <2> SUFFICES ASSUME RtoInv, InRange(longest), rttValid
               PROVE  rtt.srtt <= longest /\ rtt.rttvar <= longest /\ Rto(rtt) <= RtoMin + 5 * longest
    BY DEF EstimatorBounded
  <2>1. Good(measured) /\ measured.est = rtt /\ measured.valid = rttValid /\ measured.longest = longest
    BY DEF RtoInv, measured
  <2>2. Within(rtt, longest)
    BY <2>1 DEF Good
  <2>3. Rto(rtt) <= RtoMin + 5 * longest
    BY <2>1, CurrentRTOBounds
  <2> QED BY <2>2, <2>3 DEF Within
<1> QED BY RtoInvariance, <1>1, PTL

\* The timer, the ACKs and the duplicate ACKs drive the congestion controller in
\* such a way that its phase is the one its windows imply and the windows never
\* starve the sender, whatever is in flight.
THEOREM DrivenCongestion == RtoSpec => [](PhaseMatchesWindow /\ NeverStarved)
<1>1. RtoInv => PhaseMatchesWindow /\ NeverStarved
  BY DEF RtoInv, CongInv
<1> QED BY RtoInvariance, <1>1, PTL

\* The bounds of the controller's own specification are not reached.
WithinBounds == inFlight <= MaxFlight /\ cong.cwnd <= MaxCwnd

LEMMA FlightOf ==
    ASSUME NEW n \in Nat \ {0}, NEW k \in 1..n
    PROVE  k * SMSS \in 1..(n * SMSS)
<1> DEFINE m == n - k
<1>1. m \in Nat /\ n = k + m /\ SMSS \in Nat /\ SMSS >= 1
  BY CongestionAssumption
<1>2. n * SMSS = k * SMSS + m * SMSS /\ m * SMSS \in Nat
  BY <1>1
<1>3. k * SMSS \in Nat /\ k * SMSS >= 1
  BY <1>1
<1> QED BY <1>2, <1>3

LEMMA DrivingStep ==
    ASSUME RtoInv, WithinBounds, [RtoNext]_rvars
    PROVE  [Next]_cong
<1>1. Len(queue) \in Nat /\ MaxFlight \in Nat
  BY CongestionAssumption, LenProperties DEF RtoInv
<1>2. ASSUME queue # <<>> PROVE Len(queue) \in Nat \ {0} /\ inFlight \in 1..MaxFlight
  <2>1. Len(queue) \in Nat \ {0}
    BY <1>1, <1>2, EmptySeq DEF RtoInv
  <2>2. inFlight \in 1..inFlight
    BY <2>1, FlightOf DEF inFlight
  <2> QED BY <1>1, <2>1, <2>2 DEF WithinBounds
<1>3. CASE Ack
  <2>1. PICK n \in 1..Len(queue) : cong' = ackedOnce(cong, n)
    BY <1>3 DEF Ack
  <2>2. queue # <<>>
    BY <2>1, <1>1, EmptySeq
  <2>3. n * SMSS \in 1..inFlight
    BY <1>2, <2>1, <2>2, FlightOf DEF inFlight
  <2> QED BY <1>2, <2>1, <2>2, <2>3 DEF Next, NewAck, ackedOnce, WithinBounds
<1>4. CASE DuplicateAck
  BY <1>2, <1>4 DEF DuplicateAck, Next, DupAck, WithinBounds
<1>5. CASE Tick
  <2>1. CASE UNCHANGED cong
    BY <2>1
  <2>2. CASE cong' = onRtoTimeout(cong, inFlight)
    <3>1. inFlight \in 0..MaxFlight
      BY <1>1, <1>2, <1>5 DEF Tick, due
    <3> QED BY <2>2, <3>1 DEF Next, RtoTimeout
  <2> QED BY <1>5, <2>1, <2>2 DEF Tick
<1>6. CASE UNCHANGED cong
  BY <1>6
<1> QED BY <1>3, <1>4, <1>5, <1>6 DEF RtoNext, rvars, Send, StraySegment, TimePasses

\* The timer implements the congestion controller: every ACK, duplicate ACK and
\* timeout is one event of CongestionControl or leaves it alone, while cwnd and the
\* bytes in flight are within the bounds of that specification (handleAck,
\* onDuplicateAck, checkRetransmit).
THEOREM DrivesTheorem == RtoSpec /\ []WithinBounds => Init /\ DrivesCongestion
<1>1. RtoInv /\ WithinBounds /\ [RtoNext]_rvars => [Next]_cong
  BY DrivingStep
<1>2. RtoInit => Init
  BY DEF RtoInit
<1> QED BY RtoInvariance, <1>1, <1>2, PTL DEF RtoSpec, DrivesCongestion
=============================================================================
