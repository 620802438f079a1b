------------------------- MODULE CongestionTheorems -------------------------
(***************************************************************************)
(* The operators of the congestion controller keep its record well typed,  *)
(* whatever the segment size, the window and the bytes in flight.          *)
(***************************************************************************)
EXTENDS Congestion, NaturalsInduction, WellFoundedInduction, TLAPS

\* newCongestion builds a well-typed controller.
LEMMA NewCongestionType ==
    ASSUME NEW smss \in Nat, MaxWindow \in Nat
    PROVE  newCongestion(smss) \in Cong
  BY DEF newCongestion, initialWindow, Cong

\* halveSsthresh is a natural number, and at least two segments.
LEMMA HalveSsthreshType ==
    ASSUME NEW c \in Cong, NEW flight \in Nat
    PROVE  halveSsthresh(c, flight) \in Nat /\ halveSsthresh(c, flight) >= 2 * c.smss
<1>1. c.smss \in Nat /\ flight \div 2 \in Nat
  BY DEF Cong
<1> QED BY <1>1 DEF halveSsthresh

\* onNewAck keeps the type; bytesAcked never goes below zero.
LEMMA OnNewAckType ==
    ASSUME NEW c \in Cong, NEW acked \in Nat
    PROVE  onNewAck(c, acked) \in Cong
<1> DEFINE d == [c EXCEPT !.retransmitted = FALSE, !.dupAckCnt = 0]
           grown == d.cwnd + (IF acked < d.smss THEN acked ELSE d.smss)
           bytes == d.bytesAcked + acked
<1>1. d \in Cong
  BY DEF Cong
<1> HIDE DEF d
<1>2. /\ d.smss \in Nat /\ d.cwnd \in Nat /\ d.ssthresh \in Nat /\ d.bytesAcked \in Nat
      /\ grown \in Nat /\ bytes \in Nat
  BY <1>1 DEF Cong
<1> HIDE DEF grown, bytes
<1>3. exitRecovery([d EXCEPT !.cwnd = d.ssthresh]) \in Cong
  BY <1>1, <1>2 DEF exitRecovery, Cong
<1>4. [d EXCEPT !.cwnd = grown,
                !.state = IF grown >= d.ssthresh THEN "CongestionAvoidance" ELSE @] \in Cong
  BY <1>1, <1>2 DEF Cong
<1>5. bytes >= d.cwnd =>
        [d EXCEPT !.state = "CongestionAvoidance", !.bytesAcked = bytes - d.cwnd,
                  !.cwnd = @ + d.smss] \in Cong
  <2> SUFFICES ASSUME bytes >= d.cwnd
               PROVE  [d EXCEPT !.state = "CongestionAvoidance", !.bytesAcked = bytes - d.cwnd,
                                !.cwnd = @ + d.smss] \in Cong
    OBVIOUS
  <2>1. bytes - d.cwnd \in Nat /\ d.cwnd + d.smss \in Nat
    BY <1>2
  <2> QED BY <1>1, <2>1 DEF Cong
<1>6. [d EXCEPT !.state = "CongestionAvoidance", !.bytesAcked = bytes] \in Cong
  BY <1>1, <1>2 DEF Cong
<1> QED BY <1>3, <1>4, <1>5, <1>6 DEF onNewAck, d, grown, bytes

\* onDupAck keeps the type.
LEMMA OnDupAckType ==
    ASSUME NEW c \in Cong, NEW flight \in Nat
    PROVE  onDupAck(c, flight) \in Cong
<1>1. halveSsthresh(c, flight) \in Nat
  BY HalveSsthreshType
<1> DEFINE h == halveSsthresh(c, flight)
<1> HIDE DEF h
<1>2. /\ c.smss \in Nat /\ c.cwnd + c.smss \in Nat /\ c.dupAckCnt + 1 \in Nat
      /\ h \in Nat /\ h + 3 * c.smss \in Nat
  BY <1>1 DEF Cong, h
<1>3. /\ [c EXCEPT !.cwnd = @ + c.smss] \in Cong
      /\ [c EXCEPT !.dupAckCnt = @ + 1] \in Cong
  BY <1>2 DEF Cong
<1>4. [c EXCEPT !.dupAckCnt = @ + 1, !.ssthresh = h, !.retransmitted = TRUE,
                !.state = "FastRecovery", !.cwnd = h + 3 * c.smss] \in Cong
  BY <1>2 DEF Cong
<1> QED BY <1>3, <1>4 DEF onDupAck, h

\* onRtoTimeout keeps the type.
LEMMA OnRtoTimeoutType ==
    ASSUME NEW c \in Cong, NEW flight \in Nat
    PROVE  onRtoTimeout(c, flight) \in Cong
<1>1. halveSsthresh(c, flight) \in Nat
  BY HalveSsthreshType
<1> QED BY <1>1 DEF onRtoTimeout, Cong

\* A controller that lets something be sent; the events keep it so.
CongLive(c) == c.smss > 0 /\ c.cwnd > 0 /\ c.ssthresh > 0

LEMMA NewCongestionLive ==
    ASSUME NEW smss \in Nat \ {0}, MaxWindow \in Nat \ {0}
    PROVE  CongLive(newCongestion(smss)) /\ newCongestion(smss).state = "SlowStart"
  BY DEF CongLive, newCongestion, initialWindow

\* A new ACK ends fast recovery.
LEMMA OnNewAckLive ==
    ASSUME NEW c \in Cong, NEW acked \in Nat
    PROVE  /\ onNewAck(c, acked).state # "FastRecovery"
           /\ CongLive(c) => CongLive(onNewAck(c, acked))
<1> DEFINE d == [c EXCEPT !.retransmitted = FALSE, !.dupAckCnt = 0]
           grown == d.cwnd + (IF acked < d.smss THEN acked ELSE d.smss)
           bytes == d.bytesAcked + acked
<1>1. /\ d \in Cong /\ (CongLive(c) => CongLive(d))
  BY DEF Cong, CongLive
<1> HIDE DEF d
<1>2. /\ d.smss \in Nat /\ d.cwnd \in Nat /\ d.ssthresh \in Nat /\ d.bytesAcked \in Nat
      /\ grown \in Nat /\ bytes \in Nat /\ grown >= d.cwnd
  BY <1>1 DEF Cong
<1> HIDE DEF grown, bytes
<1> DEFINE Good(e) == e.state # "FastRecovery" /\ (CongLive(d) => CongLive(e))
<1>3. Good(exitRecovery([d EXCEPT !.cwnd = d.ssthresh]))
  BY <1>1, <1>2 DEF exitRecovery, Cong, CongLive
<1>4. d.state # "FastRecovery" =>
        Good([d EXCEPT !.cwnd = grown,
                       !.state = IF grown >= d.ssthresh THEN "CongestionAvoidance" ELSE @])
  BY <1>1, <1>2 DEF Cong, CongLive
<1>5. Good([d EXCEPT !.state = "CongestionAvoidance", !.bytesAcked = bytes - d.cwnd,
                     !.cwnd = @ + d.smss])
  BY <1>1, <1>2 DEF Cong, CongLive
<1>6. Good([d EXCEPT !.state = "CongestionAvoidance", !.bytesAcked = bytes])
  BY <1>1, <1>2 DEF Cong, CongLive
<1>7. Good(onNewAck(c, acked))
  <2> HIDE DEF Good
  <2> QED BY <1>3, <1>4, <1>5, <1>6 DEF onNewAck, d, grown, bytes
<1> QED BY <1>1, <1>7

LEMMA OnDupAckLive ==
    ASSUME NEW c \in Cong, NEW flight \in Nat, CongLive(c)
    PROVE  CongLive(onDupAck(c, flight))
<1> DEFINE h == halveSsthresh(c, flight)
<1>1. h \in Nat /\ h >= 2 * c.smss /\ c.smss \in Nat /\ c.cwnd \in Nat
  BY HalveSsthreshType DEF Cong
<1> HIDE DEF h
<1>2. /\ CongLive([c EXCEPT !.cwnd = @ + c.smss])
      /\ CongLive([c EXCEPT !.dupAckCnt = @ + 1])
      /\ CongLive([c EXCEPT !.dupAckCnt = @ + 1, !.ssthresh = h, !.retransmitted = TRUE,
                            !.state = "FastRecovery", !.cwnd = h + 3 * c.smss])
  BY <1>1 DEF CongLive, Cong
<1> QED BY <1>2 DEF onDupAck, h

LEMMA OnRtoTimeoutLive ==
    ASSUME NEW c \in Cong, NEW flight \in Nat
    PROVE  /\ onRtoTimeout(c, flight).state = "SlowStart"
           /\ CongLive(c) => CongLive(onRtoTimeout(c, flight))
<1>1. halveSsthresh(c, flight) \in Nat /\ halveSsthresh(c, flight) >= 2 * c.smss /\ c.smss \in Nat
  BY HalveSsthreshType DEF Cong
<1> QED BY <1>1 DEF onRtoTimeout, Cong, CongLive

-----------------------------------------------------------------------------
(* Sets of naturals: what stands for an induction in the proofs.           *)

\* A nonempty set of naturals has a least element.
LEMMA LeastElement ==
    ASSUME NEW T \in SUBSET Nat, T # {}
    PROVE  \E x \in T : \A y \in T : x <= y
<1> DEFINE R == {ss \in Nat \X Nat : ss[1] < ss[2]}
<1>1. OpToRel(<, Nat) = R
  BY DEF OpToRel
<1>2. IsWellFoundedOn(R, Nat)
  BY <1>1, NatLessThanWellFounded, Zenon
<1>3. PICK x \in T : \A y \in T : ~(<<y, x>> \in R)
  <2> HIDE DEF R
  <2> QED BY <1>2, WFMin, Zenon
<1>4. \A y \in T : y \in Nat /\ x \in Nat
  OBVIOUS
<1>5. \A y \in T : ~(y < x)
  <2> TAKE y \in T
  <2>1. <<y, x>> \in Nat \X Nat
    OBVIOUS
  <2>2. ~(<<y, x>> \in R)
    BY <1>3
  <2> QED BY <2>1, <2>2
<1>6. \A y \in T : x <= y
  BY <1>4, <1>5
<1> QED BY <1>6

\* A nonempty set of naturals with an upper bound has a greatest element.
LEMMA GreatestElement ==
    ASSUME NEW B \in Nat, NEW T \in SUBSET (0..B), T # {}
    PROVE  \E x \in T : \A y \in T : y <= x
<1> DEFINE D == {B - x : x \in T}
<1>1. D \in SUBSET Nat /\ D # {}
  <2>1. \A x \in T : B - x \in Nat
    OBVIOUS
  <2>2. D \in SUBSET Nat
    BY <2>1
  <2>3. D # {}
    BY Zenon
  <2> QED BY <2>2, <2>3
<1>2. PICK d \in D : \A e \in D : d <= e
  BY <1>1, LeastElement
<1>3. PICK x \in T : d = B - x
  BY <1>2
<1>4. \A y \in T : y <= x
  BY <1>2, <1>3
<1> QED BY <1>4
=============================================================================
