-------------------------- MODULE HolePunchTheorems --------------------------
(***************************************************************************)
(* What DialHolePunch returns is a hole that both peers have opened, for   *)
(* any number of peers that join the session, any NATs, deadlines and      *)
(* losses.                                                                 *)
(***************************************************************************)
EXTENDS HolePunch, TLAPS

Someone == Peers \cup {NoPeer}
Phase == {"idle", "register", "punch", "up", "failed"}

TypesOK ==
    /\ phase \in [Peers -> Phase]
    /\ target \in [Peers -> Someone] /\ remote \in [Peers -> Someone]
    /\ sessions \in Someone

\* What can be in flight: a registration of a peer; an answer of the server that
\* names somebody else; a punch at the peer that its sender was told of, through
\* the NAT the sender has opened.
Honest(m) ==
    \/ m.kind = "REG" /\ m.from \in Peers /\ m.to = Server
    \/ m.kind = "PEER" /\ m.to \in Peers /\ m.about \in Peers /\ m.about # m.to
    \/ /\ m.kind = "PUNCH" /\ m.from \in Peers /\ m.to \in Peers /\ m.to = target[m.from]
       /\ phase[m.from] \notin {"idle", "register"} /\ <<m.from, m.to>> \in opened
NetHonest == \A m \in BagToSet(net) : Honest(m)

\* A peer knows whom to punch when it punches, and has the link to that one.
KnowsPeer ==
    \A p \in Peers :
        /\ phase[p] \in {"idle", "register"} => target[p] = NoPeer
        /\ phase[p] \in {"punch", "up"} =>
              target[p] \in Peers /\ target[p] # p /\ <<p, target[p]>> \in opened
        /\ phase[p] = "up" => remote[p] = target[p]

PunchInv == TypesOK /\ NetHonest /\ KnowsPeer /\ HoleIsMutual

-----------------------------------------------------------------------------
(* Bags, by the set of what is in them.                                    *)

LEMMA PlusSet == \A B, C : BagToSet(B (+) C) = BagToSet(B) \cup BagToSet(C)
  BY DEF BagToSet, (+)

LEMMA MinusSet == \A B, C : BagToSet(B (-) C) \subseteq BagToSet(B)
  BY DEF BagToSet, (-)

LEMMA RemoveSet == \A B, m : BagToSet(BagRemove(B, m)) \subseteq BagToSet(B)
  BY DEF BagToSet, BagRemove

LEMMA AddSet == \A B, m : BagToSet(BagAdd(B, m)) = BagToSet(B) \cup {m}
  BY DEF BagToSet, BagAdd

LEMMA SetSet == \A S : BagToSet(SetToBag(S)) = S
  BY DEF BagToSet, SetToBag

LEMMA TimesSet == \A n, m : BagToSet(times(n, m)) = {m}
  BY DEF BagToSet, times

\* The server's answers.
LEMMA RepliesSet ==
    ASSUME NEW a, NEW b, NEW n \in 0..2
    PROVE  BagToSet(replies(a, b, n)) \subseteq
               {Datagram("PEER", Server, a, b), Datagram("PEER", Server, b, a)}
<1> DEFINE x == Datagram("PEER", Server, a, b)
           y == Datagram("PEER", Server, b, a)
<1>1. Range(SubSeq(<<x, y>>, 1, n)) \subseteq {x, y}
  <2> HIDE DEF x, y
  <2> QED BY DEF Range
<1>2. BagToSet(replies(a, b, n)) = Range(SubSeq(<<x, y>>, 1, n))
  BY SetSet DEF replies
<1> QED BY <1>1, <1>2

-----------------------------------------------------------------------------
(* What a step has to do to keep the invariant.                            *)

\* Peers only advance: whoever was told of a peer keeps it, NATs stay open.
Advances ==
    /\ opened \subseteq opened'
    /\ \A p \in Peers : phase[p] \notin {"idle", "register"} =>
           phase'[p] \notin {"idle", "register"} /\ target'[p] = target[p]

LEMMA HonestStays == ASSUME Advances, NEW m, Honest(m) PROVE Honest(m)'
  BY DEF Advances, Honest

\* A hole that is mutual stays so.
LEMMA MutualStays ==
    ASSUME PunchInv, Advances, NEW p \in Peers, phase[p] = "up", remote'[p] = remote[p]
    PROVE  remote'[p] # p /\ target'[remote'[p]] = p /\ <<remote'[p], p>> \in opened'
<1>1. remote[p] # p /\ target[remote[p]] = p /\ <<remote[p], p>> \in opened
      /\ remote[p] = target[p] /\ target[p] \in Peers
  BY DEF PunchInv, HoleIsMutual, KnowsPeer
<1>2. phase[remote[p]] \notin {"idle", "register"}
  BY <1>1, HolePunchAssumption DEF PunchInv, KnowsPeer
<1> QED BY <1>1, <1>2 DEF Advances

\* A step in which no peer learns or establishes.
LEMMA PunchFrame ==
    ASSUME PunchInv, TypesOK', Advances, UNCHANGED <<target, remote>>,
           \A p \in Peers : /\ phase'[p] \in {"punch", "up"} => phase'[p] = phase[p]
                            /\ phase'[p] \in {"idle", "register"} => phase[p] \in {"idle", "register"},
           \A m \in BagToSet(net') : m \in BagToSet(net) \/ Honest(m)'
    PROVE  PunchInv'
<1>1. NetHonest'
  BY HonestStays DEF PunchInv, NetHonest
<1>2. KnowsPeer'
  BY DEF PunchInv, KnowsPeer, Advances
<1>3. HoleIsMutual'
  BY MutualStays DEF HoleIsMutual
<1> QED BY <1>1, <1>2, <1>3 DEF PunchInv

\* Nothing but the network, the server or a counter changes.
LEMMA NetStep ==
    ASSUME PunchInv, UNCHANGED <<phase, target, remote, opened>>, sessions' \in Someone,
           \A m \in BagToSet(net') : m \in BagToSet(net) \/ Honest(m)'
    PROVE  PunchInv'
<1>1. TypesOK' /\ Advances
  BY DEF PunchInv, TypesOK, Advances
<1> QED BY <1>1, PunchFrame

-----------------------------------------------------------------------------
(* The steps.                                                              *)

LEMMA HandleStep == ASSUME PunchInv, Handle PROVE PunchInv'
<1>1. UNCHANGED <<phase, target, remote, opened>>
  BY DEF Handle
<1>2. PICK m \in BagToSet(net) :
        /\ m.to = Server
        /\ CASE sessions = NoPeer ->
                    /\ sessions' = m.from
                    /\ net' = BagRemove(net, m)
                    /\ UNCHANGED closed
             [] sessions # NoPeer /\ samePeer(sessions, m.from) ->
                    /\ net' = BagRemove(net, m)
                    /\ UNCHANGED <<sessions, closed>>
             [] OTHER ->
                    /\ sessions' = NoPeer
                    /\ \E n \in 0..2 : /\ closed' = (n < 2)
                                      /\ net' = BagRemove(net, m) (+) replies(sessions, m.from, n)
  BY DEF Handle
<1>3. m.from \in Peers
  <2>1. Honest(m)
    BY DEF PunchInv, NetHonest
  <2>2. m.kind = "PUNCH" => m.to \in Peers
    BY <2>1 DEF Honest
  <2> QED BY <1>2, <2>1, <2>2, HolePunchAssumption DEF Honest
<1>4. CASE sessions = NoPeer
  <2>1. sessions' = m.from /\ net' = BagRemove(net, m)
    BY <1>2, <1>4
  <2> QED BY <1>1, <1>3, <2>1, RemoveSet, NetStep DEF Someone
<1>5. CASE sessions # NoPeer /\ samePeer(sessions, m.from)
  <2>1. sessions' = sessions /\ net' = BagRemove(net, m)
    BY <1>2, <1>5
  <2> QED BY <1>1, <2>1, RemoveSet, NetStep DEF PunchInv, TypesOK
<1>6. CASE sessions # NoPeer /\ ~samePeer(sessions, m.from)
  <2>1. sessions' = NoPeer
        /\ \E n \in 0..2 : net' = BagRemove(net, m) (+) replies(sessions, m.from, n)
    BY <1>2, <1>6
  <2>2. PICK n \in 0..2 : net' = BagRemove(net, m) (+) replies(sessions, m.from, n)
    BY <2>1
  <2> DEFINE x == Datagram("PEER", Server, sessions, m.from)
             y == Datagram("PEER", Server, m.from, sessions)
  <2>3. \A d \in BagToSet(net') : d \in BagToSet(net) \/ d = x \/ d = y
    <3>1. BagToSet(net') = BagToSet(BagRemove(net, m)) \cup BagToSet(replies(sessions, m.from, n))
      BY <2>2, PlusSet
    <3> QED BY <3>1, RemoveSet, RepliesSet
  <2>4. sessions \in Peers /\ sessions # m.from
    BY <1>6 DEF PunchInv, TypesOK, Someone, samePeer
  <2>5. \A d : d = x \/ d = y => Honest(d)'
    BY <1>3, <2>4 DEF Honest, Datagram
  <2> QED BY <1>1, <2>1, <2>3, <2>5, NetStep DEF Someone
<1> QED BY <1>4, <1>5, <1>6

LEMMA NetOnlySteps ==
    ASSUME PunchInv,
           \/ RendezvousClose \/ Dropped \/ Lose \/ UNCHANGED vars
           \/ \E p \in Peers : ReadPacket(p)
    PROVE  PunchInv'
<1>1. UNCHANGED <<phase, target, remote, opened, sessions>>
  BY DEF RendezvousClose, Dropped, Lose, ReadPacket, vars
<1>2. net' = net \/ \E m : net' = BagRemove(net, m)
  BY DEF RendezvousClose, Dropped, Lose, ReadPacket, vars
<1>3. \A m \in BagToSet(net') : m \in BagToSet(net)
  BY <1>2, RemoveSet
<1> QED BY <1>1, <1>3, NetStep DEF PunchInv, TypesOK

LEMMA DialStep == ASSUME PunchInv, NEW p \in Peers, DialHolePunch(p) PROVE PunchInv'
<1>1. /\ UNCHANGED <<target, remote, sessions>> /\ phase[p] = "idle"
      /\ phase' = [phase EXCEPT ![p] = "register"] /\ net' = BagAdd(net, REG(p))
      /\ opened' = opened \cup {<<p, Server>>}
  BY DEF DialHolePunch
<1>2. phase \in [Peers -> Phase] /\ "register" \in Phase
  BY DEF PunchInv, TypesOK, Phase
<1>3. TypesOK' /\ Advances
  BY <1>1, <1>2 DEF PunchInv, TypesOK, Advances
<1>4. Honest(REG(p))'
  BY DEF Honest, REG, Datagram
<1>5. \A m \in BagToSet(net') : m \in BagToSet(net) \/ Honest(m)'
  BY <1>1, <1>4, AddSet
<1> QED BY <1>1, <1>2, <1>3, <1>5, PunchFrame

\* A turn of the loops: what is sent is a registration, or a punch at the peer.
LEMMA AgainStep ==
    ASSUME PunchInv, NEW S \in SUBSET Peers, \A p \in S : Looping(p), NEW arrived,
           Again(S, arrived), UNCHANGED <<target, remote, sessions>>
    PROVE  PunchInv'
<1> DEFINE out == {p \in S : deadline(p)}
           sent == UNION {knock(p) : p \in S \ out}
<1>1. /\ phase' = [p \in Peers |-> IF p \in out THEN "failed" ELSE phase[p]]
      /\ net' = (net (-) arrived) (+) SetToBag(sent)
      /\ opened' = opened \cup {<<m.from, m.to>> : m \in sent}
  BY DEF Again
<1>2. phase \in [Peers -> Phase] /\ "failed" \in Phase
  BY DEF PunchInv, TypesOK, Phase
<1>3. TypesOK' /\ Advances
  BY <1>1, <1>2 DEF PunchInv, TypesOK, Advances
<1>4. ASSUME NEW m \in sent PROVE Honest(m)'
  <2>1. PICK p \in S \ out : m \in knock(p)
    OBVIOUS
  <2>2. p \in Peers /\ phase'[p] = phase[p] /\ phase[p] \in {"register", "punch"}
    BY <1>1, <2>1 DEF Looping
  <2>3. CASE phase[p] = "register"
    BY <2>1, <2>2, <2>3 DEF knock, Honest, REG, Datagram
  <2>4. CASE phase[p] = "punch"
    <3>1. m = PUNCH(p, target[p])
      BY <2>1, <2>4 DEF knock
    <3>2. m.kind = "PUNCH" /\ m.from = p /\ m.to = target[p]
      BY <3>1 DEF PUNCH, Datagram
    <3>3. <<p, target[p]>> \in opened'
      BY <1>1, <2>2, <2>4 DEF PunchInv, KnowsPeer
    <3>4. target[p] \in Peers
      BY <2>2, <2>4 DEF PunchInv, KnowsPeer
    <3> QED BY <2>2, <2>4, <3>2, <3>3, <3>4 DEF Honest
  <2> QED BY <2>2, <2>3, <2>4
<1> HIDE DEF sent, out
<1>5. \A m \in BagToSet(net') : m \in BagToSet(net) \/ Honest(m)'
  <2>1. BagToSet(net') = BagToSet(net (-) arrived) \cup BagToSet(SetToBag(sent))
    BY <1>1, PlusSet
  <2> QED BY <1>4, <2>1, MinusSet, SetSet
<1>6. \A p \in Peers : /\ phase'[p] \in {"punch", "up"} => phase'[p] = phase[p]
                       /\ phase'[p] \in {"idle", "register"} => phase[p] \in {"idle", "register"}
  BY <1>1
<1> QED BY <1>3, <1>5, <1>6, PunchFrame

LEMMA LoopSteps ==
    ASSUME PunchInv, Poll \/ \E p \in Peers : PollEarly(p) \/ Ignore(p)
    PROVE  PunchInv'
<1>1. CASE Poll
  <2>1. Again({p \in Peers : Looping(p)}, EmptyBag) /\ UNCHANGED <<target, remote, sessions>>
    BY <1>1 DEF Poll
  <2> QED BY <2>1, AgainStep
<1>2. ASSUME NEW p \in Peers, PollEarly(p) PROVE PunchInv'
  <2>1. Looping(p) /\ Again({p}, EmptyBag) /\ UNCHANGED <<target, remote, sessions>>
    BY <1>2 DEF PollEarly
  <2> QED BY <2>1, AgainStep
<1>3. ASSUME NEW p \in Peers, Ignore(p) PROVE PunchInv'
  <2>1. UNCHANGED <<target, remote, sessions>>
        /\ \E m : (phase[p] = "register" \/ phase[p] = "punch") /\ Again({p}, times(1, m))
    BY <1>3 DEF Ignore
  <2>2. PICK m : (phase[p] = "register" \/ phase[p] = "punch") /\ Again({p}, times(1, m))
    BY <2>1
  <2> QED BY <2>1, <2>2, AgainStep DEF Looping
<1> QED BY <1>1, <1>2, <1>3

\* The peer's address comes from the server, and is another's.
LEMMA LearnStep == ASSUME PunchInv, NEW p \in Peers, Learn(p) PROVE PunchInv'
<1>1. PICK m \in BagToSet(net) :
        /\ m.to = p /\ phase[p] = "register" /\ m.kind = "PEER"
        /\ target' = [target EXCEPT ![p] = m.about]
        /\ phase' = [phase EXCEPT ![p] = "punch"]
        /\ net' = BagRemove(net, m) (+) times(1, PUNCH(p, m.about))
        /\ opened' = opened \cup {<<p, m.about>>}
        /\ UNCHANGED <<remote, sessions>>
  BY DEF Learn, Arrives
<1>2. m.about \in Peers /\ m.about # p
  BY <1>1 DEF PunchInv, NetHonest, Honest
<1>3. phase \in [Peers -> Phase] /\ target \in [Peers -> Someone] /\ "punch" \in Phase
  BY DEF PunchInv, TypesOK, Phase
<1>4. TypesOK' /\ Advances
  BY <1>1, <1>2, <1>3 DEF PunchInv, TypesOK, Advances, Someone
<1>5. Honest(PUNCH(p, m.about))'
  BY <1>1, <1>2, <1>3 DEF Honest, PUNCH, Datagram
<1>6. NetHonest'
  <2>1. \A d \in BagToSet(net') : d \in BagToSet(net) \/ d = PUNCH(p, m.about)
    <3>1. BagToSet(net') = BagToSet(BagRemove(net, m)) \cup BagToSet(times(1, PUNCH(p, m.about)))
      BY <1>1, PlusSet
    <3> QED BY <3>1, RemoveSet, TimesSet
  <2> QED BY <1>4, <1>5, <2>1, HonestStays DEF PunchInv, NetHonest
<1>7. \A q \in Peers \ {p} : phase'[q] = phase[q] /\ target'[q] = target[q]
  BY <1>1, <1>3
<1>8. phase'[p] = "punch" /\ target'[p] = m.about
  BY <1>1, <1>3
<1>9. KnowsPeer'
  BY <1>1, <1>2, <1>7, <1>8 DEF PunchInv, KnowsPeer
<1>10. HoleIsMutual'
  BY <1>1, <1>4, <1>7, <1>8, MutualStays DEF HoleIsMutual
<1> QED BY <1>4, <1>6, <1>9, <1>10 DEF PunchInv

\* The punch that establishes was sent by the peer, at this one.
LEMMA EstablishStep == ASSUME PunchInv, NEW p \in Peers, Establish(p) PROVE PunchInv'
<1>1. PICK m \in BagToSet(net) :
        /\ m.to = p /\ phase[p] = "punch" /\ m.kind = "PUNCH" /\ m.from = target[p]
        /\ phase' = [phase EXCEPT ![p] = "up"]
        /\ remote' = [remote EXCEPT ![p] = target[p]]
        /\ net' = BagRemove(net, m) (+) extras(p)
        /\ UNCHANGED <<target, sessions, opened>>
  BY DEF Establish, Arrives, fromPeer
<1>2. target[p] \in Peers /\ target[p] # p /\ <<p, target[p]>> \in opened
  BY <1>1 DEF PunchInv, KnowsPeer
<1>3. target[target[p]] = p /\ <<target[p], p>> \in opened
  BY <1>1 DEF PunchInv, NetHonest, Honest
<1>4. phase \in [Peers -> Phase] /\ remote \in [Peers -> Someone] /\ "up" \in Phase
  BY DEF PunchInv, TypesOK, Phase
<1>5. TypesOK' /\ Advances
  BY <1>1, <1>2, <1>4 DEF PunchInv, TypesOK, Advances, Someone
<1>6. Honest(PUNCH(p, target[p]))'
  BY <1>1, <1>2, <1>4 DEF Honest, PUNCH, Datagram
<1>7. NetHonest'
  <2>1. \A d \in BagToSet(net') : d \in BagToSet(net) \/ d = PUNCH(p, target[p])
    <3>1. BagToSet(net') = BagToSet(BagRemove(net, m)) \cup BagToSet(extras(p))
      BY <1>1, PlusSet
    <3> QED BY <3>1, RemoveSet, TimesSet DEF extras
  <2>2. \A d : d = PUNCH(p, target[p]) => Honest(d)'
    BY <1>1, <1>6
  <2> QED BY <1>5, <2>1, <2>2, HonestStays DEF PunchInv, NetHonest
<1>8. \A q \in Peers \ {p} : phase'[q] = phase[q] /\ remote'[q] = remote[q]
  BY <1>1, <1>4
<1>9. phase'[p] = "up" /\ remote'[p] = target[p]
  BY <1>1, <1>4
<1>10. KnowsPeer'
  BY <1>1, <1>2, <1>8, <1>9 DEF PunchInv, KnowsPeer
<1>11. HoleIsMutual'
  <2> SUFFICES ASSUME NEW q \in Peers, phase'[q] = "up"
               PROVE  remote'[q] # q /\ target'[remote'[q]] = q /\ <<remote'[q], q>> \in opened'
    BY DEF HoleIsMutual
  <2>1. CASE q = p
    BY <1>1, <1>2, <1>3, <1>9, <2>1
  <2>2. CASE q # p
    BY <1>5, <1>8, <2>2, MutualStays
  <2> QED BY <2>1, <2>2
<1> QED BY <1>5, <1>7, <1>10, <1>11 DEF PunchInv

LEMMA PunchInit == Init => PunchInv
<1> SUFFICES ASSUME Init PROVE PunchInv
  OBVIOUS
<1>1. BagToSet(net) = {}
  BY SetSet DEF Init, EmptyBag
<1>2. TypesOK
  BY DEF Init, TypesOK, Someone, Phase
<1>3. KnowsPeer /\ HoleIsMutual
  BY DEF Init, KnowsPeer, HoleIsMutual
<1> QED BY <1>1, <1>2, <1>3 DEF PunchInv, NetHonest

\* When DialHolePunch returns a link, the peer at its end has been told of this
\* one and has opened its NAT to it: true for every number of peers that join the
\* session, whichever of them the server pairs (handle, punchUntilEstablished).
THEOREM MutualTheorem == Spec => []HoleIsMutual
<1>1. PunchInv /\ [Next]_vars => PunchInv'
  <2> SUFFICES ASSUME PunchInv, [Next]_vars PROVE PunchInv'
    OBVIOUS
  <2>1. CASE Handle
    BY <2>1, HandleStep
  <2>2. CASE \/ RendezvousClose \/ Dropped \/ Lose \/ UNCHANGED vars
             \/ \E p \in Peers : ReadPacket(p)
    BY <2>2, NetOnlySteps
  <2>3. CASE Poll \/ \E p \in Peers : PollEarly(p) \/ Ignore(p)
    BY <2>3, LoopSteps
  <2>4. CASE \E p \in Peers : DialHolePunch(p) \/ Learn(p) \/ Establish(p)
    BY <2>4, DialStep, LearnStep, EstablishStep
  <2> QED BY <2>1, <2>2, <2>3, <2>4 DEF Next
<1>2. PunchInv => HoleIsMutual
  BY DEF PunchInv
<1> QED BY PunchInit, <1>1, <1>2, PTL DEF Spec
=============================================================================
