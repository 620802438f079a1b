----------------------------- MODULE ArpTheorems -----------------------------
(***************************************************************************)
(* No address table is ever wrong, for any number of hosts and flows, and  *)
(* whatever is lost, delayed, closed or started anew.                      *)
(***************************************************************************)
EXTENDS Arp, TLAPS

Entry == {unresolved} \cup {selfMAC(h) : h \in Hosts}

\* A reply on the wire says the truth about its sender: this is what makes
\* CacheTruthful inductive, since a reply may be read long after it was sent.
RepliesTruthful ==
    \A pkt \in wire :
        /\ pkt.to \in Hosts
        /\ pkt.frame.type = "reply" =>
              /\ pkt.frame.SenderIP \in Hosts
              /\ pkt.frame.SenderMAC = selfMAC(pkt.frame.SenderIP)

ArpInv ==
    /\ table \in [Hosts -> [Hosts -> Entry]]
    /\ waiting \subseteq Flows
    /\ CacheTruthful
    /\ RepliesTruthful

\* What a host broadcasts or sends to one other host goes to hosts only.
LEMMA SentToHosts ==
    ASSUME NEW h, NEW mac, NEW f, NEW pkt \in unicast(mac, f) \cup broadcast(h, f)
    PROVE  pkt.to \in Hosts /\ pkt.frame = f
  BY DEF unicast, broadcast

\* WritePacket sends a request or an IPv4 packet, never a reply.
LEMMA FramesForNoReply ==
    ASSUME NEW h, NEW dst, NEW pkt \in framesFor(h, dst)
    PROVE  pkt.to \in Hosts /\ pkt.frame.type # "reply"
<1>1. CASE table[h][dst] = unresolved
  <2>1. pkt \in unicast(dst, newARPRequest(h, dst)) \cup broadcast(h, newARPRequest(h, dst))
    BY <1>1 DEF framesFor
  <2> QED BY <2>1, SentToHosts DEF newARPRequest
<1>2. CASE table[h][dst] # unresolved
  <2> DEFINE f == [type |-> "IPv4", src |-> h, dst |-> dst]
  <2>1. pkt \in unicast(table[h][dst], f) \cup broadcast(h, f)
    BY <1>2 DEF framesFor
  <2>2. pkt.to \in Hosts /\ pkt.frame = f
    BY <2>1, SentToHosts
  <2> QED BY <2>2
<1> QED BY <1>1, <1>2

LEMMA ArpInit == Init => ArpInv
  BY DEF Init, ArpInv, Entry, CacheTruthful, RepliesTruthful

\* A frame that h reads: the table learns what a reply says, and the answer to
\* a request is true of h itself.
LEMMA HandleStep ==
    ASSUME ArpInv, NEW pkt \in wire, handleInboundFrame(pkt.to, pkt)
    PROVE  ArpInv'
<1> DEFINE h == pkt.to
           f == pkt.frame
<1>1. h \in Hosts
  BY DEF ArpInv, RepliesTruthful
<1>2. /\ table' = IF f.type = "reply" THEN [table EXCEPT ![h][f.SenderIP] = f.SenderMAC]
                  ELSE table
      /\ wire' = (wire \ {pkt}) \cup
                 (IF answers(h, f) /\ ~closed[h]
                  THEN unicast(f.SenderMAC, newARPReply(h, f)) ELSE {})
      /\ waiting' \subseteq waiting
  BY DEF handleInboundFrame
<1>3. CASE f.type = "reply"
  <2>1. f.SenderIP \in Hosts /\ f.SenderMAC = selfMAC(f.SenderIP)
    BY <1>3 DEF ArpInv, RepliesTruthful
  <2>2. table' = [table EXCEPT ![h][f.SenderIP] = selfMAC(f.SenderIP)]
    BY <1>2, <1>3, <2>1
  <2>3. table' \in [Hosts -> [Hosts -> Entry]]
    BY <1>1, <2>1, <2>2 DEF ArpInv, Entry
  <2>4. \A k, ip \in Hosts :
           table'[k][ip] = IF k = h /\ ip = f.SenderIP THEN selfMAC(ip) ELSE table[k][ip]
    BY <1>1, <2>1, <2>2 DEF ArpInv
  <2>5. CacheTruthful'
    BY <2>4 DEF ArpInv, CacheTruthful, selfMAC, unresolved
  <2>6. wire' \subseteq wire
    BY <1>2, <1>3 DEF answers
  <2>7. RepliesTruthful'
    BY <2>6 DEF ArpInv, RepliesTruthful, selfMAC
  <2> QED BY <1>2, <2>3, <2>5, <2>7 DEF ArpInv
<1>4. CASE f.type # "reply"
  <2>1. table' = table
    BY <1>2, <1>4
  <2>2. CacheTruthful'
    BY <2>1 DEF ArpInv, CacheTruthful, selfMAC, unresolved
  <2>3. ASSUME NEW q \in wire'
        PROVE  /\ q.to \in Hosts
               /\ q.frame.type = "reply" => /\ q.frame.SenderIP \in Hosts
                                            /\ q.frame.SenderMAC = selfMAC(q.frame.SenderIP)
    <3>1. CASE q \in wire
      BY <3>1 DEF ArpInv, RepliesTruthful
    <3>2. CASE q \notin wire
      <4>1. q \in unicast(f.SenderMAC, newARPReply(h, f))
        BY <1>2, <3>2
      <4>2. q.to \in Hosts /\ q.frame = newARPReply(h, f)
        BY <4>1, SentToHosts
      <4> QED BY <1>1, <4>2 DEF newARPReply
    <3> QED BY <3>1, <3>2
  <2>4. RepliesTruthful'
    BY <2>3 DEF RepliesTruthful, selfMAC
  <2> QED BY <1>2, <2>1, <2>2, <2>4 DEF ArpInv, Entry
<1> QED BY <1>3, <1>4

LEMMA ArpStep == ArpInv /\ [Next]_avars => ArpInv'
<1> SUFFICES ASSUME ArpInv, [Next]_avars PROVE ArpInv'
  OBVIOUS
<1>1. ASSUME NEW flow \in Flows, Submit(flow) PROVE ArpInv'
  BY <1>1 DEF Submit, ArpInv, CacheTruthful, RepliesTruthful, Entry
<1>2. ASSUME NEW flow \in Flows, WritePacket(flow) PROVE ArpInv'
  <2>1. wire' = wire \cup framesFor(flow[1], flow[2]) /\ table' = table /\ waiting' = waiting
    BY <1>2 DEF WritePacket
  <2>2. RepliesTruthful'
    BY <2>1, FramesForNoReply DEF ArpInv, RepliesTruthful
  <2> QED BY <2>1, <2>2 DEF ArpInv, CacheTruthful, Entry
<1>3. ASSUME NEW h \in Hosts, Close(h) \/ SkipFrame(h) PROVE ArpInv'
  BY <1>3 DEF Close, SkipFrame, ArpInv, CacheTruthful, RepliesTruthful, Entry
<1>4. ASSUME NEW h \in Hosts, Restart(h) PROVE ArpInv'
  <2>1. /\ table' = [table EXCEPT ![h] = [ip \in Hosts |-> unresolved]]
        /\ wire' = wire /\ waiting' \subseteq waiting
    BY <1>4 DEF Restart, NewAFPacketLink
  <2>2. table' \in [Hosts -> [Hosts -> Entry]]
    BY <2>1 DEF ArpInv, Entry
  <2>3. CacheTruthful'
    BY <2>1 DEF ArpInv, CacheTruthful
  <2> QED BY <2>1, <2>2, <2>3 DEF ArpInv, RepliesTruthful
<1>5. ASSUME NEW pkt \in wire, Lose(pkt) PROVE ArpInv'
  BY <1>5 DEF Lose, ArpInv, CacheTruthful, RepliesTruthful, Entry
<1>6. CASE UNCHANGED avars
  BY <1>6 DEF avars, ArpInv, CacheTruthful, RepliesTruthful, Entry
<1> QED BY <1>1, <1>2, <1>3, <1>4, <1>5, <1>6, HandleStep DEF Next

\* No host ever has a wrong address for another one, for every set of hosts,
\* every number of lost frames and every number of restarts (arpTable.update,
\* newARPReply).
THEOREM CacheTheorem == Spec => []CacheTruthful
<1>1. ArpInv => CacheTruthful
  BY DEF ArpInv
<1> QED BY ArpInit, ArpStep, <1>1, PTL DEF Spec
=============================================================================
