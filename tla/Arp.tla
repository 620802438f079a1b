--------------------------------- MODULE Arp ---------------------------------
(***************************************************************************)
(* The raw-socket link (tcp/link/afpacket_linux.go) with its own ARP       *)
(* (arp.go) on one Ethernet segment.  The upper layer of a host hands a    *)
(* packet down again and again until it has arrived (TCP's retransmission, *)
(* statemachine.go); a packet for an unresolved address is dropped and a   *)
(* request broadcast in its place.  Frames get lost and overtake each      *)
(* other, links are closed while their reader is blocked, and processes    *)
(* are started anew with an empty table.                                   *)
(***************************************************************************)
EXTENDS Naturals

CONSTANTS Hosts,        \* the hosts; a host's name is also its IP address
          Flows,        \* pairs <<from, to>> of hosts whose upper layers talk
          MaxLost,      \* bound on lost frames
          MaxRestarts   \* bound on processes started anew

ASSUME ArpAssumption ==
    /\ Flows \subseteq {p \in Hosts \X Hosts : p[1] # p[2]}
    /\ MaxLost \in Nat /\ MaxRestarts \in Nat

VARIABLES table,     \* arpTable.entries of each host
          closed,    \* afPacketLink.closed
          reader,    \* each host's receive loop: blocked in Recvfrom, or ended
          wire,      \* frames on their way: [to |-> host, frame |-> IPv4 packet or ARPPacket]
          waiting,   \* flows whose packet has not arrived
          faults     \* [lost, restarts]

avars == <<table, closed, reader, wire, waiting, faults>>

selfMAC(h) == <<"MAC", h>>
zeroMAC == <<"MAC", "unknown">>
unresolved == <<"no entry">>

-----------------------------------------------------------------------------
\* The switch hands a frame to the host with that address.
unicast(mac, frame) == {[to |-> h, frame |-> frame] : h \in {k \in Hosts : selfMAC(k) = mac}}
broadcast(h, frame) == {[to |-> k, frame |-> frame] : k \in Hosts \ {h}}

newARPRequest(h, targetIP) ==
    [type |-> "request", SenderIP |-> h, SenderMAC |-> selfMAC(h),
     TargetIP |-> targetIP, TargetMAC |-> zeroMAC]

\* Mutant: the sender's and the target's IP are not exchanged.
newARPReplyUnswapped(h, req) ==
    [type |-> "reply", SenderIP |-> req.SenderIP, SenderMAC |-> selfMAC(h),
     TargetIP |-> req.TargetIP, TargetMAC |-> req.SenderMAC]

newARPReply(h, req) ==
    [type |-> "reply", SenderIP |-> h, SenderMAC |-> selfMAC(h),
     TargetIP |-> req.SenderIP, TargetMAC |-> req.SenderMAC]

\* Mutant: a request is answered by its sender only.
answersSender(h, f) == f.type = "request" /\ f.SenderIP = h

answers(h, f) == f.type = "request" /\ f.TargetIP = h

-----------------------------------------------------------------------------
NewAFPacketLink(h) ==
    /\ table' = [table EXCEPT ![h] = [ip \in Hosts |-> unresolved]]
    /\ closed' = [closed EXCEPT ![h] = FALSE]
    /\ reader' = [reader EXCEPT ![h] = "blocked"]

Init ==
    /\ table = [h \in Hosts |-> [ip \in Hosts |-> unresolved]]
    /\ closed = [h \in Hosts |-> FALSE]
    /\ reader = [h \in Hosts |-> "blocked"]
    /\ wire = {} /\ waiting = {}
    /\ faults = [lost |-> 0, restarts |-> 0]

\* The upper layer has a new packet for the other side of a flow.
Submit(flow) ==
    /\ flow \notin waiting /\ ~closed[flow[1]]
    /\ waiting' = waiting \cup {flow}
    /\ UNCHANGED <<table, closed, reader, wire, faults>>

\* What WritePacket of host h puts on the wire for a packet to dst.
framesFor(h, dst) ==
    IF table[h][dst] = unresolved THEN broadcast(h, newARPRequest(h, dst))
    ELSE unicast(table[h][dst], [type |-> "IPv4", src |-> h, dst |-> dst])

\* The upper layer sends its packet (again).
WritePacket(flow) ==
    /\ flow \in waiting /\ ~closed[flow[1]]
    /\ wire' = wire \cup framesFor(flow[1], flow[2])
    /\ UNCHANGED <<table, closed, reader, waiting, faults>>

\* The head of ReadPacket's loop, after a frame.  A stale FALSE leads into
\* Recvfrom with a closed descriptor, whose error ends the loop as well.
loopHead(h) == IF closed[h] THEN "ended" ELSE "blocked"

\* Recvfrom returns a frame, also to a reader that was blocked in it when the
\* link was closed; handleInboundFrame treats it.  A reply does not leave
\* through a closed descriptor.
handleInboundFrame(h, pkt) ==
    /\ reader[h] = "blocked" /\ pkt \in wire /\ pkt.to = h
    /\ reader' = [reader EXCEPT ![h] = loopHead(h)]
    /\ LET f == pkt.frame IN
       /\ table' = IF f.type = "reply"
                   THEN [table EXCEPT ![h][f.SenderIP] = f.SenderMAC] ELSE table
       /\ wire' = (wire \ {pkt}) \cup
                  (IF answers(h, f) /\ ~closed[h]
                   THEN unicast(f.SenderMAC, newARPReply(h, f)) ELSE {})
       /\ waiting' = IF f.type = "IPv4" THEN waiting \ {<<f.src, f.dst>>} ELSE waiting
    /\ UNCHANGED <<closed, faults>>

\* The reader is at the head of its loop, or already blocked: nothing wakes it then.
Close(h) ==
    /\ ~closed[h] /\ closed' = [closed EXCEPT ![h] = TRUE]
    /\ \/ reader' = [reader EXCEPT ![h] = "ended"]
       \/ UNCHANGED reader
    /\ UNCHANGED <<table, wire, waiting, faults>>

\* The process dies, at any moment, and a new one opens the link; what the old
\* one had to send is forgotten.
Restart(h) ==
    /\ faults.restarts < MaxRestarts /\ faults' = [faults EXCEPT !.restarts = @ + 1]
    /\ NewAFPacketLink(h)
    /\ waiting' = {p \in waiting : p[1] # h}
    /\ UNCHANGED wire

\* A frame that handleInboundFrame skips: too short, another EtherType, ARP that
\* ParseARP refuses.  Of an open link it changes nothing.
SkipFrame(h) ==
    /\ reader[h] = "blocked" /\ loopHead(h) # "blocked"
    /\ reader' = [reader EXCEPT ![h] = loopHead(h)]
    /\ UNCHANGED <<table, closed, wire, waiting, faults>>

\* A frame is lost; one for a host whose reader has ended reaches nobody.
Lose(pkt) ==
    /\ pkt \in wire /\ wire' = wire \ {pkt}
    /\ IF reader[pkt.to] = "ended" THEN UNCHANGED faults
       ELSE faults.lost < MaxLost /\ faults' = [faults EXCEPT !.lost = @ + 1]
    /\ UNCHANGED <<table, closed, reader, waiting>>

Next ==
    \/ \E flow \in Flows : Submit(flow) \/ WritePacket(flow)
    \/ \E h \in Hosts : Close(h) \/ Restart(h) \/ SkipFrame(h)
    \/ \E pkt \in wire : handleInboundFrame(pkt.to, pkt) \/ Lose(pkt)

\* The retransmission timer keeps handing the packet down; a reader runs, and a
\* frame that is not lost is read by a reader that keeps reading: no kind of
\* frame is kept waiting for ever by others, the socket's queue being in order.
Fairness ==
    /\ \A flow \in Flows : WF_avars(WritePacket(flow))
    /\ \A h \in Hosts : \A type \in {"IPv4", "request", "reply"} :
          WF_avars(\E pkt \in wire : pkt.frame.type = type /\ handleInboundFrame(h, pkt))

Spec == Init /\ [][Next]_avars /\ Fairness

-----------------------------------------------------------------------------
\* No host has a wrong address for another one, whatever requests and replies
\* of several hosts cross, and however old the reply is that fills the table
\* (newARPReply, arpTable.update).
CacheTruthful == \A h, ip \in Hosts : table[h][ip] \in {unresolved, selfMAC(ip)}

\* A packet that the upper layer keeps sending arrives, although the first ones
\* are dropped for want of an address and requests, replies and packets get
\* lost and the receiver starts anew, unless one of the two links is closed or
\* the sender's process dies (WritePacket, handleInboundFrame).
PacketArrives == \A flow \in Flows :
    flow \in waiting ~> flow \notin waiting \/ closed[flow[1]] \/ closed[flow[2]]
=============================================================================
