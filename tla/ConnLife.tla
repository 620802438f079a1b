------------------------------ MODULE ConnLife ------------------------------
(***************************************************************************)
(* A connection as the rest of the stack sees it: what State() and         *)
(* ReachedEstablished() can answer after each critical section of Conn.mu. *)
(* Stack uses these steps for its connections; Duplex is proved to take no *)
(* other (LifeTheorem), so that the two models fit together.               *)
(***************************************************************************)

\* The states demux and reap tell apart.  Established stands for ESTABLISHED and
\* CLOSE-WAIT, Closing for the states after the application's Close.  Relisten is
\* LISTEN re-entered by a reset in SYN-RECEIVED, its SYN-ACK still queued: R2 may
\* close it.  R-074 (requirements.md) wants the queue flushed there.
LifeState == {"Closed", "Listen", "Relisten", "SynSent", "SynReceived",
              "Established", "Closing", "TimeWait"}
SegKind == {"syn", "synack", "ack", "rst"}

\* State l enters state s: ReachedEstablished stays TRUE once it is.
enter(l, s) == [state |-> s, reached |-> l.reached \/ s = "Established"]

\* The moves a segment can cause: from, kind of segment, to.
SegMoves ==
    {<<"Listen", "syn", "SynReceived">>, <<"Relisten", "syn", "SynReceived">>,
     <<"SynSent", "synack", "Established">>, <<"SynSent", "syn", "SynReceived">>,
     <<"SynSent", "rst", "Closed">>,
     <<"SynReceived", "ack", "Established">>, <<"SynReceived", "rst", "Relisten">>,
     <<"SynReceived", "rst", "Closed">>,
     <<"Established", "rst", "Closed">>,
     <<"Closing", "ack", "TimeWait">>, <<"Closing", "ack", "Closed">>,
     <<"Closing", "rst", "Closed">>, <<"TimeWait", "rst", "Closed">>}

\* onSegment: a listener always takes a SYN; any other segment may be refused.
segmentLife(l, k) ==
    LET moved == {enter(l, m[3]) : m \in {n \in SegMoves : n[1] = l.state /\ n[2] = k}}
    IN IF l.state \in {"Listen", "Relisten"} /\ k = "syn" THEN moved ELSE moved \cup {l}

\* Tick: 2MSL is over, R2 is reached or keepalive gives up.
tickLife(l) == {l} \cup (IF l.state \in {"Closed", "Listen"} THEN {} ELSE {enter(l, "Closed")})

\* ActiveOpen, PassiveOpen and Close.
openLife(l) == IF l.state = "Closed" THEN {enter(l, "SynSent"), enter(l, "Listen")} ELSE {l}

closeLife(l) ==
    IF l.state \in {"Listen", "Relisten", "SynSent"} THEN enter(l, "Closed")
    ELSE IF l.state \in {"SynReceived", "Established"} THEN enter(l, "Closing") ELSE l
=============================================================================
