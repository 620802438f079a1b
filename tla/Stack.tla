-------------------------------- MODULE Stack --------------------------------
(***************************************************************************)
(* The connection multiplexer (tcp/transport/listener.go, conntable.go):   *)
(* many connections over one link.  recvLoop demultiplexes what arrives,   *)
(* tickLoop drives timers and collects the dead, the application dials,    *)
(* accepts and closes.  Each step is one critical section of connTable.mu, *)
(* Stack.mu or Conn.mu, or one channel operation.                          *)
(***************************************************************************)
EXTENDS ConnLife, Naturals, Sequences

CONSTANTS Tuple,          \* 4-tuples; all have the one local endpoint listened on
          AcceptCap,      \* capacity of the accept channel
          MaxConns,       \* bound: connections made
          MaxListens      \* bound: calls of Listen

ASSUME StackAssumption ==
    AcceptCap \in Nat \ {0} /\ MaxConns \in Nat /\ MaxListens \in Nat

Nil == 0
Conn == 1..MaxConns
Listener == 1..MaxListens

VARIABLES conn,       \* the connections, in the order they were made
          table,      \* connTable.conns: 4-tuple -> connection or Nil
          ticked,     \* Stack.conns, the connections Tick drives
          delivered,  \* Stack.delivered
          listener,   \* connTable.listeners at the local endpoint: a Listener or Nil
          accept,     \* the accept channel of each Listener made so far
          quit,       \* the Listeners closed
          held,       \* the connections the application has from Dial or Accept
          taken,      \* history: what Accept has returned
          rx,         \* recvLoop: where it is and its locals
          tk,         \* tickLoop: where it is and its locals
          dialing,    \* the connection Dial has inserted and not yet tracked, or Nil
          phase       \* how far Stack.Close has come

table_vars == <<conn, table, ticked, delivered>>
user_vars == <<listener, accept, quit, held, taken, dialing>>
vars == <<table_vars, user_vars, phase, rx, tk>>

reading == [pc |-> "read", tp |-> Nil, kind |-> "ack", c |-> Nil, le |-> Nil, own |-> TRUE]
waiting == [pc |-> "wait", todo |-> {}, c |-> Nil]

Init == /\ conn = <<>> /\ table = [tp \in Tuple |-> Nil] /\ ticked = {} /\ delivered = {}
        /\ listener = Nil /\ accept = <<>> /\ quit = {} /\ held = {} /\ taken = {}
        /\ rx = reading /\ tk = waiting /\ dialing = Nil
        /\ phase = "open"

made == 1..Len(conn)
linkClosed == phase \in {"marked", "freed", "closed"}
life(c) == [state |-> conn[c].state, reached |-> conn[c].reached]
lives(c, l) == [conn EXCEPT ![c].state = l.state, ![c].reached = l.reached]
newConn(tp, st) == Append(conn, [state |-> st, reached |-> FALSE, tp |-> tp, deriveTo |-> Nil])

\* Mutant: the 4-tuple is cleared whoever occupies it.
removeIfAny(tp, c) == [table EXCEPT ![tp] = Nil]

removeIf(tp, c) == [table EXCEPT ![tp] = IF @ = c THEN Nil ELSE @]

\* insertIfAbsent returns what it finds unless that is in TIME-WAIT.
occupied(tp) == table[tp] # Nil /\ conn[table[tp]].state # "TimeWait"

-----------------------------------------------------------------------------
(* recvLoop.                                                               *)

\* Will the segment recvLoop works on make a connection?  (Keeps the bound.)
mayDerive == rx.kind = "syn" /\ rx.pc \in {"state", "untrack", "listener", "insert"}

\* ReadPacket of a link over a socket (udplink.go, unixlink.go) looks at closed
\* before it calls Recvfrom ...
FirstLook == /\ rx.pc = "read"
             /\ rx' = [rx EXCEPT !.pc = IF linkClosed THEN "ended" ELSE "recv"]
             /\ UNCHANGED <<table_vars, user_vars, phase, tk>>

\* ... which returns with a packet the link was sent; after shutdown and close
\* also with nothing, or from whatever socket has got the descriptor's number ...
Recvfrom == /\ rx.pc \in {"recv", "astray"}
            /\ \E own \in BOOLEAN :
                  /\ own => rx.pc = "recv"
                  /\ own \/ phase = "freed"
                  /\ rx' = [rx EXCEPT !.pc = "got", !.own = own]
            /\ UNCHANGED <<table_vars, user_vars, phase, tk>>

\* ... on which it may wait in vain ...
GoesAstray == /\ rx.pc = "recv" /\ phase = "freed"
              /\ rx' = [rx EXCEPT !.pc = "astray"]
              /\ UNCHANGED <<table_vars, user_vars, phase, tk>>

\* ... or with an error, always after shutdown and close; recvLoop then ends.
RecvEnd == /\ rx.pc = "recv"
           /\ rx' = [rx EXCEPT !.pc = "ended"]
           /\ UNCHANGED <<table_vars, user_vars, phase, tk>>

\* Mutant: the link does not look again whether it was closed meanwhile.
returnsUnchecked == "demux"
returns == IF linkClosed THEN "ended" ELSE "demux"

\* ReadPacket looks at closed again and returns the packet, or ErrLinkClosed.
SecondLook == /\ rx.pc = "got"
              /\ rx' = [rx EXCEPT !.pc = returns]
              /\ UNCHANGED <<table_vars, user_vars, phase, tk>>

\* demux drops a packet whose headers or checksum are wrong ...
Dropped == /\ rx.pc = "demux"
           /\ rx' = reading
           /\ UNCHANGED <<table_vars, user_vars, phase, tk>>

\* ... and looks the 4-tuple of any other up.
Arrive(tp, k) ==
    /\ rx.pc = "demux"
    /\ k = "syn" => Len(conn) < MaxConns
    /\ rx' = [reading EXCEPT !.pc = IF table[tp] = Nil THEN "listener" ELSE "state",
                             !.tp = tp, !.kind = k, !.c = table[tp], !.own = rx.own]
    /\ UNCHANGED <<table_vars, user_vars, phase, tk>>

\* demux looks at the state of what it found.  A CLOSED remnant is reaped: out of
\* the table at once (nothing can undo CLOSED), then out of the tick set.
DemuxState ==
    /\ rx.pc = "state"
    /\ LET st == conn[rx.c].state IN
       /\ table' = IF st = "Closed" THEN removeIf(rx.tp, rx.c) ELSE table
       /\ rx' = IF st = "Closed" THEN [rx EXCEPT !.pc = "untrack"]
                ELSE IF rx.kind \in {"syn", "synack"} /\ st = "TimeWait"
                THEN [rx EXCEPT !.pc = "listener", !.c = Nil] ELSE [rx EXCEPT !.pc = "segment"]
    /\ UNCHANGED <<conn, ticked, delivered, user_vars, phase, tk>>

DemuxUntrack ==
    /\ rx.pc = "untrack"
    /\ ticked' = ticked \ {rx.c}
    /\ rx' = [rx EXCEPT !.pc = "listener", !.c = Nil]
    /\ UNCHANGED <<conn, table, delivered, user_vars, phase, tk>>

\* lookupListener; all but a SYN for a listener is dropped or answered with RST.
DemuxListener ==
    /\ rx.pc = "listener"
    /\ rx' = IF listener # Nil /\ rx.kind = "syn"
             THEN [rx EXCEPT !.pc = "insert", !.le = listener] ELSE reading
    /\ UNCHANGED <<table_vars, user_vars, phase, tk>>

\* demuxListen's insertIfAbsent with PassiveOpen.
DemuxInsert ==
    /\ rx.pc = "insert"
    /\ IF occupied(rx.tp)
       THEN rx' = [rx EXCEPT !.pc = "segment", !.c = table[rx.tp]] /\ UNCHANGED <<conn, table>>
       ELSE /\ conn' = newConn(rx.tp, "Listen")
            /\ table' = [table EXCEPT ![rx.tp] = Len(conn')]
            /\ rx' = [rx EXCEPT !.pc = "track", !.c = Len(conn')]
    /\ UNCHANGED <<ticked, delivered, user_vars, phase, tk>>

\* Mutant: a derived connection is not tracked.
trackDerivedNot == ticked
trackDerived == ticked \cup {rx.c}

DemuxTrack ==
    /\ rx.pc = "track"
    /\ conn' = [conn EXCEPT ![rx.c].deriveTo = rx.le]
    /\ ticked' = trackDerived
    /\ rx' = [rx EXCEPT !.pc = "segment"]
    /\ UNCHANGED <<table, delivered, user_vars, phase, tk>>

\* Is there a connection to hand over, and room for it in the accept channel?
offers(c, l) == /\ conn[c].deriveTo # Nil /\ c \notin delivered /\ l.reached
                /\ Len(accept[conn[c].deriveTo]) < AcceptCap

\* Mutant: a connection that found the channel full counts as delivered.
markDeliveredAnyway(c, l) == IF conn[c].deriveTo # Nil /\ l.reached
                             THEN delivered \cup {c} ELSE delivered
\* Mutant: a connection is not marked as delivered.
markDeliveredNever(c, l) == delivered
markDelivered(c, l) == IF offers(c, l) THEN delivered \cup {c} ELSE delivered

\* onSegment, then maybeDeliver with a send that does not block.
DemuxSegment ==
    /\ rx.pc = "segment"
    /\ \E l \in segmentLife(life(rx.c), rx.kind) :
          /\ conn' = lives(rx.c, l)
          /\ accept' = IF offers(rx.c, l)
                       THEN [accept EXCEPT ![conn[rx.c].deriveTo] = Append(@, rx.c)] ELSE accept
          /\ delivered' = markDelivered(rx.c, l)
    /\ rx' = reading
    /\ UNCHANGED <<table, ticked, listener, quit, held, taken, dialing, phase, tk>>

RecvStep == FirstLook \/ SecondLook \/ Dropped \/ (\E tp \in Tuple, k \in SegKind : Arrive(tp, k))
            \/ DemuxState \/ DemuxUntrack \/ DemuxListener \/ DemuxInsert
            \/ DemuxTrack \/ DemuxSegment

-----------------------------------------------------------------------------
(* tickLoop.                                                               *)

TickStart == /\ tk.pc = "wait"
             /\ tk' = [waiting EXCEPT !.pc = "tick", !.todo = ticked]
             /\ UNCHANGED <<table_vars, user_vars, phase, rx>>

TickOne == /\ tk.pc = "tick"
           /\ \E c \in tk.todo :
                 /\ \E l \in tickLife(life(c)) : conn' = lives(c, l)
                 /\ tk' = [tk EXCEPT !.todo = @ \ {c}]
           /\ UNCHANGED <<table, ticked, delivered, user_vars, phase, rx>>

\* Mutant: the collection looks at what the ticks looked at, and forgets the rest.
afterTicksOnly == [waiting EXCEPT !.pc = "scan"]
afterTicks == [waiting EXCEPT !.pc = "scan", !.todo = ticked]

\* reapClosed takes a second snapshot and reaps what it finds CLOSED in it.
ReapStart == /\ tk.pc = "tick" /\ tk.todo = {}
             /\ tk' = afterTicks
             /\ UNCHANGED <<table_vars, user_vars, phase, rx>>

ReapOne ==
    /\ tk.pc = "scan"
    /\ \E c \in tk.todo :
          LET rest == [tk EXCEPT !.todo = @ \ {c}] IN
          IF conn[c].state = "Closed"
          THEN table' = removeIf(conn[c].tp, c) /\ tk' = [rest EXCEPT !.pc = "untrack", !.c = c]
          ELSE tk' = rest /\ UNCHANGED table
    /\ UNCHANGED <<conn, ticked, delivered, user_vars, phase, rx>>

ReapUntrack == /\ tk.pc = "untrack"
               /\ ticked' = ticked \ {tk.c}
               /\ tk' = [tk EXCEPT !.pc = "scan", !.c = Nil]
               /\ UNCHANGED <<conn, table, delivered, user_vars, phase, rx>>

ReapEnd == /\ tk.pc = "scan" /\ tk.todo = {}
           /\ tk' = waiting
           /\ UNCHANGED <<table_vars, user_vars, phase, rx>>

\* Mutant: Stack.Close closes done after it has waited.
doneAfterWait == phase = "closed"
done == phase # "open"

TickEnd == /\ tk.pc = "wait" /\ done
           /\ tk' = [tk EXCEPT !.pc = "ended"]
           /\ UNCHANGED <<table_vars, user_vars, phase, rx>>

TickStep == TickStart \/ TickOne \/ ReapStart \/ ReapOne \/ ReapUntrack \/ ReapEnd

-----------------------------------------------------------------------------
(* The application.                                                        *)

\* Dial: insertIfAbsent with ActiveOpen; what is already there is returned.
Dial(tp) ==
    /\ dialing = Nil /\ phase = "open"
    /\ IF occupied(tp)
       THEN held' = held \cup {table[tp]} /\ UNCHANGED <<conn, table, dialing>>
       ELSE /\ Len(conn) + (IF mayDerive THEN 1 ELSE 0) < MaxConns
            /\ conn' = newConn(tp, "SynSent")
            /\ table' = [table EXCEPT ![tp] = Len(conn')]
            /\ dialing' = Len(conn')
            /\ UNCHANGED held
    /\ UNCHANGED <<ticked, delivered, listener, accept, quit, taken, phase, rx, tk>>

DialTrack == /\ dialing # Nil
             /\ ticked' = ticked \cup {dialing}
             /\ held' = held \cup {dialing}
             /\ dialing' = Nil
             /\ UNCHANGED <<conn, table, delivered, listener, accept, quit, taken, phase, rx, tk>>

Listen == /\ Len(accept) < MaxListens /\ phase = "open"
          /\ accept' = Append(accept, <<>>)
          /\ listener' = Len(accept')
          /\ UNCHANGED <<table_vars, quit, held, taken, dialing, phase, rx, tk>>

\* removeListener clears the endpoint, whichever Listener is registered there.
CloseListener == /\ phase = "open"
                 /\ \E l \in (1..Len(accept)) \ quit : quit' = quit \cup {l}
                 /\ listener' = Nil
                 /\ UNCHANGED <<table_vars, accept, held, taken, dialing, phase, rx, tk>>

\* Accept on a closed Listener may still find a connection (select is free).
Accept(l) ==
    /\ phase = "open" /\ l \in 1..Len(accept) /\ accept[l] # <<>>
    /\ held' = held \cup {Head(accept[l])}
    /\ taken' = taken \cup {Head(accept[l])}
    /\ accept' = [accept EXCEPT ![l] = Tail(@)]
    /\ UNCHANGED <<table_vars, listener, quit, dialing, phase, rx, tk>>

CloseConn == /\ phase = "open"
             /\ \E c \in held : conn' = lives(c, closeLife(life(c)))
             /\ UNCHANGED <<table, ticked, delivered, user_vars, phase, rx, tk>>

\* Stack.Close: close(done); link.Close, which sets closed and then shuts the
\* socket down and gives its descriptor back; wg.Wait.
StackClose ==
    /\ \/ phase = "open" /\ phase' = "done"
       \/ phase = "done" /\ phase' = "marked"
       \/ phase = "marked" /\ phase' = "freed"
       \/ phase = "freed" /\ rx.pc = "ended" /\ tk.pc = "ended" /\ phase' = "closed"
    /\ UNCHANGED <<table_vars, user_vars, rx, tk>>

Next == \/ \E tp \in Tuple, k \in SegKind : Arrive(tp, k)
        \/ FirstLook \/ Recvfrom \/ GoesAstray \/ RecvEnd \/ SecondLook \/ Dropped
        \/ DemuxState \/ DemuxUntrack \/ DemuxListener \/ DemuxInsert \/ DemuxTrack
        \/ DemuxSegment
        \/ TickStart \/ TickOne \/ ReapStart \/ ReapOne \/ ReapUntrack \/ ReapEnd \/ TickEnd
        \/ \E tp \in Tuple : Dial(tp)
        \/ DialTrack \/ Listen \/ CloseListener \/ (\E l \in Listener : Accept(l))
        \/ CloseConn \/ StackClose

Spec == Init /\ [][Next]_vars

\* The goroutines keep running; select, when done is closed and the ticker has
\* fired as well, does not choose the ticker for ever; a Stack.Close that has
\* begun goes on; the application accepts what is offered.  Nothing is assumed
\* of what arrives, of Dial, Listen or Close.
FairSpec == /\ Spec
            /\ WF_vars(RecvStep) /\ WF_vars(RecvEnd /\ phase = "freed")
            /\ WF_vars(TickStep) /\ SF_vars(TickEnd)
            /\ WF_vars(DialTrack)
            /\ WF_vars(StackClose /\ phase # "open")
            /\ \A l \in Listener : WF_vars(Accept(l))

-----------------------------------------------------------------------------
\* A connection that is not finished is where its segments look for it: at most
\* one for each 4-tuple, and no reap, replacement or reuse of the 4-tuple ever
\* takes it out of the table (insertIfAbsent, removeIf).
LiveIsFound ==
    \A c \in made : conn[c].state \notin {"Closed", "TimeWait"} => table[conn[c].tp] = c

\* A connection that is not CLOSED is driven by Tick or will be as soon as the
\* step that made it goes on: no timer is left to nobody (track, reap).
Driven ==
    \A c \in made : conn[c].state # "Closed" =>
        c \in ticked \/ dialing = c \/ (rx.pc = "track" /\ rx.c = c)

\* Accept returns each derived connection at most once, only after its handshake,
\* and to the Listener it was derived by (maybeDeliver).
DeliveredOnce ==
    \A l \in 1..Len(accept) :
        LET offered == accept[l] IN
        /\ \A i \in 1..Len(offered) :
              conn[offered[i]].deriveTo = l /\ conn[offered[i]].reached
        /\ \A i, j \in 1..Len(offered) : i # j => offered[i] # offered[j]
        /\ \A i \in 1..Len(offered) : offered[i] \notin taken

\* Every dead connection leaves the table and the tick set for good, although demux,
\* tickLoop and Dial add and remove in any order (reapClosed).
dead(c) == c \in made /\ conn[c].state = "Closed"
gone(c) == c \notin ticked /\ \A tp \in Tuple : table[tp] # c
DeadAreCollected ==
    <>[](\A c \in Conn : dead(c) => gone(c) \/ phase # "open")

\* If the peers keep sending, a connection that found the accept channel full is
\* offered again and again until there is room (maybeDeliver).
PeersKeepSending ==
    \A tp \in Tuple : []<>(rx.pc \in {"state", "listener"} /\ rx.tp = tp /\ rx.kind = "ack")
handedOver(c) == c \in taken \/ \E l \in 1..Len(accept) : \E i \in 1..Len(accept[l]) : accept[l][i] = c
waitsForRoom(c) ==
    c \in made /\ ~handedOver(c) /\ c \notin held /\ conn[c].reached /\ conn[c].deriveTo # Nil
OfferedAgain ==
    PeersKeepSending =>
        <>[](\A c \in Conn : waitsForRoom(c) => dead(c) \/ phase # "open")

\* Whatever ReadPacket returns came to this link while it was open: not what
\* Recvfrom answers to a shutdown, nor what another socket receives that has got
\* the number of the closed descriptor (ReadPacket, Close of the link).
OwnPacketsOnly == rx.own \/ rx.pc \in {"got", "ended"}

\* Stack.Close returns: both goroutines see that the link is closed and end,
\* unless ReadPacket was caught between its look at closed and Recvfrom and
\* waits on another socket for ever.
CloseReturns == []<>(rx.pc # "astray") => []<>(phase \in {"open", "closed"})
=============================================================================
