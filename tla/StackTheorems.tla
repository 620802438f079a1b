---------------------------- MODULE StackTheorems ----------------------------
(***************************************************************************)
(* The connection table, the tick set and the accept channels stay         *)
(* consistent under every interleaving of recvLoop, tickLoop and the       *)
(* application, for any number of 4-tuples, connections and Listeners and  *)
(* every capacity of the accept channel.                                   *)
(***************************************************************************)
EXTENDS Stack, SequenceTheorems, TLAPS

Life == [state: LifeState, reached: BOOLEAN]
ConnRec == [state: LifeState, reached: BOOLEAN, tp: Tuple, deriveTo: Nat]

RxPc == {"read", "recv", "astray", "got", "demux", "state", "untrack", "listener", "insert",
         "track", "segment", "ended"}
inLink == {"read", "recv", "astray", "got", "demux", "ended"}
RxRec(nc, nl) == [pc: RxPc, tp: Tuple \cup {Nil}, kind: SegKind, c: 0..nc, le: 0..nl, own: BOOLEAN]
TkPc == {"wait", "tick", "scan", "untrack", "ended"}

USE DEF RxRec, inLink

\* The types, and which locals of the two loops are in use where.
ConnsOK == conn \in Seq(ConnRec) /\ accept \in Seq(Seq(Nat))
RefsOK ==
    /\ table \in [Tuple -> 0..Len(conn)]
    /\ dialing \in 0..Len(conn)
    /\ ticked \subseteq made /\ delivered \subseteq made /\ held \subseteq made
    /\ listener \in 0..Len(accept)
    /\ \A c \in made : conn[c].deriveTo <= Len(accept)
RxOK ==
    /\ rx \in RxRec(Len(conn), Len(accept))
    /\ rx.pc \notin inLink => rx.tp \in Tuple
    /\ rx.pc \in {"state", "untrack", "track", "segment"} => rx.c \in made
TkOK ==
    /\ tk \in [pc: TkPc, todo: SUBSET made, c: 0..Len(conn)]
    /\ tk.pc = "untrack" => tk.c \in made

\* What a loop is about to take out of the tick set is CLOSED, and stays so.
UntracksDead ==
    /\ rx.pc = "untrack" => conn[rx.c].state = "Closed"
    /\ tk.pc = "untrack" => conn[tk.c].state = "Closed"

\* What is marked as delivered was derived and has been established; whatever is
\* or was in an accept channel is marked; a connection that is being derived is
\* not marked yet.
Marked ==
    /\ taken \subseteq delivered
    /\ \A l \in 1..Len(accept) : \A i \in 1..Len(accept[l]) : accept[l][i] \in delivered
    /\ \A c \in delivered : conn[c].deriveTo # Nil /\ conn[c].reached
    /\ rx.pc = "track" => conn[rx.c].deriveTo = Nil

TableInv == ConnsOK /\ RefsOK /\ RxOK /\ TkOK
StackInv == TableInv /\ UntracksDead /\ LiveIsFound /\ Driven /\ Marked /\ DeliveredOnce

-----------------------------------------------------------------------------
(* Sequences.                                                              *)

LEMMA SeqPut ==
    ASSUME NEW S, NEW q \in Seq(S), NEW i \in 1..Len(q), NEW e \in S,
           NEW p, p = [q EXCEPT ![i] = e]
    PROVE  /\ p \in Seq(S) /\ Len(p) = Len(q)
           /\ \A j \in 1..Len(q) : p[j] = IF j = i THEN e ELSE q[j]
  BY ExceptSeq

\* A send into one of several channels.
LEMMA ChannelSend ==
    ASSUME NEW A \in Seq(Seq(Nat)), NEW l \in 1..Len(A), NEW c \in Nat,
           NEW B, B = [A EXCEPT ![l] = Append(@, c)]
    PROVE  /\ B \in Seq(Seq(Nat)) /\ Len(B) = Len(A)
           /\ \A k \in 1..Len(B) : \A i \in 1..Len(B[k]) :
                  \/ k = l /\ i = Len(A[l]) + 1 /\ B[k][i] = c
                  \/ i \in 1..Len(A[k]) /\ B[k][i] = A[k][i]
<1> DEFINE a == Append(A[l], c)
<1>1. A[l] \in Seq(Nat) /\ Len(A[l]) \in Nat
  OBVIOUS
<1>2. /\ a \in Seq(Nat) /\ Len(a) = Len(A[l]) + 1
      /\ \A i \in 1..Len(A[l]) : a[i] = A[l][i]
      /\ a[Len(A[l]) + 1] = c
  BY <1>1, AppendProperties
<1>3. B = [A EXCEPT ![l] = a]
  OBVIOUS
<1> HIDE DEF a
<1>4. /\ B \in Seq(Seq(Nat)) /\ Len(B) = Len(A)
      /\ \A k \in 1..Len(A) : B[k] = IF k = l THEN a ELSE A[k]
  <2>1. A \in Seq(Seq(Nat)) /\ l \in 1..Len(A) /\ a \in Seq(Nat)
    BY <1>2
  <2> QED BY ONLY <2>1, <1>3, SeqPut
<1>5. ASSUME NEW k \in 1..Len(B), NEW i \in 1..Len(B[k])
      PROVE  \/ k = l /\ i = Len(A[l]) + 1 /\ B[k][i] = c
             \/ i \in 1..Len(A[k]) /\ B[k][i] = A[k][i]
  <2>1. CASE k = l
    <3>a. B[k] = a
      BY <1>4, <2>1
    <3>1. B[k] = a /\ i \in 1..(Len(A[l]) + 1)
      BY <1>2, <3>a
    <3>2. i = Len(A[l]) + 1 \/ i \in 1..Len(A[l])
      <4> DEFINE n == Len(A[l])
      <4>1. n \in Nat /\ i \in 1..(n + 1)
        BY <1>1, <3>1
      <4> HIDE DEF n
      <4>2. i = n + 1 \/ i \in 1..n
        BY <4>1
      <4> QED BY <4>2 DEF n
    <3> QED BY <1>2, <2>1, <3>1, <3>2
  <2>2. CASE k # l
    BY <1>4, <2>2
  <2> QED BY <2>1, <2>2
<1> QED BY <1>4, <1>5

\* A receive from one of several channels.
LEMMA ChannelReceive ==
    ASSUME NEW A \in Seq(Seq(Nat)), NEW l \in 1..Len(A), A[l] # <<>>,
           NEW B, B = [A EXCEPT ![l] = Tail(@)]
    PROVE  /\ B \in Seq(Seq(Nat)) /\ Len(B) = Len(A)
           /\ 1 \in 1..Len(A[l]) /\ Head(A[l]) = A[l][1]
           /\ \A k \in 1..Len(B) : \A i \in 1..Len(B[k]) :
                  \/ k = l /\ i + 1 \in 1..Len(A[l]) /\ B[k][i] = A[l][i + 1]
                  \/ k # l /\ i \in 1..Len(A[k]) /\ B[k][i] = A[k][i]
<1> DEFINE a == Tail(A[l])
<1>1. A[l] \in Seq(Nat) /\ Len(A[l]) \in Nat
  OBVIOUS
<1>2. /\ a \in Seq(Nat) /\ Len(a) = Len(A[l]) - 1
      /\ \A i \in 1..Len(a) : a[i] = A[l][i + 1]
      /\ 1 \in 1..Len(A[l]) /\ Head(A[l]) = A[l][1]
  BY <1>1, HeadTailProperties
<1>3. B = [A EXCEPT ![l] = a]
  OBVIOUS
<1> HIDE DEF a
<1>4. /\ B \in Seq(Seq(Nat)) /\ Len(B) = Len(A)
      /\ \A k \in 1..Len(A) : B[k] = IF k = l THEN a ELSE A[k]
  <2>1. A \in Seq(Seq(Nat)) /\ l \in 1..Len(A) /\ a \in Seq(Nat)
    BY <1>2
  <2> QED BY ONLY <2>1, <1>3, SeqPut
<1>5. ASSUME NEW k \in 1..Len(B), NEW i \in 1..Len(B[k])
      PROVE  \/ k = l /\ i + 1 \in 1..Len(A[l]) /\ B[k][i] = A[l][i + 1]
             \/ k # l /\ i \in 1..Len(A[k]) /\ B[k][i] = A[k][i]
  <2>1. CASE k = l
    <3>1. B[k] = a /\ i \in 1..(Len(A[l]) - 1)
      BY <1>2, <1>4, <2>1
    <3>2. i + 1 \in 1..Len(A[l])
      BY <1>1, <3>1
    <3> QED BY <1>2, <2>1, <3>1, <3>2
  <2>2. CASE k # l
    BY <1>4, <2>2
  <2> QED BY <2>1, <2>2
<1> QED BY <1>2, <1>4, <1>5

-----------------------------------------------------------------------------
(* Connections.                                                            *)

\* A step of a connection: CLOSED is final, TIME-WAIT ends in CLOSED only, and
\* ReachedEstablished is never taken back.
LEMMA LifeSteps ==
    ASSUME NEW l \in Life, NEW k \in SegKind,
           NEW m \in segmentLife(l, k) \cup tickLife(l) \cup {closeLife(l)}
    PROVE  /\ m \in Life
           /\ l.reached => m.reached
           /\ l.state = "Closed" => m.state = "Closed"
           /\ l.state = "TimeWait" => m.state \in {"TimeWait", "Closed"}
<1>1. \A s \in LifeState : enter(l, s) \in Life /\ (l.reached => enter(l, s).reached)
                           /\ enter(l, s).state = s
  BY DEF enter, Life
<1>2. CASE m \in segmentLife(l, k)
  <2>1. m = l \/ \E n \in SegMoves : n[1] = l.state /\ m = enter(l, n[3])
    BY <1>2 DEF segmentLife
  <2>2. \A n \in SegMoves : /\ n[3] \in LifeState /\ n[1] # "Closed"
                            /\ n[1] = "TimeWait" => n[3] = "Closed"
    BY DEF SegMoves, LifeState
  <2> QED BY <1>1, <2>1, <2>2
<1>3. CASE m \in tickLife(l)
  <2>1. m = l \/ m = enter(l, "Closed")
    BY <1>3 DEF tickLife
  <2>2. "Closed" \in LifeState
    BY DEF LifeState
  <2> QED BY <1>1, <2>1, <2>2
<1>4. CASE m = closeLife(l)
  <2>1. "Closed" \in LifeState /\ "Closing" \in LifeState
    BY DEF LifeState
  <2> QED BY <1>1, <1>4, <2>1 DEF closeLife
<1> QED BY <1>2, <1>3, <1>4

\* How the connections may change in one step: none is lost, none changes its
\* 4-tuple, none comes back to life.
Ages(old, new) ==
    /\ new \in Seq(ConnRec) /\ Len(new) = Len(old)
    /\ \A c \in 1..Len(old) :
          /\ new[c].tp = old[c].tp
          /\ old[c].reached => new[c].reached
          /\ old[c].state = "Closed" => new[c].state = "Closed"
          /\ old[c].state = "TimeWait" => new[c].state \in {"TimeWait", "Closed"}

LEMMA LivesAges ==
    ASSUME ConnsOK, NEW c \in made, NEW k \in SegKind,
           NEW m \in segmentLife(life(c), k) \cup tickLife(life(c)) \cup {closeLife(life(c))},
           conn' = lives(c, m)
    PROVE  /\ Ages(conn, conn')
           /\ \A d \in made : conn'[d].deriveTo = conn[d].deriveTo
           /\ conn'[c].reached = m.reached
<1>1. conn[c] \in ConnRec
  BY DEF ConnsOK, made
<1>2. life(c) \in Life
  BY <1>1 DEF life, Life, ConnRec
<1>3. /\ m \in Life
      /\ conn[c].reached => m.reached
      /\ conn[c].state = "Closed" => m.state = "Closed"
      /\ conn[c].state = "TimeWait" => m.state \in {"TimeWait", "Closed"}
  BY <1>2, LifeSteps DEF life
<1> DEFINE r == [conn[c] EXCEPT !.state = m.state, !.reached = m.reached]
<1>4. conn' = [conn EXCEPT ![c] = r]
  BY DEF lives, ConnsOK
<1>5. r \in ConnRec /\ r.tp = conn[c].tp /\ r.deriveTo = conn[c].deriveTo
      /\ r.state = m.state /\ r.reached = m.reached
  BY <1>1, <1>3 DEF ConnRec, Life
<1> HIDE DEF r
<1>6. conn' \in Seq(ConnRec) /\ Len(conn') = Len(conn)
      /\ \A d \in 1..Len(conn) : conn'[d] = IF d = c THEN r ELSE conn[d]
  BY <1>4, <1>5, ExceptSeq DEF ConnsOK, made
<1>7. \A d \in 1..Len(conn) : conn'[d].tp = conn[d].tp /\ conn'[d].deriveTo = conn[d].deriveTo
  BY <1>5, <1>6
<1>8. \A d \in 1..Len(conn) :
          /\ conn[d].reached => conn'[d].reached
          /\ conn[d].state = "Closed" => conn'[d].state = "Closed"
          /\ conn[d].state = "TimeWait" => conn'[d].state \in {"TimeWait", "Closed"}
  BY <1>3, <1>5, <1>6
<1> QED BY <1>5, <1>6, <1>7, <1>8 DEF Ages, made

\* Append in Dial and demuxListen.
LEMMA NewConnFacts ==
    ASSUME ConnsOK, NEW tp \in Tuple, NEW st \in LifeState, conn' = newConn(tp, st)
    PROVE  /\ conn' \in Seq(ConnRec) /\ Len(conn') = Len(conn) + 1
           /\ \A c \in made : conn'[c] = conn[c]
           /\ conn'[Len(conn')] = [state |-> st, reached |-> FALSE, tp |-> tp, deriveTo |-> Nil]
           /\ made' = made \cup {Len(conn')} /\ Len(conn') \notin made
<1> DEFINE r == [state |-> st, reached |-> FALSE, tp |-> tp, deriveTo |-> Nil]
<1>1. r \in ConnRec
  BY DEF ConnRec, Nil
<1>2. conn' = Append(conn, r) /\ conn \in Seq(ConnRec)
  BY DEF newConn, ConnsOK
<1> HIDE DEF r
<1>3. /\ conn' \in Seq(ConnRec) /\ Len(conn') = Len(conn) + 1
      /\ \A c \in 1..Len(conn) : conn'[c] = conn[c]
      /\ conn'[Len(conn) + 1] = r
  BY <1>1, <1>2, AppendProperties
<1>4. Len(conn) \in Nat
  BY <1>2
<1> QED BY <1>3, <1>4 DEF made, r

-----------------------------------------------------------------------------
(* What a step has to do to keep each part of the invariant.               *)

\* An entry of the table disappears only with a CLOSED connection.
LEMMA LiveFrame ==
    ASSUME StackInv, Ages(conn, conn'),
           \A tp \in Tuple : \/ table'[tp] = table[tp]
                             \/ table[tp] \in made /\ conn[table[tp]].state = "Closed"
    PROVE  LiveIsFound'
<1> SUFFICES ASSUME NEW c \in made', conn'[c].state \notin {"Closed", "TimeWait"}
             PROVE  table'[conn'[c].tp] = c
  BY DEF LiveIsFound
<1>1. c \in made /\ conn'[c].tp = conn[c].tp /\ conn[c].state \notin {"Closed", "TimeWait"}
  BY DEF Ages, made
<1>2. conn[c] \in ConnRec
  BY <1>1 DEF StackInv, TableInv, ConnsOK, made
<1>3. conn[c].tp \in Tuple
  BY <1>2 DEF ConnRec
<1>4. table[conn[c].tp] = c
  BY <1>1 DEF StackInv, LiveIsFound
<1> QED BY <1>1, <1>3, <1>4

\* A connection leaves those that are driven or about to be only when CLOSED.
LEMMA DrivenFrame ==
    ASSUME StackInv, Ages(conn, conn'),
           \A c \in made : conn[c].state # "Closed" =>
               /\ c \in ticked => c \in ticked'
               /\ dialing = c => dialing' = c \/ c \in ticked'
               /\ rx.pc = "track" /\ rx.c = c => (rx'.pc = "track" /\ rx'.c = c) \/ c \in ticked'
    PROVE  Driven'
<1> SUFFICES ASSUME NEW c \in made', conn'[c].state # "Closed"
             PROVE  c \in ticked' \/ dialing' = c \/ (rx'.pc = "track" /\ rx'.c = c)
  BY DEF Driven
<1>1. c \in made /\ conn[c].state # "Closed"
  BY DEF Ages, made
<1> QED BY <1>1 DEF StackInv, Driven

\* A step that leaves the accept channels alone.
LEMMA DeliveryFrame ==
    ASSUME StackInv, accept' = accept, delivered' = delivered, taken' = taken,
           \A c \in delivered : /\ conn'[c].deriveTo = conn[c].deriveTo
                                /\ conn[c].reached => conn'[c].reached,
           rx'.pc = "track" => conn'[rx'.c].deriveTo = Nil
    PROVE  Marked' /\ DeliveredOnce'
<1>1. Marked'
  BY DEF StackInv, Marked, Nil
<1>2. ASSUME NEW l \in 1..Len(accept), NEW i \in 1..Len(accept[l])
      PROVE  /\ conn'[accept[l][i]].deriveTo = l /\ conn'[accept[l][i]].reached
             /\ \A j \in 1..Len(accept[l]) : i # j => accept[l][i] # accept[l][j]
             /\ accept[l][i] \notin taken
  <2>1. accept[l][i] \in delivered
    BY DEF StackInv, Marked
  <2>2. /\ conn[accept[l][i]].deriveTo = l /\ conn[accept[l][i]].reached
        /\ \A j \in 1..Len(accept[l]) : i # j => accept[l][i] # accept[l][j]
        /\ accept[l][i] \notin taken
    BY DEF StackInv, DeliveredOnce
  <2> QED BY <2>1, <2>2
<1>3. DeliveredOnce'
  BY <1>2 DEF DeliveredOnce
<1> QED BY <1>1, <1>3

\* Nothing happened to the connections.
LEMMA AgesRefl == ASSUME ConnsOK, conn' = conn PROVE Ages(conn, conn') /\ made' = made
  BY DEF Ages, ConnsOK, made

\* A step of a loop, or of the application, that touches no table, set or channel.
LEMMA QuietStep ==
    ASSUME StackInv, UNCHANGED <<conn, table, ticked, delivered, accept, taken, dialing>>,
           RxOK', TkOK', listener' \in 0..Len(accept), held' \subseteq made,
           rx' = rx \/ (rx.pc # "track" /\ rx'.pc \notin {"track", "untrack"}),
           tk' = tk \/ tk'.pc # "untrack"
    PROVE  StackInv'
<1>1. Ages(conn, conn') /\ made' = made
  BY AgesRefl DEF StackInv, TableInv
<1>2. TableInv'
  BY <1>1 DEF StackInv, TableInv, ConnsOK, RefsOK
<1>3. UntracksDead'
  BY DEF StackInv, UntracksDead
<1>4. LiveIsFound' /\ Driven'
  BY <1>1, LiveFrame, DrivenFrame
<1>5. rx'.pc = "track" => conn'[rx'.c].deriveTo = Nil
  BY DEF StackInv, Marked
<1>6. Marked' /\ DeliveredOnce'
  BY <1>5, DeliveryFrame
<1> QED BY <1>2, <1>3, <1>4, <1>6 DEF StackInv

-----------------------------------------------------------------------------
(* recvLoop.                                                               *)

\* A step inside ReadPacket, or demux dropping what it returned.
LEMMA LinkSteps ==
    ASSUME StackInv, FirstLook \/ Recvfrom \/ GoesAstray \/ RecvEnd \/ SecondLook \/ Dropped
    PROVE  StackInv'
<1>1. /\ UNCHANGED <<conn, table, ticked, delivered, accept, taken, dialing, listener, held, tk>>
      /\ rx.pc # "track"
  BY DEF FirstLook, Recvfrom, GoesAstray, RecvEnd, SecondLook, Dropped, table_vars, user_vars
<1>2. rx \in RxRec(Len(conn), Len(accept)) /\ Len(conn) \in Nat /\ Len(accept) \in Nat
  BY DEF StackInv, TableInv, RxOK, ConnsOK
<1>3. \/ \E pc \in inLink : rx' = [rx EXCEPT !.pc = pc]
      \/ \E own \in BOOLEAN : rx' = [rx EXCEPT !.pc = "got", !.own = own]
      \/ rx' = reading
  BY DEF FirstLook, Recvfrom, GoesAstray, RecvEnd, SecondLook, Dropped, returns
<1>4. RxOK' /\ rx'.pc \in inLink
  <2>1. CASE \E pc \in inLink : rx' = [rx EXCEPT !.pc = pc]
    BY <1>1, <1>2, <2>1 DEF RxOK, RxPc
  <2>2. CASE \E own \in BOOLEAN : rx' = [rx EXCEPT !.pc = "got", !.own = own]
    BY <1>1, <1>2, <2>2 DEF RxOK, RxPc
  <2>3. CASE rx' = reading
    BY <1>1, <1>2, <2>3 DEF RxOK, RxPc, reading, SegKind, Nil
  <2> QED BY <1>3, <2>1, <2>2, <2>3
<1>5. TkOK'
  BY <1>1 DEF StackInv, TableInv, TkOK, made
<1> QED BY <1>1, <1>4, <1>5, QuietStep DEF StackInv, TableInv, RefsOK

LEMMA ArriveStep ==
    ASSUME StackInv, NEW tp \in Tuple, NEW k \in SegKind, Arrive(tp, k)
    PROVE  StackInv'
<1>1. /\ UNCHANGED <<conn, table, ticked, delivered, accept, taken, dialing, listener, held, tk>>
      /\ rx.pc = "demux"
  BY DEF Arrive, table_vars, user_vars
<1>2. /\ rx \in RxRec(Len(conn), Len(accept)) /\ Len(conn) \in Nat /\ Len(accept) \in Nat
      /\ table[tp] \in 0..Len(conn) /\ (table[tp] # Nil => table[tp] \in made)
  BY DEF StackInv, TableInv, RxOK, RefsOK, made, Nil, ConnsOK
<1>3. rx' = [pc |-> IF table[tp] = Nil THEN "listener" ELSE "state", tp |-> tp, kind |-> k,
             c |-> table[tp], le |-> Nil, own |-> rx.own]
  BY DEF Arrive, reading
<1>4. RxOK' /\ rx'.pc \notin {"track", "untrack"}
  BY <1>1, <1>2, <1>3 DEF RxOK, RxPc, Nil, made
<1>5. TkOK'
  BY <1>1 DEF StackInv, TableInv, TkOK, made
<1> QED BY <1>1, <1>4, <1>5, QuietStep DEF StackInv, TableInv, RefsOK

\* Taking a connection that is CLOSED out of the table.
LEMMA RemoveFacts ==
    ASSUME StackInv, NEW tp \in Tuple, NEW c \in made, conn[c].state = "Closed",
           table' = removeIf(tp, c), conn' = conn
    PROVE  /\ table' \in [Tuple -> 0..Len(conn)]
           /\ \A t \in Tuple : table'[t] = table[t]
                               \/ (table[t] \in made /\ conn[table[t]].state = "Closed")
  BY DEF StackInv, TableInv, RefsOK, removeIf, Nil, ConnsOK

\* recvLoop goes on to look for a Listener.
LEMMA ToListener ==
    ASSUME StackInv, rx.tp \in Tuple, rx' = [rx EXCEPT !.pc = "listener", !.c = Nil],
           conn' = conn, accept' = accept
    PROVE  RxOK' /\ rx'.pc = "listener"
<1>1. Len(conn) \in Nat
  BY DEF StackInv, TableInv, ConnsOK
<1>2. rx \in RxRec(Len(conn), Len(accept))
  BY DEF StackInv, TableInv, RxOK
<1>3. rx' = [pc |-> "listener", tp |-> rx.tp, kind |-> rx.kind, c |-> Nil, le |-> rx.le,
             own |-> rx.own]
  BY <1>2
<1> QED BY <1>1, <1>2, <1>3 DEF RxOK, RxPc, Nil

LEMMA DemuxStateStep == ASSUME StackInv, DemuxState PROVE StackInv'
<1>1. /\ UNCHANGED <<conn, ticked, delivered, listener, accept, held, taken, dialing, tk>>
      /\ rx.pc = "state" /\ rx.tp \in Tuple /\ rx.c \in made
  BY DEF DemuxState, user_vars, StackInv, TableInv, RxOK
<1>2. Ages(conn, conn') /\ made' = made
  BY <1>1, AgesRefl DEF StackInv, TableInv
<1>3. RxOK' /\ rx'.pc # "track" /\ (rx'.pc = "untrack" => conn[rx'.c].state = "Closed")
  <2>1. CASE rx' = [rx EXCEPT !.pc = "untrack"] /\ conn[rx.c].state = "Closed"
    BY <1>1, <1>2, <2>1 DEF StackInv, TableInv, RxOK, RxPc
  <2>2. CASE rx' = [rx EXCEPT !.pc = "listener", !.c = Nil]
    BY <1>1, <2>2, ToListener
  <2>3. CASE rx' = [rx EXCEPT !.pc = "segment"]
    BY <1>1, <1>2, <2>3 DEF StackInv, TableInv, RxOK, RxPc
  <2> QED BY <2>1, <2>2, <2>3 DEF DemuxState
<1>4. /\ table' \in [Tuple -> 0..Len(conn)]
      /\ \A t \in Tuple : table'[t] = table[t]
                          \/ (table[t] \in made /\ conn[table[t]].state = "Closed")
  <2>1. CASE conn[rx.c].state = "Closed"
    <3>1. table' = removeIf(rx.tp, rx.c)
      BY <2>1 DEF DemuxState
    <3> QED BY <1>1, <2>1, <3>1, RemoveFacts
  <2>2. CASE conn[rx.c].state # "Closed"
    BY <2>2 DEF DemuxState, StackInv, TableInv, RefsOK
  <2> QED BY <2>1, <2>2
<1>5. TableInv'
  BY <1>1, <1>2, <1>3, <1>4 DEF StackInv, TableInv, ConnsOK, RefsOK, TkOK
<1>6. UntracksDead'
  BY <1>1, <1>3 DEF StackInv, UntracksDead
<1>7. LiveIsFound' /\ Driven'
  BY <1>1, <1>2, <1>4, LiveFrame, DrivenFrame
<1>8. Marked' /\ DeliveredOnce'
  BY <1>1, <1>3, DeliveryFrame
<1> QED BY <1>5, <1>6, <1>7, <1>8 DEF StackInv

LEMMA DemuxUntrackStep == ASSUME StackInv, DemuxUntrack PROVE StackInv'
<1>1. /\ UNCHANGED <<conn, table, delivered, listener, accept, held, taken, dialing, tk>>
      /\ rx.pc = "untrack" /\ rx' = [rx EXCEPT !.pc = "listener", !.c = Nil]
      /\ ticked' = ticked \ {rx.c} /\ rx.tp \in Tuple
  BY DEF DemuxUntrack, user_vars, StackInv, TableInv, RxOK
<1>2. Ages(conn, conn') /\ made' = made
  BY <1>1, AgesRefl DEF StackInv, TableInv
<1>3. RxOK' /\ rx'.pc = "listener"
  BY <1>1, ToListener
<1>4. TableInv'
  BY <1>1, <1>2, <1>3 DEF StackInv, TableInv, ConnsOK, RefsOK, TkOK
<1>5. UntracksDead'
  BY <1>1, <1>3 DEF StackInv, UntracksDead
<1>6. LiveIsFound'
  BY <1>1, <1>2, LiveFrame
<1>7. Driven'
  BY <1>1, <1>2, DrivenFrame DEF StackInv, UntracksDead
<1>8. Marked' /\ DeliveredOnce'
  BY <1>1, <1>3, DeliveryFrame
<1> QED BY <1>4, <1>5, <1>6, <1>7, <1>8 DEF StackInv

LEMMA DemuxListenerStep == ASSUME StackInv, DemuxListener PROVE StackInv'
<1>1. /\ UNCHANGED <<conn, table, ticked, delivered, accept, taken, dialing, listener, held, tk>>
      /\ rx.pc = "listener" /\ rx.tp \in Tuple
  BY DEF DemuxListener, table_vars, user_vars, StackInv, TableInv, RxOK
<1>2. listener \in 0..Len(accept)
  BY DEF StackInv, TableInv, RefsOK
<1>3. RxOK' /\ rx'.pc \notin {"track", "untrack"}
  <2>1. CASE rx' = [rx EXCEPT !.pc = "insert", !.le = listener]
    BY <1>1, <1>2, <2>1 DEF StackInv, TableInv, RxOK, RxPc, made
  <2>2. CASE rx' = reading
    BY <1>1, <2>2 DEF StackInv, TableInv, RxOK, RxPc, reading, SegKind, Nil, ConnsOK
  <2> QED BY <2>1, <2>2 DEF DemuxListener
<1>4. TkOK'
  BY <1>1 DEF StackInv, TableInv, TkOK, made
<1> QED BY <1>1, <1>3, <1>4, QuietStep DEF StackInv, TableInv, RefsOK

\* insertIfAbsent makes a connection: the 4-tuple was free or in TIME-WAIT.
LEMMA MakeStep ==
    ASSUME StackInv, NEW tp \in Tuple, NEW st \in LifeState, ~occupied(tp),
           conn' = newConn(tp, st), table' = [table EXCEPT ![tp] = Len(conn')],
           UNCHANGED <<accept, delivered, taken, ticked, listener, held>>,
           RxOK', TkOK', UntracksDead', dialing' \in 0..Len(conn'),
           \A c \in made : dialing = c => dialing' = c,
           \A c \in made : rx.pc = "track" /\ rx.c = c => rx'.pc = "track" /\ rx'.c = c,
           dialing' = Len(conn') \/ (rx'.pc = "track" /\ rx'.c = Len(conn')),
           rx'.pc = "track" => conn'[rx'.c].deriveTo = Nil
    PROVE  StackInv'
<1> DEFINE n == Len(conn')
           r == [state |-> st, reached |-> FALSE, tp |-> tp, deriveTo |-> Nil]
<1>1. /\ conn' \in Seq(ConnRec) /\ n = Len(conn) + 1
      /\ \A c \in made : conn'[c] = conn[c]
      /\ conn'[n] = r
      /\ made' = made \cup {n} /\ n \notin made
  BY NewConnFacts DEF StackInv, TableInv
<1>2. Len(conn) \in Nat /\ n \in Nat
  BY <1>1 DEF StackInv, TableInv, ConnsOK
<1>3. r.tp = tp /\ r.deriveTo = Nil
  OBVIOUS
<1> HIDE DEF n, r
<1>4. table \in [Tuple -> 0..Len(conn)] /\ table' = [table EXCEPT ![tp] = n]
  BY DEF n, StackInv, TableInv, RefsOK
<1>5. table' \in [Tuple -> 0..n]
  BY <1>1, <1>2, <1>4
<1>6. \A c \in made' : conn'[c].deriveTo <= Len(accept)
  <2>1. Len(accept) \in Nat
    BY DEF StackInv, TableInv, ConnsOK
  <2>2. \A c \in made : conn[c].deriveTo <= Len(accept)
    BY DEF StackInv, TableInv, RefsOK
  <2> QED BY <1>1, <1>3, <2>1, <2>2 DEF Nil
<1>7. TableInv'
  <2>1. ConnsOK'
    BY <1>1 DEF StackInv, TableInv, ConnsOK
  <2>2. RefsOK'
    BY <1>1, <1>5, <1>6 DEF StackInv, TableInv, RefsOK, n
  <2> QED BY <2>1, <2>2 DEF TableInv
<1>8. LiveIsFound'
  <2> SUFFICES ASSUME NEW c \in made', conn'[c].state \notin {"Closed", "TimeWait"}
               PROVE  table'[conn'[c].tp] = c
    BY DEF LiveIsFound
  <2>1. CASE c = n
    BY <1>1, <1>3, <1>4, <2>1
  <2>2. CASE c # n
    <3>1. c \in made /\ conn'[c] = conn[c]
      BY <1>1, <2>2
    <3>2. table[conn[c].tp] = c
      BY <3>1 DEF StackInv, LiveIsFound
    <3>3. conn[c].tp # tp
      BY <3>1, <3>2 DEF occupied, Nil, made
    <3>4. conn[c] \in ConnRec
      BY <3>1 DEF StackInv, TableInv, ConnsOK, made
    <3>5. conn[c].tp \in Tuple
      BY <3>4 DEF ConnRec
    <3> QED BY <1>4, <3>1, <3>2, <3>3, <3>5
  <2> QED BY <2>1, <2>2
<1>9. Driven'
  BY <1>1 DEF StackInv, Driven, n
<1>10. delivered \subseteq made
  BY DEF StackInv, TableInv, RefsOK
<1>11. Marked' /\ DeliveredOnce'
  BY <1>1, <1>10, DeliveryFrame
<1> QED BY <1>7, <1>8, <1>9, <1>11 DEF StackInv

\* The locals of the loops outlive a connection that is made meanwhile.
LEMMA LoopsSurvive ==
    ASSUME StackInv, conn' \in Seq(ConnRec), Len(conn') = Len(conn) + 1, accept' = accept,
           \A c \in made : conn'[c] = conn[c]
    PROVE  /\ tk' = tk => TkOK' /\ (tk'.pc = "untrack" => conn'[tk'.c].state = "Closed")
           /\ rx' = rx => /\ RxOK' /\ (rx'.pc = "untrack" => conn'[rx'.c].state = "Closed")
                          /\ (rx'.pc = "track" => conn'[rx'.c].deriveTo = Nil)
<1>1. Len(conn) \in Nat
  BY DEF StackInv, TableInv, ConnsOK
<1>2. \A c \in made : c \in made'
  BY <1>1 DEF made
<1>3. ASSUME tk' = tk PROVE TkOK' /\ (tk'.pc = "untrack" => conn'[tk'.c].state = "Closed")
  <2>1. tk \in [pc: TkPc, todo: SUBSET made, c: 0..Len(conn)]
        /\ (tk.pc = "untrack" => tk.c \in made /\ conn[tk.c].state = "Closed")
    BY DEF StackInv, TableInv, TkOK, UntracksDead
  <2>2. tk.todo \subseteq made /\ tk.c \in 0..Len(conn) /\ tk.pc \in TkPc
    BY <2>1
  <2>3. tk.todo \in SUBSET made' /\ tk.c \in 0..Len(conn')
    BY <1>1, <1>2, <2>2
  <2>4. tk \in [pc: TkPc, todo: SUBSET made', c: 0..Len(conn')]
    BY <2>1, <2>2, <2>3
  <2> QED BY <1>2, <1>3, <2>1, <2>4 DEF TkOK
<1>4. ASSUME rx' = rx PROVE /\ RxOK' /\ (rx'.pc = "untrack" => conn'[rx'.c].state = "Closed")
                            /\ (rx'.pc = "track" => conn'[rx'.c].deriveTo = Nil)
  <2>1. RxOK'
    BY <1>1, <1>2, <1>4 DEF StackInv, TableInv, RxOK
  <2>2. rx.pc \in {"track", "untrack"} => rx.c \in made
    BY DEF StackInv, TableInv, RxOK
  <2> QED BY <1>4, <2>1, <2>2 DEF StackInv, UntracksDead, Marked
<1> QED BY <1>3, <1>4

LEMMA DemuxInsertStep == ASSUME StackInv, DemuxInsert PROVE StackInv'
<1>1. /\ UNCHANGED <<ticked, delivered, listener, accept, held, taken, dialing, tk>>
      /\ rx.pc = "insert" /\ rx.tp \in Tuple
  BY DEF DemuxInsert, user_vars, StackInv, TableInv, RxOK
<1>2. rx \in RxRec(Len(conn), Len(accept))
      /\ Len(conn) \in Nat
  BY DEF StackInv, TableInv, RxOK, ConnsOK
<1>3. CASE occupied(rx.tp)
  <2>1. UNCHANGED <<conn, table>> /\ rx' = [rx EXCEPT !.pc = "segment", !.c = table[rx.tp]]
    BY <1>3 DEF DemuxInsert
  <2>2. table[rx.tp] \in 0..Len(conn) /\ table[rx.tp] \in made
    BY <1>1, <1>2, <1>3 DEF StackInv, TableInv, RefsOK, made, occupied, Nil
  <2>3. rx' = [pc |-> "segment", tp |-> rx.tp, kind |-> rx.kind, c |-> table[rx.tp], le |-> rx.le,
               own |-> rx.own]
    BY <1>2, <2>1
  <2>4. RxOK' /\ rx'.pc = "segment"
    BY <1>1, <1>2, <2>1, <2>2, <2>3 DEF RxOK, RxPc, made
  <2>5. TkOK'
    BY <1>1, <2>1 DEF StackInv, TableInv, TkOK, made
  <2> QED BY <1>1, <2>1, <2>4, <2>5, QuietStep DEF StackInv, TableInv, RefsOK
<1>4. CASE ~occupied(rx.tp)
  <2>1. /\ conn' = newConn(rx.tp, "Listen") /\ table' = [table EXCEPT ![rx.tp] = Len(conn')]
        /\ rx' = [rx EXCEPT !.pc = "track", !.c = Len(conn')]
    BY <1>4 DEF DemuxInsert
  <2>2. "Listen" \in LifeState
    BY DEF LifeState
  <2>3. /\ conn' \in Seq(ConnRec) /\ Len(conn') = Len(conn) + 1
        /\ \A c \in made : conn'[c] = conn[c]
        /\ conn'[Len(conn')] = [state |-> "Listen", reached |-> FALSE, tp |-> rx.tp, deriveTo |-> Nil]
        /\ Len(conn') \in made'
    BY <1>1, <2>1, <2>2, NewConnFacts DEF StackInv, TableInv
  <2>4. rx' = [pc |-> "track", tp |-> rx.tp, kind |-> rx.kind, c |-> Len(conn'), le |-> rx.le,
               own |-> rx.own]
    BY <1>2, <2>1
  <2>5. RxOK' /\ rx'.pc = "track" /\ rx'.c = Len(conn')
    BY <1>1, <1>2, <2>3, <2>4 DEF RxOK, RxPc
  <2>6. TkOK' /\ (tk'.pc = "untrack" => conn'[tk'.c].state = "Closed")
    BY <1>1, <2>3, LoopsSurvive
  <2>7. UntracksDead'
    BY <2>5, <2>6 DEF UntracksDead
  <2>8. dialing' \in 0..Len(conn')
    BY <1>1, <1>2, <2>3 DEF StackInv, TableInv, RefsOK
  <2>9. conn'[rx'.c].deriveTo = Nil
    BY <2>3, <2>5
  <2> QED BY <1>1, <1>4, <2>1, <2>2, <2>5, <2>6, <2>7, <2>8, <2>9, MakeStep
<1> QED BY <1>3, <1>4

\* track is given a connection that nobody was offered yet.
LEMMA DemuxTrackStep == ASSUME StackInv, DemuxTrack PROVE StackInv'
<1>1. /\ UNCHANGED <<table, delivered, listener, accept, held, taken, dialing, tk>>
      /\ rx.pc = "track" /\ rx.c \in made /\ ticked' = ticked \cup {rx.c}
      /\ rx' = [rx EXCEPT !.pc = "segment"]
      /\ conn' = [conn EXCEPT ![rx.c].deriveTo = rx.le]
  BY DEF DemuxTrack, user_vars, trackDerived, StackInv, TableInv, RxOK
<1>2. rx \in RxRec(Len(conn), Len(accept))
      /\ conn \in Seq(ConnRec) /\ Len(accept) \in Nat
  BY DEF StackInv, TableInv, RxOK, ConnsOK
<1> DEFINE r == [conn[rx.c] EXCEPT !.deriveTo = rx.le]
<1>3. conn[rx.c] \in ConnRec
  BY <1>1, <1>2 DEF made
<1>4. rx.le \in Nat /\ rx.le <= Len(accept)
  BY <1>2
<1>5. /\ r \in ConnRec /\ r.tp = conn[rx.c].tp /\ r.state = conn[rx.c].state
      /\ r.reached = conn[rx.c].reached /\ r.deriveTo = rx.le
  BY <1>3, <1>4 DEF ConnRec
<1>6. conn' = [conn EXCEPT ![rx.c] = r]
  BY <1>1, <1>2
<1> HIDE DEF r
<1>7. conn' \in Seq(ConnRec) /\ Len(conn') = Len(conn)
      /\ \A d \in 1..Len(conn) : conn'[d] = IF d = rx.c THEN r ELSE conn[d]
  <2>1. rx.c \in 1..Len(conn) /\ r \in ConnRec
    BY <1>1, <1>5 DEF made
  <2> QED BY ONLY <1>2, <1>6, <2>1, SeqPut
<1>8. \A d \in made : /\ conn'[d].tp = conn[d].tp /\ conn'[d].state = conn[d].state
                      /\ conn'[d].reached = conn[d].reached
                      /\ d # rx.c => conn'[d].deriveTo = conn[d].deriveTo
  BY <1>5, <1>7 DEF made
<1>9. Ages(conn, conn') /\ made' = made
  BY <1>7, <1>8 DEF Ages, made
<1>10. \A d \in made' : conn'[d].deriveTo <= Len(accept)
  <2>1. \A d \in made : conn[d].deriveTo <= Len(accept)
    BY DEF StackInv, TableInv, RefsOK
  <2>2. conn'[rx.c].deriveTo = rx.le
    BY <1>1, <1>5, <1>7 DEF made
  <2> QED BY <1>4, <1>8, <1>9, <2>1, <2>2
<1>11. RxOK' /\ rx'.pc = "segment"
  BY <1>1, <1>2, <1>7, <1>9 DEF StackInv, TableInv, RxOK, RxPc
<1>12. TableInv'
  <2>1. ConnsOK' /\ TkOK'
    BY <1>1, <1>7, <1>9 DEF StackInv, TableInv, ConnsOK, TkOK
  <2>2. RefsOK'
    BY <1>1, <1>7, <1>9, <1>10 DEF StackInv, TableInv, RefsOK
  <2> QED BY <1>11, <2>1, <2>2 DEF TableInv
<1>13. UntracksDead'
  BY <1>1, <1>8, <1>11 DEF StackInv, TableInv, TkOK, UntracksDead
<1>14. LiveIsFound' /\ Driven'
  BY <1>1, <1>9, LiveFrame, DrivenFrame
<1>15. rx.c \notin delivered /\ delivered \subseteq made
  BY <1>1 DEF StackInv, Marked, TableInv, RefsOK
<1>16. Marked' /\ DeliveredOnce'
  BY <1>1, <1>8, <1>11, <1>15, DeliveryFrame
<1> QED BY <1>12, <1>13, <1>14, <1>16 DEF StackInv

\* A connection makes a step of its own: what the tables and the loops know of the
\* connections stays right.
LEMMA LifeFrame ==
    ASSUME StackInv, Ages(conn, conn'), \A d \in made : conn'[d].deriveTo = conn[d].deriveTo,
           UNCHANGED <<table, ticked, dialing, listener, held>>, Len(accept') = Len(accept),
           delivered' \subseteq made, accept' \in Seq(Seq(Nat)), RxOK', TkOK',
           rx' = rx \/ (rx.pc # "track" /\ rx'.pc \notin {"track", "untrack"}),
           tk' = tk \/ tk'.pc # "untrack"
    PROVE  TableInv' /\ UntracksDead' /\ LiveIsFound' /\ Driven'
<1>1. made' = made /\ conn' \in Seq(ConnRec) /\ Len(conn') = Len(conn)
  BY DEF Ages, made
<1>2. RefsOK'
  BY <1>1 DEF StackInv, TableInv, RefsOK
<1>3. UntracksDead'
  BY DEF StackInv, TableInv, UntracksDead, RxOK, TkOK, Ages, made
<1>4. LiveIsFound' /\ Driven'
  BY LiveFrame, DrivenFrame
<1> QED BY <1>1, <1>2, <1>3, <1>4 DEF TableInv, ConnsOK

LEMMA LifeStep ==
    ASSUME StackInv, Ages(conn, conn'), \A d \in made : conn'[d].deriveTo = conn[d].deriveTo,
           UNCHANGED <<table, ticked, dialing, listener, held, accept, delivered, taken, rx>>,
           TkOK', tk' = tk \/ tk'.pc # "untrack"
    PROVE  StackInv'
<1>1. delivered \subseteq made /\ accept \in Seq(Seq(Nat)) /\ made' = made /\ Len(conn') = Len(conn)
  BY DEF StackInv, TableInv, RefsOK, ConnsOK, Ages, made
<1>2. RxOK'
  BY <1>1 DEF StackInv, TableInv, RxOK
<1>3. TableInv' /\ UntracksDead' /\ LiveIsFound' /\ Driven'
  BY <1>1, <1>2, LifeFrame
<1>4. rx'.pc = "track" => conn'[rx'.c].deriveTo = Nil
  BY DEF StackInv, Marked, TableInv, RxOK
<1>5. \A c \in delivered : /\ conn'[c].deriveTo = conn[c].deriveTo
                           /\ conn[c].reached => conn'[c].reached
  BY <1>1 DEF Ages, made
<1>6. Marked' /\ DeliveredOnce'
  BY <1>4, <1>5, DeliveryFrame
<1> QED BY <1>3, <1>6 DEF StackInv

\* maybeDeliver: what goes into the channel of its Listener is marked with it.
LEMMA OfferFacts ==
    ASSUME StackInv, NEW c \in made, conn[c].deriveTo # Nil, c \notin delivered,
           conn'[c].reached, Ages(conn, conn'),
           \A d \in made : conn'[d].deriveTo = conn[d].deriveTo,
           accept' = [accept EXCEPT ![conn[c].deriveTo] = Append(@, c)],
           delivered' = delivered \cup {c}, taken' = taken, rx'.pc # "track"
    PROVE  /\ accept' \in Seq(Seq(Nat)) /\ Len(accept') = Len(accept)
           /\ Marked' /\ DeliveredOnce'
<1> DEFINE l == conn[c].deriveTo
<1>1. accept \in Seq(Seq(Nat)) /\ c \in Nat /\ conn[c] \in ConnRec
  BY DEF StackInv, TableInv, ConnsOK, made
<1>2. l \in 1..Len(accept)
  <2>1. l \in Nat
    BY <1>1 DEF ConnRec
  <2>2. l <= Len(accept) /\ Len(accept) \in Nat
    BY <1>1 DEF StackInv, TableInv, RefsOK
  <2> QED BY <2>1, <2>2 DEF Nil
<1>3. accept' = [accept EXCEPT ![l] = Append(@, c)]
  OBVIOUS
<1> HIDE DEF l
<1>4. /\ accept' \in Seq(Seq(Nat)) /\ Len(accept') = Len(accept)
      /\ \A k \in 1..Len(accept') : \A i \in 1..Len(accept'[k]) :
             \/ k = l /\ i = Len(accept[l]) + 1 /\ accept'[k][i] = c
             \/ i \in 1..Len(accept[k]) /\ accept'[k][i] = accept[k][i]
  BY ONLY <1>1, <1>2, <1>3, ChannelSend
<1>5. delivered \subseteq made
  BY DEF StackInv, TableInv, RefsOK
<1>6. ASSUME NEW k \in 1..Len(accept), NEW i \in 1..Len(accept[k])
      PROVE  /\ accept[k][i] \in delivered /\ accept[k][i] # c
             /\ conn'[accept[k][i]].deriveTo = k /\ conn'[accept[k][i]].reached
             /\ \A j \in 1..Len(accept[k]) : i # j => accept[k][i] # accept[k][j]
             /\ accept[k][i] \notin taken
  <2>1. accept[k][i] \in delivered /\ accept[k][i] # c
    BY DEF StackInv, Marked
  <2>2. accept[k][i] \in made
    BY <1>5, <2>1
  <2>3. /\ conn[accept[k][i]].deriveTo = k /\ conn[accept[k][i]].reached
        /\ \A j \in 1..Len(accept[k]) : i # j => accept[k][i] # accept[k][j]
        /\ accept[k][i] \notin taken
    BY DEF StackInv, DeliveredOnce
  <2> QED BY <2>1, <2>2, <2>3 DEF Ages, made
<1>7. conn'[c].deriveTo = l /\ conn'[c].reached /\ c \notin taken
  BY DEF l, StackInv, Marked
<1>8. Marked'
  <2>1. \A d \in delivered' : conn'[d].deriveTo # Nil /\ conn'[d].reached
    BY <1>5, <1>7 DEF StackInv, Marked, Ages, made, l
  <2>2. \A k \in 1..Len(accept') : \A i \in 1..Len(accept'[k]) : accept'[k][i] \in delivered'
    <3> SUFFICES ASSUME NEW k \in 1..Len(accept'), NEW i \in 1..Len(accept'[k])
                 PROVE  accept'[k][i] = c \/ accept'[k][i] \in delivered
      OBVIOUS
    <3>1. \/ accept'[k][i] = c
          \/ k \in 1..Len(accept) /\ i \in 1..Len(accept[k]) /\ accept'[k][i] = accept[k][i]
      BY ONLY <1>4, k \in 1..Len(accept'), i \in 1..Len(accept'[k])
    <3> QED BY ONLY <1>6, <3>1
  <2> QED BY <2>1, <2>2 DEF StackInv, Marked
<1>9. DeliveredOnce'
  <2> SUFFICES ASSUME NEW k \in 1..Len(accept')
               PROVE  /\ \A i \in 1..Len(accept'[k]) :
                            conn'[accept'[k][i]].deriveTo = k /\ conn'[accept'[k][i]].reached
                      /\ \A i, j \in 1..Len(accept'[k]) : i # j => accept'[k][i] # accept'[k][j]
                      /\ \A i \in 1..Len(accept'[k]) : accept'[k][i] \notin taken'
    BY DEF DeliveredOnce
  <2>1. \A i \in 1..Len(accept'[k]) :
           /\ conn'[accept'[k][i]].deriveTo = k /\ conn'[accept'[k][i]].reached
           /\ accept'[k][i] \notin taken'
    <3> SUFFICES ASSUME NEW i \in 1..Len(accept'[k])
                 PROVE  /\ conn'[accept'[k][i]].deriveTo = k /\ conn'[accept'[k][i]].reached
                        /\ accept'[k][i] \notin taken
      OBVIOUS
    <3>1. \/ k = l /\ accept'[k][i] = c
          \/ k \in 1..Len(accept) /\ i \in 1..Len(accept[k]) /\ accept'[k][i] = accept[k][i]
      BY ONLY <1>4, k \in 1..Len(accept'), i \in 1..Len(accept'[k])
    <3> QED BY ONLY <1>6, <1>7, <3>1
  <2>2. \A i, j \in 1..Len(accept'[k]) : i # j => accept'[k][i] # accept'[k][j]
    <3> SUFFICES ASSUME NEW i \in 1..Len(accept'[k]), NEW j \in 1..Len(accept'[k]), i # j
                 PROVE  accept'[k][i] # accept'[k][j]
      OBVIOUS
    <3>1. k \in 1..Len(accept)
      BY <1>4
    <3>2. \/ k = l /\ i = Len(accept[l]) + 1 /\ accept'[k][i] = c
          \/ i \in 1..Len(accept[k]) /\ accept'[k][i] = accept[k][i]
      BY ONLY <1>4, k \in 1..Len(accept'), i \in 1..Len(accept'[k])
    <3>3. \/ k = l /\ j = Len(accept[l]) + 1 /\ accept'[k][j] = c
          \/ j \in 1..Len(accept[k]) /\ accept'[k][j] = accept[k][j]
      BY ONLY <1>4, k \in 1..Len(accept'), j \in 1..Len(accept'[k])
    <3> QED BY ONLY <1>6, <3>1, <3>2, <3>3, i # j
  <2> QED BY <2>1, <2>2
<1> QED BY <1>4, <1>8, <1>9

\* recvLoop starts over.
LEMMA ToReading ==
    ASSUME ConnsOK, rx' = reading, Len(conn') = Len(conn), Len(accept') = Len(accept)
    PROVE  RxOK' /\ rx'.pc = "read"
<1>1. Len(conn) \in Nat /\ Len(accept) \in Nat
  BY DEF ConnsOK
<1> QED BY <1>1 DEF RxOK, RxPc, reading, SegKind, Nil

LEMMA DemuxSegmentStep == ASSUME StackInv, DemuxSegment PROVE StackInv'
<1>1. /\ UNCHANGED <<table, ticked, listener, held, taken, dialing, tk>>
      /\ rx.pc = "segment" /\ rx' = reading
  BY DEF DemuxSegment
<1>2. rx.c \in made /\ rx.kind \in SegKind /\ ConnsOK
  BY <1>1 DEF StackInv, TableInv, RxOK
<1>3. PICK m \in segmentLife(life(rx.c), rx.kind) :
          /\ conn' = lives(rx.c, m)
          /\ accept' = IF offers(rx.c, m)
                       THEN [accept EXCEPT ![conn[rx.c].deriveTo] = Append(@, rx.c)] ELSE accept
          /\ delivered' = markDelivered(rx.c, m)
  BY DEF DemuxSegment
<1>4. /\ Ages(conn, conn') /\ \A d \in made : conn'[d].deriveTo = conn[d].deriveTo
      /\ conn'[rx.c].reached = m.reached
  BY <1>2, <1>3, LivesAges
<1>5. delivered \subseteq made /\ accept \in Seq(Seq(Nat))
      /\ \A c \in delivered : /\ conn'[c].deriveTo = conn[c].deriveTo
                              /\ conn[c].reached => conn'[c].reached
  BY <1>4 DEF StackInv, TableInv, RefsOK, ConnsOK, Ages, made
<1>6. rx'.pc = "read"
  BY <1>1 DEF reading
<1>7. /\ accept' \in Seq(Seq(Nat)) /\ Len(accept') = Len(accept) /\ delivered' \subseteq made
      /\ Marked' /\ DeliveredOnce'
  <2>1. CASE offers(rx.c, m)
    <3>1. /\ conn[rx.c].deriveTo # Nil /\ rx.c \notin delivered /\ conn'[rx.c].reached
          /\ accept' = [accept EXCEPT ![conn[rx.c].deriveTo] = Append(@, rx.c)]
          /\ delivered' = delivered \cup {rx.c}
      BY <1>3, <1>4, <2>1 DEF offers, markDelivered
    <3> QED BY <1>1, <1>2, <1>4, <1>5, <1>6, <3>1, OfferFacts
  <2>2. CASE ~offers(rx.c, m)
    <3>1. accept' = accept /\ delivered' = delivered
      BY <1>3, <2>2 DEF markDelivered
    <3> QED BY <1>1, <1>5, <1>6, <3>1, DeliveryFrame
  <2> QED BY <2>1, <2>2
<1>8. RxOK' /\ TkOK'
  <2>1. made' = made /\ Len(conn') = Len(conn)
    BY <1>4 DEF Ages, made
  <2>2. RxOK'
    BY <1>1, <1>2, <1>7, <2>1, ToReading
  <2>3. TkOK'
    BY <1>1, <2>1 DEF StackInv, TableInv, TkOK
  <2> QED BY <2>2, <2>3
<1>9. TableInv' /\ UntracksDead' /\ LiveIsFound' /\ Driven'
  BY <1>1, <1>4, <1>6, <1>7, <1>8, LifeFrame
<1> QED BY <1>7, <1>9 DEF StackInv

-----------------------------------------------------------------------------
(* tickLoop.                                                               *)

\* tickLoop moves on and touches nothing.
LEMMA TickQuiet ==
    ASSUME StackInv, UNCHANGED <<table_vars, user_vars, rx>>, TkOK', tk'.pc # "untrack"
    PROVE  StackInv'
<1>1. UNCHANGED <<conn, table, ticked, delivered, accept, taken, dialing, listener, held, rx>>
  BY DEF table_vars, user_vars
<1>2. RxOK'
  BY <1>1 DEF StackInv, TableInv, RxOK, made
<1> QED BY <1>1, <1>2, QuietStep DEF StackInv, TableInv, RefsOK

LEMMA TickQuietSteps ==
    ASSUME StackInv, TickStart \/ ReapStart \/ ReapEnd \/ TickEnd
    PROVE  StackInv'
<1>1. UNCHANGED <<table_vars, user_vars, rx>>
  BY DEF TickStart, ReapStart, ReapEnd, TickEnd
<1>2. made' = made /\ Len(conn') = Len(conn) /\ Len(conn) \in Nat
  BY <1>1 DEF table_vars, made, StackInv, TableInv, ConnsOK
<1>3. ticked \in SUBSET made
  BY DEF StackInv, TableInv, RefsOK
<1>4. tk \in [pc: TkPc, todo: SUBSET made, c: 0..Len(conn)]
  BY DEF StackInv, TableInv, TkOK
<1>5. CASE tk' = [pc |-> "tick", todo |-> ticked, c |-> Nil]
  BY <1>1, <1>2, <1>3, <1>5, TickQuiet DEF TkOK, TkPc, Nil
<1>6. CASE tk' = [pc |-> "scan", todo |-> ticked, c |-> Nil]
  BY <1>1, <1>2, <1>3, <1>6, TickQuiet DEF TkOK, TkPc, Nil
<1>7. CASE tk' = waiting
  BY <1>1, <1>2, <1>7, TickQuiet DEF TkOK, TkPc, Nil, waiting
<1>8. CASE tk' = [tk EXCEPT !.pc = "ended"]
  BY <1>1, <1>2, <1>4, <1>8, TickQuiet DEF TkOK, TkPc
<1> QED BY <1>5, <1>6, <1>7, <1>8 DEF TickStart, ReapStart, ReapEnd, TickEnd, afterTicks, waiting

LEMMA TickOneStep == ASSUME StackInv, TickOne PROVE StackInv'
<1>1. UNCHANGED <<table, ticked, delivered, listener, accept, held, taken, dialing, rx>>
      /\ tk.pc = "tick"
  BY DEF TickOne, user_vars
<1>2. tk \in [pc: TkPc, todo: SUBSET made, c: 0..Len(conn)] /\ ConnsOK
  BY DEF StackInv, TableInv, TkOK
<1>3. PICK c \in tk.todo : /\ \E m \in tickLife(life(c)) : conn' = lives(c, m)
                           /\ tk' = [tk EXCEPT !.todo = @ \ {c}]
  BY DEF TickOne
<1>4. PICK m \in tickLife(life(c)) : conn' = lives(c, m)
  BY <1>3
<1>5. c \in made /\ "ack" \in SegKind
  BY <1>2 DEF SegKind
<1>6. Ages(conn, conn') /\ \A d \in made : conn'[d].deriveTo = conn[d].deriveTo
  BY <1>2, <1>4, <1>5, LivesAges
<1>7. made' = made /\ Len(conn') = Len(conn)
  BY <1>6 DEF Ages, made
<1>8. TkOK' /\ tk'.pc = "tick"
  BY <1>1, <1>2, <1>3, <1>7 DEF TkOK
<1> QED BY <1>1, <1>6, <1>8, LifeStep

LEMMA ReapOneStep == ASSUME StackInv, ReapOne PROVE StackInv'
<1>1. /\ UNCHANGED <<conn, ticked, delivered, listener, accept, held, taken, dialing, rx>>
      /\ tk.pc = "scan"
  BY DEF ReapOne, user_vars
<1>2. tk \in [pc: TkPc, todo: SUBSET made, c: 0..Len(conn)] /\ Len(conn) \in Nat
  BY DEF StackInv, TableInv, TkOK, ConnsOK
<1>3. Ages(conn, conn') /\ made' = made
  BY <1>1, AgesRefl DEF StackInv, TableInv
<1>4. PICK c \in tk.todo :
          LET rest == [tk EXCEPT !.todo = @ \ {c}] IN
          IF conn[c].state = "Closed"
          THEN table' = removeIf(conn[c].tp, c) /\ tk' = [rest EXCEPT !.pc = "untrack", !.c = c]
          ELSE tk' = rest /\ UNCHANGED table
  BY DEF ReapOne
<1>5. c \in made
  BY <1>2
<1>6. conn[c] \in ConnRec
  BY <1>5 DEF StackInv, TableInv, ConnsOK, made
<1>7. conn[c].tp \in Tuple
  BY <1>6 DEF ConnRec
<1>8. /\ TkOK' /\ (tk'.pc = "untrack" => conn[tk'.c].state = "Closed")
      /\ table' \in [Tuple -> 0..Len(conn)]
      /\ \A t \in Tuple : table'[t] = table[t]
                          \/ (table[t] \in made /\ conn[table[t]].state = "Closed")
  <2>1. CASE conn[c].state = "Closed"
    <3>1. /\ table' = removeIf(conn[c].tp, c)
          /\ tk' = [[tk EXCEPT !.todo = @ \ {c}] EXCEPT !.pc = "untrack", !.c = c]
      BY <1>4, <2>1
    <3>2. tk' = [pc |-> "untrack", todo |-> tk.todo \ {c}, c |-> c]
      BY <1>2, <3>1
    <3>3. tk.todo \ {c} \in SUBSET made /\ c \in 0..Len(conn)
      BY <1>2, <1>5 DEF made
    <3>4. TkOK' /\ tk'.c = c
      BY <1>1, <1>3, <1>5, <3>2, <3>3 DEF TkOK, TkPc
    <3> QED BY <1>1, <1>5, <1>7, <2>1, <3>1, <3>4, RemoveFacts
  <2>2. CASE conn[c].state # "Closed"
    <3>1. table' = table /\ tk' = [tk EXCEPT !.todo = @ \ {c}]
      BY <1>4, <2>2
    <3>2. TkOK' /\ tk'.pc = "scan"
      BY <1>1, <1>2, <1>3, <3>1 DEF TkOK
    <3> QED BY <3>1, <3>2 DEF StackInv, TableInv, RefsOK
  <2> QED BY <2>1, <2>2
<1>9. TableInv'
  BY <1>1, <1>3, <1>8 DEF StackInv, TableInv, ConnsOK, RefsOK, RxOK
<1>10. UntracksDead'
  BY <1>1, <1>8 DEF StackInv, UntracksDead
<1>11. LiveIsFound' /\ Driven'
  BY <1>1, <1>3, <1>8, LiveFrame, DrivenFrame
<1>12. Marked' /\ DeliveredOnce'
  BY <1>1, DeliveryFrame DEF StackInv, Marked
<1> QED BY <1>9, <1>10, <1>11, <1>12 DEF StackInv

LEMMA ReapUntrackStep == ASSUME StackInv, ReapUntrack PROVE StackInv'
<1>1. /\ UNCHANGED <<conn, table, delivered, listener, accept, held, taken, dialing, rx>>
      /\ tk.pc = "untrack" /\ tk' = [tk EXCEPT !.pc = "scan", !.c = Nil]
      /\ ticked' = ticked \ {tk.c}
  BY DEF ReapUntrack, user_vars
<1>2. tk \in [pc: TkPc, todo: SUBSET made, c: 0..Len(conn)] /\ Len(conn) \in Nat
  BY DEF StackInv, TableInv, TkOK, ConnsOK
<1>3. Ages(conn, conn') /\ made' = made
  BY <1>1, AgesRefl DEF StackInv, TableInv
<1>4. tk' = [pc |-> "scan", todo |-> tk.todo, c |-> Nil]
  BY <1>1, <1>2
<1>5. TkOK' /\ tk'.pc = "scan"
  BY <1>1, <1>2, <1>3, <1>4 DEF TkOK, TkPc, Nil
<1>6. TableInv'
  BY <1>1, <1>3, <1>5 DEF StackInv, TableInv, ConnsOK, RefsOK, RxOK
<1>7. UntracksDead'
  BY <1>1, <1>5 DEF StackInv, UntracksDead
<1>8. LiveIsFound'
  BY <1>1, <1>3, LiveFrame
<1>9. Driven'
  BY <1>1, <1>3, DrivenFrame DEF StackInv, UntracksDead
<1>10. Marked' /\ DeliveredOnce'
  BY <1>1, DeliveryFrame DEF StackInv, Marked
<1> QED BY <1>6, <1>7, <1>8, <1>9, <1>10 DEF StackInv

-----------------------------------------------------------------------------
(* The application.                                                        *)

\* The loops' locals when neither they nor the connections change.
LEMMA LoopsStay ==
    ASSUME StackInv, UNCHANGED <<conn, rx, tk>>, Len(accept') >= Len(accept), Len(accept') \in Nat
    PROVE  RxOK' /\ TkOK'
<1>1. TkOK'
  BY DEF StackInv, TableInv, TkOK, made
<1>2. rx \in RxRec(Len(conn), Len(accept))
      /\ Len(accept) \in Nat
  BY DEF StackInv, TableInv, RxOK, ConnsOK
<1>3. rx.le \in 0..Len(accept')
  BY <1>2
<1>4. rx \in RxRec(Len(conn), Len(accept'))
  BY <1>2, <1>3
<1> QED BY <1>1, <1>4 DEF StackInv, TableInv, RxOK, made

LEMMA DialStep == ASSUME StackInv, NEW tp \in Tuple, Dial(tp) PROVE StackInv'
<1>1. UNCHANGED <<ticked, delivered, listener, accept, taken, rx, tk>> /\ dialing = Nil
  BY DEF Dial
<1>2. Len(conn) \in Nat /\ Len(accept) \in Nat
  BY DEF StackInv, TableInv, ConnsOK
<1>3. CASE occupied(tp)
  <2>1. UNCHANGED <<conn, table, dialing>> /\ held' = held \cup {table[tp]}
    BY <1>3 DEF Dial
  <2>2. table[tp] \in made
    BY <1>2, <1>3 DEF StackInv, TableInv, RefsOK, made, occupied, Nil
  <2>3. RxOK' /\ TkOK'
    BY <1>1, <1>2, <2>1, LoopsStay
  <2> QED BY <1>1, <2>1, <2>2, <2>3, QuietStep DEF StackInv, TableInv, RefsOK
<1>4. CASE ~occupied(tp)
  <2>1. /\ conn' = newConn(tp, "SynSent") /\ table' = [table EXCEPT ![tp] = Len(conn')]
        /\ dialing' = Len(conn') /\ held' = held
    BY <1>4 DEF Dial
  <2>2. "SynSent" \in LifeState
    BY DEF LifeState
  <2>3. /\ conn' \in Seq(ConnRec) /\ Len(conn') = Len(conn) + 1
        /\ \A c \in made : conn'[c] = conn[c]
    BY <2>1, <2>2, NewConnFacts DEF StackInv, TableInv
  <2>4. /\ TkOK' /\ RxOK' /\ UntracksDead'
        /\ rx'.pc = "track" => conn'[rx'.c].deriveTo = Nil
    BY <1>1, <2>3, LoopsSurvive DEF UntracksDead
  <2>5. dialing' \in 0..Len(conn')
    BY <1>2, <2>1, <2>3
  <2>6. \A c \in made : dialing # c
    BY <1>1 DEF made, Nil
  <2> QED BY <1>1, <1>4, <2>1, <2>2, <2>4, <2>5, <2>6, MakeStep
<1> QED BY <1>3, <1>4

LEMMA DialTrackStep == ASSUME StackInv, DialTrack PROVE StackInv'
<1>1. /\ UNCHANGED <<conn, table, delivered, listener, accept, taken, rx, tk>>
      /\ dialing # Nil /\ ticked' = ticked \cup {dialing} /\ held' = held \cup {dialing}
      /\ dialing' = Nil
  BY DEF DialTrack
<1>2. Ages(conn, conn') /\ made' = made
  BY <1>1, AgesRefl DEF StackInv, TableInv
<1>3. Len(conn) \in Nat /\ dialing \in 0..Len(conn) /\ Len(accept) \in Nat
  BY DEF StackInv, TableInv, RefsOK, ConnsOK
<1>4. dialing \in made /\ 0 \in 0..Len(conn)
  BY <1>1, <1>3 DEF made, Nil
<1>5. RxOK' /\ TkOK'
  BY <1>1, <1>3, LoopsStay
<1>6. TableInv'
  BY <1>1, <1>2, <1>4, <1>5 DEF StackInv, TableInv, ConnsOK, RefsOK, Nil
<1>7. UntracksDead'
  BY <1>1 DEF StackInv, UntracksDead
<1>8. LiveIsFound' /\ Driven'
  BY <1>1, <1>2, LiveFrame, DrivenFrame
<1>9. Marked' /\ DeliveredOnce'
  BY <1>1, DeliveryFrame DEF StackInv, Marked
<1> QED BY <1>6, <1>7, <1>8, <1>9 DEF StackInv

\* A new Listener's channel is empty.
LEMMA ListenStep == ASSUME StackInv, Listen PROVE StackInv'
<1>1. /\ UNCHANGED <<conn, table, ticked, delivered, held, taken, dialing, rx, tk>>
      /\ accept' = Append(accept, <<>>) /\ listener' = Len(accept')
  BY DEF Listen, table_vars
<1>2. accept \in Seq(Seq(Nat)) /\ <<>> \in Seq(Nat) /\ Len(accept) \in Nat
  BY DEF StackInv, TableInv, ConnsOK
<1>3. /\ accept' \in Seq(Seq(Nat)) /\ Len(accept') = Len(accept) + 1
      /\ \A l \in 1..Len(accept) : accept'[l] = accept[l]
      /\ accept'[Len(accept) + 1] = <<>>
  BY <1>1, <1>2, AppendProperties
<1>4. Ages(conn, conn') /\ made' = made
  BY <1>1, AgesRefl DEF StackInv, TableInv
<1>5. RxOK' /\ TkOK'
  BY <1>1, <1>2, <1>3, LoopsStay
<1>6. TableInv'
  <2>1. ConnsOK'
    BY <1>1, <1>3 DEF StackInv, TableInv, ConnsOK
  <2>2. \A c \in made : conn[c].deriveTo \in Nat /\ conn[c].deriveTo <= Len(accept)
    <3>1. \A c \in made : conn[c] \in ConnRec
      BY DEF StackInv, TableInv, ConnsOK, made
    <3> QED BY <3>1 DEF StackInv, TableInv, RefsOK, ConnRec
  <2>3. \A c \in made : conn[c].deriveTo <= Len(accept')
    BY ONLY <1>2, <1>3, <2>2
  <2>4. listener' \in 0..Len(accept')
    BY <1>1, <1>2, <1>3
  <2>5. RefsOK'
    BY <1>1, <1>4, <2>3, <2>4 DEF StackInv, TableInv, RefsOK
  <2> QED BY <1>5, <2>1, <2>5 DEF TableInv
<1>7. UntracksDead'
  BY <1>1 DEF StackInv, UntracksDead
<1>8. LiveIsFound' /\ Driven'
  BY <1>1, <1>4, LiveFrame, DrivenFrame
<1>9. \A l \in 1..Len(accept') : \A i \in 1..Len(accept'[l]) :
          l \in 1..Len(accept) /\ accept'[l] = accept[l]
  <2> SUFFICES ASSUME NEW l \in 1..Len(accept'), NEW i \in 1..Len(accept'[l])
               PROVE  l \in 1..Len(accept) /\ accept'[l] = accept[l]
    OBVIOUS
  <2>1. l \in 1..Len(accept) \/ l = Len(accept) + 1
    BY ONLY <1>2, <1>3, l \in 1..Len(accept')
  <2>2. l # Len(accept) + 1
    <3>1. 1..Len(<<>>) = {}
      OBVIOUS
    <3> QED BY <1>3, <3>1
  <2> QED BY <1>3, <2>1, <2>2
<1>10. Marked'
  BY ONLY <1>1, <1>9, StackInv DEF StackInv, Marked
<1>11. DeliveredOnce'
  BY ONLY <1>1, <1>9, StackInv DEF StackInv, DeliveredOnce
<1> QED BY <1>6, <1>7, <1>8, <1>10, <1>11 DEF StackInv

LEMMA CloseListenerStep == ASSUME StackInv, CloseListener PROVE StackInv'
<1>1. /\ UNCHANGED <<conn, table, ticked, delivered, accept, held, taken, dialing, rx, tk>>
      /\ listener' = Nil
  BY DEF CloseListener, table_vars
<1>2. Len(accept) \in Nat
  BY DEF StackInv, TableInv, ConnsOK
<1>3. RxOK' /\ TkOK' /\ listener' \in 0..Len(accept)
  BY <1>1, <1>2, LoopsStay DEF Nil
<1> QED BY <1>1, <1>3, QuietStep DEF StackInv, TableInv, RefsOK

\* Accept takes the first of a channel; the rest was not taken before.
LEMMA AcceptStep == ASSUME StackInv, NEW l, Accept(l) PROVE StackInv'
<1>1. /\ UNCHANGED <<conn, table, ticked, delivered, listener, dialing, rx, tk>>
      /\ l \in 1..Len(accept) /\ accept[l] # <<>>
      /\ held' = held \cup {Head(accept[l])} /\ taken' = taken \cup {Head(accept[l])}
      /\ accept' = [accept EXCEPT ![l] = Tail(@)]
  BY DEF Accept, table_vars
<1>2. accept \in Seq(Seq(Nat)) /\ Len(accept) \in Nat
  BY DEF StackInv, TableInv, ConnsOK
<1> DEFINE h == Head(accept[l])
<1>3. /\ accept' \in Seq(Seq(Nat)) /\ Len(accept') = Len(accept)
      /\ 1 \in 1..Len(accept[l]) /\ h = accept[l][1]
      /\ \A k \in 1..Len(accept') : \A i \in 1..Len(accept'[k]) :
             \/ k = l /\ i + 1 \in 1..Len(accept[l]) /\ accept'[k][i] = accept[l][i + 1]
             \/ k # l /\ i \in 1..Len(accept[k]) /\ accept'[k][i] = accept[k][i]
  BY ONLY <1>1, <1>2, ChannelReceive
<1> HIDE DEF h
<1>4. Ages(conn, conn') /\ made' = made
  BY <1>1, AgesRefl DEF StackInv, TableInv
<1>5. RxOK' /\ TkOK'
  BY <1>1, <1>2, <1>3, LoopsStay
<1>6. h \in delivered /\ delivered \subseteq made
  BY <1>1, <1>3 DEF StackInv, Marked, TableInv, RefsOK
<1>7. TableInv'
  BY <1>1, <1>3, <1>4, <1>5, <1>6 DEF StackInv, TableInv, ConnsOK, RefsOK, h
<1>8. UntracksDead'
  BY <1>1 DEF StackInv, UntracksDead
<1>9. LiveIsFound' /\ Driven'
  BY <1>1, <1>4, LiveFrame, DrivenFrame
<1>10. ASSUME NEW k \in 1..Len(accept), NEW i \in 1..Len(accept[k])
       PROVE  /\ accept[k][i] \in delivered
              /\ conn[accept[k][i]].deriveTo = k /\ conn[accept[k][i]].reached
              /\ \A j \in 1..Len(accept[k]) : i # j => accept[k][i] # accept[k][j]
              /\ accept[k][i] \notin taken
  BY DEF StackInv, Marked, DeliveredOnce
<1>11. ASSUME NEW k \in 1..Len(accept'), NEW i \in 1..Len(accept'[k])
       PROVE  /\ accept'[k][i] \in delivered
              /\ conn[accept'[k][i]].deriveTo = k /\ conn[accept'[k][i]].reached
              /\ accept'[k][i] # h /\ accept'[k][i] \notin taken
              /\ \A j \in 1..Len(accept'[k]) : i # j => accept'[k][i] # accept'[k][j]
  <2>1. k \in 1..Len(accept) /\ i \in Nat /\ i >= 1
    BY <1>3
  <2>2. CASE k = l
    <3>1. i + 1 \in 1..Len(accept[l]) /\ accept'[k][i] = accept[l][i + 1] /\ i + 1 # 1
      BY ONLY <1>3, <2>1, <2>2, k \in 1..Len(accept'), i \in 1..Len(accept'[k]), SMTT(30)
    <3>2. ASSUME NEW j \in 1..Len(accept'[k]), i # j PROVE accept'[k][i] # accept'[k][j]
      <4>1. j + 1 \in 1..Len(accept[l]) /\ accept'[k][j] = accept[l][j + 1]
        BY ONLY <1>3, <2>2, k \in 1..Len(accept'), j \in 1..Len(accept'[k])
      <4>2. i + 1 # j + 1
        BY <2>1, <3>2
      <4> QED BY ONLY <1>1, <1>10, <3>1, <4>1, <4>2
    <3>3. accept[l][i + 1] # accept[l][1]
      BY ONLY <1>1, <1>3, <1>10, <3>1
    <3> QED BY ONLY <1>1, <1>3, <1>10, <2>2, <3>1, <3>2, <3>3
  <2>3. CASE k # l
    <3>1. i \in 1..Len(accept[k]) /\ accept'[k][i] = accept[k][i]
      BY ONLY <1>3, <2>3, k \in 1..Len(accept'), i \in 1..Len(accept'[k])
    <3>2. ASSUME NEW j \in 1..Len(accept'[k]), i # j PROVE accept'[k][i] # accept'[k][j]
      <4>1. j \in 1..Len(accept[k]) /\ accept'[k][j] = accept[k][j]
        BY ONLY <1>3, <2>3, k \in 1..Len(accept'), j \in 1..Len(accept'[k])
      <4> QED BY ONLY <1>10, <2>1, <3>1, <3>2, <4>1
    <3>3. conn[h].deriveTo = l
      BY ONLY <1>1, <1>3, <1>10
    <3> QED BY ONLY <1>10, <2>1, <2>3, <3>1, <3>2, <3>3
  <2> QED BY <2>2, <2>3
<1>12. taken' = taken \cup {h}
  BY <1>1 DEF h
<1>13. Marked'
  BY ONLY <1>1, <1>3, <1>6, <1>11, <1>12, StackInv DEF StackInv, Marked
<1>14. DeliveredOnce'
  <2>1. \A k \in 1..Len(accept') : \A i \in 1..Len(accept'[k]) :
            /\ conn'[accept'[k][i]].deriveTo = k /\ conn'[accept'[k][i]].reached
            /\ accept'[k][i] \notin taken'
    <3>1. conn' = conn
      BY <1>1
    <3> SUFFICES ASSUME NEW k \in 1..Len(accept'), NEW i \in 1..Len(accept'[k])
                 PROVE  /\ conn[accept'[k][i]].deriveTo = k /\ conn[accept'[k][i]].reached
                        /\ accept'[k][i] \notin taken \cup {h}
      BY <1>12, <3>1
    <3> QED BY <1>11
  <2>2. \A k \in 1..Len(accept') : \A i, j \in 1..Len(accept'[k]) :
            i # j => accept'[k][i] # accept'[k][j]
    <3> SUFFICES ASSUME NEW k \in 1..Len(accept'), NEW i \in 1..Len(accept'[k]),
                        NEW j \in 1..Len(accept'[k]), i # j
                 PROVE  accept'[k][i] # accept'[k][j]
      OBVIOUS
    <3> QED BY ONLY <1>11, i # j, k \in 1..Len(accept'), i \in 1..Len(accept'[k]),
                    j \in 1..Len(accept'[k])
  <2> QED BY ONLY <2>1, <2>2 DEF DeliveredOnce
<1> QED BY <1>7, <1>8, <1>9, <1>13, <1>14 DEF StackInv

LEMMA CloseConnStep == ASSUME StackInv, CloseConn PROVE StackInv'
<1>1. UNCHANGED <<table, ticked, delivered, listener, accept, held, taken, dialing, rx, tk>>
  BY DEF CloseConn, user_vars
<1>2. PICK c \in held : conn' = lives(c, closeLife(life(c)))
  BY DEF CloseConn
<1>3. c \in made /\ "ack" \in SegKind /\ ConnsOK
  BY <1>2 DEF StackInv, TableInv, RefsOK, SegKind
<1>4. Ages(conn, conn') /\ \A d \in made : conn'[d].deriveTo = conn[d].deriveTo
  BY <1>2, <1>3, LivesAges
<1>5. TkOK'
  BY <1>1, <1>4 DEF StackInv, TableInv, TkOK, Ages, made
<1> QED BY <1>1, <1>4, <1>5, LifeStep

\* Stack.Close, and a step that changes nothing.
LEMMA StackCloseStep == ASSUME StackInv, StackClose \/ UNCHANGED vars PROVE StackInv'
<1>1. UNCHANGED <<conn, table, ticked, delivered, listener, accept, held, taken, dialing, rx, tk>>
  BY DEF StackClose, vars, table_vars, user_vars
<1>2. Len(accept) \in Nat
  BY DEF StackInv, TableInv, ConnsOK
<1>3. RxOK' /\ TkOK'
  BY <1>1, <1>2, LoopsStay
<1> QED BY <1>1, <1>3, QuietStep DEF StackInv, TableInv, RefsOK

-----------------------------------------------------------------------------
(* The theorems.                                                           *)

LEMMA StackInitOK == Init => StackInv
<1> SUFFICES ASSUME Init PROVE StackInv
  OBVIOUS
<1>1. /\ conn = <<>> /\ table = [tp \in Tuple |-> 0] /\ ticked = {} /\ delivered = {}
      /\ listener = 0 /\ accept = <<>> /\ held = {} /\ taken = {} /\ dialing = 0
      /\ rx = reading /\ tk = waiting
  BY DEF Init, Nil
<1>2. made = {} /\ ConnsOK /\ Len(conn) = 0 /\ Len(accept) = 0
  BY <1>1 DEF made, ConnsOK
<1>3. RxOK
  BY <1>1, <1>2 DEF RxOK, RxPc, reading, SegKind, Nil
<1>4. TkOK
  BY <1>1, <1>2 DEF TkOK, TkPc, waiting, Nil
<1>5. RefsOK
  BY <1>1, <1>2 DEF RefsOK
<1>6. rx.pc = "read" /\ tk.pc = "wait"
  BY <1>1 DEF reading, waiting
<1>7. UntracksDead /\ LiveIsFound /\ Driven
  BY <1>2, <1>6 DEF UntracksDead, LiveIsFound, Driven
<1>8. Marked /\ DeliveredOnce
  BY <1>1, <1>2, <1>6 DEF Marked, DeliveredOnce
<1> QED BY <1>2, <1>3, <1>4, <1>5, <1>7, <1>8 DEF StackInv, TableInv

LEMMA StackNext == StackInv /\ [Next]_vars => StackInv'
<1> SUFFICES ASSUME StackInv, [Next]_vars PROVE StackInv'
  OBVIOUS
<1>1. CASE \E tp \in Tuple, k \in SegKind : Arrive(tp, k)
  BY <1>1, ArriveStep
<1>2. CASE DemuxState \/ DemuxUntrack \/ DemuxListener \/ DemuxInsert \/ DemuxTrack
           \/ DemuxSegment
  BY <1>2, DemuxStateStep, DemuxUntrackStep, DemuxListenerStep, DemuxInsertStep,
     DemuxTrackStep, DemuxSegmentStep
<1>3. CASE TickStart \/ TickOne \/ ReapStart \/ ReapOne \/ ReapUntrack \/ ReapEnd \/ TickEnd
  BY <1>3, TickQuietSteps, TickOneStep, ReapOneStep, ReapUntrackStep
<1>4. CASE \E tp \in Tuple : Dial(tp)
  BY <1>4, DialStep
<1>5. CASE DialTrack \/ Listen \/ CloseListener \/ CloseConn
  BY <1>5, DialTrackStep, ListenStep, CloseListenerStep, CloseConnStep
<1>6. CASE \E l \in Listener : Accept(l)
  BY <1>6, AcceptStep
<1>7. CASE StackClose \/ UNCHANGED vars
  BY <1>7, StackCloseStep
<1>8. CASE FirstLook \/ Recvfrom \/ GoesAstray \/ RecvEnd \/ SecondLook \/ Dropped
  BY <1>8, LinkSteps
<1> QED BY <1>1, <1>2, <1>3, <1>4, <1>5, <1>6, <1>7, <1>8 DEF Next

\* In every behaviour of the stack a connection that is neither CLOSED nor in
\* TIME-WAIT is the one its 4-tuple leads to: reap, removeIf, insertIfAbsent and
\* Dial, in any interleaving of the critical sections, never lose it.
THEOREM LiveTheorem == Spec => []LiveIsFound
<1>1. Spec => []StackInv
  BY StackInitOK, StackNext, PTL DEF Spec
<1>2. StackInv => LiveIsFound
  BY DEF StackInv
<1> QED BY <1>1, <1>2, PTL

\* Every connection that is not CLOSED is driven by Tick, or its maker is about
\* to track it (Dial, demuxListen, reap).
THEOREM DrivenTheorem == Spec => []Driven
<1>1. Spec => []StackInv
  BY StackInitOK, StackNext, PTL DEF Spec
<1>2. StackInv => Driven
  BY DEF StackInv
<1> QED BY <1>1, <1>2, PTL

\* maybeDeliver offers a connection to its own Listener only, once only and after
\* the handshake only, whatever the capacity of the channel and whenever Accept
\* takes it.
THEOREM DeliveryTheorem == Spec => []DeliveredOnce
<1>1. Spec => []StackInv
  BY StackInitOK, StackNext, PTL DEF Spec
<1>2. StackInv => DeliveredOnce
  BY DEF StackInv
<1> QED BY <1>1, <1>2, PTL

\* What did not come to this link was received after its descriptor was given
\* back, and gets no further than the second look.
Owned == ~rx.own => rx.pc \in {"got", "ended"} /\ linkClosed

LEMMA OwnedNext == StackInv /\ Owned /\ [Next]_vars => Owned'
<1> SUFFICES ASSUME StackInv, Owned, [Next]_vars PROVE Owned'
  OBVIOUS
<1>0. rx \in RxRec(Len(conn), Len(accept))
  BY DEF StackInv, TableInv, RxOK
<1> USE <1>0 DEF Owned
<1>1. CASE \E tp \in Tuple, k \in SegKind : Arrive(tp, k)
  BY <1>1 DEF Arrive, reading
<1>2. CASE FirstLook \/ GoesAstray \/ RecvEnd \/ Dropped
  BY <1>2 DEF FirstLook, GoesAstray, RecvEnd, Dropped, reading
<1>3. CASE Recvfrom
  BY <1>3 DEF Recvfrom, linkClosed
<1>4. CASE SecondLook
  BY <1>4 DEF SecondLook, returns, linkClosed
<1>5. CASE DemuxState \/ DemuxUntrack \/ DemuxListener \/ DemuxInsert \/ DemuxTrack
           \/ DemuxSegment
  <2>1. rx.pc \notin {"got", "ended"}
    BY <1>5 DEF DemuxState, DemuxUntrack, DemuxListener, DemuxInsert, DemuxTrack, DemuxSegment
  <2>2. CASE DemuxState
    BY <2>1, <2>2 DEF DemuxState
  <2>3. CASE DemuxUntrack
    BY <2>1, <2>3 DEF DemuxUntrack
  <2>4. CASE DemuxListener
    BY <2>1, <2>4 DEF DemuxListener, reading
  <2>5. CASE DemuxInsert
    BY <2>1, <2>5 DEF DemuxInsert
  <2>6. CASE DemuxTrack
    BY <2>1, <2>6 DEF DemuxTrack
  <2>7. CASE DemuxSegment
    <3>1. rx' = reading
      BY <2>7 DEF DemuxSegment
    <3> QED BY <3>1 DEF reading
  <2> QED BY <1>5, <2>2, <2>3, <2>4, <2>5, <2>6, <2>7
<1>6. CASE UNCHANGED <<rx, phase>>
  BY <1>6 DEF linkClosed
<1>7. CASE StackClose
  BY <1>7 DEF StackClose, linkClosed
<1>8. \/ \E tp \in Tuple, k \in SegKind : Arrive(tp, k)
      \/ FirstLook \/ GoesAstray \/ RecvEnd \/ Dropped \/ Recvfrom \/ SecondLook
      \/ DemuxState \/ DemuxUntrack \/ DemuxListener \/ DemuxInsert \/ DemuxTrack \/ DemuxSegment
      \/ UNCHANGED <<rx, phase>> \/ StackClose
  BY DEF Next, vars, TickStart, TickOne, ReapStart, ReapOne, ReapUntrack, ReapEnd, TickEnd, Dial,
     DialTrack, Listen, CloseListener, Accept, CloseConn
<1> QED BY <1>1, <1>2, <1>3, <1>4, <1>5, <1>6, <1>7, <1>8

\* Whatever demux is given came to this link while it was open, however Stack.Close
\* and ReadPacket interleave and whoever gets the descriptor's number next.
THEOREM OwnPacketsTheorem == Spec => []OwnPacketsOnly
<1>1. Init => Owned
  BY DEF Init, Owned, reading
<1>2. Spec => []Owned
  BY <1>1, StackInitOK, StackNext, OwnedNext, PTL DEF Spec
<1>3. Owned => OwnPacketsOnly
  BY DEF Owned, OwnPacketsOnly
<1> QED BY <1>2, <1>3, PTL
=============================================================================
