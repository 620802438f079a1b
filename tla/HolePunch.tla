------------------------------- MODULE HolePunch -------------------------------
(***************************************************************************)
(* UDP hole punching (link/holepunch.go) through the rendezvous server     *)
(* (link/rendezvous.go): peers that call DialHolePunch with one session ID *)
(* register at the server, learn each other's address, punch until each    *)
(* hears the other, and then use the socket as a Link (link/udplink.go).   *)
(*                                                                         *)
(* A peer is its global address.  The network loses and reorders           *)
(* datagrams; the NAT in front of a peer is port-restricted (a datagram    *)
(* comes in from an address only after one went out to it), except at the  *)
(* peers of FullCone.  Sessions are keys of a map and do not interact, so  *)
(* one session is modelled.                                                *)
(*                                                                         *)
(* Time: the two loops poll with SO_RCVTIMEO and give up at a deadline,    *)
(* which is Rounds turns of the loop here.  Poll is the passing of one     *)
(* polling interval with nothing in flight; PollEarly is an interval that  *)
(* ends while datagrams are on their way.  MaxFaults bounds these and the  *)
(* lost datagrams together.                                                *)
(***************************************************************************)
EXTENDS Naturals, Bags, BagsExt, FiniteSets, Sequences, Functions

CONSTANTS Peers, Server, NoPeer, FullCone, Rounds, MaxFaults

ASSUME HolePunchAssumption ==
    /\ Server \notin Peers /\ NoPeer \notin Peers /\ FullCone \subseteq Peers
    /\ Rounds \in Nat \ {0} /\ MaxFaults \in Nat

VARIABLES
    phase,      \* where each peer is in DialHolePunch
    target,     \* the address registerAndWaitPeer returned
    rounds,     \* turns of the current loop
    remote,     \* udpLink.remote; NoPeer while learn holds
    sessions,   \* Rendezvous.sessions: the first peer, NoPeer if there is no entry
    closed,     \* Rendezvous.closed
    net,        \* the datagrams in flight, a bag
    opened,     \* <<p, q>>: p's NAT lets q in
    lost,       \* how many datagrams of each kind the network lost
    early,      \* how often PollEarly happened
    hurried     \* a deadline passed with datagrams still in flight

vars == <<phase, target, rounds, remote, sessions, closed, net, opened, lost,
          early, hurried>>

Kind == {"REG", "PEER", "PUNCH"}
Looping(p) == phase[p] \in {"register", "punch"}

\* losses and early polls together are bounded
faults == lost["REG"] + lost["PEER"] + lost["PUNCH"] + early

Datagram(kind, from, to, about) ==
    [kind |-> kind, from |-> from, to |-> to, about |-> about]

REG(p) == Datagram("REG", p, Server, NoPeer)
PUNCH(p, q) == Datagram("PUNCH", p, q, NoPeer)

\* n copies of m
times(n, m) == [d \in {m} |-> n]

Init ==
    /\ phase = [p \in Peers |-> "idle"]
    /\ target = [p \in Peers |-> NoPeer]
    /\ rounds = [p \in Peers |-> 0]
    /\ remote = [p \in Peers |-> NoPeer]
    /\ sessions = NoPeer /\ closed = FALSE
    /\ net = EmptyBag
    /\ opened = {}
    /\ lost = [k \in Kind |-> 0]
    /\ early = 0
    /\ hurried = FALSE

-----------------------------------------------------------------------------
(* The rendezvous server *)

\* a resent registration is not a second peer
samePeer(first, from) == first = from

\* the first n replies to a pair
replies(first, second, n) ==
    SetToBag(Range(SubSeq(<<Datagram("PEER", Server, first, second),
                            Datagram("PEER", Server, second, first)>>, 1, n)))

\* handle, reply: the first registration is kept; the second one consumes it
\* and both peers are told each other's address, the first one first, unless
\* Close comes between the replies
Handle ==
    \E m \in BagToSet(net) :
        /\ m.to = Server /\ ~closed
        /\ CASE sessions = NoPeer ->
                    /\ sessions' = m.from
                    /\ net' = BagRemove(net, m)
                    /\ UNCHANGED closed
             [] sessions # NoPeer /\ samePeer(sessions, m.from) ->
                    /\ net' = BagRemove(net, m)
                    /\ UNCHANGED <<sessions, closed>>
             [] OTHER ->
                    /\ sessions' = NoPeer
                    /\ \E n \in 0..2 : /\ closed' = (n < 2)
                                      /\ net' = BagRemove(net, m) (+) replies(sessions, m.from, n)
        /\ UNCHANGED <<phase, target, rounds, remote, opened, lost, early,
                       hurried>>

\* Rendezvous.Close ends Serve
RendezvousClose ==
    /\ ~closed /\ closed' = TRUE
    /\ UNCHANGED <<phase, target, rounds, remote, sessions, net, opened, lost, early,
                   hurried>>

-----------------------------------------------------------------------------
(* The loops of DialHolePunch *)

\* mutant: the registration is sent once only
knockOnce(p) == IF phase[p] = "register" THEN {} ELSE {PUNCH(p, target[p])}

\* what a turn of p's loop begins with: Sendto of a registration or of a punch
knock(p) == {IF phase[p] = "register" THEN REG(p) ELSE PUNCH(p, target[p])}

\* the deadline of p's loop has passed after this turn
deadline(p) == rounds[p] + 1 = Rounds

\* mutant: the deadline is computed anew in every turn
turnRestarts(p) == 0

\* a turn of the loop counts towards its deadline
turn(p) == rounds[p] + 1

\* the loops of the peers S go round once more: those whose deadline has passed
\* close the link and return ErrPunchTimeout, the others send again
Again(S, arrived) ==
    LET out == {p \in S : deadline(p)} IN
    /\ phase' = [p \in Peers |-> IF p \in out THEN "failed" ELSE phase[p]]
    /\ rounds' = [p \in Peers |-> IF p \in S \ out THEN turn(p) ELSE rounds[p]]
    /\ net' = (net (-) arrived) (+) SetToBag(UNION {knock(p) : p \in S \ out})
    /\ opened' = opened \cup {<<m.from, m.to>> : m \in UNION {knock(p) : p \in S \ out}}

\* DialHolePunch, registerAndWaitPeer: NewUDPLinkPunch and the first registration
DialHolePunch(p) ==
    /\ phase[p] = "idle"
    /\ phase' = [phase EXCEPT ![p] = "register"]
    /\ net' = BagAdd(net, REG(p))
    /\ opened' = opened \cup {<<p, Server>>}
    /\ UNCHANGED <<target, rounds, remote, sessions, closed, lost, early, hurried>>

\* Recvfrom timed out in every loop, with nothing in flight
Poll ==
    /\ net = EmptyBag
    /\ \E p \in Peers : Looping(p)
    /\ Again({p \in Peers : Looping(p)}, EmptyBag)
    /\ UNCHANGED <<target, remote, sessions, closed, lost, early, hurried>>

\* Recvfrom of one peer timed out before what is in flight arrived
PollEarly(p) ==
    /\ Looping(p) /\ net # EmptyBag /\ faults < MaxFaults
    /\ early' = early + 1
    /\ hurried' = (hurried \/ deadline(p))
    /\ Again({p}, EmptyBag)
    /\ UNCHANGED <<target, remote, sessions, closed, lost>>

\* the NAT of the receiver lets the datagram in
passes(m) == m.to \in FullCone \/ <<m.to, m.from>> \in opened

\* a datagram reaches the socket of p
Arrives(p, m) == BagIn(m, net) /\ m.to = p /\ passes(m)

\* the NAT drops a datagram, or nobody reads the socket any more
Dropped ==
    \E m \in BagToSet(net) :
        /\ IF m.to = Server THEN closed ELSE ~passes(m) \/ phase[m.to] = "failed"
        /\ net' = BagRemove(net, m)
        /\ UNCHANGED <<phase, target, rounds, remote, sessions, closed, opened, lost,
                       early, hurried>>

\* registerAndWaitPeer, parsePeer: the peer's address is known; the punch loop
\* begins with its own deadline and its first punch
Learn(p) ==
    \E m \in BagToSet(net) :
        /\ Arrives(p, m)
        /\ phase[p] = "register" /\ m.kind = "PEER"
        /\ target' = [target EXCEPT ![p] = m.about]
        /\ phase' = [phase EXCEPT ![p] = "punch"]
        /\ rounds' = [rounds EXCEPT ![p] = 0]
        /\ net' = BagRemove(net, m) (+) times(1, PUNCH(p, m.about))
        /\ opened' = opened \cup {<<p, m.about>>}
        /\ UNCHANGED <<remote, sessions, closed, lost, early, hurried>>

\* mutant: any punch establishes, wherever it came from
fromAnyone(p, m) == m.kind = "PUNCH"

\* a punch from the peer itself
fromPeer(p, m) == m.kind = "PUNCH" /\ m.from = target[p]

\* mutant: no punches after the peer's
extrasNone(p) == EmptyBag

\* the punches sent after the peer's punch arrived
extras(p) == times(3, PUNCH(p, target[p]))

\* punchUntilEstablished: the peer's punch arrived; setRemote
Establish(p) ==
    \E m \in BagToSet(net) :
        /\ Arrives(p, m)
        /\ phase[p] = "punch" /\ fromPeer(p, m)
        /\ phase' = [phase EXCEPT ![p] = "up"]
        /\ remote' = [remote EXCEPT ![p] = target[p]]
        /\ net' = BagRemove(net, m) (+) extras(p)
        /\ UNCHANGED <<target, rounds, sessions, closed, opened, lost, early, hurried>>

\* something else arrived: the loop goes round at once
Ignore(p) ==
    \E m \in BagToSet(net) :
        /\ Arrives(p, m)
        /\ \/ phase[p] = "register" /\ m.kind # "PEER"
           \/ phase[p] = "punch" /\ ~fromPeer(p, m)
        /\ hurried' = (hurried \/ deadline(p))
        /\ Again({p}, times(1, m))
        /\ UNCHANGED <<target, remote, sessions, closed, lost, early>>

-----------------------------------------------------------------------------
(* The link *)

\* ReadPacket of an established link: a late punch is dropped there, a late PEER
\* is returned and dropped by the stack's parser; neither changes the link
ReadPacket(p) ==
    \E m \in BagToSet(net) :
        /\ Arrives(p, m)
        /\ phase[p] = "up"
        /\ net' = BagRemove(net, m)
        /\ UNCHANGED <<phase, target, rounds, remote, sessions, closed, opened, lost, early,
                       hurried>>

\* the network loses a datagram
Lose ==
    \E m \in BagToSet(net) :
        /\ faults < MaxFaults
        /\ net' = BagRemove(net, m)
        /\ lost' = [lost EXCEPT ![m.kind] = @ + 1]
        /\ UNCHANGED <<phase, target, rounds, remote, sessions, closed, opened, early,
                       hurried>>

-----------------------------------------------------------------------------
Receives(p) == Learn(p) \/ Establish(p) \/ Ignore(p) \/ ReadPacket(p)

Next ==
    \/ Handle
    \/ RendezvousClose
    \/ Poll
    \/ Dropped
    \/ Lose
    \/ \E p \in Peers : \/ DialHolePunch(p)
                        \/ PollEarly(p)
                        \/ Learn(p)
                        \/ Establish(p)
                        \/ Ignore(p)
                        \/ ReadPacket(p)

\* The server and the loops run, time passes, and a datagram that is not lost
\* arrives; nobody has to dial or to write
Spec ==
    /\ Init /\ [][Next]_vars
    /\ WF_vars(Handle)
    /\ WF_vars(Poll)
    /\ WF_vars(Dropped)
    /\ \A p \in Peers : WF_vars(Receives(p))

-----------------------------------------------------------------------------
(* When DialHolePunch has returned a link, the peer's side of the hole is open
   too, so that what is written to the link gets through, and the peer is
   punching back at nobody else: a stray third peer that the server paired with
   an old registration does not take the link over (holepunch.go:132-141), and
   the resent registration of a peer does not pair it with itself *)
HoleIsMutual ==
    \A p \in Peers : phase[p] = "up" =>
        /\ remote[p] # p /\ target[remote[p]] = p
        /\ <<remote[p], p>> \in opened

(* DialHolePunch returns, with a link or with ErrPunchTimeout: a peer dials once,
   so in the end no loop is running *)
DialReturns ==
    <>[](\A p \in Peers : ~Looping(p))

(* Two peers that know each other both get a link, although punches are lost and
   the first ones may have met a closed NAT: the extra punches
   (holepunch.go:136-139) leave no peer alone in the punch loop.  A deadline
   that passes while a punch is on its way can leave one alone *)
PairMeets ==
    <>[](\A p, q \in Peers :
            target[p] = q /\ target[q] = p => (phase[p] = "up" /\ phase[q] = "up") \/ hurried)

(* When two peers have joined a session and nobody else has, the server has told
   one of them, although a registration was lost: both if neither had given up
   before the other came.  A lost PEER reply is never sent again and is not
   covered (rendezvous.go:127-132), nor is a server that is closed *)
RegistrationPairs ==
    <>[](\A p, q \in Peers :
            /\ p # q /\ phase[p] # "idle" /\ phase[q] # "idle"
            /\ \A r \in Peers \ {p, q} : phase[r] = "idle"
            => target[p] = q \/ target[q] = p \/ lost["PEER"] > 0 \/ closed \/ hurried)
=============================================================================
