----------------------------- MODULE ByteStream -----------------------------
(***************************************************************************)
(* What a connection promises its two applications: a reliable byte stream *)
(* in each direction.  Bytes arrive in order and none is invented; a       *)
(* reader sees the end of the stream only after its last byte.  How the    *)
(* bytes travel, get lost and are sent again does not show.                *)
(***************************************************************************)
EXTENDS Integers

CONSTANTS Peer, other(_)

VARIABLES sent,    \* how many bytes the peer has written
          got,     \* how many bytes have arrived at the peer
          read,    \* how many of them its application has read
          ended    \* whether the peer has seen the end of the other's stream

svars == <<sent, got, read, ended>>

Init == /\ sent = [p \in Peer |-> 0] /\ got = [p \in Peer |-> 0]
        /\ read = [p \in Peer |-> 0] /\ ended = [p \in Peer |-> FALSE]

\* A writer whose reader has seen the end writes no more.
Write(p) == /\ ~ended[other(p)]
            /\ sent'[p] > sent[p] /\ sent' = [sent EXCEPT ![p] = sent'[p]]
            /\ UNCHANGED <<got, read, ended>>

Arrive(p) == /\ got'[p] \in (got[p] + 1)..sent[other(p)]
             /\ got' = [got EXCEPT ![p] = got'[p]]
             /\ UNCHANGED <<sent, read, ended>>

Read(p) == /\ read'[p] \in (read[p] + 1)..got[p]
           /\ read' = [read EXCEPT ![p] = read'[p]]
           /\ UNCHANGED <<sent, got, ended>>

End(p) == /\ got[p] = sent[other(p)]
          /\ ended' = [ended EXCEPT ![p] = TRUE]
          /\ UNCHANGED <<sent, got, read>>

Next == \E p \in Peer : Write(p) \/ Arrive(p) \/ Read(p) \/ End(p)
Spec == Init /\ [][Next]_svars
=============================================================================
