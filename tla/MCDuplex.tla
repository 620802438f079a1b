------------------------------ MODULE MCDuplex ------------------------------
EXTENDS SendLoops

\* Initial sequence numbers just below the wrap-around, so that a run crosses it,
\* and in the middle of the first half.
IssWrap == [p \in Peer |-> IF p = "a" THEN SeqSize - 2 ELSE SeqSize - 1]
IssMid == [p \in Peer |-> IF p = "a" THEN 5 ELSE 9]

\* How many bytes the applications send: none, one each, n from a alone, or
\* three from a and one from b.
NoBytes == [p \in Peer |-> 0]
Bytes1 == [p \in Peer |-> 1]
Bytes2 == [p \in Peer |-> IF p = "a" THEN 2 ELSE 0]
Bytes3 == [p \in Peer |-> IF p = "a" THEN 3 ELSE 0]
Bytes5 == [p \in Peer |-> IF p = "a" THEN 5 ELSE 0]
Bytes6 == [p \in Peer |-> IF p = "a" THEN 6 ELSE 0]
Bytes31 == [p \in Peer |-> IF p = "a" THEN 3 ELSE 1]
=============================================================================
