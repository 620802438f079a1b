------------------------------- MODULE MCArp ---------------------------------
(* Three hosts for TLC: two that talk to each other and one that only listens. *)
EXTENDS Arp
CONSTANTS a, b, c
MCHosts == {a, b, c}
MCFlows == {<<a, b>>, <<b, a>>}
=============================================================================
