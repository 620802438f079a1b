----------------------------- MODULE MCRtoTimer -----------------------------
EXTENDS RtoTimer

\* A few of each event: enough for a fast retransmission and for reaching R2.
SmallBudget == [send |-> 3, delay |-> 3, idle |-> 3]
=============================================================================
