CONSTANTS
    a = a
    b = b
    c = c
    Hosts <- MCHosts
    Flows <- MCFlows
    MaxLost = 1
    MaxRestarts = 1
SPECIFICATION Spec
INVARIANTS
    CacheTruthful
PROPERTIES
    PacketArrives
CHECK_DEADLOCK FALSE
