CONSTANTS
    Peers = {a, b, c}
    Server = srv
    NoPeer = none
    FullCone = {a}
    Rounds = 4
    MaxFaults = 1
SPECIFICATION Spec
CHECK_DEADLOCK FALSE
INVARIANTS HoleIsMutual
PROPERTIES DialReturns PairMeets RegistrationPairs
