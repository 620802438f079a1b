CONSTANTS
    Tuple = {t1}
    AcceptCap = 1
    MaxConns = 2
    MaxListens = 1
SPECIFICATION FairSpec
INVARIANTS
    LiveIsFound
    Driven
    DeliveredOnce
    OwnPacketsOnly
CHECK_DEADLOCK FALSE
PROPERTIES
    DeadAreCollected
    OfferedAgain
    CloseReturns
