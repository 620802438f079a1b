CONSTANTS
    MaxWindow = 9
    SMSS = 2
    MaxFlight = 6
    MaxCwnd = 100
    RtoMin = 1000
    InitialRTO = 1000
    MaxRTO = 60000
    ClockGran = 1
    Uint32Size = 1073741824
    MaxRetransmits = 1
    Delays = {300, 40000}
    Budget <- SmallBudget
SPECIFICATION RtoSpec
PROPERTIES DrivesCongestion
INVARIANTS
    PhaseMatchesWindow
    NeverStarved
    TimerRuns
    KarnsRule
    EstimatorBounded
CHECK_DEADLOCK FALSE
