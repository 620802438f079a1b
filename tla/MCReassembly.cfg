CONSTANTS
    HalfSeqSpace = 8
    MaxWindow = 6
    DefaultMSS = 3
    DefaultSendMSS = 1
    WScale = 1
    RcvBuff = 5
    MaxRetransmits = 1
    ChallengeAckLimit = 1
    KeepaliveMaxProbes = 1
    KeepAlive = FALSE
    NoDelay = FALSE
    Irs = 13
    StreamLen = 7
SPECIFICATION Spec
INVARIANTS
    SameAsList
    SackTruthful
    OptionsSurvive
CHECK_DEADLOCK FALSE
