CONSTANTS
    HalfSeqSpace = 16
    MaxWindow = 6
    DefaultMSS = 2
    DefaultSendMSS = 1
    WScale = 2
    RcvBuff = 4
    MaxRetransmits = 2
    ChallengeAckLimit = 1
    KeepaliveMaxProbes = 1
    KeepAlive = FALSE
    NoDelay = FALSE
    Active = {"a"}
    Passive = {"b"}
    Iss <- IssWrap
    OldSyns = {}
    AppBytes <- Bytes5
    SendSizes = {1, 5}
    Closers = {"a", "b"}
    EagerClose = TRUE
    MaxLoss = 0
    MaxExtra = 0
    MaxClock = 0
SPECIFICATION Spec
INVARIANTS
    FinAtEnd
CHECK_DEADLOCK FALSE
