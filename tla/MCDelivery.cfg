CONSTANTS
    HalfSeqSpace = 16
    MaxWindow = 6
    DefaultMSS = 2
    DefaultSendMSS = 1
    WScale = 2
    RcvBuff = 4
    MaxRetransmits = 2
    ChallengeAckLimit = 1
    KeepaliveMaxProbes = 1
    KeepAlive = FALSE
    NoDelay = FALSE
    Active = {"a"}
    Passive = {"b"}
    Iss <- IssWrap
    OldSyns = {}
    AppBytes <- Bytes3
    SendSizes = {1, 2}
    Closers = {}
    EagerClose = FALSE
    MaxLoss = 1
    MaxExtra = 0
    MaxClock = 1
SPECIFICATION FairSpec
INVARIANTS
    StillDeliverable
PROPERTIES
    SentIsRead
CHECK_DEADLOCK FALSE
