CONSTANTS
    HalfSeqSpace = 32
    MaxWindow = 8
    DefaultMSS = 1
    DefaultSendMSS = 1
    WScale = 2
    RcvBuff = 4
    MaxRetransmits = 2
    ChallengeAckLimit = 1
    KeepaliveMaxProbes = 1
    KeepAlive = FALSE
    NoDelay = FALSE
    Active = {"a"}
    Passive = {"b"}
    Iss <- IssWrap
    OldSyns = {}
    AppBytes <- Bytes3
    SendSizes = {3}
    Closers = {}
    EagerClose = FALSE
    MaxLoss = 1
    MaxExtra = 1
    MaxClock = 0
SPECIFICATION Spec
INVARIANTS
    StreamIntegrity
    AckOwed
    RetxCovers
    RecoveryHasLoss
CHECK_DEADLOCK FALSE
