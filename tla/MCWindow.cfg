CONSTANTS
    HalfSeqSpace = 16
    MaxWindow = 3
    DefaultMSS = 2
    DefaultSendMSS = 1
    WScale = 4
    RcvBuff = 4
    MaxRetransmits = 1
    ChallengeAckLimit = 1
    KeepaliveMaxProbes = 1
    KeepAlive = FALSE
    NoDelay = FALSE
    Active = {"a"}
    Passive = {"b"}
    Iss <- IssWrap
    OldSyns = {}
    AppBytes <- Bytes31
    SendSizes = {1, 3}
    Closers = {}
    EagerClose = FALSE
    MaxLoss = 1
    MaxExtra = 0
    MaxClock = 0
SPECIFICATION Spec
INVARIANTS
    RcvBufBounded
    SenderCanWake
    SenderWithinWindow
    LoopsAgree
PROPERTIES
    RightEdgeNeverShrinks
CHECK_DEADLOCK FALSE
