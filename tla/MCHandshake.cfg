CONSTANTS
    HalfSeqSpace = 16
    MaxWindow = 6
    DefaultMSS = 2
    DefaultSendMSS = 1
    WScale = 2
    RcvBuff = 4
    MaxRetransmits = 1
    ChallengeAckLimit = 1
    KeepaliveMaxProbes = 4
    KeepAlive = TRUE
    NoDelay = FALSE
    Active = {"a", "b"}
    Passive = {"b"}
    Iss <- IssMid
    OldSyns = {20}
    AppBytes <- NoBytes
    SendSizes = {1}
    Closers = {"a"}
    EagerClose = FALSE
    MaxLoss = 1
    MaxExtra = 1
    MaxClock = 0
SPECIFICATION Spec
INVARIANTS
    TypeOK
    PeersAgree
    ProbesAnswered
CHECK_DEADLOCK FALSE
