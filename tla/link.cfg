SPECIFICATION LinkSpec
CONSTANTS
    InitiatorSends = {x1, x2}
    ResponderSends = {y1}
    x1 = x1
    x2 = x2
    y1 = y1
    ReceiptCap = 1
    KeepaliveMin = 2
    KeepaliveMax = 3
    KeepaliveScale = 1
    StaleGrace = 3
    GraceFactor = 0
    EstablishTimeout = 2
    HandshakeTimeout = 5
    TrafficTimeout = 2
    PacketDelay = 1
    JobDelay = 0
    Budget = 2
    Horizon = 12
    SeqModulus = 4
    RxWindow = 1
    ReorderCap = 1
    TxCap = 1
    MaxTries = 0
    LinkRtt = "stop_and_wait"
    MaxMessages = 5
    PacketLife = 2
    Links = {"a"}
    Base = 2
    TryLimit = 3
    RingCap = 3
    MaxSends = 3
    LastTick = 16
SYMMETRY SendSymmetry
INVARIANTS
    NoOrphanedCommand
    SessionAgreed
    QuietLinkStaysUp
    HalfOpenIsBounded
    WakeIsNearlyExact
    InOrder
    DeliveredMeansReceived
    CacheExact
    LadderHonoured
PROPERTIES
    AnswersAreFinal
    NoEarlyTeardown
