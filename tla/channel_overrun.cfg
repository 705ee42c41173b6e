CONSTANTS
    SeqModulus = 6
    RxWindow = 1
    ReorderCap = 1
    TxCap = 3
    MaxTries = 1
    LinkRtt = "fast"
    MaxMessages = 3
    PacketLife = 4
SPECIFICATION Spec
INVARIANT DeliveredMeansReceived
CHECK_DEADLOCK FALSE
