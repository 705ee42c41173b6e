CONSTANTS
    SeqModulus = 6
    RxWindow = 2
    ReorderCap = 2
    TxCap = 3
    MaxTries = 1
    LinkRtt = "fast"
    MaxMessages = 3
    PacketLife = 4
SPECIFICATION FairSpec
INVARIANTS
    TypeOK
    SettledExactlyOnce
PROPERTIES
    ImplementsPipe
    EverySendConcludes
CHECK_DEADLOCK FALSE
