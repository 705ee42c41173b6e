SPECIFICATION RSpec
CONSTANTS
    Requests = {"p", "q"}
    Offers <- MCOffers
    Ad <- MCAd
    RowCap = 2
    MemoryLimit = 2
    QueueCap = 1
    ReceiptCap = 1
    Retries = 0
    AdvertBudget = 3
INVARIANTS
    ClaimHasOwner
    ResponsesStayPrivate
    AnswerIsOneChain
    FreedRowWakesQueue
PROPERTIES
    RequestsSettle
