CONSTANTS
    r1 = r1
    r2 = r2
    q1 = q1
    Routes <- NoItems
    Ratchets <- OneRatchet
    AuthKinds <- Grants
    Stores <- AllStores
    Pending = 1
    Sectors = 1
SPECIFICATION Spec
INVARIANTS  CriticalSurvives
