CONSTANTS
    r1 = r1
    r2 = r2
    q1 = q1
    Routes <- TwoRoutes
    Ratchets <- NoItems
    AuthKinds <- NoItems
    Stores <- NoItems
    Pending = 1
    Sectors = 2
SPECIFICATION FairSpec
PROPERTY RoutesJournaled
