CONSTANTS
    Bodies = {"p"}
    Slots = 3
    SectorSlots = 2
    EpochModulus = 4
    SlotsPerRegion = 3
    MaxMillis = 4
    Headroom = 2
    Minute = 2
    MaxCuts = 2
    Images = {"i1", "i2"}
    Unknown = "unknown"
    Controllers = {"c1", "c2"}
    Exchanges = {"l1", "l2"}
    Owner <- PairingOwner
    MaxRequests = 3
    Dests = {"d1", "d2", "d3"}
    Holders = {"h1"}
    RouteSlots = 3
    MaxId = 5
    MaxHint = 2
SPECIFICATION NodeSpec
INVARIANTS
    ReplaysWhatWasPromised
    WritesLandOnBlank
    NeverWarned
    AckedIsRestored
    SettledAuthorizationKept
    PairingAgreed
    EndedStaysEnded
    HandleFindsItsRoute
PROPERTIES
    ImplementsDurableLog
