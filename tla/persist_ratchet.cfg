CONSTANTS
    r1 = r1
    r2 = r2
    q1 = q1
    Routes <- NoItems
    Ratchets <- OneRatchet
    AuthKinds <- NoItems
    Stores <- Name
    Pending = 1
    Sectors = 1
SPECIFICATION FairSpec
PROPERTY RatchetsJournaled
