SPECIFICATION HSpec
CONSTANTS
    Images = {"i1", "i2"}
    Unknown = "unknown"
INVARIANT LandedFlushIsRestored
