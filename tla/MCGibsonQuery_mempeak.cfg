CONSTANTS
    k1 = k1
    k2 = k2
    Null = Null
    Unparsable <- MCUnparsable
    Patterns <- MCPatterns
    MetaArgs <- MCMetaArgs
    NaN = NaN
    Keys = {k1, k2}
    Values <- MCValues
    LzfShrinks <- MCLzfShrinks
    Compression = 4
    TtlArgs <- MCTtlArgs
    LockArgs <- MCLockArgs
    MaxItemTtl = 2
    MaxMem = 1
    MaxTime = 3
    LongBits = 3
    KeepReplies = FALSE
    TrackPeak = TRUE
SPECIFICATION Spec
INVARIANT MemPeakBoundsMemUsed
