CONSTANTS
    k1 = k1
    k2 = k2
    Null = Null
    Unparsable = {}
    Patterns <- MCMatchingPatterns
    MetaArgs <- MCStoreMetaArgs
    NaN = NaN
    Keys <- MCKeys
    Values <- MCValues
    LzfShrinks <- MCLzfShrinks
    Compression = 4
    TtlArgs <- MCTtlArgs
    LockArgs <- MCLockArgs
    MaxItemTtl = 2
    MaxMem = 1
    MaxTime = 3
    LongBits = 3
    KeepReplies = FALSE
    TrackPeak = FALSE
SYMMETRY MCSymmetry
SPECIFICATION Spec
INVARIANT TypeOK
INVARIANT ItemAccounting
PROPERTY CacheRefinement
