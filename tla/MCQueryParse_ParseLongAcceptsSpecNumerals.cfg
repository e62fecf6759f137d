CONSTANTS
    MaxKeySize = 3
    MaxValueSize = 4
    SizeBits = 8
    LongBits = 8
    MaxLen = 5
SPECIFICATION Spec
INVARIANT ParseLongAcceptsSpecNumerals
