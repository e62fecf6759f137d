CONSTANTS
    MaxKeySize = 3
    MaxValueSize = 3
    SizeBits = 8
    LongBits = 8
SPECIFICATION Spec
INVARIANT ParseLongRoundTrip
