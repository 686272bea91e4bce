\* Every int64 argument of the archive encodings, at 4-bit bytes.
CONSTANTS
    ByteBits = 4
    IntBytes = 3
    LongBytes = 4
SPECIFICATION Spec
INVARIANTS
    CompactRoundTrip
    CompactFitsBuffer
    InstIdRoundTrip
    TimeStampRoundTrip
