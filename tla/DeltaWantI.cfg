SPECIFICATION Spec
CONSTANTS
    Bytes <- Bits
    MaxSource = 5
    MaxBasis = 5
    BlockLengths = {3}
    SumLengths = {0}
    SumRange = 4
    CHUNK_SIZE = 1
    MAX_CHAIN_LEN = 2
    LiteralStep = 2
    Modes <- InPlaceModes
INVARIANT MatchedLengthsAgree
CHECK_DEADLOCK FALSE
