SPECIFICATION Spec
CONSTANTS
    Bytes <- Even
    MaxSource = 6
    MaxBasis = 8
    BlockLengths = {2}
    SumLengths = {2}
    SumRange = 2
    CHUNK_SIZE = 1
    MAX_CHAIN_LEN = 2
    LiteralStep = 2
    Modes <- InPlaceModes
INVARIANT RebuiltInPlace
CHECK_DEADLOCK FALSE
