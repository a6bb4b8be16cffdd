SPECIFICATION Spec
CONSTANTS
    Bytes <- Bits
    MaxSource = 5
    MaxBasis = 6
    BlockLengths = {1, 2, 3}
    SumLengths = {0, 5}
    SumRange = 2
    CHUNK_SIZE = 1
    MAX_CHAIN_LEN = 2
    LiteralStep = 2
    Modes <- AllModes
INVARIANTS TypeOK RollingSum VerifiedIsSource Rebuilt CopiedBlockIntact RebuiltInPlaceUnlessFalseZero
PROPERTY SearchAdvances
