SPECIFICATION Spec
CONSTANTS
    rail_count = 1
    rdma_queue_depth = 2
    rdma_chunk_size = 2
    CHUNK_SIZE = 1
    UintRange = 4
    IntSize = 2
    PipeSize = 2
    MaxBytes = 6
    MaxCtl = 4
    MaxCall = 6
INVARIANTS TypeOK LiteralOrder SendSlotsDistinct RecvSlotsConserved StallsOnlyBehindFlush NothingLostAtCleanup
PROPERTY StreamSpec
CHECK_DEADLOCK FALSE
