SPECIFICATION Spec
CONSTANTS
    rail_count = 1
    rdma_queue_depth = 2
    rdma_chunk_size = 1
    CHUNK_SIZE = 1
    UintRange = 4
    IntSize = 4
    PipeSize = 4
    MaxBytes = 6
    MaxCtl = 3
    MaxCall = 6
INVARIANT NoCreditStall
CHECK_DEADLOCK FALSE
