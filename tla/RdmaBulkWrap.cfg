SPECIFICATION Spec
CONSTANTS
    rail_count = 1
    rdma_queue_depth = 3
    rdma_chunk_size = 1
    CHUNK_SIZE = 1
    UintRange = 4
    IntSize = 1
    PipeSize = 4
    MaxBytes = 6
    MaxCtl = 4
    MaxCall = 6
INVARIANT SendSlotsDistinct
CHECK_DEADLOCK FALSE
