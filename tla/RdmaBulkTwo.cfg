SPECIFICATION Spec
CONSTANTS
    rail_count = 2
    rdma_queue_depth = 2
    rdma_chunk_size = 1
    CHUNK_SIZE = 1
    UintRange = 4
    IntSize = 1
    PipeSize = 2
    MaxBytes = 5
    MaxCtl = 4
    MaxCall = 6
INVARIANTS LiteralOrder HeadersAgree
CHECK_DEADLOCK FALSE
