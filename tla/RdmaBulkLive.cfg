SPECIFICATION FairSpec
CONSTANTS
    rail_count = 1
    rdma_queue_depth = 2
    rdma_chunk_size = 1
    CHUNK_SIZE = 1
    UintRange = 4
    IntSize = 2
    PipeSize = 1
    MaxBytes = 6
    MaxCtl = 3
    MaxCall = 6
PROPERTIES TransferEnds EndsOrStalls FailureSpreads
CHECK_DEADLOCK FALSE
