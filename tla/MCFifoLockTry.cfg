CONSTANTS
    Threads = {t1, t2, t3}
    FIFO_LOCK_QUEUE_LENGTH = 2
    NestedReads = FALSE
SPECIFICATION Spec
INVARIANT TryLockNeverBlocks
