CONSTANTS
    Threads = {t1, t2, t3}
    FIFO_LOCK_QUEUE_LENGTH = 3
    NestedReads = TRUE
SPECIFICATION Spec
INVARIANT NestedReadersGoOn
