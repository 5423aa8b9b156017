CONSTANTS
    Threads = {t1, t2, t3, t4}
    FIFO_LOCK_QUEUE_LENGTH = 1
    NestedReads = FALSE
SPECIFICATION Spec
INVARIANT FreedPositionTaken
