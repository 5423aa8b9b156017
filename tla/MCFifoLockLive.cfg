CONSTANTS
    Threads = {t1, t2, t3, t4}
    FIFO_LOCK_QUEUE_LENGTH = 3
    NestedReads = FALSE
SPECIFICATION FairSpec
INVARIANTS IInv MutualExclusion NoLostWakeup
PROPERTIES NoOvertaking QueuedThreadsServed ImplementsFairFifoRWLock
