SPECIFICATION FairSpec
CONSTANTS
    c1 = c1
    k1 = k1
    Timer = Timer
    Heartbeat = Heartbeat
    Tick = Tick
    Callers = {c1}
    Keys = {k1}
    Delays = {2}
    HeartbeatInterval = 2
    TickInterval = 3
    RescheduleDelay = 1
    MaxTime = 3
    MaxCalls = 2
    MaxBack = 1
INVARIANTS IInv WakesInTime TickAlive
PROPERTIES DeliversRight TimerServes
CHECK_DEADLOCK FALSE
