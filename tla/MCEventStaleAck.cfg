SPECIFICATION Spec
CONSTANTS
    NoClient = NoClient
    Lists <- Queues
    Kinds <- ObjKind
    Subscriptions <- QueuesOnly
    UntilAck = TRUE
    Listeners = 2
    Faults <- ServerFaults
    MaxFaults = 1
    MaxChanges = 1
    MaxMods = 0
    MaxReports = 1
    MaxMessages = 2
INVARIANT AwaitedEventKept
