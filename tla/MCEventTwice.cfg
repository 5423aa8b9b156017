SPECIFICATION Spec
CONSTANTS
    NoClient = NoClient
    Lists <- Queues
    Kinds <- SubKind
    Subscriptions <- QueuesOrNothing
    UntilAck = FALSE
    Listeners = 1
    Faults <- AllFaults
    MaxFaults = 1
    MaxChanges = 2
    MaxMods = 1
    MaxReports = 1
    MaxMessages = 2
INVARIANT NoChangeTwice
