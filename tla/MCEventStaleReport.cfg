SPECIFICATION Spec
CONSTANTS
    NoClient = NoClient
    Lists <- Queues
    Kinds <- ObjKind
    Subscriptions <- QueuesOnly
    UntilAck = TRUE
    Listeners = 1
    Faults <- ClientFaults
    MaxFaults = 1
    MaxChanges = 2
    MaxMods = 0
    MaxReports = 1
    MaxMessages = 2
INVARIANT EveryChangeSeen
