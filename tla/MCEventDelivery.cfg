SPECIFICATION Spec
CONSTANTS
    NoClient = NoClient
    Lists <- Queues
    Kinds <- SubKind
    Subscriptions <- QueuesOnly
    UntilAck = FALSE
    Listeners = 2
    Faults <- ServerFaults
    MaxFaults = 2
    MaxChanges = 2
    MaxMods = 0
    MaxReports = 2
    MaxMessages = 2
INVARIANTS TypeOK ChangesFollowList EveryChangeSeen
