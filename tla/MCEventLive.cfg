SPECIFICATION FairSpec
CONSTANTS
    NoClient = NoClient
    Lists <- Queues
    Kinds <- SubKind
    Subscriptions <- QueuesOnly
    UntilAck = TRUE
    Listeners = 1
    Faults <- ServerFaults
    MaxFaults = 2
    MaxChanges = 2
    MaxMods = 0
    MaxReports = 2
    MaxMessages = 2
PROPERTY MirrorCatchesUp
INVARIANT AwaitedEventKept
