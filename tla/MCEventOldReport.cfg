SPECIFICATION Spec
CONSTANTS
    NoClient = NoClient
    Lists <- BothLists
    Kinds <- ObjKind
    Subscriptions <- QueuesOrBoth
    UntilAck = TRUE
    Listeners = 1
    Faults <- ClientFaults
    MaxFaults = 1
    MaxChanges = 1
    MaxMods = 0
    MaxReports = 1
    MaxMessages = 2
INVARIANT OldReportRefused
