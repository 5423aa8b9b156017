SPECIFICATION Spec
CONSTANTS
    NoClient = NoClient
    Lists <- Jobs
    Kinds <- SubKind
    Subscriptions <- JobsOnly
    UntilAck = TRUE
    Listeners = 1
    Faults <- ServerFaults
    MaxFaults = 0
    MaxChanges = 1
    MaxMods = 0
    MaxReports = 1
    MaxMessages = 1
INVARIANT ChangesFollowList
