SPECIFICATION LiveSpec
CONSTANTS
    h1 = h1
    h2 = h2
    Hosts <- MCHosts
    Kinds = {"serial", "tight"}
    Grants <- MCGrants
    MaxRuns <- MCRuns
    MaxFinish = 2
    Ops <- MCLiveOps
    Outcomes = {"ok", "again"}
    Faults <- MCLiveFaults
    MaxFaults = 1
    Classic = TRUE
    Prompt = TRUE
    Partial = {}
    MaxUp = 1
    MaxDown = 2
PROPERTIES Delivered CleanedUp
