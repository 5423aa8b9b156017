SPECIFICATION Spec
CONSTANTS
    h1 = h1
    h2 = h2
    Hosts <- MCHosts
    Kinds = {"serial", "tight"}
    Grants <- MCGrants
    MaxRuns <- MCRuns
    MaxFinish = 2
    Ops <- MCOps
    Outcomes = {"ok", "again"}
    Faults <- MCFaults
    MaxFaults = 1
    Classic = TRUE
    Prompt = TRUE
    Partial = {"serial"}
    MaxUp = 1
    MaxDown = 2
INVARIANTS TypeOK StartsRight
PROPERTIES EndsRight NotBackTooEarly RunningNotDropped
