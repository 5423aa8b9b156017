SPECIFICATION Spec
CONSTANTS
    h1 = h1
    h2 = h2
    Hosts <- MCHosts
    Kinds = {"serial"}
    Grants <- MCGrants
    MaxRuns <- MCRuns
    MaxFinish = 2
    Ops <- MCNoOps
    Outcomes = {"ok"}
    Faults <- MCStart
    MaxFaults = 1
    Classic = TRUE
    Prompt = TRUE
    Partial = {}
    MaxUp = 1
    MaxDown = 2
INVARIANTS OneInstance
