CONSTANTS
    c1 = c1
    c2 = c2
    x1 = x1
    alice = alice
    execd = execd
    Users = {alice, execd}
    GDI_SESSION_NONE = execd
    Clients <- MCPair
    UserOf <- MCPairUserOf
    Kinds = {"write", "get", "get_global", "trigger"}
    Workers = {w1, w2}
    Readers = {r1}
    Mirror = mirror_thread
    EventMaster = event_master_thread
    None = None
    MirrorKeepsUp = TRUE
    MaxId = 3
SPECIFICATION Spec
SYMMETRY SymmetryPair
INVARIANTS IInv SnapshotReached
