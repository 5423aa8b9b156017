CONSTANTS
    c1 = c1
    c2 = c2
    x1 = x1
    alice = alice
    execd = execd
    Users = {alice, execd}
    GDI_SESSION_NONE = execd
    Clients <- MCPair
    UserOf <- MCPairUserOf
    Kinds = {"trigger", "get"}
    Workers = {w1}
    Readers = {r1}
    Mirror = mirror_thread
    EventMaster = event_master_thread
    None = None
    MirrorKeepsUp = TRUE
    MaxId = 2
SPECIFICATION FairSpec
PROPERTY StaleReadersServed
