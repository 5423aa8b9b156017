CONSTANTS
    c1 = c1
    c2 = c2
    x1 = x1
    alice = alice
    execd = execd
    Users = {alice, execd}
    GDI_SESSION_NONE = execd
    Clients <- MCCommands
    UserOf <- MCCommandsUserOf
    Kinds = {"write", "get", "trigger"}
    Workers = {w1}
    Readers = {r1}
    Mirror = mirror_thread
    EventMaster = event_master_thread
    None = None
    MirrorKeepsUp = TRUE
    MaxId = 3
SPECIFICATION Spec
SYMMETRY Symmetry
INVARIANT ReadYourWrites
