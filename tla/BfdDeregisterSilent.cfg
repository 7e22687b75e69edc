CONSTANTS
    Peers = {a, b}
    Other <- MCOther
    Slow = 2
    DefMult = 2
    Intervals <- SlowOnly
    PassiveModes = {FALSE}
    ShutdownModes = {FALSE}
    Clients = {c1, c2}
    Mult <- MCMult
    Disturbances = {"deregister"}
    MaxFaults = 1
    MaxRestarts = 1
    Cap = 2
SPECIFICATION Spec
SYMMETRY Symmetry
INVARIANTS DownIsAnnounced
CHECK_DEADLOCK FALSE
