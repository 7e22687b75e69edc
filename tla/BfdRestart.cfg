CONSTANTS
    Peers = {a, b}
    Other <- MCOther
    Slow = 2
    DefMult = 2
    Intervals <- SlowOnly
    PassiveModes = {FALSE}
    ShutdownModes = {FALSE}
    Clients = {c1}
    Mult <- MCMult
    Disturbances = {"restart", "duplicate", "interface", "deregister"}
    MaxFaults = 3
    MaxRestarts = 2
    Cap = 1
SPECIFICATION Spec
INVARIANTS HandshakeComplete
SYMMETRY Symmetry
CHECK_DEADLOCK FALSE
