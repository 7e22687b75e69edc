CONSTANTS
    Peers = {a, b}
    Other <- MCOther
    Slow = 3
    DefMult = 2
    Intervals <- FastAndSlow
    PassiveModes = {FALSE}
    ShutdownModes = {FALSE}
    Clients = {}
    Mult <- MCMult
    Disturbances = {"intervals", "overlap"}
    MaxFaults = 1
    MaxRestarts = 1
    Cap = 1
SPECIFICATION Spec
SYMMETRY Symmetry
INVARIANTS SettledDetectionCovers
CHECK_DEADLOCK FALSE
