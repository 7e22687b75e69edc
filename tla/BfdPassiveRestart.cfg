CONSTANTS
    Peers = {a, b}
    Other <- MCOther
    Slow = 2
    DefMult = 2
    Intervals <- SlowOnly
    PassiveModes = {FALSE, TRUE}
    ShutdownModes = {FALSE}
    Clients = {}
    Mult <- MCMult
    Disturbances = {"restart", "lose"}
    MaxFaults = 3
    MaxRestarts = 2
    Cap = 2
SPECIFICATION TimedSpec
PROPERTIES ComesUp
