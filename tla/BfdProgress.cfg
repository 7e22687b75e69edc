CONSTANTS
    Peers = {a, b}
    Other <- MCOther
    Slow = 2
    DefMult = 2
    Intervals <- SlowOnly
    PassiveModes = {FALSE}
    ShutdownModes = {FALSE, TRUE}
    Clients = {c1}
    Mult <- MCMult
    Disturbances = {"lose", "restart", "interface", "modes", "deregister"}
    MaxFaults = 2
    MaxRestarts = 2
    Cap = 2
SPECIFICATION TimedSpec
PROPERTIES ComesUp PollEnds
