CONSTANTS
    Peers = {a, b}
    Other <- MCOther
    Slow = 3
    DefMult = 2
    Intervals <- FastAndSlow
    PassiveModes = {FALSE, TRUE}
    ShutdownModes = {FALSE, TRUE}
    Clients = {c1}
    Mult <- MCMult
    Disturbances = {"modes", "intervals", "lose"}
    MaxFaults = 1
    MaxRestarts = 1
    Cap = 1
SPECIFICATION Spec
INVARIANTS TypeOK DownIsAnnounced UpIsAnnounced ShutdownNeverUp DetectionArmed SettledDetectionCovers
SYMMETRY Symmetry
CHECK_DEADLOCK FALSE
