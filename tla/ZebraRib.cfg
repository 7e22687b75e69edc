\* Three requests and one environment event of any kind, in every order.
CONSTANTS
    Types = {"connect", "static", "isis"}
    System = {"connect"}
    Distance <- MCDistance
    Instance <- MCInstance
    Payloads = {p1, p2}
    Redist = {"isis"}
    QueueLimit = 1
    Hazards = {"close", "rmap", "refuse", "netdown", "outside"}
    MaxRequests = 3
    MaxEvents = 1
SPECIFICATION FairSpec
INVARIANTS WellFormed FibIsBest InstalledIsInFib RefusalReported
PROPERTY Settles
\* When everyone is quiet and all queues are empty nothing more happens.
CHECK_DEADLOCK FALSE
