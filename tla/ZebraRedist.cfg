\* Requests only.
CONSTANTS
    Types = {"connect", "static", "isis"}
    System = {"connect"}
    Distance <- MCDistance
    Instance <- MCInstance
    Payloads = {p1, p2}
    Redist = {"isis"}
    QueueLimit = 1
    Hazards = {}
    MaxRequests = 3
    MaxEvents = 0
SPECIFICATION Spec
INVARIANTS RedistSelected
\* When everyone is quiet and all queues are empty nothing more happens.
CHECK_DEADLOCK FALSE
