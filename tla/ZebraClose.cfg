\* One client disconnects.
CONSTANTS
    Types = {"connect", "static", "isis"}
    System = {"connect"}
    Distance <- MCDistance
    Instance <- MCInstance
    Payloads = {p1, p2}
    Redist = {"isis"}
    QueueLimit = 1
    Hazards = {"close"}
    MaxRequests = 3
    MaxEvents = 1
SPECIFICATION Spec
INVARIANTS CloseKeepsOthers
\* When everyone is quiet and all queues are empty nothing more happens.
CHECK_DEADLOCK FALSE
