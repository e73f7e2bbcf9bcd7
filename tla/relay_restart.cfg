SPECIFICATION FairSpec
CONSTANTS
    MaxSource = 3
    MaxGen = 2
    MaxConns = 2
    MaxFaults = 1
    Faults = {"cut", "loss", "newstore"}
    QueueLimit = 2
PROPERTIES
    RelayTasksEnd
CHECK_DEADLOCK FALSE
