SPECIFICATION Spec
CONSTANTS
    MaxSource = 4
    MaxGen = 2
    MaxConns = 1
    MaxFaults = 1
    Faults = {"prune", "cut", "loss"}
    QueueLimit = 3
INVARIANTS
    OnlyFaultsLeaveHoles
    CursorSentOnce
    LiveClientIsCurrent
PROPERTIES
    RecoveryTakesKeyframe
CHECK_DEADLOCK FALSE
