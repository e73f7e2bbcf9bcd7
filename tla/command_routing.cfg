SPECIFICATION Spec
CONSTANTS
    d1 = d1
    Deliveries = {d1}
    NoDelivery = none
    MaxGen = 3
    MaxSends = 2
    MaxFaults = 2
    Faults = {"http", "refuse", "phone", "link", "bridge", "reload", "restart", "timeout", "stale", "throw"}
    CommandLimit = 1
INVARIANTS
    ExecutedOnce
    ReceiptsAreTrue
PROPERTIES
    NoLateExecution
CHECK_DEADLOCK FALSE
