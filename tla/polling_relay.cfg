SPECIFICATION Spec
CONSTANTS
    Deliveries = {"d1"}
    Tasks = {"t1"}
    MaxStored = 2
    MaxPerPoll = 2
    MaxIds = 4
    MaxFaults = 2
INVARIANTS
    RunsOnce
    ReceiptsTell
    NonePassedOver
CHECK_DEADLOCK FALSE
