SPECIFICATION Spec
CONSTANTS
    Faults = {"crash", "lost", "restart", "stage", "preflight", "unhealthy", "closed"}
    MaxFaults = 6
INVARIANTS
    DispatchIsRecorded
    CommitIsProof
    CredentialKept
    RollbackKeepsCredential
    ReadyIsComplete
PROPERTIES
    OperationSettles
CHECK_DEADLOCK FALSE
