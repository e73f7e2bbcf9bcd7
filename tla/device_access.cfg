SPECIFICATION Spec
CONSTANTS
    MaxClaims = 2
    MaxSockets = 1
    MaxAttempts = 1
    MaxCalls = 2
    MaxFaults = 1
CHECK_DEADLOCK FALSE
INVARIANTS NoActiveOrphan RevokedSocketIsSeen RoutedIsAuthorized
PROPERTIES CollectedOrRevoked
