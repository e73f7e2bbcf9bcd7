SPECIFICATION Spec
CONSTANTS
    MaxUploads = 2
    MaxChunks = 2
    MaxConcurrent = 2
    Quota = 3
    MaxGen = 2
    MaxRequests = 2
    MaxFaults = 1
CHECK_DEADLOCK FALSE
INVARIANTS SpoolIsAccounted UploadsFollowTheMac ToldOnce
PROPERTIES SpoolDrains
