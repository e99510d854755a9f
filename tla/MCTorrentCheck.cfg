CONSTANTS
    WorkersCount = 2
    MaxChecks = 2
    UserCalls = 4
    CheckCalls = 1
    InternalStops = TRUE
    AllocationErrors = TRUE
SPECIFICATION Spec
INVARIANTS TypeOK WorkersJoined TransferStarted
CHECK_DEADLOCK FALSE
