CONSTANTS
    MaxTrackers = 2
    TrackerPlans <- FewPlans
SPECIFICATION TrackersFairSpec
INVARIANTS StoppedSetsNoTimer TrackerAwake
PROPERTY TrackerAnnounced
CHECK_DEADLOCK FALSE
