CONSTANTS
    Plans <- FewPlans
SPECIFICATION FairSpec
INVARIANTS HandshakeEnds GoneIsTold CloseHonoured
PROPERTIES EncryptionHonoured AttemptEnds
CHECK_DEADLOCK FALSE
