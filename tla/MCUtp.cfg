CONSTANTS
    Listeners = 2
    IdSpace = 16
    WndSize = 1
    MaxDuplicateAckBeforeResend = 0
    Environments <- FewEnvironments
SPECIFICATION FairSpec
PROPERTIES InOrder Delivered
CHECK_DEADLOCK FALSE
