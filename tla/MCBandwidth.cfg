CONSTANTS
    Streams = {"s", "t"}
    Peers = {"p", "q"}
    RoundQuota = 1
    MinimumAssign = 3
    Rounds = 2
    Sizes = {1, 2}
    Expecting = {1, 3}
    Plans <- FewPlans
SPECIFICATION BandwidthFairSpec
INVARIANT UsersAwake
PROPERTIES QuotaConserved UsersServed
CHECK_DEADLOCK FALSE
