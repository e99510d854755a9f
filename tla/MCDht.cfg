CONSTANTS
    Nodes <- Nodes4
    BucketOf <- OneBucket
    MaxBucketNodesCount = 1
    MaxBucketCacheSize = 1
    Searches = {"a", "b", "c"}
    Finds = {"f"}
    Pings = {"p", "r", "s"}
    Hash <- HashOf
    Distance <- Far
    BucketOrder <- Order
    Knows <- Answers
    PeersAt = {3}
    MaxSimultaneousRequests = 2
    MaxCachedNodes = 2
    MaxReturnedValues = 1
    MaxClosestNodes = 2
    MaxBlacklist = 1
    KnownAtFirst <- FirstNodes
    Hashes = {1}
    MaxStoredAnnouncedPeers = 1
    MaxPeerValuesResponse = 1
    CharacterSum <- Sums
    Expiry = 1
    Plans <- FewPlans
SPECIFICATION FairSpec
INVARIANTS TableConsistent RequestsPending AnnouncesHonoured
PROPERTY QueriesEnd
CHECK_DEADLOCK FALSE
