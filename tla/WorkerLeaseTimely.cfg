\* Refreshes on time; the shortest TTL for which that is enough.
SPECIFICATION FairTimelySpec
CONSTANTS
    w1 = w1
    w2 = w2
    NoWorker = NoWorker
    Workers <- MCWorkers
    Calls = {1}
    LeaderTTL = 5
    Refresh = 2
    Latency = 1
INVARIANTS
    TypeOK
    OneLeader
PROPERTIES
    LeaseIsKept
    StableLeader
