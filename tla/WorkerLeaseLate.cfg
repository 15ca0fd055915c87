\* Refreshes of any length that end.
SPECIFICATION FairSpec
CONSTANTS
    w1 = w1
    w2 = w2
    NoWorker = NoWorker
    Workers <- MCWorkers
    Calls = {1}
    LeaderTTL = 3
    Refresh = 1
    Latency = 0
PROPERTIES
    KeyIsNotStolen
    SomeLeader
