\* Two ticks and two starts; the lock outlives the interval, as 3600 s and 900 s do.
SPECIFICATION FairSpec
CONSTANTS
    t1 = t1
    t2 = t2
    s1 = s1
    s2 = s2
    NoCaller = NoCaller
    Ticks <- MCTicks
    Starts <- MCStarts
    LockTTL = 3
    Interval = 2
INVARIANTS
    TypeOK
    OneAtATime
PROPERTIES
    ScanOnlyWhenDue
    LockIsNotStolen
    ScansAgain
