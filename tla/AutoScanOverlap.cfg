\* Two jobs that overlap; a full scan is due after two intervals.
SPECIFICATION FairSpec
CONSTANTS
    c1 = c1
    c2 = c2
    r1 = r1
    j1 = j1
    j2 = j2
    None = None
    Callers <- OneCaller
    Readers = {}
    Jobs <- TwoJobs
    ScanInterval = 1
    FullInterval = 2
PROPERTY FullScansGoOn
