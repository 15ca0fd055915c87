\* Two callers and a reader around one job at a time.
SPECIFICATION FairSpec
CONSTANTS
    c1 = c1
    c2 = c2
    r1 = r1
    j1 = j1
    j2 = j2
    None = None
    Callers <- TwoCallers
    Readers <- OneReader
    Jobs <- OneJob
    ScanInterval = 1
    FullInterval = 2
PROPERTY ScansGoOn
