\* Two ticks and a request; each plan is checked by itself.
SPECIFICATION Spec
CONSTANTS
    t1 = t1
    t2 = t2
    r1 = r1
    Ticks <- MCTicks
    Requests <- MCRequests
    Cron <- MCCron
    Plans <- MCPlans
    WeekdayJobs <- MCWeekdayJobs
    Grace = 2
    DayEnd = 5
    MaxRuns = 2
    Strategies = 2
SYMMETRY TickSymmetry
INVARIANTS
    OncePerDay
    SyncsOverlapInOneMinute
    DoneProofIsWhole
    
    RunsAtItsHour
