---------------------------- MODULE MCDailyJobs ----------------------------
(* Small instances of DailyJobs for TLC.                                     *)
EXTENDS DailyJobs, TLC

CONSTANTS t1, t2, r1

MCTicks    == {t1, t2}
MCRequests == {r1}

\* The order of the hours.
MCCron  == [j \in Jobs |-> IF j = "prewarm" THEN 3 ELSE 1]
MCPlans == {{"sync", "prewarm"}, {"prewarm"}, {"evening"}, {"exits"}, {"proof"}}
\* The exit alerts keep to the weekdays, the proof is made to run every day.
MCWeekdayJobs == {"exits"}
TickSymmetry == Permutations(Ticks)

=============================================================================
