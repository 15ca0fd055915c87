----------------------------- MODULE DailyJobs -----------------------------
(* The jobs the worker does once a day: the daily sync, the morning prewarm, *)
(* the evening GTT digest, the exit alerts of open positions and the daily   *)
(* strategy proof. Each is a tick that fires every minute, looks for a mark  *)
(* of today, and runs when the minute is one of the two after its cron time; *)
(* some rest at the weekend, and the exit alerts while they are switched off.*)
(* Requests of the API run the same functions. Nothing locks a run out.      *)
EXTENDS Naturals, FiniteSets

CONSTANTS
    Ticks,       \* ticks of the worker that may be in flight
    Requests,    \* requests to the API that may be in flight
    Cron,        \* the minute of the day of each job
    Grace,       \* minutes after it in which a tick may still run the job
    DayEnd,      \* last minute of the day
    MaxRuns,     \* bound: runs in flight at once
    Strategies,  \* strategies of the daily proof
    Plans,       \* sets of jobs that are enabled together
    WeekdayJobs  \* jobs whose skip_weekends is not switched off

Jobs     == {"sync", "prewarm", "evening", "exits", "proof"}
Alerting == {"evening", "exits"}
Items    == {"mail", "whatsapp"}
Callers  == Ticks \cup Requests

ASSUME DayIsSound ==
    /\ Cron \in [Jobs -> Nat] /\ Grace \in Nat \ {0} /\ DayEnd \in Nat
    /\ \A j \in Jobs : Cron[j] > 0 /\ Cron[j] + Grace <= DayEnd
    /\ Plans \subseteq SUBSET Jobs
    /\ Strategies \in Nat \ {0} /\ MaxRuns \in Nat
    /\ WeekdayJobs \subseteq {"exits", "proof"}

ASSUME TicksAreNoRequests == Ticks \cap Requests = {}

VARIABLES
    now,      \* minute of the day
    plan,     \* the enabled jobs
    day,      \* whether it is a weekend, and the exit alerts are switched off
    mark,     \* what says that a job is under way or done today
    orphan,   \* a row of the sync is left running by a process that died
    rows,     \* today's strategy_daily_runs: "none", "ok" or "failed"
    keys,     \* today's dedupe keys
    sent,     \* today's messages, 2 for more than one
    loc,      \* the run each caller is in
    looked,   \* jobs that had a tick in their minutes today
    after,    \* jobs that ran at their hour or later today
    excuses   \* what was out of order today

stores == <<mark, orphan, rows, keys>>
vars   == <<now, plan, day, stores, sent, loc, looked, after, excuses>>

Excuses == {"fault",    \* a crash, a throw, a lost write, a minute without tick
            "overlap",  \* two runs of one job at once
            "asked",    \* a request
            "carried"}  \* a run that began yesterday

NoRun == [pc |-> "idle", job |-> "sync", force |-> FALSE, own |-> TRUE,
          ok |-> TRUE, left |-> 0, item |-> "mail", at |-> 0]

Init ==
    /\ now = 0 /\ plan \in Plans
    /\ day \in [weekend : BOOLEAN, muted : BOOLEAN]
    /\ day.muted => "exits" \in plan
    /\ mark = [j \in Jobs |-> "no"] /\ orphan = FALSE
    /\ rows = [k \in 1..Strategies |-> "none"]
    /\ keys = [j \in Alerting |-> {}]
    /\ sent = [j \in Alerting |-> [i \in Items |-> 0]]
    /\ loc = [c \in Callers |-> NoRun]
    /\ looked = {} /\ after = {} /\ excuses = {}

-----------------------------------------------------------------------------
(* What the looks find.                                                      *)

\* isDailyCronDue.
Due(j) == now \in Cron[j] .. Cron[j] + Grace - 1

\* Runs past their checks: a sync has its row, the others are at work.
Working(c) == loc[c].pc \in {"work", "check", "send", "key", "mark"}
Runs(j) == {c \in Callers : loc[c].job = j /\ Working(c)}

\* Mutant: only rows of dead processes are seen.
Active_OrphansOnly == orphan

\* hasActiveDailySyncJob: a row that is running, however old.
Active == orphan \/ Runs("sync") # {}

\* hasCompletedDailySyncToday, hasMorningPrewarmToday, hasEveningGttToday,
\* hasOpenExitAlertsRunToday and hasStrategyDailyProofToday.
Marked(j) == \/ mark[j] = "done"
             \/ j = "proof" /\ \E k \in 1..Strategies : rows[k] = "ok"

\* A look in Redis that fails finds nothing. The sync and the digest are kept
\* in Postgres, as are the rows of the proof.
Found(j, blind) ==
    IF blind /\ j \notin {"sync", "evening"}
    THEN j = "proof" /\ \E k \in 1..Strategies : rows[k] = "ok"
    ELSE Marked(j)

\* nseSession is in its weekend, and the job heeds it.
Weekend(j) == day.weekend /\ (j = "evening" \/ j \in WeekdayJobs)

\* Without SMTP, or with the switch of the exit alerts off, they do not run,
\* forced or not.
Muted(j) == j = "exits" /\ day.muted

\* History: what of the day was out of order.
Excuse(e) == excuses' = excuses \cup e
Fault(b) == IF b THEN {"fault"} ELSE {}

-----------------------------------------------------------------------------
(* A run begins.                                                             *)

Room == Cardinality({c \in Callers : loc[c].pc # "idle"}) < MaxRuns

Out(c) == loc' = [loc EXCEPT ![c] = NoRun]

\* A run is past its checks.
Enter(c, l) ==
    /\ loc' = [loc EXCEPT ![c] = [l EXCEPT !.at = IF l.job = "sync" THEN now ELSE 0]]
    /\ after' = IF now >= Cron[l.job] THEN after \cup {l.job} ELSE after

Overlap(j) == IF \E c \in Runs(j) : loc[c].own THEN {"overlap"} ELSE {}

\* A tick: nothing unless the minute is right and no mark is found; the
\* digest's asks for the weekend as well. The prewarm then runs, the others
\* look again.
Tick(c, j, blind) ==
    LET l == [NoRun EXCEPT !.job = j]
        passed == /\ ~Found(j, blind) /\ (j = "sync" => ~Active)
                  /\ (j = "evening" => ~day.weekend)
    IN  /\ c \in Ticks /\ loc[c].pc = "idle" /\ Room /\ j \in plan /\ Due(j)
        /\ looked' = looked \cup {j}
        /\ CASE ~passed -> UNCHANGED <<loc, after>> /\ Excuse({})
             [] passed /\ j = "prewarm" ->
                    Enter(c, [l EXCEPT !.pc = "work"]) /\ Excuse(Fault(blind) \cup Overlap(j))
             [] OTHER -> /\ loc' = [loc EXCEPT ![c] = [l EXCEPT !.pc = "recheck"]]
                         /\ Excuse(Fault(blind)) /\ UNCHANGED after
        /\ UNCHANGED <<now, plan, day, stores, sent>>

\* A request for a run, forced or not. Exit alerts are always forced; the
\* prewarm has no route.
Ask(c, j, force) ==
    /\ c \in Requests /\ loc[c].pc = "idle" /\ Room /\ j \in plan \ {"prewarm"}
    /\ j = "exits" => force
    /\ loc' = [loc EXCEPT ![c] =
                 [NoRun EXCEPT !.job = j, !.pc = "recheck", !.force = force]]
    /\ Excuse({"asked"})
    /\ UNCHANGED <<now, plan, day, stores, sent, looked, after>>

\* The function's own checks. Alerts and proof return at the weekend before
\* they look, unless forced; the digest's function does not ask for the day. A
\* forced sync still refuses to run beside another; a forced alert or proof
\* does not look at all.
Recheck(c, blind) ==
    LET l == loc[c]
        rests == \/ ~l.force /\ l.job # "evening" /\ Weekend(l.job)
                 \/ Muted(l.job)
        refused == \/ rests
                   \/ ~l.force /\ Found(l.job, blind)
                   \/ l.job = "sync" /\ Active
    IN  /\ l.pc = "recheck" /\ (blind => ~l.force /\ ~rests)
        /\ CASE refused -> Out(c) /\ UNCHANGED after /\ Excuse(Fault(blind))
             [] ~refused /\ l.job = "evening" ->
                    Enter(c, [l EXCEPT !.pc = "work"]) /\ Excuse(Overlap("evening"))
             [] OTHER -> /\ loc' = [loc EXCEPT ![c].pc = "begin"]
                         /\ UNCHANGED after /\ Excuse(Fault(blind))
        /\ UNCHANGED <<now, plan, day, stores, sent, looked>>

\* The sync creates its row; exit alerts and proof write a mark "running",
\* over a mark "done" too, if Redis takes it. A request may name the
\* strategies n of a proof.
Begin(c, n, lost) ==
    LET l == loc[c]
    IN  /\ l.pc = "begin" /\ (lost => l.job # "sync")
        /\ n < Strategies => l.job = "proof" /\ l.force
        /\ Enter(c, [l EXCEPT !.pc = "work", !.left = IF l.job = "proof" THEN n ELSE 0])
        /\ mark' = IF l.job = "sync" \/ lost THEN mark
                   ELSE [mark EXCEPT ![l.job] = "running"]
        /\ Excuse(Overlap(l.job) \cup Fault(lost))
        /\ UNCHANGED <<now, plan, day, orphan, rows, keys, sent, looked>>

-----------------------------------------------------------------------------
(* Sync and prewarm.                                                         *)

\* warmMorningBriefing: the mark of the prewarm has the date of its writing.
Warmed(lost) ==
    /\ mark' = IF lost THEN mark ELSE [mark EXCEPT !["prewarm"] = "done"]
    /\ after' = IF now >= Cron["prewarm"] THEN after \cup {"prewarm"} ELSE after

Prewarm(c, lost) ==
    /\ loc[c].pc = "work" /\ loc[c].job = "prewarm"
    /\ Warmed(lost) /\ Out(c) /\ Excuse(Fault(lost))
    /\ UNCHANGED <<now, plan, day, orphan, rows, keys, sent, looked>>

\* The steps of a sync, of which the last warms the briefing; a step that
\* fails does not stop the ones behind it.
SyncSteps(c, others, warms, lost) ==
    /\ loc[c].pc = "work" /\ loc[c].job = "sync"
    /\ loc' = [loc EXCEPT ![c].pc = "mark", ![c].ok = others /\ warms]
    /\ IF warms THEN Warmed(lost) ELSE ~lost /\ UNCHANGED <<mark, after>>
    /\ Excuse(Fault(lost \/ ~others \/ ~warms))
    /\ UNCHANGED <<now, plan, day, orphan, rows, keys, sent, looked>>

\* Its row becomes done or failed; done counts for the day it is finished.
SyncDone(c) ==
    /\ loc[c].pc = "mark" /\ loc[c].job = "sync"
    /\ mark' = IF loc[c].ok THEN [mark EXCEPT !["sync"] = "done"] ELSE mark
    /\ Out(c) /\ Excuse(Fault(~loc[c].ok))
    /\ UNCHANGED <<now, plan, day, orphan, rows, keys, sent, looked, after>>

-----------------------------------------------------------------------------
(* Evening digest and exit alerts: build, then for each channel look for the *)
(* key, send, write the key; at last the mark.                               *)

Build(c) ==
    /\ loc[c].pc = "work" /\ loc[c].job \in Alerting
    /\ loc' = [loc EXCEPT ![c].pc = "check"]
    /\ UNCHANGED <<now, plan, day, stores, sent, looked, after, excuses>>

\* The digest's mail has no dedupe key; a forced exit run has keys of its own.
HasKey(l) == ~(l.job = "evening" /\ l.item = "mail")
DayKey(l) == HasKey(l) /\ ~(l.job = "exits" /\ l.force) /\ l.own

Onward(l) == IF l.item = "mail" THEN [l EXCEPT !.item = "whatsapp", !.pc = "check"]
             ELSE [l EXCEPT !.pc = "mark"]

\* Mutant: the dedupe key is not read.
Check_NoKey(c, sends, blind) ==
    LET l == loc[c]
    IN  /\ l.pc = "check" /\ ~blind
        /\ loc' = [loc EXCEPT ![c] = IF sends THEN [l EXCEPT !.pc = "send"]
                                     ELSE Onward(l)]
        /\ UNCHANGED <<now, plan, day, stores, sent, looked, after, excuses>>

\* Nothing to send, or sent already; or on to the channel.
Check(c, sends, blind) ==
    LET l == loc[c]
        known == DayKey(l) /\ l.item \in keys[l.job] /\ ~blind
    IN  /\ l.pc = "check" /\ (sends => ~known) /\ (blind => DayKey(l))
        /\ loc' = [loc EXCEPT ![c] = IF sends THEN [l EXCEPT !.pc = "send"]
                                     ELSE Onward(l)]
        /\ Excuse(Fault(blind))
        /\ UNCHANGED <<now, plan, day, stores, sent, looked, after>>

\* The provider takes the message, or the failure is caught.
Send(c, delivered) ==
    LET l == loc[c]
    IN  /\ l.pc = "send"
        /\ loc' = [loc EXCEPT ![c] = IF delivered /\ HasKey(l)
                                     THEN [l EXCEPT !.pc = "key"] ELSE Onward(l)]
        /\ sent' = IF delivered /\ l.own /\ sent[l.job][l.item] < 2
                   THEN [sent EXCEPT ![l.job][l.item] = @ + 1] ELSE sent
        /\ Excuse(Fault(~delivered))
        /\ UNCHANGED <<now, plan, day, stores, looked, after>>

SetKey(c, lost) ==
    LET l == loc[c]
    IN  /\ l.pc = "key"
        /\ keys' = IF DayKey(l) /\ ~lost THEN [keys EXCEPT ![l.job] = @ \cup {l.item}]
                   ELSE keys
        /\ loc' = [loc EXCEPT ![c] = Onward(l)]
        /\ Excuse(Fault(lost))
        /\ UNCHANGED <<now, plan, day, mark, orphan, rows, sent, looked, after>>

\* Mutant: a strategy that fails leaves no row.
ProofRow_OkOnly(c, ok) ==
    LET l == loc[c]
        k == Strategies - l.left + 1
    IN  /\ l.pc = "work" /\ l.job = "proof"
        /\ rows' = IF l.own /\ ok THEN [rows EXCEPT ![k] = "ok"] ELSE rows
        /\ loc' = [loc EXCEPT ![c].left = @ - 1,
                              ![c].pc = IF l.left = 1 THEN "mark" ELSE "work"]
        /\ UNCHANGED <<now, plan, day, mark, orphan, keys, sent, looked, after, excuses>>

\* One strategy of the proof; its failure, too, is a row.
ProofRow(c, ok) ==
    LET l == loc[c]
        k == Strategies - l.left + 1
    IN  /\ l.pc = "work" /\ l.job = "proof"
        /\ rows' = IF l.own THEN [rows EXCEPT ![k] = IF ok THEN "ok" ELSE "failed"]
                   ELSE rows
        /\ loc' = [loc EXCEPT ![c].left = @ - 1,
                              ![c].pc = IF l.left = 1 THEN "mark" ELSE "work"]
        /\ UNCHANGED <<now, plan, day, mark, orphan, keys, sent, looked, after, excuses>>

\* Mutant: only ticks write the mark.
Mark_TicksOnly(c, lost) ==
    LET l == loc[c]
    IN  /\ l.pc = "mark" /\ l.job # "sync"
        /\ mark' = IF l.own /\ ~lost /\ ~l.force THEN [mark EXCEPT ![l.job] = "done"]
                   ELSE mark
        /\ Out(c) /\ Excuse(Fault(lost))
        /\ UNCHANGED <<now, plan, day, orphan, rows, keys, sent, looked, after>>

\* The day's mark of an alert or a proof. The digest has two, in Postgres and
\* in Redis, and is lost with both.
Mark(c, lost) ==
    LET l == loc[c]
    IN  /\ l.pc = "mark" /\ l.job # "sync"
        /\ mark' = IF l.own /\ ~lost THEN [mark EXCEPT ![l.job] = "done"] ELSE mark
        /\ Out(c) /\ Excuse(Fault(lost))
        /\ UNCHANGED <<now, plan, day, orphan, rows, keys, sent, looked, after>>

-----------------------------------------------------------------------------
(* Failures, and time.                                                       *)

\* An exception ends the run. A sync writes "failed" into its row, unless that
\* fails as well.
Throw(c, stranded) ==
    /\ loc[c].pc # "idle"
    /\ stranded => c \in Runs("sync")
    /\ orphan' = (orphan \/ stranded)
    /\ Out(c) /\ Excuse({"fault"})
    /\ UNCHANGED <<now, plan, day, mark, rows, keys, sent, looked, after>>

\* The worker's process, or the API's, dies.
Crash(cs) ==
    /\ \E c \in cs : loc[c].pc # "idle"
    /\ orphan' = (orphan \/ Runs("sync") \cap cs # {})
    /\ loc' = [c \in Callers |-> IF c \in cs THEN NoRun ELSE loc[c]]
    /\ Excuse({"fault"})
    /\ UNCHANGED <<now, plan, day, mark, rows, keys, sent, looked, after>>

\* Looks are over within the minute; the work is not.
LooksAreShort == \A c \in Callers : loc[c].pc \notin {"recheck", "begin"}

\* The last minute of a job's window passes without any tick of it.
Unlooked == {j \in plan : now = Cron[j] + Grace - 1} \ looked

Clock(gap) ==
    /\ now < DayEnd /\ LooksAreShort /\ (Unlooked # {} <=> gap)
    /\ now' = now + 1 /\ Excuse(Fault(gap))
    /\ UNCHANGED <<plan, day, stores, sent, loc, looked, after>>

\* Mutant: the date in the prewarm's mark is not compared with today's.
Midnight_KeepsMark(weekend) ==
    /\ now = DayEnd /\ LooksAreShort
    /\ now' = 0 /\ day' = [day EXCEPT !.weekend = weekend]
    /\ mark' = [j \in Jobs |-> IF j = "prewarm" THEN mark[j] ELSE "no"]
    /\ rows' = [k \in 1..Strategies |-> "none"]
    /\ keys' = [j \in Alerting |-> {}]
    /\ sent' = [j \in Alerting |-> [i \in Items |-> 0]]
    /\ loc' = [c \in Callers |-> IF loc[c].pc = "idle" THEN NoRun
                                 ELSE [loc[c] EXCEPT !.own = FALSE]]
    /\ looked' = {} /\ after' = {}
    /\ excuses' = IF \E c \in Callers : loc[c].pc # "idle" THEN {"carried"} ELSE {}
    /\ UNCHANGED <<plan, orphan>>

Midnight(weekend) ==
    /\ now = DayEnd /\ LooksAreShort
    /\ now' = 0 /\ day' = [day EXCEPT !.weekend = weekend]
    /\ mark' = [j \in Jobs |-> "no"]
    /\ rows' = [k \in 1..Strategies |-> "none"]
    /\ keys' = [j \in Alerting |-> {}]
    /\ sent' = [j \in Alerting |-> [i \in Items |-> 0]]
    /\ loc' = [c \in Callers |-> IF loc[c].pc = "idle" THEN NoRun
                                 ELSE [loc[c] EXCEPT !.own = FALSE]]
    /\ looked' = {} /\ after' = {}
    /\ excuses' = IF \E c \in Callers : loc[c].pc # "idle" THEN {"carried"} ELSE {}
    /\ UNCHANGED <<plan, orphan>>

-----------------------------------------------------------------------------
(* Specification.                                                            *)

\* The next step of a run.
Run(c) ==
    \/ \E b \in BOOLEAN : \/ Recheck(c, b) \/ Prewarm(c, b) \/ SetKey(c, b)
                          \/ Mark(c, b) \/ Send(c, b) \/ ProofRow(c, b)
    \/ \E n \in 1..Strategies, b \in BOOLEAN : Begin(c, n, b)
    \/ \E o, w, b \in BOOLEAN : SyncSteps(c, o, w, b)
    \/ SyncDone(c) \/ Build(c)
    \/ \E s, b \in BOOLEAN : Check(c, s, b)

TickOf(j) == \E c \in Ticks, b \in BOOLEAN : Tick(c, j, b)

Next ==
    \/ \E j \in Jobs : TickOf(j)
    \/ \E c \in Requests, j \in Jobs, f \in BOOLEAN : Ask(c, j, f)
    \/ \E c \in Callers : Run(c)
    \/ \E c \in Callers, s \in BOOLEAN : Throw(c, s)
    \/ Crash(Ticks) \/ Crash(Requests)
    \/ \E gap \in BOOLEAN : Clock(gap)
    \/ \E weekend \in BOOLEAN : Midnight(weekend)

Spec == Init /\ [][Next]_vars

-----------------------------------------------------------------------------
(* Properties.                                                               *)

\* Every variable has its type.
TypeOK ==
    /\ now \in 0..DayEnd /\ plan \in Plans
    /\ day \in [weekend : BOOLEAN, muted : BOOLEAN]
    /\ mark \in [Jobs -> {"no", "running", "done"}] /\ orphan \in BOOLEAN
    /\ rows \in [1..Strategies -> {"none", "ok", "failed"}]
    /\ keys \in [Alerting -> SUBSET Items]
    /\ sent \in [Alerting -> [Items -> 0..2]]
    /\ loc \in [Callers -> [pc : {"idle", "recheck", "begin", "work", "check",
                                  "send", "key", "mark"},
                            job : Jobs, force : BOOLEAN, own : BOOLEAN, ok : BOOLEAN,
                            left : 0..Strategies, item : Items, at : 0..DayEnd]]
    /\ looked \subseteq Jobs /\ after \subseteq Jobs /\ excuses \subseteq Excuses

\* A message of the day goes out twice only after a failure, or from two runs
\* of the job that overlapped, or because somebody asked: and a request cannot
\* repeat the digest's WhatsApp message, which has one key for all its runs.
OncePerDay ==
    \A j \in Alerting, i \in Items :
        sent[j][i] > 1 =>
            \/ excuses \cap {"fault", "overlap"} # {}
            \/ "asked" \in excuses /\ <<j, i>> # <<"evening", "whatsapp">>

\* Two syncs run side by side only if both began in the minute of their looks:
\* the one with a row that is a minute old keeps all others out.
SyncsOverlapInOneMinute ==
    \A c, d \in Runs("sync") : loc[c].own /\ loc[d].own => loc[c].at = loc[d].at

\* Unless somebody asked for a proof of a few strategies, a proof that is
\* marked done has a row for every strategy of the list.
DoneProofIsWhole ==
    mark["proof"] = "done" /\ "asked" \notin excuses =>
        \A k \in 1..Strategies : rows[k] # "none"

\* Jobs of which nothing is owed today.
Resting(j) == Weekend(j) \/ Muted(j)

\* A day without failures ends with each job done, or still at work, but for
\* those that rest. The sync needs, besides, that no row of it was left running
\* on another day.
DayIsServed ==
    now = DayEnd /\ "fault" \notin excuses =>
        \A j \in plan : \/ mark[j] = "done" \/ Runs(j) # {}
                        \/ Resting(j)
                        \/ j = "sync" /\ orphan

\* On a day on which nothing was out of order each job has run at its hour, no
\* mark of an earlier run having kept it from doing so, and exactly those that
\* rest have not run at all. The prewarm is excepted when there is a sync,
\* which marks it done.
RunsAtItsHour ==
    now = DayEnd /\ excuses = {} =>
        \A j \in plan : IF Resting(j) THEN j \notin after
                        ELSE \/ j \in after \/ (j = "sync" /\ orphan)
                             \/ j = "prewarm" /\ "sync" \in plan

=============================================================================
