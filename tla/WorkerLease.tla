----------------------------- MODULE WorkerLease -----------------------------
(***************************************************************************)
(* Leadership of the worker processes' schedule.  Every worker refreshes   *)
(* the key sv:worker:leader in Redis at an interval and keeps the answer in *)
(* isScheduleLeader; its tick intervals run only while that flag is true.  *)
(*                                                                         *)
(* A refresh is two Redis commands, GET and then EXPIRE or SET NX, and the *)
(* reply: each is an await, so each is an action, and the interval does    *)
(* not wait for the refresh before it (a worker has several calls).  A     *)
(* command that throws makes the worker leader ("fail-open").  It may      *)
(* throw at any time, not only when Redis is down: the process shares one  *)
(* client, and resetRedisClient, which any failing cache call runs, closes *)
(* it under the commands in flight.                                        *)
(*                                                                         *)
(* Time is a clock that counts down the key's TTL and counts the time      *)
(* since each worker's last refresh began.  Spec puts no bound on delays;  *)
(* in TimelySpec a refresh starts when it is due and ends within Latency.  *)
(***************************************************************************)
EXTENDS Integers, FiniteSets

CONSTANTS
    Workers,      \* WORKER_IDs
    NoWorker,     \* the key does not exist
    Calls,        \* refreshes of one worker in flight              (bound)
    LeaderTTL,    \* WORKER_LEADER_TTL_SEC
    Refresh,      \* LEADER_REFRESH_MS
    Latency       \* what a refresh takes at most, in TimelySpec

ASSUME NoWorkerIsNone == NoWorker \notin Workers
ASSUME TimesAreNumbers ==
    /\ LeaderTTL \in Nat \ {0} /\ Refresh \in Nat \ {0} /\ Latency \in Nat
ASSUME RefreshFits ==
    /\ Latency < Refresh
    /\ Refresh + 2 * Latency < LeaderTTL

VARIABLES
    leader,             \* the key: its value and the time it has left
    up,                 \* the life of each process
    isScheduleLeader,   \* the flag: "no", or true by "lease" or fail-"open"
    call,               \* how far each refresh in flight is
    since,              \* time since the last refresh began (at most Refresh)
    calm                \* time since a command threw or a worker booted

vars == <<leader, up, isScheduleLeader, call, since, calm>>

\* After this long without a throw or a boot every flag is backed by the key.
Settled == 2 * Refresh + Latency

TypeOK ==
    /\ leader \in [owner : Workers \cup {NoWorker}, left : 0..LeaderTTL]
    /\ leader.left = 0 <=> leader.owner = NoWorker
    /\ up \in [Workers -> {"down", "boot", "run", "stop", "exit"}]
    /\ isScheduleLeader \in [Workers -> {"no", "lease", "open"}]
    /\ call \in [Workers -> [Calls -> {"idle", "get", "mine", "free", "yes", "no"}]]
    /\ since \in [Workers -> 0..Refresh]
    /\ calm \in 0..(Settled + 1)

NoKey  == [owner |-> NoWorker, left |-> 0]
NoCall == [s \in Calls |-> "idle"]

Busy(w) == \E s \in Calls : call[w][s] # "idle"

\* main sets the tick intervals after the first refresh; a process that was
\* told to stop is on its way out and not counted.
Leads(w) == up[w] = "run" /\ isScheduleLeader[w] # "no"

Init ==
    /\ leader = NoKey
    /\ up = [w \in Workers |-> "down"]
    /\ isScheduleLeader = [w \in Workers |-> "open"]
    /\ call = [w \in Workers |-> NoCall]
    /\ since = [w \in Workers |-> 0]
    /\ calm = Settled + 1

-----------------------------------------------------------------------------
(* refreshScheduleLeadership and tryHoldWorkerLeader *)

\* main: the first refresh is awaited.
Boot(w) ==
    /\ up[w] = "down"
    /\ up' = [up EXCEPT ![w] = "boot"]
    /\ \E s \in Calls : call' = [call EXCEPT ![w][s] = "get"]
    /\ since' = [since EXCEPT ![w] = 0]
    /\ calm' = 0
    /\ UNCHANGED <<leader, isScheduleLeader>>

\* The interval is due.
Start(w, s) ==
    /\ up[w] \in {"run", "stop", "exit"}
    /\ since[w] = Refresh
    /\ call[w][s] = "idle"
    /\ call' = [call EXCEPT ![w][s] = "get"]
    /\ since' = [since EXCEPT ![w] = 0]
    /\ UNCHANGED <<leader, up, isScheduleLeader, calm>>

\* Mutant: a free key counts as somebody else's.
Get_OnlyMine(w, s) ==
    /\ call[w][s] = "get"
    /\ call' = [call EXCEPT ![w][s] = IF leader.owner = w THEN "mine" ELSE "no"]
    /\ UNCHANGED <<leader, up, isScheduleLeader, since, calm>>

Get(w, s) ==
    /\ call[w][s] = "get"
    /\ call' = [call EXCEPT ![w][s] = CASE leader.owner = w        -> "mine"
                                        [] leader.owner = NoWorker -> "free"
                                        [] OTHER                   -> "no"]
    /\ UNCHANGED <<leader, up, isScheduleLeader, since, calm>>

\* Mutants: the lease is not extended; EXPIRE would create the key; the
\* branch of the holder does not return true.
Expire_NoExtend(w, s) ==
    /\ call[w][s] = "mine"
    /\ call' = [call EXCEPT ![w][s] = "yes"]
    /\ UNCHANGED <<leader, up, isScheduleLeader, since, calm>>

Expire_Create(w, s) ==
    /\ call[w][s] = "mine"
    /\ leader' = [leader EXCEPT !.left = LeaderTTL]
    /\ call' = [call EXCEPT ![w][s] = "yes"]
    /\ UNCHANGED <<up, isScheduleLeader, since, calm>>

Expire_NotTrue(w, s) ==
    /\ call[w][s] = "mine"
    /\ leader' = IF leader.owner = NoWorker THEN leader
                 ELSE [leader EXCEPT !.left = LeaderTTL]
    /\ call' = [call EXCEPT ![w][s] = "no"]
    /\ UNCHANGED <<up, isScheduleLeader, since, calm>>

\* EXPIRE does not look at the value: it extends the key of whoever has it
\* now, and its answer (there was no key) is ignored.
Expire(w, s) ==
    /\ call[w][s] = "mine"
    /\ leader' = IF leader.owner = NoWorker THEN leader
                 ELSE [leader EXCEPT !.left = LeaderTTL]
    /\ call' = [call EXCEPT ![w][s] = "yes"]
    /\ UNCHANGED <<up, isScheduleLeader, since, calm>>

SetNx(w, s) ==
    /\ call[w][s] = "free"
    /\ IF leader.owner = NoWorker
       THEN /\ leader' = [owner |-> w, left |-> LeaderTTL]
            /\ call' = [call EXCEPT ![w][s] = "yes"]
       ELSE /\ call' = [call EXCEPT ![w][s] = "no"]
            /\ UNCHANGED leader
    /\ UNCHANGED <<up, isScheduleLeader, since, calm>>

\* The call returns; the first one lets main set its intervals.
Return(w, s, flag) ==
    /\ call' = [call EXCEPT ![w][s] = "idle"]
    /\ isScheduleLeader' = [isScheduleLeader EXCEPT ![w] = flag]
    /\ IF up[w] = "boot"
       THEN up' = [up EXCEPT ![w] = "run"] /\ since' = [since EXCEPT ![w] = 0]
       ELSE UNCHANGED <<up, since>>

\* Mutant: a refusal does not clear the flag.
Answer_Sticky(w, s) ==
    /\ call[w][s] \in {"yes", "no"}
    /\ Return(w, s, IF call[w][s] = "yes" THEN "lease" ELSE isScheduleLeader[w])
    /\ UNCHANGED <<leader, calm>>

Answer(w, s) ==
    /\ call[w][s] \in {"yes", "no"}
    /\ Return(w, s, IF call[w][s] = "yes" THEN "lease" ELSE "no")
    /\ UNCHANGED <<leader, calm>>

\* A command threw: "Fail-open when Redis is unavailable".
Throw(w, s) ==
    /\ call[w][s] # "idle"
    /\ Return(w, s, "open")
    /\ calm' = 0
    /\ UNCHANGED leader

-----------------------------------------------------------------------------
(* Shutdown, death and time *)

\* SIGTERM: releaseWorkerLeader is called; intervals and calls go on until
\* the process exits.
Stop(w) ==
    /\ up[w] = "run"
    /\ up' = [up EXCEPT ![w] = "stop"]
    /\ UNCHANGED <<leader, isScheduleLeader, call, since, calm>>

\* Mutant: the key is deleted whoever has it.
Release_Any(w) ==
    /\ up[w] = "stop"
    /\ leader' = NoKey
    /\ up' = [up EXCEPT ![w] = "exit"]
    /\ UNCHANGED <<isScheduleLeader, call, since, calm>>

\* releaseCacheLock compares and deletes in one script.
Release(w) ==
    /\ up[w] = "stop"
    /\ leader' = IF leader.owner = w THEN NoKey ELSE leader
    /\ up' = [up EXCEPT ![w] = "exit"]
    /\ UNCHANGED <<isScheduleLeader, call, since, calm>>

Gone(w) ==
    /\ up' = [up EXCEPT ![w] = "down"]
    /\ isScheduleLeader' = [isScheduleLeader EXCEPT ![w] = "open"]
    /\ call' = [call EXCEPT ![w] = NoCall]
    /\ since' = [since EXCEPT ![w] = 0]
    /\ UNCHANGED <<leader, calm>>

Exit(w) == up[w] = "exit" /\ Gone(w)

\* Killed, or release failed.  The key stays until its TTL ends.
Crash(w) == up[w] \in {"boot", "run", "stop"} /\ Gone(w)

Clock ==
    /\ leader' = IF leader.left <= 1 THEN NoKey ELSE [leader EXCEPT !.left = @ - 1]
    /\ since' = [w \in Workers |-> IF up[w] = "down" \/ since[w] = Refresh THEN since[w]
                                   ELSE since[w] + 1]
    /\ calm' = IF calm > Settled THEN calm ELSE calm + 1
    /\ UNCHANGED <<up, isScheduleLeader, call>>

\* No refresh is late: neither one in flight nor one that is due.
OnTime ==
    \A w \in Workers :
       /\ Busy(w) => since[w] < Latency
       /\ up[w] = "run" /\ ~Busy(w) => since[w] < Refresh

-----------------------------------------------------------------------------
Refreshing(w) ==
    \E s \in Calls : \/ Start(w, s) \/ Get(w, s) \/ Expire(w, s) \/ SetNx(w, s)
                     \/ Answer(w, s)

Ending(w) == Release(w) \/ Exit(w)

Fault(w) == Stop(w) \/ Crash(w) \/ \E s \in Calls : Throw(w, s)

Work(w) == Boot(w) \/ Refreshing(w) \/ Ending(w) \/ Fault(w)

Next == Clock \/ \E w \in Workers : Work(w)

Spec == Init /\ [][Next]_vars

TimelyNext == (Clock /\ OnTime) \/ \E w \in Workers : Work(w)

TimelySpec == Init /\ [][TimelyNext]_vars

\* Redis answers, intervals fire, a shutdown ends, and a process that ended is
\* started again (docker-compose: restart: unless-stopped).
Fairness ==
    \A w \in Workers : WF_vars(Boot(w)) /\ WF_vars(Refreshing(w)) /\ WF_vars(Ending(w))

FairSpec == Spec /\ WF_vars(Clock) /\ Fairness

FairTimelySpec == TimelySpec /\ WF_vars(Clock /\ OnTime) /\ Fairness

-----------------------------------------------------------------------------
(* Properties *)

\* Once no command has thrown and no worker has booted for Settled, at most
\* one worker runs the schedule.  (A booted or failed-open worker can read its
\* own old key just before it expires, so one refresh interval is not enough.)
OneLeader ==
    calm > Settled => \A v, w \in Workers : Leads(v) /\ Leads(w) => v = w

\* A leader whose lease is its own neither loses the key nor is refused while
\* it runs: "a busy tick cannot lose leadership mid-work".
Holds(w) == up[w] = "run" /\ isScheduleLeader[w] = "lease" /\ leader.owner = w

LeaseIsKept ==
    [][\A w \in Workers : Holds(w) /\ up'[w] = "run" =>
          leader'.owner = w /\ isScheduleLeader'[w] # "no"]_vars

\* However late refreshes are: a key leaves its owner by expiry or by the
\* owner's own release, never by another worker's doing.
KeyIsNotStolen ==
    [][leader.owner # NoWorker /\ leader'.owner # leader.owner
          => leader.left = 1 \/ up[leader.owner] = "stop"]_vars

\* However late refreshes are: somebody leads again and again, whatever
\* crashed before, once workers stop failing.
Quiet == <>[][~ \E w \in Workers : Fault(w)]_vars

SomeLeader == Quiet => []<>(\E w \in Workers : Leads(w))

\* When refreshes are on time the leader in the end is one and the same.
StableLeader == Quiet => \E w \in Workers : <>[](Leads(w) /\ leader.owner = w)

=============================================================================
