------------------------------ MODULE LockedRun ------------------------------
(***************************************************************************)
(* A job that runs under a token lock in Redis: acquireCacheLock, the job, *)
(* releaseCacheLock in a finally.  Starts just take the lock (the swing    *)
(* paper tick, the TA prewarm, an LTG scan a user starts).  Ticks (the     *)
(* scheduled LTG scan) look whether the saved snapshot is older than the   *)
(* interval, take the lock and look again.                                 *)
(*                                                                         *)
(* The lock has a TTL and nobody renews it: a job may take longer.  A Redis *)
(* call may fail at any time: asking for the lock then answers "not        *)
(* acquired" (even if it was), reading the snapshot answers "none", saving *)
(* and releasing do nothing.                                               *)
(***************************************************************************)
EXTENDS Integers

CONSTANTS
    Ticks,       \* calls of the scheduled job, with the check
    Starts,      \* calls without it
    NoCaller,    \* the lock is free
    LockTTL,     \* TTL of the lock
    Interval     \* interval_sec: a snapshot older than this is due

Callers == Ticks \cup Starts

ASSUME CallersAreDistinct == NoCaller \notin Callers /\ Ticks \cap Starts = {}
ASSUME TimesAreNumbers == LockTTL \in Nat \ {0} /\ Interval \in Nat \ {0}

VARIABLES
    lock,     \* the key: token and time left
    at,       \* what each call is doing
    saved,    \* age of the snapshot (at most Interval), or -1 if there is none
    unread,   \* the last look of the call at the snapshot failed
    overran   \* history: a job has outlived its lock

vars == <<lock, at, saved, unread, overran>>

TypeOK ==
    /\ lock \in [token : Callers \cup {NoCaller}, left : 0..LockTTL]
    /\ lock.left = 0 <=> lock.token = NoCaller
    /\ at \in [Callers -> {"idle", "ask", "won", "lost", "run", "over"}]
    /\ saved \in -1..Interval
    /\ unread \in [Callers -> BOOLEAN]
    /\ overran \in BOOLEAN

Unlocked == [token |-> NoCaller, left |-> 0]

\* Between a successful acquire and the end of the release.
Inside(c) == at[c] \in {"won", "run", "over"}

\* Mutant: the age of the snapshot is not looked at.
Due_OnlyMissing == saved = -1

\* shouldStartLtgAutoScan: there is no snapshot or it is old enough.
Due == saved \in {-1, Interval}

Init ==
    /\ lock = Unlocked
    /\ at = [c \in Callers |-> "idle"]
    /\ saved = -1
    /\ unread = [c \in Callers |-> FALSE]
    /\ overran = FALSE

-----------------------------------------------------------------------------
Goto(c, pc) == at' = [at EXCEPT ![c] = pc]

\* A call begins; a tick goes on only if the scan looks due.
Begin(c) ==
    /\ at[c] = "idle"
    /\ c \in Ticks => Due
    /\ Goto(c, "ask")
    /\ UNCHANGED <<lock, saved, unread, overran>>

\* Mutant: the lock is set without its TTL.
Acquire_NoTtl(c) ==
    /\ at[c] = "ask"
    /\ IF lock.token = NoCaller
       THEN lock' = [token |-> c, left |-> 0] /\ Goto(c, "won")
       ELSE UNCHANGED lock /\ Goto(c, "lost")
    /\ UNCHANGED <<saved, unread, overran>>

\* SET key token EX ttl NX; the token is new with every call.
Acquire(c) ==
    /\ at[c] = "ask"
    /\ IF lock.token = NoCaller
       THEN lock' = [token |-> c, left |-> LockTTL] /\ Goto(c, "won")
       ELSE UNCHANGED lock /\ Goto(c, "lost")
    /\ UNCHANGED <<saved, unread, overran>>

\* Mutant: a refused call goes on.
Refused_Runs(c) ==
    /\ at[c] = "lost"
    /\ Goto(c, "run")
    /\ UNCHANGED <<lock, saved, unread, overran>>

Refused(c) ==
    /\ at[c] = "lost"
    /\ Goto(c, "idle")
    /\ UNCHANGED <<lock, saved, unread, overran>>

\* Mutant: no second look under the lock.
Enter_NoRecheck(c) ==
    /\ at[c] = "won"
    /\ Goto(c, "run")
    /\ unread' = [unread EXCEPT ![c] = FALSE]
    /\ UNCHANGED <<lock, saved, overran>>

\* Under the lock a tick looks again.
Enter(c) ==
    /\ at[c] = "won"
    /\ Goto(c, IF c \in Ticks /\ ~Due THEN "over" ELSE "run")
    /\ unread' = [unread EXCEPT ![c] = FALSE]
    /\ UNCHANGED <<lock, saved, overran>>

\* The job is done and has saved its snapshot.
Save(c) ==
    /\ at[c] = "run"
    /\ saved' = 0
    /\ Goto(c, "over")
    /\ UNCHANGED <<lock, unread, overran>>

\* Mutant: DEL without comparing the token.
Release_Any(c) ==
    /\ at[c] = "over"
    /\ lock' = Unlocked
    /\ Goto(c, "idle")
    /\ UNCHANGED <<saved, unread, overran>>

\* releaseCacheLock compares the token and deletes in one script.
Release(c) ==
    /\ at[c] = "over"
    /\ lock' = IF lock.token = c THEN Unlocked ELSE lock
    /\ Goto(c, "idle")
    /\ UNCHANGED <<saved, unread, overran>>

-----------------------------------------------------------------------------
(* Failures *)

\* The acquire throws: the caller is told it did not get the lock, which may
\* be held in its name until the TTL ends.
AcquireFails(c) ==
    /\ at[c] \in {"ask", "won", "lost"}
    /\ Goto(c, "idle")
    /\ UNCHANGED <<lock, saved, unread, overran>>

\* Reading the snapshot fails: it looks as if there were none.
CheckFails(c) ==
    /\ c \in Ticks
    /\ \/ at[c] = "idle" /\ Goto(c, "ask") /\ UNCHANGED unread
       \/ at[c] = "won" /\ Goto(c, "run") /\ unread' = [unread EXCEPT ![c] = TRUE]
    /\ UNCHANGED <<lock, saved, overran>>

\* The job throws, or its save does nothing.
JobFails(c) ==
    /\ at[c] = "run"
    /\ Goto(c, "over")
    /\ UNCHANGED <<lock, saved, unread, overran>>

ReleaseFails(c) ==
    /\ at[c] = "over"
    /\ Goto(c, "idle")
    /\ UNCHANGED <<lock, saved, unread, overran>>

Die(c) ==
    /\ at[c] # "idle"
    /\ Goto(c, "idle")
    /\ UNCHANGED <<lock, saved, unread, overran>>

\* The snapshot is evicted or flushed.
Evict ==
    /\ saved # -1
    /\ saved' = -1
    /\ UNCHANGED <<lock, at, unread, overran>>

\* No lock ends now under its job.
InTime == \A c \in Callers : Inside(c) /\ lock.token = c => lock.left > 1

Clock ==
    /\ lock' = IF lock.left <= 1 THEN Unlocked ELSE [lock EXCEPT !.left = @ - 1]
    /\ saved' = IF saved \in {-1, Interval} THEN saved ELSE saved + 1
    /\ overran' = (overran \/ ~InTime)
    /\ UNCHANGED <<at, unread>>

-----------------------------------------------------------------------------
Step(c) == Begin(c) \/ Acquire(c) \/ Refused(c) \/ Enter(c) \/ Save(c) \/ Release(c)

Fault(c) ==
    AcquireFails(c) \/ CheckFails(c) \/ JobFails(c) \/ ReleaseFails(c) \/ Die(c)

Next == Clock \/ Evict \/ \E c \in Callers : Step(c) \/ Fault(c)

Spec == Init /\ [][Next]_vars

\* Time passes, calls go on, and the interval calls the tick again.
FairSpec ==
    /\ Spec /\ WF_vars(Clock)
    /\ \A c \in Callers : WF_vars(Acquire(c) \/ Refused(c) \/ Enter(c) \/ Save(c) \/ Release(c))
    /\ \A c \in Ticks : WF_vars(Begin(c))

-----------------------------------------------------------------------------
(* Properties *)

\* "Swing paper tick lock held", "LTG auto scan already running": until a job
\* outlives its lock, at most one call is in the job.
OneAtATime ==
    ~overran => \A c, d \in Callers : Inside(c) /\ Inside(d) => c = d

\* Until a job outlives its lock, a scheduled scan replaces a snapshot only
\* when it is due, although other ticks and users' scans were running when it
\* was found due first (unless it could not read it).
ScanOnlyWhenDue ==
    [][~overran => \A c \in Ticks :
          at[c] = "run" /\ saved' = 0 /\ at'[c] = "over" /\ ~unread[c] => Due]_vars

\* However long jobs take: "never delete another worker's lock".
LockIsNotStolen ==
    [][lock.token # NoCaller /\ lock'.token # lock.token
          => lock.left = 1 \/ at[lock.token] = "over"]_vars

\* Calls stop failing: in the end every step is one of a call that works.
Quiet == <>[][\A c \in Callers : Fault(c) => Step(c)]_vars

\* However long jobs take, and whatever locks dead calls left behind: once
\* calls stop failing the snapshot is renewed again and again.
ScansAgain == Quiet => []<>(saved = 0)

=============================================================================
