------------------------------- MODULE AutoScan -------------------------------
(***************************************************************************)
(* The auto swing scan: ticks and users' triggers look whether a scan is   *)
(* under way and due, plan it and create a job row; a worker takes the job *)
(* from the queue, scans and saves a snapshot in Redis and in the archive; *)
(* readers that find no snapshot in Redis put the newest archived one back. *)
(*                                                                         *)
(* A call's looks and its plan are milliseconds apart and one step here;   *)
(* its job row is created later, and every await of a job separates two    *)
(* actions.  Of a snapshot the model keeps its times, as ages, and whether *)
(* the scan that set last_full_scan_at was over the whole universe.  A     *)
(* universe has at least 25 symbols, so every scan goes through the queue. *)
(*                                                                         *)
(* BullMQ gives a job a second attempt when it throws, and gives it to     *)
(* another worker the first time its worker dies; it does not write job    *)
(* rows.  Which time it is is left open here.                              *)
(***************************************************************************)
EXTENDS Integers

CONSTANTS
    Callers,        \* calls of tickSwingAutoScan or triggerSwingAutoScan
    Readers,        \* calls of getSwingAutoSnapshotDurable
    Jobs,           \* job rows that are not done or failed for good   (bound)
    ScanInterval,   \* SCAN_INTERVAL_SEC
    FullInterval,   \* FULL_SCAN_INTERVAL_SEC
    None            \* no snapshot

ASSUME IntervalsAreNumbers == ScanInterval \in Nat \ {0} /\ FullInterval \in Nat \ {0}

Snapshots ==
    [saved : 0..ScanInterval, full : 0..FullInterval, whole : BOOLEAN]

ASSUME NoneIsNoSnapshot == None \notin Snapshots

VARIABLES
    redis,     \* the snapshot in Redis
    archive,   \* the archived snapshot that was saved last
    caller,    \* what each caller has found out
    job,       \* each job row, with what its worker has read
    reader,    \* the archived snapshot each reader is about to put back
    orphans    \* there are rows, pending or running, that nobody will finish

vars == <<redis, archive, caller, job, reader, orphans>>

MaybeSnapshot == Snapshots \cup {None}

Modes == {"full", "incremental"}

TypeOK ==
    /\ redis \in MaybeSnapshot /\ archive \in MaybeSnapshot
    /\ caller \in [Callers -> [at : {"idle", "planned"}, mode : Modes]]
    /\ job \in [Jobs -> [at : {"none", "queued", "scan", "saved", "archived",
                               "retry"},
                         mode : Modes, snap : MaybeSnapshot]]
    /\ reader \in [Readers -> MaybeSnapshot]
    /\ orphans \in BOOLEAN

NoJob == [at |-> "none", mode |-> "full", snap |-> None]
NoCall == [at |-> "idle", mode |-> "full"]

Init ==
    /\ redis = None /\ archive = None
    /\ caller = [c \in Callers |-> NoCall]
    /\ job = [j \in Jobs |-> NoJob]
    /\ reader = [r \in Readers |-> None]
    /\ orphans = FALSE

Working(j) == job[j].at \in {"scan", "saved", "archived"}

\* hasActiveAutoScanJob, when no user's scan is newer.
Active == orphans \/ \E j \in Jobs : Working(j) \/ job[j].at = "queued"

\* Mutant: the age is not looked at.
Due_OnlyMissing(s) == s = None

\* shouldStartAutoScan
Due(s) == s # None => s.saved = ScanInterval

\* shouldRunFullScan; a changed regime and an empty list of hits are choices.
FullNeeded(s) == s # None => s.full = FullInterval

-----------------------------------------------------------------------------
(* Callers; s is what reading Redis answers *)

\* The mode of a plan made when Redis answered s.
PlanMode(s) == {m \in Modes : FullNeeded(s) => m = "full"}

Planned(c, modes) ==
    \E m \in modes : caller' = [caller EXCEPT ![c] = [at |-> "planned", mode |-> m]]

\* Not due, or a job is active: the call returns.
Plan(c, s) ==
    /\ caller[c].at = "idle"
    /\ ~Active
    /\ Due(s)
    /\ Planned(c, PlanMode(s))
    /\ UNCHANGED <<redis, archive, job, reader, orphans>>

\* The look at the job rows sees the newest active scan only, so a user's own
\* scan may hide a radar scan.
PlanHidden(c, s) ==
    /\ caller[c].at = "idle"
    /\ Active
    /\ Due(s)
    /\ Planned(c, PlanMode(s))
    /\ UNCHANGED <<redis, archive, job, reader, orphans>>

\* A user forces a full scan, due or not.
Force(c) ==
    /\ caller[c].at = "idle"
    /\ ~Active
    /\ Planned(c, {"full"})
    /\ UNCHANGED <<redis, archive, job, reader, orphans>>

\* The row is created and the job enqueued.
Create(c) ==
    /\ caller[c].at = "planned"
    /\ \E j \in Jobs :
         /\ job[j].at = "none"
         /\ job' = [job EXCEPT ![j] = [NoJob EXCEPT !.at = "queued", !.mode = caller[c].mode]]
    /\ caller' = [caller EXCEPT ![c] = NoCall]
    /\ UNCHANGED <<redis, archive, reader, orphans>>

-----------------------------------------------------------------------------
(* Jobs *)

\* What a scan keeps of the snapshot it read: not saved_at, which is set anew.
Base(mode, s) ==
    IF mode = "full" \/ s = None THEN None ELSE [s EXCEPT !.saved = ScanInterval]

\* A worker takes the job and reads the snapshot.
Start(j, s) ==
    /\ job[j].at \in {"queued", "retry"}
    /\ job' = [job EXCEPT ![j].at = "scan", ![j].snap = Base(job[j].mode, s)]
    /\ UNCHANGED <<redis, archive, caller, reader, orphans>>

\* Mutant: last_full_scan_at is set by every scan.
Scanned_FullNow(j) ==
    IF job[j].snap # None THEN [job[j].snap EXCEPT !.saved = 0, !.full = 0]
    ELSE [saved |-> 0, full |-> 0, whole |-> job[j].mode = "full"]

\* The snapshot the scan makes.  Merged into another, it keeps that one's
\* last_full_scan_at; an incremental plan that found none counts as a full scan,
\* of the symbols of the plan.
Scanned(j) ==
    IF job[j].snap # None THEN [job[j].snap EXCEPT !.saved = 0]
    ELSE [saved |-> 0, full |-> 0, whole |-> job[j].mode = "full"]

Save(j) ==
    /\ job[j].at = "scan"
    /\ redis' = Scanned(j)
    /\ job' = [job EXCEPT ![j].at = "saved", ![j].snap = Scanned(j)]
    /\ UNCHANGED <<archive, caller, reader, orphans>>

\* The newest archived row is the one with the latest savedAt.
Archive(j) ==
    /\ job[j].at = "saved"
    /\ archive' = IF archive = None \/ job[j].snap.saved <= archive.saved
                  THEN job[j].snap ELSE archive
    /\ job' = [job EXCEPT ![j].at = "archived", ![j].snap = None]
    /\ UNCHANGED <<redis, caller, reader, orphans>>

\* The row is done.
Finish(j) ==
    /\ job[j].at = "archived"
    /\ job' = [job EXCEPT ![j] = NoJob]
    /\ UNCHANGED <<redis, archive, caller, reader, orphans>>

-----------------------------------------------------------------------------
(* Readers *)

Miss(r, s) ==
    /\ reader[r] = None
    /\ s = None
    /\ archive # None
    /\ reader' = [reader EXCEPT ![r] = archive]
    /\ UNCHANGED <<redis, archive, caller, job, orphans>>

Warm(r) ==
    /\ reader[r] # None
    /\ redis' = reader[r]
    /\ reader' = [reader EXCEPT ![r] = None]
    /\ UNCHANGED <<archive, caller, job, orphans>>

-----------------------------------------------------------------------------
(* Failures *)

\* The scan throws: the row is failed, and running again if this was the
\* first attempt.
Throw(j) ==
    /\ Working(j)
    /\ job' \in {[job EXCEPT ![j] = NoJob],
                 [job EXCEPT ![j].at = "retry", ![j].snap = None]}
    /\ UNCHANGED <<redis, archive, caller, reader, orphans>>

\* The worker dies: another one takes the job.
Crash(j) ==
    /\ Working(j)
    /\ job' = [job EXCEPT ![j].at = "queued", ![j].snap = None]
    /\ UNCHANGED <<redis, archive, caller, reader, orphans>>

\* The row is created but not enqueued: the caller dies, or the queue throws.
CreateOnly(c) ==
    /\ caller[c].at = "planned"
    /\ caller' = [caller EXCEPT ![c] = NoCall]
    /\ orphans' = TRUE
    /\ UNCHANGED <<redis, archive, job, reader>>

\* The worker dies again, or the last attempt cannot write that it failed.
Abandon(j) ==
    /\ Working(j)
    /\ job' = [job EXCEPT ![j] = NoJob]
    /\ orphans' = TRUE
    /\ UNCHANGED <<redis, archive, caller, reader>>

\* The write to Redis does nothing, the archive's throws.
SaveFails(j) ==
    /\ job[j].at = "scan"
    /\ job' = [job EXCEPT ![j].at = "saved", ![j].snap = Scanned(j)]
    /\ UNCHANGED <<redis, archive, caller, reader, orphans>>

ArchiveFails(j) ==
    /\ job[j].at = "saved"
    /\ job' = [job EXCEPT ![j].at = "archived", ![j].snap = None]
    /\ UNCHANGED <<redis, archive, caller, reader, orphans>>

CallerDies(c) ==
    /\ caller[c].at # "idle"
    /\ caller' = [caller EXCEPT ![c] = NoCall]
    /\ UNCHANGED <<redis, archive, job, reader, orphans>>

\* Redis cannot be read, which looks as if there were no snapshot.
Blind ==
    /\ redis # None
    /\ \/ \E c \in Callers : Plan(c, None) \/ PlanHidden(c, None)
       \/ \E j \in Jobs : Start(j, None)
       \/ \E r \in Readers : Miss(r, None)

\* The key is flushed or evicted, or its TTL ends.
Evict ==
    /\ redis # None
    /\ redis' = None
    /\ UNCHANGED <<archive, caller, job, reader, orphans>>

-----------------------------------------------------------------------------
Grown(age, bound) == IF age = bound THEN age ELSE age + 1

Older(s) ==
    IF s = None THEN None
    ELSE [s EXCEPT !.saved = Grown(@, ScanInterval), !.full = Grown(@, FullInterval)]

Clock ==
    /\ redis' = Older(redis) /\ archive' = Older(archive)
    /\ job' = [j \in Jobs |-> [job[j] EXCEPT !.snap = Older(@)]]
    /\ reader' = [r \in Readers |-> Older(reader[r])]
    /\ UNCHANGED <<caller, orphans>>

Call(c) == Plan(c, redis) \/ Create(c)

Work(j) ==
    \/ Start(j, redis) \/ Save(j) \/ Archive(j) \/ Finish(j)

Fault ==
    \/ Blind \/ Evict
    \/ \E c \in Callers : CallerDies(c) \/ CreateOnly(c)
    \/ \E j \in Jobs : Throw(j) \/ Crash(j) \/ Abandon(j) \/ SaveFails(j) \/ ArchiveFails(j)

Regular ==
    \/ \E c \in Callers : Call(c) \/ PlanHidden(c, redis) \/ Force(c)
    \/ \E j \in Jobs : Work(j)
    \/ \E r \in Readers : Miss(r, redis) \/ Warm(r)

Next == Clock \/ Fault \/ Regular

Spec == Init /\ [][Next]_vars

\* Time passes, the interval calls the tick, BullMQ delivers jobs, commands
\* are answered.
FairSpec ==
    /\ Spec /\ WF_vars(Clock)
    /\ \A c \in Callers : WF_vars(Call(c))
    /\ \A j \in Jobs : WF_vars(Work(j))
    /\ \A r \in Readers : WF_vars(Warm(r))

-----------------------------------------------------------------------------
(* Properties *)

\* Nothing fails any more: in the end every step is one that may happen
\* without a failure.
Quiet == <>[][Fault => Regular]_vars

NoOrphans == [](~orphans)

Fresh == redis # None /\ redis.saved = 0

\* Once nothing fails any more and no abandoned job row is left, snapshots are
\* saved again and again, whatever was evicted, put back late, hidden by a
\* user's own scan or scanned twice.
ScansGoOn == Quiet /\ NoOrphans => []<>Fresh

\* And so are snapshots of full scans of the whole universe, also after one of
\* fewer symbols was recorded as full, and when scans overlap.
FullScansGoOn == Quiet /\ NoOrphans => []<>(Fresh /\ redis.full = 0 /\ redis.whole)

=============================================================================
