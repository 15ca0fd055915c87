--------------------------- MODULE LockedRun_proofs ---------------------------
(***************************************************************************)
(* Theorems about LockedRun, for any number of calls, any TTL and any      *)
(* interval.                                                               *)
(***************************************************************************)
EXTENDS LockedRun, TLAPS

LEMMA RunTypeInit == Init => TypeOK
<1> SUFFICES ASSUME Init PROVE TypeOK
  OBVIOUS
<1>1. /\ lock \in [token : Callers \cup {NoCaller}, left : 0..LockTTL]
      /\ lock.left = 0 /\ lock.token = NoCaller
  BY TimesAreNumbers DEF Init, Unlocked
<1>2. saved \in -1..Interval
  BY TimesAreNumbers DEF Init
<1>3. /\ at \in [Callers -> {"idle", "ask", "won", "lost", "run", "over"}]
      /\ unread \in [Callers -> BOOLEAN]
  BY DEF Init
<1>4. overran \in BOOLEAN
  BY DEF Init
<1> QED BY <1>1, <1>2, <1>3, <1>4 DEF TypeOK

LEMMA RunTypeStep == TypeOK /\ [Next]_vars => TypeOK'
<1> SUFFICES ASSUME TypeOK, [Next]_vars PROVE TypeOK'
  OBVIOUS
<1> USE CallersAreDistinct, TimesAreNumbers DEF TypeOK
<1>1. CASE UNCHANGED vars
  BY <1>1 DEF vars
<1>2. CASE Clock
  <2>1. /\ lock' \in [token : Callers \cup {NoCaller}, left : 0..LockTTL]
        /\ lock'.left = 0 <=> lock'.token = NoCaller
    <3>1. CASE lock.left <= 1
      BY <1>2, <3>1 DEF Clock, Unlocked
    <3>2. CASE lock.left > 1
      <4>1. lock' = [token |-> lock.token, left |-> lock.left - 1]
        BY <1>2, <3>2 DEF Clock
      <4> QED BY <3>2, <4>1
    <3> QED BY <3>1, <3>2
  <2>2. saved' \in -1..Interval
    BY <1>2 DEF Clock
  <2> QED BY <1>2, <2>1, <2>2 DEF Clock
<1>3. CASE Evict
  BY <1>3 DEF Evict
<1>4. ASSUME NEW c \in Callers, Acquire(c) PROVE TypeOK'
  <2>1. at' \in [Callers -> {"idle", "ask", "won", "lost", "run", "over"}]
    BY <1>4 DEF Acquire, Goto
  <2>2. CASE lock.token = NoCaller
    <3>1. lock' = [token |-> c, left |-> LockTTL]
      BY <1>4, <2>2 DEF Acquire
    <3>2. /\ lock' \in [token : Callers \cup {NoCaller}, left : 0..LockTTL]
          /\ lock'.left # 0 /\ lock'.token # NoCaller
      BY <3>1
    <3> QED BY <1>4, <2>1, <3>2 DEF Acquire
  <2>3. CASE lock.token # NoCaller
    <3>1. lock' = lock
      BY <1>4, <2>3 DEF Acquire
    <3> QED BY <1>4, <2>1, <3>1 DEF Acquire
  <2> QED BY <2>2, <2>3
<1>5. ASSUME NEW c \in Callers,
             Begin(c) \/ Refused(c) \/ Enter(c) \/ Save(c) \/ Fault(c)
      PROVE  TypeOK'
  <2>1. at' \in [Callers -> {"idle", "ask", "won", "lost", "run", "over"}]
    <3>1. \E pc \in {"idle", "ask", "won", "lost", "run", "over"} : Goto(c, pc)
      BY <1>5 DEF Begin, Refused, Enter, Save, Fault, AcquireFails, CheckFails,
         JobFails, ReleaseFails, Die
    <3> QED BY <3>1 DEF Goto
  <2>2. unread' \in [Callers -> BOOLEAN]
    <3>1. \/ unread' = unread
          \/ \E b \in BOOLEAN : unread' = [unread EXCEPT ![c] = b]
      BY <1>5 DEF Begin, Refused, Enter, Save, Fault, AcquireFails, CheckFails,
         JobFails, ReleaseFails, Die
    <3> QED BY <3>1
  <2>3. lock' = lock /\ saved' \in {saved, 0} /\ overran' = overran
    BY <1>5 DEF Begin, Refused, Enter, Save, Fault, AcquireFails, CheckFails,
       JobFails, ReleaseFails, Die
  <2> QED BY <2>1, <2>2, <2>3
<1>6. ASSUME NEW c \in Callers, Release(c) PROVE TypeOK'
  BY <1>6 DEF Release, Goto, Unlocked
<1> QED BY <1>1, <1>2, <1>3, <1>4, <1>5, <1>6 DEF Next, Step

\* Types, however long jobs take.
THEOREM RunTypeCorrect == Spec => []TypeOK
<1> QED BY RunTypeInit, RunTypeStep, PTL DEF Spec

-----------------------------------------------------------------------------
\* A call inside owns the lock, and a tick that could read the snapshot runs
\* only while it is due.
RunInv ==
    /\ TypeOK
    /\ ~overran => /\ \A c \in Callers : Inside(c) => lock.token = c
                   /\ \A c \in Ticks : at[c] = "run" /\ ~unread[c] => Due

LEMMA RunStep == RunInv /\ [Next]_vars => RunInv'
<1> SUFFICES ASSUME RunInv, [Next]_vars, ~overran' PROVE RunInv'
  BY RunTypeStep DEF RunInv
<1>0. ~overran
  BY DEF Next, Clock, Evict, Step, Fault, Begin, Acquire, Refused, Enter, Save, Release,
     AcquireFails, CheckFails, JobFails, ReleaseFails, Die, vars
<1>1. TypeOK /\ TypeOK'
  BY RunTypeStep DEF RunInv
<1>2. CASE UNCHANGED vars
  BY <1>0, <1>1, <1>2 DEF RunInv, vars, Inside, Due
<1>3. CASE Clock
  <2>0. InTime
    BY <1>3 DEF Clock
  <2>1. ASSUME NEW c \in Callers, Inside(c)' PROVE lock'.token = c
    <3>1. Inside(c) /\ lock.token = c /\ lock.left > 1
      BY <1>0, <1>3, <2>0, <2>1 DEF Clock, Inside, RunInv, InTime
    <3>2. lock' = [token |-> lock.token, left |-> lock.left - 1]
      BY <1>1, <1>3, <3>1, TimesAreNumbers DEF Clock, TypeOK
    <3> QED BY <3>1, <3>2
  <2>2. Due => Due'
    BY <1>3 DEF Clock, Due
  <2>3. at' = at /\ unread' = unread
    BY <1>3 DEF Clock
  <2> QED BY <1>0, <1>1, <2>1, <2>2, <2>3 DEF RunInv
<1>4. CASE Evict
  BY <1>0, <1>1, <1>4 DEF Evict, RunInv, Inside, Due
<1>5. ASSUME NEW c \in Callers, Step(c) \/ Fault(c) PROVE RunInv'
  <2>1. ASSUME NEW d \in Callers, Inside(d)' PROVE lock'.token = d
    <3>1. CASE Acquire(c)
      <4>1. CASE lock.token = NoCaller
        BY <1>1, <2>1, <3>1, <4>1, CallersAreDistinct
           DEF Acquire, Goto, Inside, RunInv, TypeOK
      <4>2. CASE lock.token # NoCaller
        BY <1>0, <1>1, <2>1, <3>1, <4>2 DEF Acquire, Goto, Inside, RunInv, TypeOK
      <4> QED BY <4>1, <4>2
    <3>2. CASE Release(c)
      <4>1. d # c /\ Inside(d)
        BY <1>1, <2>1, <3>2 DEF Release, Goto, Inside, TypeOK
      <4> QED BY <1>0, <3>2, <4>1 DEF Release, RunInv
    <3>3. CASE Begin(c) \/ Refused(c) \/ Enter(c) \/ Save(c) \/ Fault(c)
      <4>1. lock' = lock
        BY <3>3 DEF Begin, Refused, Enter, Save, Fault, AcquireFails, CheckFails,
           JobFails, ReleaseFails, Die
      <4>2. Inside(d)
        BY <1>1, <2>1, <3>3 DEF Begin, Refused, Enter, Save, Fault, AcquireFails,
           CheckFails, JobFails, ReleaseFails, Die, Goto, Inside, TypeOK
      <4> QED BY <1>0, <4>1, <4>2 DEF RunInv
    <3> QED BY <1>5, <3>1, <3>2, <3>3 DEF Step
  <2>2. ASSUME NEW d \in Ticks, at'[d] = "run", ~unread'[d] PROVE Due'
    <3>0. d \in Callers
      BY DEF Callers
    <3>1. CASE Save(c)
      <4>1. at[d] = "run" /\ c # d
        BY <1>1, <2>2, <3>0, <3>1 DEF Save, Goto, TypeOK
      <4>2. Inside(c) /\ Inside(d)
        BY <3>1, <4>1 DEF Save, Inside
      <4> QED BY <1>0, <3>0, <4>1, <4>2 DEF RunInv
    <3>2. CASE ~Save(c)
      <4>1. saved' = saved
        BY <1>5, <3>2 DEF Step, Fault, Begin, Acquire, Refused, Enter, Release,
           AcquireFails, CheckFails, JobFails, ReleaseFails, Die
      <4>2. (at[d] = "run" /\ ~unread[d]) \/ Due
        BY <1>1, <1>5, <2>2, <3>0, <3>2 DEF Step, Fault, Begin, Acquire, Refused, Enter,
           Release, AcquireFails, CheckFails, JobFails, ReleaseFails, Die, Goto, TypeOK
      <4> QED BY <1>0, <4>1, <4>2 DEF RunInv, Due
    <3> QED BY <3>1, <3>2
  <2> QED BY <1>0, <1>1, <2>1, <2>2 DEF RunInv
<1> QED BY <1>2, <1>3, <1>4, <1>5 DEF Next

LEMMA RunInvariant == Spec => []RunInv
<1>1. Init => RunInv
  <2>1. Init => \A c \in Callers : at[c] = "idle"
    BY DEF Init
  <2>2. Ticks \subseteq Callers
    BY DEF Callers
  <2> QED BY <2>1, <2>2, RunTypeInit DEF RunInv, Inside
<1> QED BY <1>1, RunStep, PTL DEF Spec

\* At most one call is in the job, for any number of calls.
THEOREM OneRunAtATime == Spec => []OneAtATime
<1>1. RunInv => OneAtATime
  BY DEF RunInv, OneAtATime
<1> QED BY <1>1, RunInvariant, PTL

\* A scheduled scan replaces a snapshot only when it is due.
THEOREM ScansAreDue == Spec => ScanOnlyWhenDue
<1>1. RunInv /\ [Next]_vars
      => [~overran => \A c \in Ticks :
             at[c] = "run" /\ saved' = 0 /\ at'[c] = "over" /\ ~unread[c] => Due]_vars
  BY DEF RunInv
<1> QED BY <1>1, RunInvariant, PTL DEF Spec, ScanOnlyWhenDue

\* The lock leaves its holder by expiry or by its own release, however long
\* jobs take.
THEOREM OnlyHoldersRelease == Spec => LockIsNotStolen
<1>1. ASSUME TypeOK, [Next]_vars, lock.token # NoCaller, lock'.token # lock.token
      PROVE  lock.left = 1 \/ at[lock.token] = "over"
  <2>1. CASE Clock
    <3>1. lock.left \in Nat /\ lock.left # 0
      BY <1>1, TimesAreNumbers DEF TypeOK
    <3>2. lock.left > 1 => lock'.token = lock.token
      BY <1>1, <2>1, <3>1 DEF Clock, TypeOK
    <3> QED BY <1>1, <3>1, <3>2
  <2>2. CASE Evict \/ UNCHANGED vars
    BY <1>1, <2>2 DEF Evict, vars
  <2>3. ASSUME NEW c \in Callers, Step(c) \/ Fault(c)
        PROVE  lock.left = 1 \/ at[lock.token] = "over"
    <3>1. CASE Release(c)
      BY <1>1, <3>1 DEF Release
    <3>2. CASE ~Release(c)
      <4>1. lock' = lock
        BY <1>1, <2>3, <3>2 DEF Step, Fault, Begin, Acquire, Refused, Enter, Save,
           AcquireFails, CheckFails, JobFails, ReleaseFails, Die
      <4> QED BY <1>1, <4>1
    <3> QED BY <3>1, <3>2
  <2> QED BY <1>1, <2>1, <2>2, <2>3 DEF Next
<1>2. TypeOK /\ [Next]_vars
      => [lock.token # NoCaller /\ lock'.token # lock.token
            => lock.left = 1 \/ at[lock.token] = "over"]_vars
  BY <1>1
<1> QED BY <1>2, RunTypeCorrect, PTL DEF Spec, LockIsNotStolen

===============================================================================
