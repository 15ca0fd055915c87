-------------------------- MODULE WorkerLease_proofs --------------------------
(***************************************************************************)
(* Theorems about WorkerLease, for any number of workers and any TTL,      *)
(* interval and latency that satisfy RefreshFits.  The inductive invariant *)
(* says how old the lease behind each flag can be, and how long ago the    *)
(* disturbance behind a flag without a lease happened.                     *)
(***************************************************************************)
EXTENDS WorkerLease, TLAPS

LiveUp == {"boot", "run"}

\* The key is w's and was written at most n before w's last refresh began,
\* or after.
Fresh(w, n) == leader.owner = w /\ leader.left >= LeaderTTL - n - since[w]

\* A refresh is alone and on time.
Alone(w) ==
    /\ Busy(w) => since[w] <= Latency
    /\ \A s, t \in Calls : call[w][s] # "idle" /\ call[w][t] # "idle" => s = t
    /\ up[w] = "down" => ~Busy(w)
    /\ up[w] = "boot" => Busy(w) /\ calm <= since[w]

\* What stands behind the flag of a running worker.
Backed(w) ==
    up[w] = "run" =>
       /\ isScheduleLeader[w] = "open" =>
             calm <= since[w] + (IF Busy(w) THEN Refresh ELSE 0)
       /\ isScheduleLeader[w] = "lease" =>
             LET n == IF Busy(w) THEN Refresh ELSE 0 IN
             \/ Fresh(w, Latency + n)
             \/ leader.owner # w /\ calm <= Refresh + n + since[w]
       /\ isScheduleLeader[w] = "no" /\ ~Busy(w) => leader.owner # w

\* What stands behind the answers a refresh has seen.
Seen(w) ==
    up[w] \in LiveUp => \A s \in Calls :
       /\ call[w][s] = "get" /\ up[w] = "run" /\ isScheduleLeader[w] = "no"
             => leader.owner # w
       /\ call[w][s] = "mine" =>
             \/ up[w] = "run" /\ isScheduleLeader[w] = "lease" /\ leader.owner = w
             \/ calm <= Refresh + since[w]
       /\ call[w][s] \in {"free", "no"} => leader.owner # w
       /\ call[w][s] = "yes" =>
             \/ Fresh(w, 0)
             \/ leader.owner # w /\ calm <= Refresh + since[w]

Sound(w) == Alone(w) /\ Backed(w) /\ Seen(w)

LeaseInv == TypeOK /\ \A w \in Workers : Sound(w)

LEMMA InitSound == Init => LeaseInv
<1> SUFFICES ASSUME Init PROVE LeaseInv
  OBVIOUS
<1> USE NoWorkerIsNone, TimesAreNumbers DEF Init
<1>1. TypeOK
  BY DEF TypeOK, NoKey, NoCall, Settled
<1>2. \A w \in Workers : Sound(w)
  BY DEF Sound, Alone, Backed, Seen, Busy, NoCall, LiveUp
<1> QED BY <1>1, <1>2 DEF LeaseInv

LEMMA CountUp == \A k \in Nat : \A n \in 0..k : n # k => n + 1 \in 0..k
  OBVIOUS

LEMMA TypeStep == TypeOK /\ [Next]_vars => TypeOK'
<1> SUFFICES ASSUME TypeOK, [Next]_vars PROVE TypeOK'
  OBVIOUS
<1> USE NoWorkerIsNone, TimesAreNumbers DEF TypeOK
<1>1. CASE UNCHANGED vars
  BY <1>1 DEF vars
<1>2. CASE Clock
  <2>1. leader' \in [owner : Workers \cup {NoWorker}, left : 0..LeaderTTL]
        /\ (leader'.left = 0 <=> leader'.owner = NoWorker)
    <3>1. CASE leader.left <= 1
      BY <1>2, <3>1 DEF Clock, NoKey
    <3>2. CASE leader.left > 1
      <4>1. leader' = [owner |-> leader.owner, left |-> leader.left - 1]
        BY <1>2, <3>2 DEF Clock
      <4> QED BY <3>2, <4>1
    <3> QED BY <3>1, <3>2
  <2>2. since' \in [Workers -> 0..Refresh]
    <3>1. \A w \in Workers : since[w] \in 0..Refresh
      OBVIOUS
    <3>2. ASSUME NEW w \in Workers, since[w] # Refresh
          PROVE  since[w] + 1 \in 0..Refresh
      BY <3>1, <3>2, CountUp
    <3> QED BY <1>2, <3>1, <3>2 DEF Clock
  <2>3. calm' \in 0..(Settled + 1)
    BY <1>2 DEF Clock, Settled
  <2> QED BY <1>2, <2>1, <2>2, <2>3 DEF Clock
<1>3. ASSUME NEW w \in Workers, Work(w) PROVE TypeOK'
  <2>1. CASE Boot(w)
    BY <2>1 DEF Boot, Settled
  <2>2. ASSUME NEW s \in Calls, Start(w, s) PROVE TypeOK'
    BY <2>2 DEF Start
  <2>3. ASSUME NEW s \in Calls, Get(w, s) PROVE TypeOK'
    BY <2>3 DEF Get
  <2>4. ASSUME NEW s \in Calls, Expire(w, s) PROVE TypeOK'
    BY <2>4 DEF Expire
  <2>5. ASSUME NEW s \in Calls, SetNx(w, s) PROVE TypeOK'
    <3>1. CASE leader.owner = NoWorker
      <4>1. leader' = [owner |-> w, left |-> LeaderTTL]
        BY <2>5, <3>1 DEF SetNx
      <4>2. leader' \in [owner : Workers \cup {NoWorker}, left : 0..LeaderTTL]
        BY <4>1
      <4>3. ~(leader'.left = 0) /\ ~(leader'.owner = NoWorker)
        BY <4>1
      <4> QED BY <2>5, <3>1, <4>2, <4>3 DEF SetNx
    <3>2. CASE leader.owner # NoWorker
      <4>1. UNCHANGED <<leader, up, isScheduleLeader, since, calm>>
        BY <2>5, <3>2 DEF SetNx
      <4>2. call' \in [Workers -> [Calls -> {"idle", "get", "mine", "free", "yes", "no"}]]
        BY <2>5, <3>2 DEF SetNx
      <4> QED BY <4>1, <4>2
    <3> QED BY <3>1, <3>2
  <2>6. ASSUME NEW s \in Calls, Answer(w, s) PROVE TypeOK'
    BY <2>6 DEF Answer, Return
  <2>7. CASE Release(w)
    BY <2>7 DEF Release, NoKey
  <2>8. CASE Exit(w) \/ Crash(w)
    <3>1. Gone(w)
      BY <2>8 DEF Exit, Crash
    <3>2. call' \in [Workers -> [Calls -> {"idle", "get", "mine", "free", "yes", "no"}]]
      BY <3>1 DEF Gone, NoCall
    <3> QED BY <3>1, <3>2 DEF Gone
  <2>9. CASE Stop(w)
    BY <2>9 DEF Stop
  <2>10. ASSUME NEW s \in Calls, Throw(w, s) PROVE TypeOK'
    BY <2>10 DEF Throw, Return, Settled
  <2> QED BY <1>3, <2>1, <2>2, <2>3, <2>4, <2>5, <2>6, <2>7, <2>8, <2>9, <2>10
          DEF Work, Refreshing, Ending, Fault
<1> QED BY <1>1, <1>2, <1>3 DEF Next

\* A worker that a step does not touch: it keeps what it had if the step keeps
\* its key and does not give it one.
LEMMA Untouched ==
    ASSUME TypeOK, TypeOK', NEW v \in Workers, Sound(v),
           up'[v] = up[v], isScheduleLeader'[v] = isScheduleLeader[v],
           call'[v] = call[v], since'[v] = since[v], calm' <= calm,
           leader.owner = v => leader'.owner = v /\ leader'.left >= leader.left,
           leader.owner # v => leader'.owner # v
    PROVE  Sound(v)'
<1> USE TimesAreNumbers DEF TypeOK
<1>1. Busy(v)' <=> Busy(v)
  BY DEF Busy
<1>2. Alone(v)'
  BY <1>1 DEF Sound, Alone
<1>3. \A n \in Nat : Fresh(v, n) => Fresh(v, n)'
  BY DEF Fresh
<1>4. Backed(v)'
  BY <1>1, <1>3 DEF Sound, Backed
<1>5. Seen(v)'
  BY <1>3 DEF Sound, Seen
<1> QED BY <1>2, <1>4, <1>5 DEF Sound

-----------------------------------------------------------------------------
(* The clock.  OnTime leaves room in every lease that is behind a flag. *)

LEMMA ClockSound ==
    ASSUME LeaseInv, TypeOK', Clock, OnTime, NEW v \in Workers
    PROVE  Sound(v)'
<1> USE TimesAreNumbers, RefreshFits
<1>1. /\ Alone(v) /\ Backed(v) /\ Seen(v)
      /\ since[v] \in Nat /\ since[v] <= Refresh /\ leader.left \in Nat /\ calm \in Nat
  BY DEF LeaseInv, TypeOK, Sound
<1>2. /\ call'[v] = call[v] /\ up'[v] = up[v]
      /\ isScheduleLeader'[v] = isScheduleLeader[v]
      /\ Busy(v)' <=> Busy(v)
  BY DEF Clock, Busy
<1>3. /\ since'[v] = (IF up[v] = "down" \/ since[v] = Refresh THEN since[v] ELSE since[v] + 1)
      /\ calm' \in Nat /\ calm' <= calm + 1
  BY <1>1 DEF Clock, Settled
<1>4. CASE up[v] = "down"
  BY <1>1, <1>2, <1>4 DEF Sound, Alone, Backed, Seen, LiveUp, Busy
<1>5. CASE up[v] # "down"
  <2>1. Busy(v) => since[v] < Latency /\ since'[v] = since[v] + 1
    BY <1>1, <1>3, <1>5 DEF OnTime
  <2>2. up[v] \in LiveUp => since[v] < Refresh /\ since'[v] = since[v] + 1
    BY <1>1, <1>3, <2>1 DEF OnTime, LiveUp, Alone
  <2>3. Alone(v)'
    <3>1. Busy(v)' => since'[v] <= Latency
      BY <1>1, <1>2, <2>1
    <3>2. up'[v] = "boot" => Busy(v)' /\ calm' <= since'[v]
      BY <1>1, <1>2, <1>3, <2>2 DEF Alone, LiveUp
    <3> QED BY <1>1, <1>2, <1>5, <3>1, <3>2 DEF Alone
  <2>4. leader.owner # v => leader'.owner # v
    BY NoWorkerIsNone DEF Clock, NoKey
  <2>5. ASSUME NEW n \in Nat, up[v] \in LiveUp, Fresh(v, n),
               n + since[v] + 1 < LeaderTTL
        PROVE  Fresh(v, n)'
    <3>1. leader.owner = v /\ leader.left >= LeaderTTL - n - since[v]
      BY <2>5 DEF Fresh
    <3>2. leader.left > 1
      BY <1>1, <2>5, <3>1
    <3>3. leader' = [leader EXCEPT !.left = leader.left - 1]
      BY <1>1, <3>2 DEF Clock
    <3>4. leader \in [owner : Workers \cup {NoWorker}, left : 0..LeaderTTL]
      BY DEF LeaseInv, TypeOK
    <3>5. leader'.owner = v /\ leader'.left = leader.left - 1
      BY <3>1, <3>3, <3>4
    <3> QED BY <1>1, <2>2, <2>5, <3>1, <3>5 DEF Fresh
  <2>6. Backed(v)'
    <3> SUFFICES ASSUME up[v] = "run" PROVE Backed(v)'
      BY <1>2 DEF Backed
    <3>1. since[v] < Refresh /\ since'[v] = since[v] + 1
          /\ (Busy(v) => since[v] < Latency)
      BY <2>1, <2>2 DEF LiveUp
    <3>2. isScheduleLeader[v] = "open" =>
             calm' <= since'[v] + (IF Busy(v) THEN Refresh ELSE 0)
      BY <1>1, <1>3, <3>1 DEF Backed
    <3>3. CASE Busy(v)
      <4>0. Latency + Refresh \in Nat /\ Latency + Refresh + since[v] + 1 < LeaderTTL
        BY <1>1, <3>1, <3>3
      <4>1. Fresh(v, Latency + Refresh) => Fresh(v, Latency + Refresh)'
        BY <2>5, <4>0 DEF LiveUp
      <4> QED BY <1>1, <1>2, <1>3, <2>4, <3>1, <3>2, <3>3, <4>1 DEF Backed
    <3>4. CASE ~Busy(v)
      <4>0. Latency + 0 \in Nat /\ Latency + 0 + since[v] + 1 < LeaderTTL
        BY <1>1, <3>1
      <4>1. Fresh(v, Latency + 0) => Fresh(v, Latency + 0)'
        BY <2>5, <4>0 DEF LiveUp
      <4> QED BY <1>1, <1>2, <1>3, <2>4, <3>1, <3>2, <3>4, <4>1 DEF Backed
    <3> QED BY <3>3, <3>4
  <2>7. Seen(v)'
    <3> SUFFICES ASSUME up[v] \in LiveUp, NEW s \in Calls, call[v][s] # "idle"
                 PROVE  /\ call[v][s] = "get" /\ up[v] = "run" /\ isScheduleLeader[v] = "no"
                              => leader'.owner # v
                        /\ call[v][s] = "mine" =>
                              \/ up[v] = "run" /\ isScheduleLeader[v] = "lease"
                                    /\ leader'.owner = v
                              \/ calm' <= Refresh + since'[v]
                        /\ call[v][s] \in {"free", "no"} => leader'.owner # v
                        /\ call[v][s] = "yes" =>
                              \/ Fresh(v, 0)'
                              \/ leader'.owner # v /\ calm' <= Refresh + since'[v]
      BY <1>2 DEF Seen
    <3>1. Busy(v) /\ since[v] < Latency /\ since'[v] = since[v] + 1
      BY <2>1 DEF Busy
    <3>2. ASSUME call[v][s] = "mine", up[v] = "run", isScheduleLeader[v] = "lease",
                 leader.owner = v
          PROVE  leader'.owner = v
      <4>1. Fresh(v, Latency + Refresh)
        BY <1>1, <3>1, <3>2 DEF Backed
      <4>0. Latency + Refresh \in Nat /\ Latency + Refresh + since[v] + 1 < LeaderTTL
        BY <1>1, <3>1
      <4>2. Fresh(v, Latency + Refresh)'
        BY <2>5, <4>0, <4>1
      <4> QED BY <4>2 DEF Fresh
    <3>3. Fresh(v, 0) => Fresh(v, 0)'
      <4>0. 0 \in Nat /\ 0 + since[v] + 1 < LeaderTTL
        BY <1>1, <3>1
      <4> QED BY <2>5, <4>0
    <3> QED BY <1>1, <1>3, <2>4, <3>1, <3>2, <3>3 DEF Seen
  <2> QED BY <2>3, <2>6, <2>7 DEF Sound
<1> QED BY <1>4, <1>5

-----------------------------------------------------------------------------
(* The steps of a worker. *)

LEMMA StartSound ==
    ASSUME LeaseInv, TypeOK', NEW w \in Workers, NEW s \in Calls, Start(w, s), NEW v \in Workers
    PROVE  Sound(v)'
<1> USE TimesAreNumbers, RefreshFits
<1>1. /\ TypeOK /\ Sound(v) /\ Alone(w) /\ Backed(w) /\ Seen(w)
      /\ since[w] \in Nat /\ since[w] <= Refresh /\ leader.left \in Nat /\ calm \in Nat
      /\ leader.left <= LeaderTTL
  BY DEF LeaseInv, TypeOK, Sound
<1>2. CASE v # w
  BY <1>1, <1>2, Untouched DEF Start, TypeOK
<1>3. CASE v = w
  <2>1. /\ ~Busy(w) /\ since[w] = Refresh /\ since'[w] = 0
        /\ up'[w] = up[w] /\ up[w] \in {"run", "stop", "exit"}
        /\ isScheduleLeader'[w] = isScheduleLeader[w]
        /\ leader' = leader /\ calm' = calm
    BY <1>1 DEF Start, Alone, TypeOK
  <2>2. /\ call'[w][s] = "get"
        /\ \A t \in Calls \ {s} : call'[w][t] = "idle"
    BY <1>1, <2>1 DEF Start, Busy, TypeOK
  <2>3. Busy(w)'
    BY <2>2 DEF Busy
  <2>4. Alone(w)'
    BY <2>1, <2>2, <2>3 DEF Alone
  <2>5. Backed(w)'
    BY <1>1, <2>1, <2>3 DEF Backed, Fresh
  <2>6. Seen(w)'
    BY <1>1, <2>1, <2>2 DEF Seen, Backed
  <2> QED BY <1>3, <2>4, <2>5, <2>6 DEF Sound
<1> QED BY <1>2, <1>3

LEMMA BootSound ==
    ASSUME LeaseInv, TypeOK', NEW w \in Workers, Boot(w), NEW v \in Workers
    PROVE  Sound(v)'
<1> USE TimesAreNumbers, RefreshFits
<1>1. /\ TypeOK /\ Sound(v) /\ Alone(w) /\ Backed(w) /\ Seen(w)
      /\ since[w] \in Nat /\ since[w] <= Refresh /\ leader.left \in Nat /\ calm \in Nat
      /\ leader.left <= LeaderTTL
  BY DEF LeaseInv, TypeOK, Sound
<1>2. CASE v # w
  <2>1. calm' = 0 /\ calm' <= calm
    BY <1>1 DEF Boot
  <2> QED BY <1>1, <1>2, <2>1, Untouched DEF Boot, TypeOK
<1>3. CASE v = w
  <2>1. ~Busy(w) /\ up'[w] = "boot" /\ since'[w] = 0 /\ calm' = 0
    BY <1>1 DEF Boot, Alone, TypeOK
  <2>2. PICK s \in Calls : call' = [call EXCEPT ![w][s] = "get"]
    BY DEF Boot
  <2>3. /\ call'[w][s] = "get"
        /\ \A t \in Calls \ {s} : call'[w][t] = "idle"
    BY <1>1, <2>1, <2>2 DEF Busy, TypeOK
  <2>4. Alone(w)'
    BY <2>1, <2>3 DEF Alone, Busy
  <2>5. Backed(w)' /\ Seen(w)'
    BY <2>1, <2>3 DEF Backed, Seen
  <2> QED BY <1>3, <2>4, <2>5 DEF Sound
<1> QED BY <1>2, <1>3

LEMMA GetSound ==
    ASSUME LeaseInv, TypeOK', NEW w \in Workers, NEW s \in Calls, Get(w, s), NEW v \in Workers
    PROVE  Sound(v)'
<1> USE TimesAreNumbers, RefreshFits
<1>1. /\ TypeOK /\ Sound(v) /\ Alone(w) /\ Backed(w) /\ Seen(w)
      /\ since[w] \in Nat /\ since[w] <= Refresh /\ leader.left \in Nat /\ calm \in Nat
      /\ leader.left <= LeaderTTL
  BY DEF LeaseInv, TypeOK, Sound
<1>2. CASE v # w
  BY <1>1, <1>2, Untouched DEF Get, TypeOK
<1>3. CASE v = w
  <2>1. /\ call[w][s] = "get" /\ leader' = leader
        /\ call'[w][s] \in {"mine", "free", "no"}
        /\ call'[w][s] = "mine" <=> leader.owner = w
    <3>1. call[w][s] = "get" /\ leader' = leader
      BY DEF Get
    <3>2. CASE leader.owner = w
      BY <1>1, <3>1, <3>2, NoWorkerIsNone DEF Get, TypeOK
    <3>3. CASE leader.owner = NoWorker
      BY <1>1, <3>1, <3>3, NoWorkerIsNone DEF Get, TypeOK
    <3>4. CASE leader.owner # w /\ leader.owner # NoWorker
      BY <1>1, <3>1, <3>4 DEF Get, TypeOK
    <3> QED BY <3>2, <3>3, <3>4
  <2>2. /\ Busy(w) /\ Busy(w)' /\ since[w] <= Latency
        /\ up'[w] = up[w] /\ isScheduleLeader'[w] = isScheduleLeader[w]
        /\ since'[w] = since[w] /\ calm' = calm /\ up[w] # "down"
        /\ \A t \in Calls \ {s} : call[w][t] = "idle" /\ call'[w][t] = "idle"
    BY <1>1, <2>1 DEF Get, Busy, Alone, TypeOK
  <2>3. Alone(w)'
    BY <1>1, <2>1, <2>2 DEF Alone
  <2>4. Backed(w)'
    BY <1>1, <2>1, <2>2 DEF Backed, Fresh
  <2>5. leader.owner = w /\ up[w] \in LiveUp =>
           \/ up[w] = "run" /\ isScheduleLeader[w] = "lease"
           \/ calm <= Refresh + since[w]
    <3>1. CASE up[w] = "boot"
      BY <1>1, <2>2, <3>1 DEF Alone
    <3>2. CASE up[w] = "run"
      <4>1. isScheduleLeader[w] \in {"no", "lease", "open"}
        BY <1>1 DEF TypeOK
      <4> QED BY <1>1, <2>1, <2>2, <3>2, <4>1 DEF Seen, Backed, LiveUp
    <3> QED BY <3>1, <3>2 DEF LiveUp
  <2>6. Seen(w)'
    BY <2>1, <2>2, <2>5 DEF Seen, LiveUp
  <2> QED BY <1>3, <2>3, <2>4, <2>6 DEF Sound
<1> QED BY <1>2, <1>3

LEMMA ExpireSound ==
    ASSUME LeaseInv, TypeOK', NEW w \in Workers, NEW s \in Calls, Expire(w, s), NEW v \in Workers
    PROVE  Sound(v)'
<1> USE TimesAreNumbers, RefreshFits
<1>1. /\ TypeOK /\ Sound(v) /\ Alone(w) /\ Backed(w) /\ Seen(w)
      /\ since[w] \in Nat /\ since[w] <= Refresh /\ leader.left \in Nat /\ calm \in Nat
      /\ leader.left <= LeaderTTL
  BY DEF LeaseInv, TypeOK, Sound
<1>2. /\ leader'.owner = leader.owner
      /\ leader'.left = (IF leader.owner = NoWorker THEN leader.left ELSE LeaderTTL)
  BY <1>1 DEF Expire, TypeOK
<1>3. CASE v # w
  BY <1>1, <1>2, <1>3, Untouched DEF Expire, TypeOK
<1>4. CASE v = w
  <2>1. call[w][s] = "mine" /\ call'[w][s] = "yes"
    BY <1>1 DEF Expire, TypeOK
  <2>2. /\ Busy(w) /\ Busy(w)' /\ since[w] <= Latency
        /\ up'[w] = up[w] /\ isScheduleLeader'[w] = isScheduleLeader[w]
        /\ since'[w] = since[w] /\ calm' = calm /\ up[w] # "down"
        /\ \A t \in Calls \ {s} : call[w][t] = "idle" /\ call'[w][t] = "idle"
    BY <1>1, <2>1 DEF Expire, Busy, Alone, TypeOK
  <2>3. Alone(w)'
    BY <1>1, <2>1, <2>2 DEF Alone
  <2>4. \A n \in Nat : leader.owner = w => Fresh(w, n)'
    BY <1>1, <1>2, <2>2, NoWorkerIsNone DEF Fresh
  <2>5. Backed(w)'
    <3>1. Latency + Refresh \in Nat
      OBVIOUS
    <3>2. leader.owner = w => Fresh(w, Latency + Refresh)'
      BY <2>4, <3>1
    <3> QED BY <1>1, <1>2, <2>2, <3>2 DEF Backed, Fresh
  <2>6. Seen(w)'
    <3>1. leader.owner = w => Fresh(w, 0)'
      BY <2>4
    <3>2. leader.owner # w /\ up[w] \in LiveUp => calm <= Refresh + since[w]
      BY <1>1, <2>1 DEF Seen
    <3> QED BY <1>2, <2>1, <2>2, <3>1, <3>2 DEF Seen
  <2> QED BY <1>4, <2>3, <2>5, <2>6 DEF Sound
<1> QED BY <1>3, <1>4

LEMMA SetNxSound ==
    ASSUME LeaseInv, TypeOK', NEW w \in Workers, NEW s \in Calls, SetNx(w, s), NEW v \in Workers
    PROVE  Sound(v)'
<1> USE TimesAreNumbers, RefreshFits
<1>1. /\ TypeOK /\ Sound(v) /\ Alone(w) /\ Backed(w) /\ Seen(w)
      /\ since[w] \in Nat /\ since[w] <= Refresh /\ leader.left \in Nat /\ calm \in Nat
      /\ leader.left <= LeaderTTL
  BY DEF LeaseInv, TypeOK, Sound
<1>2. CASE leader.owner = NoWorker
  <2>1. leader'.owner = w /\ leader'.left = LeaderTTL
    BY <1>2 DEF SetNx
  <2>2. CASE v # w
    BY <1>1, <1>2, <2>1, <2>2, NoWorkerIsNone, Untouched DEF SetNx, TypeOK
  <2>3. CASE v = w
    <3>1. call[w][s] = "free" /\ call'[w][s] = "yes"
      BY <1>1, <1>2 DEF SetNx, TypeOK
    <3>2. /\ Busy(w) /\ Busy(w)' /\ since[w] <= Latency
          /\ up'[w] = up[w] /\ isScheduleLeader'[w] = isScheduleLeader[w]
          /\ since'[w] = since[w] /\ calm' = calm /\ up[w] # "down"
          /\ \A t \in Calls \ {s} : call[w][t] = "idle" /\ call'[w][t] = "idle"
      BY <1>1, <1>2, <3>1 DEF SetNx, Busy, Alone, TypeOK
    <3>3. Alone(w)'
      BY <1>1, <3>1, <3>2 DEF Alone
    <3>4. Fresh(w, Latency + Refresh)' /\ Fresh(w, 0)'
      BY <1>1, <2>1, <3>2 DEF Fresh
    <3>5. Backed(w)'
      BY <1>1, <3>2, <3>4 DEF Backed
    <3>6. Seen(w)'
      BY <3>1, <3>2, <3>4 DEF Seen
    <3> QED BY <2>3, <3>3, <3>5, <3>6 DEF Sound
  <2> QED BY <2>2, <2>3
<1>3. CASE leader.owner # NoWorker
  <2>0. leader' = leader
    BY <1>3 DEF SetNx
  <2>4. CASE v # w
    BY <1>1, <1>3, <2>0, <2>4, Untouched DEF SetNx, TypeOK
  <2>5. CASE v = w
    <3>1. call[w][s] = "free" /\ call'[w][s] = "no"
      BY <1>1, <1>3 DEF SetNx, TypeOK
    <3>2. /\ Busy(w) /\ Busy(w)' /\ since[w] <= Latency
          /\ up'[w] = up[w] /\ isScheduleLeader'[w] = isScheduleLeader[w]
          /\ since'[w] = since[w] /\ calm' = calm /\ up[w] # "down"
          /\ \A t \in Calls \ {s} : call[w][t] = "idle" /\ call'[w][t] = "idle"
      BY <1>1, <1>3, <3>1 DEF SetNx, Busy, Alone, TypeOK
    <3>3. Alone(w)'
      BY <1>1, <3>1, <3>2 DEF Alone
    <3>4. Backed(w)'
      BY <1>1, <2>0, <3>2 DEF Backed, Fresh
    <3>5. Seen(w)'
      BY <1>1, <2>0, <3>1, <3>2 DEF Seen
    <3> QED BY <2>5, <3>3, <3>4, <3>5 DEF Sound
  <2> QED BY <2>4, <2>5
<1> QED BY <1>2, <1>3

LEMMA AnswerSound ==
    ASSUME LeaseInv, TypeOK', NEW w \in Workers, NEW s \in Calls, Answer(w, s), NEW v \in Workers
    PROVE  Sound(v)'
<1> USE TimesAreNumbers, RefreshFits
<1>1. /\ TypeOK /\ Sound(v) /\ Alone(w) /\ Backed(w) /\ Seen(w)
      /\ since[w] \in Nat /\ since[w] <= Refresh /\ leader.left \in Nat /\ calm \in Nat
      /\ leader.left <= LeaderTTL
  BY DEF LeaseInv, TypeOK, Sound
<1>2. CASE v # w
  BY <1>1, <1>2, Untouched DEF Answer, Return, TypeOK
<1>3. CASE v = w
  <2>1. /\ call[w][s] # "idle" /\ call'[w][s] = "idle" /\ since[w] <= Latency
        /\ leader' = leader /\ up[w] # "down"
        /\ \A t \in Calls \ {s} : call[w][t] = "idle" /\ call'[w][t] = "idle"
    BY <1>1 DEF Answer, Return, Busy, Alone, TypeOK
  <2>2. ~Busy(w)' /\ (\A t \in Calls : call'[w][t] = "idle")
    BY <2>1 DEF Busy
  <2>3. /\ up[w] = "boot" => up'[w] = "run" /\ since'[w] = 0
        /\ up[w] # "boot" => up'[w] = up[w] /\ since'[w] = since[w]
    BY <1>1 DEF Answer, Return, TypeOK
  <2>4. Alone(w)'
    BY <2>1, <2>2, <2>3 DEF Alone
  <2>5. /\ call[w][s] \in {"yes", "no"} /\ calm' = calm
        /\ isScheduleLeader'[w] = IF call[w][s] = "yes" THEN "lease" ELSE "no"
    BY <1>1 DEF Answer, Return, TypeOK
  <2>6. Backed(w)'
    <3> SUFFICES ASSUME up'[w] = "run" PROVE Backed(w)'
      BY DEF Backed
    <3>1. up[w] \in LiveUp
      BY <2>3 DEF LiveUp
    <3>2. CASE call[w][s] = "no"
      BY <1>1, <2>1, <2>2, <2>5, <3>1, <3>2 DEF Seen, Backed
    <3>3. CASE call[w][s] = "yes"
      <4>1. \/ Fresh(w, 0)
            \/ leader.owner # w /\ calm <= Refresh + since[w]
        BY <1>1, <3>1, <3>3 DEF Seen
      <4>2. CASE up[w] = "run"
        <5>1. Fresh(w, 0) => Fresh(w, Latency + 0)'
          BY <1>1, <2>1, <2>3, <4>2 DEF Fresh
        <5> QED BY <1>1, <2>1, <2>2, <2>3, <2>5, <3>3, <4>1, <4>2, <5>1 DEF Backed
      <4>3. CASE up[w] = "boot"
        <5>1. Fresh(w, 0) => Fresh(w, Latency + 0)'
          BY <1>1, <2>1, <2>3, <4>3 DEF Fresh
        <5>2. calm <= Refresh
          BY <1>1, <2>1, <4>3 DEF Alone
        <5> QED BY <1>1, <2>1, <2>2, <2>3, <2>5, <3>3, <4>1, <4>3, <5>1, <5>2 DEF Backed
      <4> QED BY <3>1, <4>2, <4>3 DEF LiveUp
    <3> QED BY <2>5, <3>2, <3>3
  <2>7. Seen(w)'
    BY <2>2 DEF Seen
  <2> QED BY <1>3, <2>4, <2>6, <2>7 DEF Sound
<1> QED BY <1>2, <1>3

LEMMA ThrowSound ==
    ASSUME LeaseInv, TypeOK', NEW w \in Workers, NEW s \in Calls, Throw(w, s), NEW v \in Workers
    PROVE  Sound(v)'
<1> USE TimesAreNumbers, RefreshFits
<1>1. /\ TypeOK /\ Sound(v) /\ Alone(w) /\ Backed(w) /\ Seen(w)
      /\ since[w] \in Nat /\ since[w] <= Refresh /\ leader.left \in Nat /\ calm \in Nat
      /\ leader.left <= LeaderTTL
  BY DEF LeaseInv, TypeOK, Sound
<1>2. CASE v # w
  BY <1>1, <1>2, Untouched DEF Throw, Return, TypeOK
<1>3. CASE v = w
  <2>1. /\ call[w][s] # "idle" /\ call'[w][s] = "idle" /\ since[w] <= Latency
        /\ leader' = leader /\ up[w] # "down"
        /\ \A t \in Calls \ {s} : call[w][t] = "idle" /\ call'[w][t] = "idle"
    BY <1>1 DEF Throw, Return, Busy, Alone, TypeOK
  <2>2. ~Busy(w)' /\ (\A t \in Calls : call'[w][t] = "idle")
    BY <2>1 DEF Busy
  <2>3. /\ up[w] = "boot" => up'[w] = "run" /\ since'[w] = 0
        /\ up[w] # "boot" => up'[w] = up[w] /\ since'[w] = since[w]
    BY <1>1 DEF Throw, Return, TypeOK
  <2>4. Alone(w)'
    BY <2>1, <2>2, <2>3 DEF Alone
  <2>5. calm' = 0 /\ isScheduleLeader'[w] = "open"
    BY <1>1 DEF Throw, Return, TypeOK
  <2>6. Backed(w)'
    BY <1>1, <2>2, <2>3, <2>5 DEF Backed
  <2>7. Seen(w)'
    BY <2>2 DEF Seen
  <2> QED BY <1>3, <2>4, <2>6, <2>7 DEF Sound
<1> QED BY <1>2, <1>3

LEMMA EndSound ==
    ASSUME LeaseInv, TypeOK', NEW w \in Workers,
           Stop(w) \/ Release(w) \/ Exit(w) \/ Crash(w), NEW v \in Workers
    PROVE  Sound(v)'
<1>1. TypeOK /\ Sound(v) /\ Alone(w)
  BY DEF LeaseInv, Sound
<1>2. /\ leader.owner = w \/ leader' = leader \/ leader'.owner # v
      /\ calm' = calm
  BY NoWorkerIsNone DEF Stop, Release, Exit, Crash, Gone, NoKey
<1>3. CASE v # w
  <2>1. leader.owner = v => leader' = leader
    BY <1>3 DEF Stop, Release, Exit, Crash, Gone
  <2>2. leader.owner # v => leader'.owner # v
    BY NoWorkerIsNone DEF Stop, Release, Exit, Crash, Gone, NoKey
  <2>3. /\ up'[v] = up[v] /\ isScheduleLeader'[v] = isScheduleLeader[v]
        /\ call'[v] = call[v] /\ since'[v] = since[v]
    BY <1>1, <1>3 DEF Stop, Release, Exit, Crash, Gone, TypeOK
  <2>4. calm' <= calm /\ (leader.owner = v => leader'.left >= leader.left)
    BY <1>1, <1>2, <2>1, TimesAreNumbers DEF TypeOK, Settled
  <2> QED BY <1>1, <2>1, <2>2, <2>3, <2>4, Untouched
<1>4. CASE v = w
  <2>1. up'[w] \in {"stop", "exit", "down"}
    BY <1>1 DEF Stop, Release, Exit, Crash, Gone, TypeOK
  <2>2. Backed(w)' /\ Seen(w)'
    BY <2>1 DEF Backed, Seen, LiveUp
  <2>3. Alone(w)'
    <3>1. CASE Stop(w) \/ Release(w)
      <4>1. /\ call'[w] = call[w] /\ since'[w] = since[w]
            /\ up'[w] \in {"stop", "exit"}
        BY <1>1, <3>1 DEF Stop, Release, TypeOK
      <4> QED BY <1>1, <4>1 DEF Alone, Busy
    <3>2. CASE Exit(w) \/ Crash(w)
      <4>1. \A t \in Calls : call'[w][t] = "idle"
        BY <1>1, <3>2 DEF Exit, Crash, Gone, NoCall, TypeOK
      <4> QED BY <2>1, <4>1 DEF Alone, Busy
    <3> QED BY <3>1, <3>2
  <2> QED BY <1>4, <2>2, <2>3 DEF Sound
<1> QED BY <1>3, <1>4

-----------------------------------------------------------------------------
(* The invariant and the theorems. *)

LEMMA LeaseStep == LeaseInv /\ [TimelyNext]_vars => LeaseInv'
<1> SUFFICES ASSUME LeaseInv, [TimelyNext]_vars PROVE LeaseInv'
  OBVIOUS
<1>1. TypeOK'
  BY TypeStep DEF LeaseInv, TimelyNext, Next
<1>2. ASSUME NEW v \in Workers PROVE Sound(v)'
  <2>1. CASE UNCHANGED vars
    BY <1>1, <2>1, Untouched DEF LeaseInv, vars, TypeOK, Settled
  <2>2. CASE Clock /\ OnTime
    BY <1>1, <2>2, ClockSound
  <2>3. ASSUME NEW w \in Workers, Work(w) PROVE Sound(v)'
    <3>1. CASE Boot(w)
      BY <1>1, <3>1, BootSound
    <3>2. CASE Refreshing(w)
      BY <1>1, <3>2, StartSound, GetSound, ExpireSound, SetNxSound, AnswerSound
         DEF Refreshing
    <3>3. CASE Ending(w)
      BY <1>1, <3>3, EndSound DEF Ending
    <3>4. CASE Fault(w)
      BY <1>1, <3>4, EndSound, ThrowSound DEF Fault
    <3> QED BY <2>3, <3>1, <3>2, <3>3, <3>4 DEF Work
  <2> QED BY <2>1, <2>2, <2>3 DEF TimelyNext
<1> QED BY <1>1, <1>2 DEF LeaseInv

LEMMA LeaseInvariant == TimelySpec => []LeaseInv
<1> QED BY InitSound, LeaseStep, PTL DEF TimelySpec

\* Types, whatever the delays.
THEOREM LeaseTypeCorrect == Spec => []TypeOK
<1>1. Init => TypeOK
  BY InitSound DEF LeaseInv
<1> QED BY <1>1, TypeStep, PTL DEF Spec

\* A worker that leads when nothing was disturbed for Settled owns the key.
LEMMA LeaderOwnsKey ==
    ASSUME LeaseInv, calm > Settled, NEW w \in Workers, Leads(w)
    PROVE  leader.owner = w
<1> USE TimesAreNumbers, RefreshFits
<1>1. /\ Alone(w) /\ Backed(w) /\ since[w] \in Nat /\ since[w] <= Refresh
      /\ calm \in Nat /\ isScheduleLeader[w] \in {"no", "lease", "open"}
  BY DEF LeaseInv, TypeOK, Sound
<1>2. calm > 2 * Refresh + Latency
  BY DEF Settled
<1>3. up[w] = "run" /\ isScheduleLeader[w] \in {"lease", "open"}
  BY <1>1 DEF Leads
<1>4. CASE Busy(w)
  <2>1. since[w] <= Latency
    BY <1>1, <1>4 DEF Alone
  <2> QED BY <1>1, <1>2, <1>3, <1>4, <2>1 DEF Backed, Fresh
<1>5. CASE ~Busy(w)
  BY <1>1, <1>2, <1>3, <1>5 DEF Backed, Fresh
<1> QED BY <1>4, <1>5

\* One schedule leader, for any number of workers, Settled after the last
\* thrown command or boot.
THEOREM OneLeaderAtATime == TimelySpec => []OneLeader
<1>1. LeaseInv => OneLeader
  BY LeaderOwnsKey DEF OneLeader
<1> QED BY <1>1, LeaseInvariant, PTL

\* A leader that holds its lease keeps it while it runs.
THEOREM LeadersKeepTheirLease == TimelySpec => LeaseIsKept
<1>1. ASSUME LeaseInv, LeaseInv', [TimelyNext]_vars, NEW w \in Workers, Holds(w),
             up'[w] = "run"
      PROVE  leader'.owner = w /\ isScheduleLeader'[w] # "no"
  <2>1. leader.owner = w /\ up[w] = "run" /\ isScheduleLeader[w] = "lease"
        /\ TypeOK /\ Sound(w) /\ w # NoWorker
    BY <1>1, NoWorkerIsNone DEF Holds, LeaseInv
  <2>2. CASE UNCHANGED vars
    BY <2>1, <2>2 DEF vars
  <2>3. CASE Clock /\ OnTime
    <3>1. since[w] \in Nat /\ leader.left \in Nat
      BY <2>1 DEF TypeOK
    <3>2. leader.left > 1
      <4>1. CASE Busy(w)
        BY <2>1, <2>3, <3>1, <4>1, TimesAreNumbers, RefreshFits
           DEF OnTime, Sound, Backed, Fresh
      <4>2. CASE ~Busy(w)
        BY <2>1, <2>3, <3>1, <4>2, TimesAreNumbers, RefreshFits
           DEF OnTime, Sound, Backed, Fresh
      <4> QED BY <4>1, <4>2
    <3>3. leader' = [leader EXCEPT !.left = leader.left - 1]
      BY <2>3, <3>1, <3>2 DEF Clock
    <3>4. leader'.owner = leader.owner
      BY <2>1, <3>3 DEF TypeOK
    <3> QED BY <2>1, <2>3, <3>4 DEF Clock
  <2>4. ASSUME NEW u \in Workers, Work(u)
        PROVE  leader'.owner = w /\ isScheduleLeader'[w] # "no"
    <3>1. CASE Boot(u)
      BY <2>1, <3>1 DEF Boot
    <3>2. ASSUME NEW s \in Calls, Start(u, s) \/ Get(u, s) \/ Expire(u, s) \/ SetNx(u, s)
          PROVE  leader'.owner = w /\ isScheduleLeader'[w] # "no"
      BY <2>1, <3>2 DEF Start, Get, Expire, SetNx, TypeOK
    <3>3. ASSUME NEW s \in Calls, Answer(u, s)
          PROVE  leader'.owner = w /\ isScheduleLeader'[w] # "no"
      <4>1. call[u][s] = "no" => u # w
        BY <2>1 DEF Sound, Seen, LiveUp
      <4> QED BY <2>1, <3>3, <4>1 DEF Answer, Return, TypeOK
    <3>4. ASSUME NEW s \in Calls, Throw(u, s)
          PROVE  leader'.owner = w /\ isScheduleLeader'[w] # "no"
      BY <2>1, <3>4 DEF Throw, Return, TypeOK
    <3>5. CASE Stop(u) \/ Release(u)
      BY <2>1, <3>5 DEF Stop, Release
    <3>6. CASE Exit(u) \/ Crash(u)
      BY <2>1, <3>6 DEF Exit, Crash, Gone, TypeOK
    <3> QED BY <2>4, <3>1, <3>2, <3>3, <3>4, <3>5, <3>6
            DEF Work, Refreshing, Ending, Fault
  <2> QED BY <1>1, <2>2, <2>3, <2>4 DEF TimelyNext
<1>2. LeaseInv /\ LeaseInv' /\ [TimelyNext]_vars
      => [\A w \in Workers : Holds(w) /\ up'[w] = "run" =>
             leader'.owner = w /\ isScheduleLeader'[w] # "no"]_vars
  BY <1>1
<1> QED BY <1>2, LeaseInvariant, PTL DEF TimelySpec, LeaseIsKept

\* The key leaves its owner by expiry or by the owner's own release, whatever
\* the delays.
THEOREM OnlyOwnersRelease == Spec => KeyIsNotStolen
<1>1. ASSUME TypeOK, [Next]_vars, leader.owner # NoWorker, leader'.owner # leader.owner
      PROVE  leader.left = 1 \/ up[leader.owner] = "stop"
  <2>1. CASE Clock
    <3>1. leader.left \in Nat /\ leader.left # 0
      BY <1>1, TimesAreNumbers DEF TypeOK
    <3>2. leader.left > 1 => leader'.owner = leader.owner
      BY <1>1, <2>1, <3>1 DEF Clock, TypeOK
    <3> QED BY <1>1, <3>1, <3>2
  <2>2. ASSUME NEW w \in Workers, Work(w)
        PROVE  leader.left = 1 \/ up[leader.owner] = "stop"
    <3>1. CASE Release(w)
      BY <1>1, <3>1 DEF Release
    <3>2. CASE ~Release(w)
      <4>1. leader'.owner = leader.owner
        BY <1>1, <2>2, <3>2 DEF Work, Refreshing, Ending, Fault, Boot, Start, Get, Expire,
           SetNx, Answer, Exit, Stop, Crash, Gone, Throw, TypeOK
      <4> QED BY <1>1, <4>1
    <3> QED BY <3>1, <3>2
  <2>3. CASE UNCHANGED vars
    BY <1>1, <2>3 DEF vars
  <2> QED BY <1>1, <2>1, <2>2, <2>3 DEF Next
<1>2. TypeOK /\ [Next]_vars
      => [leader.owner # NoWorker /\ leader'.owner # leader.owner
            => leader.left = 1 \/ up[leader.owner] = "stop"]_vars
  BY <1>1
<1> QED BY <1>2, LeaseTypeCorrect, PTL DEF Spec, KeyIsNotStolen

===============================================================================
