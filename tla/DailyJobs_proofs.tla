-------------------------- MODULE DailyJobs_proofs --------------------------
(* What holds of a day of the worker, for every number of ticks and requests *)
(* in flight, every plan and every hour of the jobs. The invariant is built  *)
(* from what a single run knows (RunSound) up to what a whole day owes.      *)
EXTENDS DailyJobs, TLAPS

\* A run between its look and the start of its work.
Looking(c) == loc[c].pc \in {"recheck", "begin"}

\* The runs of a job that began today.
Own(j) == {c \in Runs(j) : loc[c].own}

RunRec == [pc : {"idle", "recheck", "begin", "work", "check", "send", "key", "mark"},
           job : Jobs, force : BOOLEAN, own : BOOLEAN, ok : BOOLEAN,
           left : 0..Strategies, item : Items, at : 0..DayEnd]

-----------------------------------------------------------------------------
(* Types.                                                                    *)

LEMMA InitTyped == Init => TypeOK
  <1> SUFFICES ASSUME Init PROVE TypeOK
    OBVIOUS
  <1>1. NoRun \in RunRec
    BY DayIsSound DEF NoRun, RunRec, Jobs, Items
  <1>2. loc \in [Callers -> RunRec]
    BY <1>1 DEF Init
  <1>3. sent \in [Alerting -> [Items -> 0..2]]
    BY DEF Init
  <1>4. keys \in [Alerting -> SUBSET Items]
    BY DEF Init
  <1>5. now \in 0..DayEnd
    BY DayIsSound DEF Init
  <1>8. plan \in Plans /\ orphan \in BOOLEAN
    BY DEF Init
  <1>6. mark \in [Jobs -> {"no", "running", "done"}]
    BY DEF Init
  <1>7. rows \in [1..Strategies -> {"none", "ok", "failed"}]
    BY DEF Init
  <1> QED
    BY <1>2, <1>3, <1>4, <1>5, <1>6, <1>7, <1>8 DEF Init, TypeOK, RunRec

\* A run that takes one record in place of another.
LEMMA LocTyped ==
    ASSUME TypeOK, NEW c \in Callers, NEW l \in RunRec, loc' = [loc EXCEPT ![c] = l]
    PROVE  /\ loc' \in [Callers -> RunRec] /\ loc'[c] = l
           /\ \A d \in Callers \ {c} : loc'[d] = loc[d]
  BY DEF TypeOK, RunRec

LEMMA NoRunTyped == NoRun \in RunRec
  BY DayIsSound DEF NoRun, RunRec, Jobs, Items

LEMMA ExcuseTyped ==
    ASSUME TypeOK, NEW e \in SUBSET Excuses, Excuse(e)
    PROVE  excuses' \subseteq Excuses /\ excuses \subseteq excuses' /\ e \subseteq excuses'
  BY DEF TypeOK, Excuse

LEMMA FaultTyped == \A b \in BOOLEAN : Fault(b) \subseteq Excuses
  BY DEF Fault, Excuses

LEMMA OverlapTyped == \A j \in Jobs : Overlap(j) \subseteq Excuses
  BY DEF Overlap, Excuses

\* A record that enters its work.
LEMMA EnterTyped ==
    ASSUME TypeOK, NEW c \in Callers, NEW l \in RunRec, Enter(c, l)
    PROVE  /\ loc' \in [Callers -> RunRec] /\ after' \subseteq Jobs
           /\ \A d \in Callers \ {c} : loc'[d] = loc[d]
           /\ loc'[c] = [l EXCEPT !.at = IF l.job = "sync" THEN now ELSE 0]
  <1> DEFINE m == [l EXCEPT !.at = IF l.job = "sync" THEN now ELSE 0]
  <1>0. (IF l.job = "sync" THEN now ELSE 0) \in 0..DayEnd
    BY DayIsSound DEF TypeOK
  <1>1. m \in RunRec
    BY <1>0 DEF RunRec
  <1>2. loc' = [loc EXCEPT ![c] = m]
    BY DEF Enter
  <1> HIDE DEF m
  <1>3. /\ loc' \in [Callers -> RunRec] /\ loc'[c] = m
        /\ \A d \in Callers \ {c} : loc'[d] = loc[d]
    BY <1>1, <1>2, LocTyped
  <1>4. after' \subseteq Jobs
    BY DEF Enter, TypeOK, RunRec
  <1> QED
    BY <1>3, <1>4 DEF m

LEMMA OnwardTyped ==
    ASSUME NEW l \in RunRec
    PROVE  /\ Onward(l) \in RunRec
           /\ Onward(l).job = l.job /\ Onward(l).own = l.own /\ Onward(l).force = l.force
           /\ Onward(l).left = l.left /\ Onward(l).at = l.at
           /\ \/ l.item = "mail" /\ Onward(l).item = "whatsapp" /\ Onward(l).pc = "check"
              \/ l.item = "whatsapp" /\ Onward(l).item = l.item /\ Onward(l).pc = "mark"
  BY DEF Onward, RunRec, Items

-----------------------------------------------------------------------------
(* What each action does to the run it is of.                                *)

\* One caller has moved, within the minute.
Moves(c) ==
    /\ loc' \in [Callers -> RunRec]
    /\ \A d \in Callers \ {c} : loc'[d] = loc[d]
    /\ now' = now /\ plan' = plan /\ day' = day
    /\ excuses \subseteq excuses' /\ excuses' \subseteq Excuses

\* It is still the run it was.
Kept(c) == /\ loc'[c].job = loc[c].job /\ loc'[c].force = loc[c].force
           /\ loc'[c].own = loc[c].own

\* A run begins from nothing.
Fresh(c, j, f) == /\ loc'[c].job = j /\ loc'[c].force = f /\ loc'[c].own = TRUE
                  /\ loc'[c].item = "mail"

LEMMA TickMoves ==
    ASSUME TypeOK, NEW c \in Callers, NEW j \in Jobs, NEW b \in BOOLEAN, Tick(c, j, b)
    PROVE  /\ Moves(c) /\ after' \subseteq Jobs /\ loc[c].pc = "idle"
           /\ \/ /\ loc' = loc /\ after' = after /\ excuses' = excuses
                 /\ \/ Found(j, b) \/ (j = "sync" /\ Active)
                    \/ j = "evening" /\ day.weekend
              \/ /\ ~Found(j, b) /\ j = "prewarm"
                 /\ Fresh(c, j, FALSE) /\ loc'[c].pc = "work"
                 /\ after' = IF now >= Cron[j] THEN after \cup {j} ELSE after
                 /\ Fault(b) \cup Overlap(j) \subseteq excuses'
              \/ /\ ~Found(j, b) /\ (j = "sync" => ~Active) /\ j # "prewarm"
                 /\ (j = "evening" => ~day.weekend)
                 /\ Fresh(c, j, FALSE) /\ loc'[c].pc = "recheck" /\ after' = after
                 /\ Fault(b) \subseteq excuses'
  <1> DEFINE l == [NoRun EXCEPT !.job = j]
             passed == /\ ~Found(j, b) /\ (j = "sync" => ~Active)
                       /\ (j = "evening" => ~day.weekend)
             w == [l EXCEPT !.pc = "work"]
             r == [l EXCEPT !.pc = "recheck"]
  <1>0. /\ loc[c].pc = "idle" /\ now' = now /\ plan' = plan /\ day' = day
        /\ CASE ~passed -> UNCHANGED <<loc, after>> /\ Excuse({})
             [] passed /\ j = "prewarm" -> Enter(c, w) /\ Excuse(Fault(b) \cup Overlap(j))
             [] OTHER -> /\ loc' = [loc EXCEPT ![c] = r]
                         /\ Excuse(Fault(b)) /\ UNCHANGED after
    BY DEF Tick
  <1>t. l \in RunRec /\ w \in RunRec /\ r \in RunRec
    BY NoRunTyped DEF RunRec
  <1>f. /\ w.job = j /\ w.force = FALSE /\ w.own = TRUE /\ w.item = "mail" /\ w.pc = "work"
        /\ r.job = j /\ r.force = FALSE /\ r.own = TRUE /\ r.item = "mail" /\ r.pc = "recheck"
    BY DEF NoRun
  <1> HIDE DEF l, w, r
  <1>1. CASE ~passed
    <2>1. loc' = loc /\ after' = after /\ excuses' = excuses
      BY <1>0, <1>1, Zenon DEF Excuse
    <2> QED
      BY <1>0, <1>1, <2>1 DEF Moves, TypeOK, RunRec
  <1>2. CASE passed /\ j = "prewarm"
    <2>1. Enter(c, w) /\ Excuse(Fault(b) \cup Overlap(j))
      BY <1>0, <1>2
    <2>2. Fault(b) \cup Overlap(j) \in SUBSET Excuses
      BY FaultTyped, OverlapTyped
    <2>3. /\ excuses' \subseteq Excuses /\ excuses \subseteq excuses'
          /\ Fault(b) \cup Overlap(j) \subseteq excuses'
      BY <2>1, <2>2, ExcuseTyped
    <2>4. /\ loc' \in [Callers -> RunRec] /\ after' \subseteq Jobs
          /\ \A d \in Callers \ {c} : loc'[d] = loc[d]
          /\ loc'[c] = [w EXCEPT !.at = IF w.job = "sync" THEN now ELSE 0]
      BY <2>1, <1>t, EnterTyped
    <2>5. Fresh(c, j, FALSE) /\ loc'[c].pc = "work"
      BY <2>4, <1>f, <1>t DEF Fresh, RunRec
    <2>6. after' = IF now >= Cron[j] THEN after \cup {j} ELSE after
      BY <2>1, <1>f DEF Enter
    <2> QED
      BY <1>0, <1>2, <2>3, <2>4, <2>5, <2>6 DEF Moves
  <1>3. CASE passed /\ j # "prewarm"
    <2>1. loc' = [loc EXCEPT ![c] = r] /\ Excuse(Fault(b)) /\ after' = after
      BY <1>0, <1>3
    <2>3. /\ excuses' \subseteq Excuses /\ excuses \subseteq excuses'
          /\ Fault(b) \subseteq excuses'
      BY <2>1, FaultTyped, ExcuseTyped
    <2>4. /\ loc' \in [Callers -> RunRec] /\ loc'[c] = r
          /\ \A d \in Callers \ {c} : loc'[d] = loc[d]
      BY <2>1, <1>t, LocTyped
    <2> QED
      BY <1>0, <1>f, <1>3, <2>1, <2>3, <2>4 DEF Moves, Fresh, TypeOK
  <1> QED
    BY <1>1, <1>2, <1>3

LEMMA AskMoves ==
    ASSUME TypeOK, NEW c \in Callers, NEW j \in Jobs, NEW f \in BOOLEAN, Ask(c, j, f)
    PROVE  /\ Moves(c) /\ loc[c].pc = "idle" /\ "asked" \in excuses'
           /\ Fresh(c, j, f) /\ loc'[c].pc = "recheck"
  <1> DEFINE r == [NoRun EXCEPT !.job = j, !.pc = "recheck", !.force = f]
  <1>1. r \in RunRec
    BY NoRunTyped DEF RunRec
  <1>2. /\ r.job = j /\ r.force = f /\ r.own = TRUE /\ r.item = "mail" /\ r.pc = "recheck"
    BY DEF NoRun
  <1>3. /\ loc' = [loc EXCEPT ![c] = r] /\ Excuse({"asked"})
        /\ now' = now /\ plan' = plan /\ day' = day /\ loc[c].pc = "idle"
    BY DEF Ask
  <1> HIDE DEF r
  <1>4. /\ loc' \in [Callers -> RunRec] /\ loc'[c] = r
        /\ \A d \in Callers \ {c} : loc'[d] = loc[d]
    BY <1>1, <1>3, LocTyped
  <1>5. /\ excuses' \subseteq Excuses /\ excuses \subseteq excuses' /\ "asked" \in excuses'
    BY <1>3 DEF Excuse, TypeOK, Excuses
  <1> QED
    BY <1>2, <1>3, <1>4, <1>5 DEF Moves, Fresh

LEMMA RecheckMoves ==
    ASSUME TypeOK, NEW c \in Callers, NEW b \in BOOLEAN, Recheck(c, b)
    PROVE  /\ Moves(c) /\ after' \subseteq Jobs /\ loc[c].pc = "recheck"
           /\ Fault(b) \subseteq excuses' \/ loc[c].job = "evening"
           /\ \/ /\ loc'[c] = NoRun /\ after' = after
                 /\ \/ ~loc[c].force /\ Found(loc[c].job, b)
                    \/ loc[c].job = "sync" /\ Active
                    \/ Resting(loc[c].job)
              \/ /\ loc[c].job = "evening" /\ Kept(c) /\ loc'[c].pc = "work"
                 /\ loc'[c].item = loc[c].item
                 /\ loc[c].force \/ ~Found(loc[c].job, b)
                 /\ after' = IF now >= Cron["evening"] THEN after \cup {"evening"} ELSE after
                 /\ Overlap("evening") \subseteq excuses'
              \/ /\ loc[c].job # "evening" /\ Kept(c) /\ loc'[c].pc = "begin"
                 /\ loc'[c].item = loc[c].item
                 /\ loc[c].force \/ ~Found(loc[c].job, b)
                 /\ (loc[c].job = "sync" => ~Active) /\ after' = after
                 /\ loc[c].force \/ ~Resting(loc[c].job)
  <1> DEFINE l == loc[c]
             rests == \/ ~l.force /\ l.job # "evening" /\ Weekend(l.job)
                      \/ Muted(l.job)
             refused == \/ rests
                        \/ ~l.force /\ Found(l.job, b)
                        \/ l.job = "sync" /\ Active
             w == [l EXCEPT !.pc = "work"]
             r == [l EXCEPT !.pc = "begin"]
  <1>0. /\ l.pc = "recheck" /\ now' = now /\ plan' = plan /\ day' = day
        /\ CASE refused -> Out(c) /\ UNCHANGED after /\ Excuse(Fault(b))
             [] ~refused /\ l.job = "evening" -> Enter(c, w) /\ Excuse(Overlap("evening"))
             [] OTHER -> /\ loc' = [loc EXCEPT ![c].pc = "begin"]
                         /\ UNCHANGED after /\ Excuse(Fault(b))
    BY DEF Recheck
  <1>l. l \in RunRec
    BY DEF TypeOK, RunRec
  <1>t. w \in RunRec /\ r \in RunRec
    BY <1>l DEF RunRec
  <1>f. /\ w.job = l.job /\ w.force = l.force /\ w.own = l.own /\ w.item = l.item /\ w.pc = "work"
        /\ r.job = l.job /\ r.force = l.force /\ r.own = l.own /\ r.item = l.item /\ r.pc = "begin"
    BY <1>l DEF RunRec
  <1>r. /\ rests => Resting(l.job)
        /\ ~rests /\ l.job # "evening" => l.force \/ ~Resting(l.job)
    BY DEF Resting
  <1> HIDE DEF rests
  <1>1. CASE refused
    <2>1. loc' = [loc EXCEPT ![c] = NoRun] /\ after' = after /\ Excuse(Fault(b))
      BY <1>0, <1>1, Zenon DEF Out
    <2>2. /\ loc' \in [Callers -> RunRec] /\ loc'[c] = NoRun
          /\ \A d \in Callers \ {c} : loc'[d] = loc[d]
      BY <2>1, NoRunTyped, LocTyped
    <2>3. /\ excuses' \subseteq Excuses /\ excuses \subseteq excuses'
          /\ Fault(b) \subseteq excuses'
      BY <2>1, FaultTyped, ExcuseTyped
    <2>4. \/ ~l.force /\ Found(l.job, b)
          \/ l.job = "sync" /\ Active
          \/ Resting(l.job)
      BY <1>1, <1>r
    <2> QED
      BY <1>0, <2>1, <2>2, <2>3, <2>4 DEF Moves, TypeOK
  <1>2. CASE ~refused /\ l.job = "evening"
    <2>1. Enter(c, w) /\ Excuse(Overlap("evening"))
      BY <1>0, <1>2
    <2>3. /\ excuses' \subseteq Excuses /\ excuses \subseteq excuses'
          /\ Overlap("evening") \subseteq excuses'
      BY <2>1, OverlapTyped, ExcuseTyped DEF Jobs
    <2> HIDE DEF w
    <2>4. /\ loc' \in [Callers -> RunRec] /\ after' \subseteq Jobs
          /\ \A d \in Callers \ {c} : loc'[d] = loc[d]
          /\ loc'[c] = [w EXCEPT !.at = IF w.job = "sync" THEN now ELSE 0]
      BY <2>1, <1>t, EnterTyped
    <2>5. Kept(c) /\ loc'[c].pc = "work" /\ loc'[c].item = l.item
      BY <2>4, <1>f, <1>t DEF Kept, RunRec
    <2>6. after' = IF now >= Cron["evening"] THEN after \cup {"evening"} ELSE after
      BY <2>1, <1>f, <1>2 DEF Enter
    <2> QED
      BY <1>0, <1>2, <2>3, <2>4, <2>5, <2>6 DEF Moves
  <1>3. CASE ~refused /\ l.job # "evening"
    <2>1. loc' = [loc EXCEPT ![c] = r] /\ Excuse(Fault(b)) /\ after' = after
      BY <1>0, <1>3
    <2>3. /\ excuses' \subseteq Excuses /\ excuses \subseteq excuses'
          /\ Fault(b) \subseteq excuses'
      BY <2>1, FaultTyped, ExcuseTyped
    <2> HIDE DEF r
    <2>4. /\ loc' \in [Callers -> RunRec] /\ loc'[c] = r
          /\ \A d \in Callers \ {c} : loc'[d] = loc[d]
      BY <2>1, <1>t, LocTyped
    <2>5. /\ l.force \/ ~Found(l.job, b)
          /\ l.job = "sync" => ~Active
          /\ l.force \/ ~Resting(l.job)
      BY <1>3, <1>r
    <2>6. Kept(c) /\ loc'[c].pc = "begin" /\ loc'[c].item = l.item
      BY <1>f, <2>4 DEF Kept
    <2> QED
      BY <1>0, <1>3, <2>1, <2>3, <2>4, <2>5, <2>6 DEF Moves, TypeOK
  <1> QED
    BY <1>1, <1>2, <1>3

LEMMA BeginMoves ==
    ASSUME TypeOK, NEW c \in Callers, NEW n \in 1..Strategies, NEW b \in BOOLEAN,
           Begin(c, n, b)
    PROVE  /\ Moves(c) /\ after' \subseteq Jobs /\ loc[c].pc = "begin"
           /\ Kept(c) /\ loc'[c].pc = "work" /\ loc'[c].item = loc[c].item
           /\ loc'[c].at = IF loc[c].job = "sync" THEN now ELSE 0
           /\ loc'[c].left = IF loc[c].job = "proof" THEN n ELSE 0
           /\ Overlap(loc[c].job) \cup Fault(b) \subseteq excuses'
           /\ after' = IF now >= Cron[loc[c].job] THEN after \cup {loc[c].job} ELSE after
  <1> DEFINE l == loc[c]
             w == [l EXCEPT !.pc = "work", !.left = IF l.job = "proof" THEN n ELSE 0]
  <1>0. /\ l.pc = "begin" /\ now' = now /\ plan' = plan /\ day' = day
        /\ Enter(c, w) /\ Excuse(Overlap(l.job) \cup Fault(b))
    BY DEF Begin
  <1>l. l \in RunRec
    BY DEF TypeOK, RunRec
  <1>n. (IF l.job = "proof" THEN n ELSE 0) \in 0..Strategies
    BY DayIsSound
  <1>t. w \in RunRec
    BY <1>l, <1>n DEF RunRec
  <1>f. /\ w.job = l.job /\ w.force = l.force /\ w.own = l.own /\ w.item = l.item
        /\ w.pc = "work" /\ w.left = IF l.job = "proof" THEN n ELSE 0
    BY <1>l DEF RunRec
  <1>j. l.job \in Jobs
    BY <1>l DEF RunRec
  <1> HIDE DEF w
  <1>3. /\ excuses' \subseteq Excuses /\ excuses \subseteq excuses'
        /\ Overlap(l.job) \cup Fault(b) \subseteq excuses'
    <2>1. Overlap(l.job) \cup Fault(b) \in SUBSET Excuses
      BY <1>j, OverlapTyped, FaultTyped
    <2> QED
      BY <2>1, <1>0, ExcuseTyped
  <1>4. /\ loc' \in [Callers -> RunRec] /\ after' \subseteq Jobs
        /\ \A d \in Callers \ {c} : loc'[d] = loc[d]
        /\ loc'[c] = [w EXCEPT !.at = IF w.job = "sync" THEN now ELSE 0]
    BY <1>0, <1>t, EnterTyped
  <1>5. /\ Kept(c) /\ loc'[c].pc = "work" /\ loc'[c].item = l.item /\ loc'[c].left = w.left
        /\ loc'[c].at = IF l.job = "sync" THEN now ELSE 0
    BY <1>4, <1>f, <1>t DEF Kept, RunRec
  <1>6. after' = IF now >= Cron[l.job] THEN after \cup {l.job} ELSE after
    BY <1>0, <1>f DEF Enter
  <1> QED
    BY <1>0, <1>f, <1>3, <1>4, <1>5, <1>6 DEF Moves

\* A run ends.
LEMMA Leaves ==
    ASSUME TypeOK, NEW c \in Callers, NEW e \in SUBSET Excuses,
           Out(c), Excuse(e), now' = now, plan' = plan /\ day' = day
    PROVE  Moves(c) /\ loc'[c] = NoRun /\ e \subseteq excuses'
  BY NoRunTyped, LocTyped, ExcuseTyped DEF Moves, Out

\* A run goes from one record to another.
LEMMA Goes ==
    ASSUME TypeOK, NEW c \in Callers, NEW l \in RunRec, loc' = [loc EXCEPT ![c] = l],
           NEW e \in SUBSET Excuses, Excuse(e), now' = now, plan' = plan /\ day' = day
    PROVE  Moves(c) /\ loc'[c] = l /\ e \subseteq excuses'
  BY LocTyped, ExcuseTyped DEF Moves

LEMMA PrewarmMoves ==
    ASSUME TypeOK, NEW c \in Callers, NEW b \in BOOLEAN, Prewarm(c, b)
    PROVE  Moves(c) /\ loc'[c] = NoRun /\ Fault(b) \subseteq excuses'
  BY Leaves, FaultTyped DEF Prewarm

LEMMA SyncDoneMoves ==
    ASSUME TypeOK, NEW c \in Callers, SyncDone(c)
    PROVE  Moves(c) /\ loc'[c] = NoRun /\ (~loc[c].ok => "fault" \in excuses')
  <1>1. (~loc[c].ok) \in BOOLEAN
    OBVIOUS
  <1>2. Fault(~loc[c].ok) \in SUBSET Excuses
    BY <1>1, FaultTyped
  <1>3. Moves(c) /\ loc'[c] = NoRun /\ Fault(~loc[c].ok) \subseteq excuses'
    BY <1>2, Leaves DEF SyncDone
  <1> QED
    BY <1>3 DEF Fault

LEMMA MarkMoves ==
    ASSUME TypeOK, NEW c \in Callers, NEW b \in BOOLEAN, Mark(c, b)
    PROVE  Moves(c) /\ loc'[c] = NoRun /\ Fault(b) \subseteq excuses'
  BY Leaves, FaultTyped DEF Mark

LEMMA ThrowMoves ==
    ASSUME TypeOK, NEW c \in Callers, NEW b \in BOOLEAN, Throw(c, b)
    PROVE  Moves(c) /\ loc'[c] = NoRun /\ "fault" \in excuses'
  <1>1. {"fault"} \in SUBSET Excuses
    BY DEF Excuses
  <1> QED
    BY <1>1, Leaves DEF Throw

\* A run at work that goes on is still of its job, day and minute.
Fixed(c) == /\ Kept(c) /\ loc'[c].at = loc[c].at

LEMMA SyncStepsMoves ==
    ASSUME TypeOK, NEW c \in Callers, NEW o \in BOOLEAN, NEW w \in BOOLEAN,
           NEW b \in BOOLEAN, SyncSteps(c, o, w, b)
    PROVE  /\ Moves(c) /\ Fixed(c) /\ loc'[c].pc = "mark" /\ loc'[c].item = loc[c].item
           /\ loc'[c].ok = (o /\ w)
           /\ (b \/ ~o \/ ~w => "fault" \in excuses')
  <1> DEFINE l == loc[c]
             m == [l EXCEPT !.pc = "mark", !.ok = o /\ w]
  <1>1. l \in RunRec
    BY DEF TypeOK, RunRec
  <1>2. (o /\ w) \in BOOLEAN /\ (b \/ ~o \/ ~w) \in BOOLEAN
    OBVIOUS
  <1>3. m \in RunRec
    BY <1>1, <1>2 DEF RunRec
  <1>4. /\ m.job = l.job /\ m.force = l.force /\ m.own = l.own /\ m.item = l.item
        /\ m.at = l.at /\ m.pc = "mark" /\ m.ok = (o /\ w)
    BY <1>1 DEF RunRec
  <1>5. /\ loc' = [loc EXCEPT ![c] = m] /\ Excuse(Fault(b \/ ~o \/ ~w))
        /\ now' = now /\ plan' = plan /\ day' = day
    BY DEF SyncSteps, TypeOK
  <1> HIDE DEF m
  <1>6. Fault(b \/ ~o \/ ~w) \in SUBSET Excuses
    BY <1>2, FaultTyped
  <1>7. Moves(c) /\ loc'[c] = m /\ Fault(b \/ ~o \/ ~w) \subseteq excuses'
    BY <1>3, <1>5, <1>6, Goes
  <1> QED
    BY <1>4, <1>7 DEF Fixed, Kept, Fault

LEMMA BuildMoves ==
    ASSUME TypeOK, NEW c \in Callers, Build(c)
    PROVE  /\ Moves(c) /\ Fixed(c) /\ loc'[c].pc = "check" /\ loc'[c].item = loc[c].item
  <1> DEFINE l == loc[c]
             m == [l EXCEPT !.pc = "check"]
  <1>1. l \in RunRec
    BY DEF TypeOK, RunRec
  <1>3. m \in RunRec
    BY <1>1 DEF RunRec
  <1>4. /\ m.job = l.job /\ m.force = l.force /\ m.own = l.own /\ m.item = l.item
        /\ m.at = l.at /\ m.pc = "check"
    BY <1>1 DEF RunRec
  <1>5. loc' = [loc EXCEPT ![c] = m] /\ now' = now /\ plan' = plan /\ day' = day /\ Excuse({})
    BY DEF Build, Excuse
  <1> HIDE DEF m
  <1>7. Moves(c) /\ loc'[c] = m
    BY <1>3, <1>5, Goes
  <1> QED
    BY <1>4, <1>7 DEF Fixed, Kept

\* To the next channel, or to the mark.
Follows(c) == \/ loc[c].item = "mail" /\ loc'[c].item = "whatsapp" /\ loc'[c].pc = "check"
              \/ loc[c].item = "whatsapp" /\ loc'[c].item = "whatsapp" /\ loc'[c].pc = "mark"

LEMMA CheckMoves ==
    ASSUME TypeOK, NEW c \in Callers, NEW x \in BOOLEAN, NEW b \in BOOLEAN, Check(c, x, b)
    PROVE  /\ Moves(c) /\ Fixed(c) /\ Fault(b) \subseteq excuses' /\ loc[c].pc = "check"
           /\ \/ /\ x /\ loc'[c].pc = "send" /\ loc'[c].item = loc[c].item
                 /\ ~(DayKey(loc[c]) /\ loc[c].item \in keys[loc[c].job] /\ ~b)
              \/ ~x /\ Follows(c)
  <1> DEFINE l == loc[c]
             s == [l EXCEPT !.pc = "send"]
  <1>1. l \in RunRec
    BY DEF TypeOK, RunRec
  <1>2. s \in RunRec /\ Onward(l) \in RunRec
    BY <1>1, OnwardTyped DEF RunRec
  <1>3. /\ s.job = l.job /\ s.force = l.force /\ s.own = l.own /\ s.item = l.item
        /\ s.at = l.at /\ s.pc = "send"
    BY <1>1 DEF RunRec
  <1>4. /\ loc' = [loc EXCEPT ![c] = IF x THEN s ELSE Onward(l)] /\ l.pc = "check"
        /\ Excuse(Fault(b)) /\ now' = now /\ plan' = plan /\ day' = day
        /\ x => ~(DayKey(l) /\ l.item \in keys[l.job] /\ ~b)
    BY DEF Check
  <1> HIDE DEF s
  <1>5. Fault(b) \in SUBSET Excuses
    BY FaultTyped
  <1>6. CASE x
    <2>1. Moves(c) /\ loc'[c] = s /\ Fault(b) \subseteq excuses'
      BY <1>2, <1>4, <1>5, <1>6, Goes
    <2> QED
      BY <1>3, <1>4, <1>6, <2>1 DEF Fixed, Kept
  <1>7. CASE ~x
    <2>1. Moves(c) /\ loc'[c] = Onward(l) /\ Fault(b) \subseteq excuses'
      BY <1>2, <1>4, <1>5, <1>7, Goes
    <2> QED
      BY <1>1, <1>4, <1>7, <2>1, OnwardTyped DEF Fixed, Kept, Follows
  <1> QED
    BY <1>6, <1>7

LEMMA SendMoves ==
    ASSUME TypeOK, NEW c \in Callers, NEW x \in BOOLEAN, Send(c, x)
    PROVE  /\ Moves(c) /\ Fixed(c) /\ (~x => "fault" \in excuses')
           /\ \/ /\ x /\ HasKey(loc[c]) /\ loc'[c].pc = "key"
                 /\ loc'[c].item = loc[c].item
              \/ ~(x /\ HasKey(loc[c])) /\ Follows(c)
  <1> DEFINE l == loc[c]
             s == [l EXCEPT !.pc = "key"]
  <1>1. l \in RunRec
    BY DEF TypeOK, RunRec
  <1>2. s \in RunRec /\ Onward(l) \in RunRec
    BY <1>1, OnwardTyped DEF RunRec
  <1>3. /\ s.job = l.job /\ s.force = l.force /\ s.own = l.own /\ s.item = l.item
        /\ s.at = l.at /\ s.pc = "key"
    BY <1>1 DEF RunRec
  <1>4. /\ loc' = [loc EXCEPT ![c] = IF x /\ HasKey(l) THEN s ELSE Onward(l)]
        /\ Excuse(Fault(~x)) /\ now' = now /\ plan' = plan /\ day' = day
    BY DEF Send
  <1> HIDE DEF s
  <1>5. Fault(~x) \in SUBSET Excuses
    BY FaultTyped
  <1>6. CASE x /\ HasKey(l)
    <2>1. Moves(c) /\ loc'[c] = s
      BY <1>2, <1>4, <1>5, <1>6, Goes
    <2> QED
      BY <1>3, <1>6, <2>1 DEF Fixed, Kept
  <1>7. CASE ~(x /\ HasKey(l))
    <2>1. Moves(c) /\ loc'[c] = Onward(l) /\ Fault(~x) \subseteq excuses'
      BY <1>2, <1>4, <1>5, <1>7, Goes
    <2> QED
      BY <1>1, <1>7, <2>1, OnwardTyped DEF Fixed, Kept, Follows, Fault
  <1> QED
    BY <1>6, <1>7

LEMMA SetKeyMoves ==
    ASSUME TypeOK, NEW c \in Callers, NEW b \in BOOLEAN, SetKey(c, b)
    PROVE  Moves(c) /\ Fixed(c) /\ Fault(b) \subseteq excuses' /\ Follows(c)
  <1> DEFINE l == loc[c]
  <1>1. l \in RunRec
    BY DEF TypeOK, RunRec
  <1>2. Onward(l) \in RunRec
    BY <1>1, OnwardTyped
  <1>3. /\ loc' = [loc EXCEPT ![c] = Onward(l)]
        /\ Excuse(Fault(b)) /\ now' = now /\ plan' = plan /\ day' = day
    BY DEF SetKey
  <1>4. Fault(b) \in SUBSET Excuses
    BY FaultTyped
  <1>5. Moves(c) /\ loc'[c] = Onward(l) /\ Fault(b) \subseteq excuses'
    BY <1>2, <1>3, <1>4, Goes
  <1> QED
    BY <1>1, <1>5, OnwardTyped DEF Fixed, Kept, Follows

LEMMA ProofRowMoves ==
    ASSUME TypeOK, NEW c \in Callers, NEW b \in BOOLEAN, ProofRow(c, b),
           loc[c].left \in 1..Strategies
    PROVE  /\ Moves(c) /\ Fixed(c) /\ loc'[c].left = loc[c].left - 1
           /\ loc'[c].item = loc[c].item
           /\ loc'[c].pc = IF loc[c].left = 1 THEN "mark" ELSE "work"
  <1> DEFINE l == loc[c]
             n == l.left - 1
             q == IF l.left = 1 THEN "mark" ELSE "work"
             m == [l EXCEPT !.left = n, !.pc = q]
  <1>1. l \in RunRec
    BY DEF TypeOK, RunRec
  <1>2. n \in 0..Strategies
    BY DayIsSound
  <1>3. q \in {"mark", "work"}
    OBVIOUS
  <1>5. loc' = [loc EXCEPT ![c] = m] /\ now' = now /\ plan' = plan /\ day' = day /\ Excuse({})
    BY DEF ProofRow, Excuse, TypeOK
  <1> HIDE DEF n, q
  <1>4. /\ m \in RunRec /\ m.left = n /\ m.pc = q
        /\ m.job = l.job /\ m.force = l.force /\ m.own = l.own /\ m.item = l.item
        /\ m.at = l.at
    BY <1>1, <1>2, <1>3 DEF RunRec
  <1> HIDE DEF m
  <1>7. Moves(c) /\ loc'[c] = m
    BY <1>4, <1>5, Goes
  <1> QED
    BY <1>4, <1>7 DEF Fixed, Kept, n, q

-----------------------------------------------------------------------------
(* What a single run knows of itself.                                        *)

RunSound(c) ==
    LET l == loc[c]
    IN  /\ l.pc # "idle" => l.job \in plan
        /\ Looking(c) => l.own
        /\ l.pc = "begin" => l.job \notin {"evening", "prewarm"}
        /\ l.pc = "recheck" => l.job # "prewarm"
        /\ l.pc \in {"check", "send", "key"} => l.job \in Alerting
        /\ l.pc = "mark" => l.job # "prewarm"
        /\ l.pc = "key" => HasKey(l)
        /\ l.pc = "work" /\ l.job = "proof" => l.left \in 1..Strategies
        /\ l.force => c \in Requests
        /\ l.pc # "idle" /\ l.own /\ c \in Requests => "asked" \in excuses
        /\ l.pc # "idle" /\ ~l.own => "carried" \in excuses
        /\ Looking(c) /\ c \in Ticks => Due(l.job)
        /\ l.pc = "recheck" /\ c \in Ticks /\ l.job = "evening" => ~day.weekend
        /\ l.pc = "begin" /\ c \in Ticks => ~Resting(l.job)

RunsSound == \A c \in Callers : RunSound(c)

\* Steps of one run: everything of Next but the crashes and the clock.
OneMoves(c) ==
    \/ \E j \in Jobs, b \in BOOLEAN : Tick(c, j, b) /\ c \in Ticks
    \/ \E j \in Jobs, f \in BOOLEAN : Ask(c, j, f) /\ c \in Requests
    \/ Run(c)
    \/ \E s \in BOOLEAN : Throw(c, s)

\* A run without a record holds nothing.
LEMMA NoRunSound ==
    ASSUME NEW c \in Callers, loc'[c] = NoRun
    PROVE  RunSound(c)'
  BY DEF RunSound, Looking, NoRun

LEMMA StillSound ==
    ASSUME NEW c \in Callers, NEW d \in Callers, Moves(c), d # c, RunSound(d)
    PROVE  RunSound(d)'
  <1>1. /\ loc'[d] = loc[d] /\ now' = now /\ plan' = plan /\ day' = day
        /\ excuses \subseteq excuses'
    BY DEF Moves
  <1>2. \A j \in Jobs : Due(j)' = Due(j)
    BY <1>1 DEF Due
  <1>3. \A j : Resting(j)' = Resting(j)
    BY <1>1 DEF Resting, Weekend, Muted, Moves
  <1> QED
    BY <1>1, <1>3 DEF RunSound, Looking, Due, HasKey, Moves

LEMMA RunSoundStep ==
    ASSUME TypeOK, NEW c \in Callers, RunSound(c), OneMoves(c)
    PROVE  RunSound(c)' /\ Moves(c)
  <1>l. loc[c] \in RunRec
    BY DEF TypeOK, RunRec
  <1>1. ASSUME NEW j \in Jobs, NEW b \in BOOLEAN, Tick(c, j, b), c \in Ticks
        PROVE  RunSound(c)' /\ Moves(c)
    <2>1. Moves(c) /\ loc[c].pc = "idle"
      BY <1>1, TickMoves
    <2>2. j \in plan /\ Due(j) /\ c \notin Requests
      BY <1>1, TicksAreNoRequests DEF Tick
    <2>3. \/ loc' = loc
          \/ j = "prewarm" /\ Fresh(c, j, FALSE) /\ loc'[c].pc = "work"
          \/ /\ j # "prewarm" /\ Fresh(c, j, FALSE) /\ loc'[c].pc = "recheck"
             /\ (j = "evening" => ~day.weekend)
      BY <1>1, TickMoves
    <2>4. now' = now /\ plan' = plan /\ day' = day /\ excuses \subseteq excuses'
      BY <2>1 DEF Moves
    <2> QED
      BY <2>1, <2>2, <2>3, <2>4 DEF RunSound, Looking, Fresh, Due, HasKey
  <1>2. ASSUME NEW j \in Jobs, NEW f \in BOOLEAN, Ask(c, j, f), c \in Requests
        PROVE  RunSound(c)' /\ Moves(c)
    <2>1. Moves(c) /\ "asked" \in excuses' /\ Fresh(c, j, f) /\ loc'[c].pc = "recheck"
      BY <1>2, AskMoves
    <2>2. j \in plan /\ j # "prewarm" /\ c \notin Ticks /\ plan' = plan /\ day' = day
      BY <1>2, TicksAreNoRequests DEF Ask
    <2> QED
      BY <1>2, <2>1, <2>2 DEF RunSound, Looking, Fresh, HasKey
  <1>3. ASSUME NEW b \in BOOLEAN, Recheck(c, b)
        PROVE  RunSound(c)' /\ Moves(c)
    <2>1. Moves(c) /\ loc[c].pc = "recheck"
      BY <1>3, RecheckMoves
    <2>2. \/ loc'[c] = NoRun
          \/ loc[c].job = "evening" /\ Kept(c) /\ loc'[c].pc = "work"
          \/ /\ loc[c].job # "evening" /\ Kept(c) /\ loc'[c].pc = "begin"
             /\ loc[c].force \/ ~Resting(loc[c].job)
      BY <1>3, RecheckMoves
    <2>r. \A j : Resting(j)' = Resting(j)
      BY <2>1 DEF Resting, Weekend, Muted, Moves
    <2>f. loc[c].force => c \notin Ticks
      BY TicksAreNoRequests DEF RunSound
    <2>4. now' = now /\ plan' = plan /\ day' = day /\ excuses \subseteq excuses'
      BY <2>1 DEF Moves
    <2>5. CASE loc'[c] = NoRun
      BY <2>1, <2>5, NoRunSound
    <2>6. CASE loc[c].job = "evening" /\ Kept(c) /\ loc'[c].pc = "work"
      BY <2>1, <2>4, <2>6 DEF RunSound, Looking, Kept, Due, HasKey
    <2>7. CASE /\ loc[c].job # "evening" /\ Kept(c) /\ loc'[c].pc = "begin"
               /\ loc[c].force \/ ~Resting(loc[c].job)
      <3>1. c \in Ticks => ~Resting(loc[c].job)'
        <4>1. day' = day /\ loc'[c].job = loc[c].job
          BY <2>1, <2>7 DEF Kept, Moves
        <4> QED
          BY <2>7, <2>f, <4>1 DEF Resting, Weekend, Muted
      <3> QED
        BY <2>1, <2>4, <2>7, <3>1 DEF RunSound, Looking, Kept, Due, HasKey
    <2> QED
      BY <2>2, <2>5, <2>6, <2>7
  <1>4. ASSUME NEW n \in 1..Strategies, NEW b \in BOOLEAN, Begin(c, n, b)
        PROVE  RunSound(c)' /\ Moves(c)
    <2>1. /\ Moves(c) /\ loc[c].pc = "begin" /\ Kept(c) /\ loc'[c].pc = "work"
          /\ loc'[c].left = IF loc[c].job = "proof" THEN n ELSE 0
      BY <1>4, BeginMoves
    <2>4. plan' = plan /\ day' = day /\ excuses \subseteq excuses'
      BY <2>1 DEF Moves
    <2> QED
      BY <2>1, <2>4 DEF RunSound, Looking, Kept, HasKey
  <1>5. ASSUME Moves(c), loc'[c] = NoRun
        PROVE  RunSound(c)' /\ Moves(c)
    BY <1>5, NoRunSound
  <1>6. ASSUME NEW o \in BOOLEAN, NEW w \in BOOLEAN, NEW b \in BOOLEAN, SyncSteps(c, o, w, b)
        PROVE  RunSound(c)' /\ Moves(c)
    <2>1. Moves(c) /\ Fixed(c) /\ loc'[c].pc = "mark"
      BY <1>6, SyncStepsMoves
    <2>2. loc[c].pc = "work" /\ loc[c].job = "sync"
      BY <1>6 DEF SyncSteps
    <2>4. plan' = plan /\ day' = day /\ excuses \subseteq excuses'
      BY <2>1 DEF Moves
    <2> QED
      BY <2>1, <2>2, <2>4 DEF RunSound, Looking, Fixed, Kept, HasKey
  <1>7. ASSUME Build(c)
        PROVE  RunSound(c)' /\ Moves(c)
    <2>1. Moves(c) /\ Fixed(c) /\ loc'[c].pc = "check"
      BY <1>7, BuildMoves
    <2>2. loc[c].pc = "work" /\ loc[c].job \in Alerting
      BY <1>7 DEF Build
    <2>4. plan' = plan /\ day' = day /\ excuses \subseteq excuses'
      BY <2>1 DEF Moves
    <2> QED
      BY <2>1, <2>2, <2>4 DEF RunSound, Looking, Fixed, Kept, HasKey
  <1>8. ASSUME Moves(c), Fixed(c), loc[c].pc \in {"check", "send", "key"},
               \/ loc'[c].pc = "send"
               \/ loc'[c].pc = "key" /\ loc'[c].item = loc[c].item /\ HasKey(loc[c])
               \/ Follows(c)
        PROVE  RunSound(c)' /\ Moves(c)
    <2>1. plan' = plan /\ day' = day /\ excuses \subseteq excuses'
      BY <1>8 DEF Moves
    <2>2. loc[c].job \in Alerting /\ loc[c].job # "prewarm"
      BY <1>8 DEF RunSound, Alerting
    <2>3. loc'[c].pc \in {"check", "send", "key", "mark"}
      BY <1>8 DEF Follows
    <2>4. loc'[c].pc = "key" => HasKey(loc'[c])
      BY <1>8 DEF Follows, HasKey, Fixed, Kept
    <2> QED
      BY <1>8, <2>1, <2>2, <2>3, <2>4 DEF RunSound, Looking, Fixed, Kept
  <1>9. ASSUME NEW b \in BOOLEAN, ProofRow(c, b)
        PROVE  RunSound(c)' /\ Moves(c)
    <2>2. loc[c].pc = "work" /\ loc[c].job = "proof"
      BY <1>9 DEF ProofRow
    <2>3. loc[c].left \in 1..Strategies
      BY <2>2 DEF RunSound
    <2>1. /\ Moves(c) /\ Fixed(c) /\ loc'[c].left = loc[c].left - 1
          /\ loc'[c].pc = IF loc[c].left = 1 THEN "mark" ELSE "work"
      BY <1>9, <2>3, ProofRowMoves
    <2>4. plan' = plan /\ day' = day /\ excuses \subseteq excuses'
      BY <2>1 DEF Moves
    <2>5. loc'[c].pc = "work" => loc'[c].left \in 1..Strategies
      BY <2>1, <2>3, DayIsSound
    <2>6. loc'[c].pc \in {"work", "mark"}
      BY <2>1
    <2> QED
      BY <2>1, <2>2, <2>4, <2>5, <2>6 DEF RunSound, Looking, Fixed, Kept
  <1>10. ASSUME Run(c)
         PROVE  RunSound(c)' /\ Moves(c)
    <2>1. ASSUME NEW b \in BOOLEAN, Prewarm(c, b) \/ Mark(c, b) \/ SyncDone(c)
          PROVE  Moves(c) /\ loc'[c] = NoRun
      BY <2>1, PrewarmMoves, MarkMoves, SyncDoneMoves
    <2>2. ASSUME NEW b \in BOOLEAN, SetKey(c, b)
          PROVE  RunSound(c)' /\ Moves(c)
      <3>1. loc[c].pc \in {"check", "send", "key"}
        BY <2>2 DEF SetKey
      <3> QED
        BY <2>2, <3>1, SetKeyMoves, <1>8
    <2>3. ASSUME NEW b \in BOOLEAN, Send(c, b)
          PROVE  RunSound(c)' /\ Moves(c)
      <3>1. loc[c].pc \in {"check", "send", "key"}
        BY <2>3 DEF Send
      <3> QED
        BY <2>3, <3>1, SendMoves, <1>8
    <2>4. ASSUME NEW s \in BOOLEAN, NEW b \in BOOLEAN, Check(c, s, b)
          PROVE  RunSound(c)' /\ Moves(c)
      <3>1. loc[c].pc \in {"check", "send", "key"}
        BY <2>4 DEF Check
      <3> QED
        BY <2>4, <3>1, CheckMoves, <1>8
    <2> QED
      BY <1>10, <1>3, <1>4, <1>5, <1>6, <1>7, <1>9, <2>1, <2>2, <2>3, <2>4 DEF Run
  <1>11. ASSUME NEW s \in BOOLEAN, Throw(c, s)
         PROVE  RunSound(c)' /\ Moves(c)
    BY <1>11, ThrowMoves, <1>5
  <1> QED
    BY <1>1, <1>2, <1>10, <1>11 DEF OneMoves

LEMMA NextSplits ==
    ASSUME Next
    PROVE  \/ \E c \in Callers : OneMoves(c)
           \/ \E cs \in {Ticks, Requests} : Crash(cs)
           \/ \E gap \in BOOLEAN : Clock(gap)
           \/ \E w \in BOOLEAN : Midnight(w)
  <1>1. ASSUME NEW j \in Jobs, TickOf(j)
        PROVE  \E c \in Callers : OneMoves(c)
    <2>1. PICK c \in Ticks, b \in BOOLEAN : Tick(c, j, b)
      BY <1>1 DEF TickOf
    <2>2. c \in Callers /\ OneMoves(c)
      BY <2>1 DEF OneMoves, Callers
    <2> QED
      BY <2>2
  <1>2. ASSUME NEW c \in Requests, NEW j \in Jobs, NEW f \in BOOLEAN, Ask(c, j, f)
        PROVE  \E d \in Callers : OneMoves(d)
    BY <1>2 DEF OneMoves, Callers
  <1> QED
    BY <1>1, <1>2 DEF Next, OneMoves

LEMMA CrashMoves ==
    ASSUME TypeOK, NEW cs \in {Ticks, Requests}, Crash(cs)
    PROVE  /\ loc' \in [Callers -> RunRec] /\ now' = now /\ plan' = plan /\ day' = day
           /\ excuses' \subseteq Excuses /\ excuses \subseteq excuses'
           /\ "fault" \in excuses'
           /\ \A c \in cs : loc'[c] = NoRun
           /\ \A c \in Callers \ cs : loc'[c] = loc[c]
  <1>1. cs \subseteq Callers
    BY DEF Callers
  <1>2. loc' = [c \in Callers |-> IF c \in cs THEN NoRun ELSE loc[c]]
    BY DEF Crash
  <1>3. loc \in [Callers -> RunRec]
    BY DEF TypeOK, RunRec
  <1>4. loc' \in [Callers -> RunRec]
    BY <1>2, <1>3, NoRunTyped
  <1>5. /\ {"fault"} \in SUBSET Excuses /\ Excuse({"fault"})
        /\ now' = now /\ plan' = plan /\ day' = day
    BY DEF Excuses, Crash
  <1>6. /\ excuses' \subseteq Excuses /\ excuses \subseteq excuses'
        /\ "fault" \in excuses'
    BY <1>5, ExcuseTyped
  <1> QED
    BY <1>1, <1>2, <1>4, <1>5, <1>6

\* At midnight every run in flight is yesterday's.
LEMMA MidnightMoves ==
    ASSUME TypeOK, NEW w \in BOOLEAN, Midnight(w)
    PROVE  /\ loc' \in [Callers -> RunRec] /\ plan' = plan /\ now' = 0
           /\ excuses' \subseteq {"carried"}
           /\ \A c \in Callers : loc[c].pc = "idle" => loc'[c] = NoRun /\ loc'[c].pc = "idle"
           /\ \A c \in Callers : loc[c].pc # "idle" =>
                /\ loc'[c].own = FALSE /\ loc'[c].pc = loc[c].pc /\ loc'[c].job = loc[c].job
                /\ loc'[c].force = loc[c].force /\ loc'[c].left = loc[c].left
                /\ loc'[c].item = loc[c].item /\ loc'[c].at = loc[c].at
                /\ loc[c].pc \notin {"recheck", "begin"}
                /\ "carried" \in excuses'
  <1>1. loc \in [Callers -> RunRec]
    BY DEF TypeOK, RunRec
  <1>2. /\ loc' = [c \in Callers |-> IF loc[c].pc = "idle" THEN NoRun
                                 ELSE [loc[c] EXCEPT !.own = FALSE]]
        /\ plan' = plan /\ now' = 0 /\ LooksAreShort
        /\ excuses' = IF \E c \in Callers : loc[c].pc # "idle" THEN {"carried"} ELSE {}
    BY DEF Midnight
  <1>3. ASSUME NEW c \in Callers
        PROVE  [loc[c] EXCEPT !.own = FALSE] \in RunRec
    BY <1>1 DEF RunRec
  <1>4. loc' \in [Callers -> RunRec]
    BY <1>2, <1>3, NoRunTyped
  <1>5. excuses' \subseteq {"carried"}
    BY <1>2
  <1>6. ASSUME NEW c \in Callers, loc[c].pc # "idle"
        PROVE  /\ loc'[c].own = FALSE /\ loc'[c].pc = loc[c].pc /\ loc'[c].job = loc[c].job
               /\ loc'[c].force = loc[c].force /\ loc'[c].left = loc[c].left
               /\ loc'[c].item = loc[c].item /\ loc'[c].at = loc[c].at
               /\ loc[c].pc \notin {"recheck", "begin"}
               /\ "carried" \in excuses'
    <2>1. loc'[c] = [loc[c] EXCEPT !.own = FALSE]
      BY <1>2, <1>6
    <2>2. loc[c] \in RunRec
      BY <1>1
    <2>3. "carried" \in excuses' /\ loc[c].pc \notin {"recheck", "begin"}
      BY <1>2, <1>6 DEF LooksAreShort
    <2> QED
      BY <2>1, <2>2, <2>3 DEF RunRec
  <1>7. ASSUME NEW c \in Callers, loc[c].pc = "idle"
        PROVE  loc'[c] = NoRun /\ loc'[c].pc = "idle"
    BY <1>2, <1>7 DEF NoRun
  <1> QED
    BY <1>2, <1>4, <1>5, <1>6, <1>7

LEMMA SoundStep ==
    ASSUME TypeOK, RunsSound, Next
    PROVE  RunsSound'
  <1>1. ASSUME NEW c \in Callers, OneMoves(c)
        PROVE  RunsSound'
    <2>1. RunSound(c)' /\ Moves(c)
      BY <1>1, RunSoundStep DEF RunsSound
    <2>2. ASSUME NEW d \in Callers, d # c
          PROVE  RunSound(d)'
      BY <2>1, <2>2, StillSound DEF RunsSound
    <2> QED
      BY <2>1, <2>2 DEF RunsSound
  <1>2. ASSUME NEW cs \in {Ticks, Requests}, Crash(cs)
        PROVE  RunsSound'
    <2> SUFFICES ASSUME NEW c \in Callers PROVE RunSound(c)'
      BY DEF RunsSound
    <2>1. /\ now' = now /\ plan' = plan /\ day' = day /\ excuses \subseteq excuses'
          /\ loc'[c] = NoRun \/ loc'[c] = loc[c]
      BY <1>2, CrashMoves
    <2>2. CASE loc'[c] = NoRun
      BY <2>2, NoRunSound
    <2>3. CASE loc'[c] = loc[c]
      <3>1. \A j : Resting(j)' = Resting(j)
        BY <2>1 DEF Resting, Weekend, Muted
      <3> QED
        BY <2>1, <2>3, <3>1 DEF RunSound, RunsSound, Looking, Due, HasKey
    <2> QED
      BY <2>1, <2>2, <2>3
  <1>3. ASSUME NEW gap \in BOOLEAN, Clock(gap)
        PROVE  RunsSound'
    <2>1. /\ plan' = plan /\ day' = day /\ loc' = loc /\ excuses \subseteq excuses'
          /\ \A c \in Callers : ~Looking(c)
      BY <1>3 DEF Clock, Excuse, LooksAreShort, Looking
    <2> QED
      BY <2>1 DEF RunSound, RunsSound, Looking, HasKey
  <1>4. ASSUME NEW w \in BOOLEAN, Midnight(w)
        PROVE  RunsSound'
    <2> SUFFICES ASSUME NEW c \in Callers PROVE RunSound(c)'
      BY DEF RunsSound
    <2>1. CASE loc[c].pc = "idle"
      BY <1>4, <2>1, MidnightMoves, NoRunSound
    <2>2. CASE loc[c].pc # "idle"
      <3>1. /\ loc'[c].own = FALSE /\ loc'[c].pc = loc[c].pc /\ loc'[c].job = loc[c].job
            /\ loc'[c].force = loc[c].force /\ loc'[c].left = loc[c].left
            /\ loc'[c].item = loc[c].item /\ loc'[c].at = loc[c].at
            /\ loc[c].pc \notin {"recheck", "begin"}
            /\ "carried" \in excuses' /\ plan' = plan
        BY <1>4, <2>2, MidnightMoves
      <3> QED
        BY <3>1 DEF RunSound, RunsSound, Looking, HasKey
    <2> QED
      BY <2>1, <2>2
  <1> QED
    BY <1>1, <1>2, <1>3, <1>4, NextSplits

LEMMA TypeStep ==
    ASSUME TypeOK, RunsSound, Next
    PROVE  TypeOK'
  <1> DEFINE Stored == /\ mark' \in [Jobs -> {"no", "running", "done"}] /\ orphan' \in BOOLEAN
                       /\ rows' \in [1..Strategies -> {"none", "ok", "failed"}]
                       /\ keys' \in [Alerting -> SUBSET Items]
                       /\ sent' \in [Alerting -> [Items -> 0..2]]
                       /\ looked' \subseteq Jobs /\ after' \subseteq Jobs
  <1>w. ASSUME NEW b \in BOOLEAN, Warmed(b)
        PROVE  mark' \in [Jobs -> {"no", "running", "done"}] /\ after' \subseteq Jobs
    BY <1>w DEF Warmed, TypeOK, Jobs
  <1>1. ASSUME NEW c \in Callers, Run(c)
        PROVE  Stored
    <2>l. loc[c] \in RunRec /\ RunSound(c)
      BY DEF TypeOK, RunRec, RunsSound
    <2>1. ASSUME NEW b \in BOOLEAN, Recheck(c, b)
          PROVE  Stored
      <3>1. after' \subseteq Jobs
        BY <2>1, RecheckMoves
      <3> QED
        BY <2>1, <3>1 DEF Recheck, TypeOK, stores
    <2>2. ASSUME NEW b \in BOOLEAN, Prewarm(c, b)
          PROVE  Stored
      BY <2>2, <1>w DEF Prewarm, TypeOK
    <2>3. ASSUME NEW b \in BOOLEAN, SetKey(c, b)
          PROVE  Stored
      BY <2>3, <2>l DEF SetKey, TypeOK, RunRec
    <2>4. ASSUME NEW b \in BOOLEAN, Mark(c, b)
          PROVE  Stored
      BY <2>4, <2>l DEF Mark, TypeOK, RunRec
    <2>5. ASSUME NEW b \in BOOLEAN, Send(c, b)
          PROVE  Stored
      <3>1. loc[c].job \in Alerting /\ loc[c].item \in Items
        BY <2>5, <2>l DEF Send, RunSound, RunRec
      <3>2. sent' \in [Alerting -> [Items -> 0..2]]
        <4>1. sent[loc[c].job] \in [Items -> 0..2]
          BY <3>1 DEF TypeOK
        <4>2. CASE b /\ loc[c].own /\ sent[loc[c].job][loc[c].item] < 2
          <5>1. sent' = [sent EXCEPT ![loc[c].job][loc[c].item] = @ + 1]
            BY <2>5, <4>2 DEF Send
          <5>2. sent[loc[c].job][loc[c].item] + 1 \in 0..2
            BY <3>1, <4>1, <4>2
          <5> QED
            BY <3>1, <5>1, <5>2 DEF TypeOK
        <4>3. CASE ~(b /\ loc[c].own /\ sent[loc[c].job][loc[c].item] < 2)
          <5>1. sent' = sent
            BY <2>5, <4>3 DEF Send
          <5> QED
            BY <5>1 DEF TypeOK
        <4> QED
          BY <4>2, <4>3
      <3> QED
        BY <2>5, <3>2 DEF Send, TypeOK, stores
    <2>6. ASSUME NEW b \in BOOLEAN, ProofRow(c, b)
          PROVE  Stored
      <3>1. (IF b THEN "ok" ELSE "failed") \in {"none", "ok", "failed"}
        OBVIOUS
      <3>2. rows' \in [1..Strategies -> {"none", "ok", "failed"}]
        BY <2>6, <3>1 DEF ProofRow, TypeOK
      <3> QED
        BY <2>6, <3>2 DEF ProofRow, TypeOK
    <2>7. ASSUME NEW n \in 1..Strategies, NEW b \in BOOLEAN, Begin(c, n, b)
          PROVE  Stored
      <3>1. after' \subseteq Jobs
        BY <2>7, BeginMoves
      <3> QED
        BY <2>7, <3>1, <2>l DEF Begin, TypeOK, RunRec
    <2>8. ASSUME NEW o \in BOOLEAN, NEW w \in BOOLEAN, NEW b \in BOOLEAN, SyncSteps(c, o, w, b)
          PROVE  Stored
      <3>1. mark' \in [Jobs -> {"no", "running", "done"}] /\ after' \subseteq Jobs
        <4>1. CASE w
          BY <2>8, <4>1, <1>w DEF SyncSteps
        <4>2. CASE ~w
          BY <2>8, <4>2 DEF SyncSteps, TypeOK
        <4> QED
          BY <4>1, <4>2
      <3> QED
        BY <2>8, <3>1 DEF SyncSteps, TypeOK
    <2>9. ASSUME SyncDone(c)
          PROVE  Stored
      BY <2>9 DEF SyncDone, TypeOK
    <2>10. ASSUME Build(c)
           PROVE  Stored
      BY <2>10 DEF Build, TypeOK, stores
    <2>11. ASSUME NEW s \in BOOLEAN, NEW b \in BOOLEAN, Check(c, s, b)
           PROVE  Stored
      BY <2>11 DEF Check, TypeOK, stores
    <2> QED
      BY <1>1, <2>1, <2>2, <2>3, <2>4, <2>5, <2>6, <2>7, <2>8, <2>9, <2>10, <2>11 DEF Run
  <1>2. ASSUME NEW c \in Callers, OneMoves(c)
        PROVE  Stored
    <2>1. ASSUME NEW j \in Jobs, NEW b \in BOOLEAN, Tick(c, j, b)
          PROVE  Stored
      <3>1. after' \subseteq Jobs
        BY <2>1, TickMoves
      <3> QED
        BY <2>1, <3>1 DEF Tick, TypeOK, stores
    <2>2. ASSUME NEW j \in Jobs, NEW f \in BOOLEAN, Ask(c, j, f)
          PROVE  Stored
      BY <2>2 DEF Ask, TypeOK, stores
    <2>3. ASSUME NEW s \in BOOLEAN, Throw(c, s)
          PROVE  Stored
      BY <2>3 DEF Throw, TypeOK
    <2> QED
      BY <1>1, <1>2, <2>1, <2>2, <2>3 DEF OneMoves
  <1>3. ASSUME NEW c \in Callers, OneMoves(c)
        PROVE  TypeOK'
    <2>1. Moves(c)
      BY <1>3, RunSoundStep DEF RunsSound
    <2>2. Stored
      BY <1>2, <1>3
    <2> QED
      BY <2>1, <2>2 DEF TypeOK, Moves, RunRec
  <1>4. ASSUME NEW cs \in {Ticks, Requests}, Crash(cs)
        PROVE  TypeOK'
    <2>1. Stored
      BY <1>4 DEF Crash, TypeOK
    <2> QED
      BY <1>4, <2>1, CrashMoves DEF TypeOK, RunRec
  <1>5. ASSUME NEW gap \in BOOLEAN, Clock(gap)
        PROVE  TypeOK'
    <2>1. now' \in 0..DayEnd
      BY <1>5, DayIsSound DEF Clock, TypeOK
    <2>2. excuses' \subseteq Excuses
      BY <1>5 DEF Clock, TypeOK, Excuse, Fault, Excuses
    <2> QED
      BY <1>5, <2>1, <2>2 DEF Clock, TypeOK, stores
  <1>6. ASSUME NEW w \in BOOLEAN, Midnight(w)
        PROVE  TypeOK'
    <2>1. Stored
      BY <1>6 DEF Midnight, TypeOK
    <2>2. now' \in 0..DayEnd
      BY <1>6, DayIsSound DEF Midnight
    <2>3. day' \in [weekend : BOOLEAN, muted : BOOLEAN]
      BY <1>6 DEF Midnight, TypeOK
    <2>4. looked' = {} /\ after' = {} /\ plan' = plan
      BY <1>6 DEF Midnight
    <2>5. loc' \in [Callers -> RunRec] /\ excuses' \subseteq Excuses
      BY <1>6, MidnightMoves DEF Excuses
    <2> QED
      BY <2>1, <2>2, <2>3, <2>4, <2>5 DEF TypeOK, RunRec
  <1> QED
    BY <1>3, <1>4, <1>5, <1>6, NextSplits

-----------------------------------------------------------------------------
(* Which runs are at work, and which of them began today.                    *)

Steady(c) == /\ Working(c) /\ Working(c)' /\ Fixed(c)

\* The ways in which a step changes who is at work.
LEMMA RunKinds ==
    ASSUME TypeOK, NEW c \in Callers, RunSound(c), OneMoves(c)
    PROVE  \/ loc' = loc
           \/ /\ loc[c].pc = "idle" /\ Fresh(c, "prewarm", FALSE) /\ loc'[c].pc = "work"
              /\ Overlap("prewarm") \subseteq excuses'
           \/ loc[c].pc = "idle" /\ loc'[c].pc = "recheck"
           \/ /\ loc[c].pc = "recheck" /\ loc'[c].pc = "begin" /\ Kept(c)
              /\ loc[c].job = "sync" => ~Active
           \/ /\ loc[c].pc = "recheck" /\ loc'[c].pc = "work" /\ Kept(c)
              /\ loc[c].job = "evening" /\ Overlap("evening") \subseteq excuses'
           \/ /\ loc[c].pc = "begin" /\ loc'[c].pc = "work" /\ Kept(c)
              /\ Overlap(loc[c].job) \subseteq excuses'
              /\ loc[c].job = "sync" => loc'[c].at = now
           \/ loc'[c] = NoRun
           \/ Steady(c)
  <1> DEFINE Goal ==
           \/ loc' = loc
           \/ /\ loc[c].pc = "idle" /\ Fresh(c, "prewarm", FALSE) /\ loc'[c].pc = "work"
              /\ Overlap("prewarm") \subseteq excuses'
           \/ loc[c].pc = "idle" /\ loc'[c].pc = "recheck"
           \/ /\ loc[c].pc = "recheck" /\ loc'[c].pc = "begin" /\ Kept(c)
              /\ loc[c].job = "sync" => ~Active
           \/ /\ loc[c].pc = "recheck" /\ loc'[c].pc = "work" /\ Kept(c)
              /\ loc[c].job = "evening" /\ Overlap("evening") \subseteq excuses'
           \/ /\ loc[c].pc = "begin" /\ loc'[c].pc = "work" /\ Kept(c)
              /\ Overlap(loc[c].job) \subseteq excuses'
              /\ loc[c].job = "sync" => loc'[c].at = now
           \/ loc'[c] = NoRun
           \/ Steady(c)
  <1>1. ASSUME NEW j \in Jobs, NEW b \in BOOLEAN, Tick(c, j, b)
        PROVE  Goal
    <2>1. CASE loc' = loc
      BY <2>1
    <2>2. CASE j = "prewarm" /\ Fresh(c, j, FALSE) /\ loc'[c].pc = "work"
               /\ Fault(b) \cup Overlap(j) \subseteq excuses'
      <3>1. Fresh(c, "prewarm", FALSE) /\ Overlap("prewarm") \subseteq excuses'
        BY <2>2
      <3>2. loc[c].pc = "idle"
        BY <1>1, TickMoves
      <3> QED
        BY <2>2, <3>1, <3>2
    <2>3. CASE loc[c].pc = "idle" /\ loc'[c].pc = "recheck"
      BY <2>3
    <2> HIDE DEF Goal
    <2> QED
      BY <1>1, <2>1, <2>2, <2>3, TickMoves
  <1>2. ASSUME NEW j \in Jobs, NEW f \in BOOLEAN, Ask(c, j, f)
        PROVE  Goal
    BY <1>2, AskMoves
  <1>3. ASSUME NEW b \in BOOLEAN, Recheck(c, b)
        PROVE  Goal
    BY <1>3, RecheckMoves
  <1>4. ASSUME NEW n \in 1..Strategies, NEW b \in BOOLEAN, Begin(c, n, b)
        PROVE  Goal
    BY <1>4, BeginMoves
  <1>5. ASSUME NEW b \in BOOLEAN, Prewarm(c, b) \/ Mark(c, b) \/ SyncDone(c) \/ Throw(c, b)
        PROVE  Goal
    BY <1>5, PrewarmMoves, MarkMoves, SyncDoneMoves, ThrowMoves
  <1>6. ASSUME NEW o \in BOOLEAN, NEW w \in BOOLEAN, NEW b \in BOOLEAN, SyncSteps(c, o, w, b)
        PROVE  Goal
    <2>1. Fixed(c) /\ loc'[c].pc = "mark" /\ loc[c].pc = "work"
      BY <1>6, SyncStepsMoves DEF SyncSteps
    <2> QED
      BY <2>1 DEF Steady, Working
  <1>7. ASSUME Build(c)
        PROVE  Goal
    <2>1. Fixed(c) /\ loc'[c].pc = "check" /\ loc[c].pc = "work"
      BY <1>7, BuildMoves DEF Build
    <2> QED
      BY <2>1 DEF Steady, Working
  <1>8. ASSUME NEW s \in BOOLEAN, NEW b \in BOOLEAN,
               Check(c, s, b) \/ Send(c, b) \/ SetKey(c, b)
        PROVE  Goal
    <2>1. /\ Fixed(c) /\ loc[c].pc \in {"check", "send", "key"}
          /\ loc'[c].pc \in {"send", "key", "check", "mark"}
      BY <1>8, CheckMoves, SendMoves, SetKeyMoves DEF Check, Send, SetKey, Follows
    <2> QED
      BY <2>1 DEF Steady, Working
  <1>9. ASSUME NEW b \in BOOLEAN, ProofRow(c, b)
        PROVE  Goal
    <2>1. loc[c].pc = "work" /\ loc[c].left \in 1..Strategies
      BY <1>9 DEF ProofRow, RunSound
    <2>2. Fixed(c) /\ loc'[c].pc \in {"mark", "work"}
      BY <1>9, <2>1, ProofRowMoves
    <2> QED
      BY <2>1, <2>2 DEF Steady, Working
  <1>10. ASSUME Run(c)
         PROVE  Goal
    <2> HIDE DEF Goal
    <2> QED
      BY <1>10, <1>3, <1>4, <1>5, <1>6, <1>7, <1>8, <1>9 DEF Run
  <1> HIDE DEF Goal
  <1>11. Goal
    BY <1>1, <1>2, <1>5, <1>10 DEF OneMoves
  <1> QED
    BY <1>11 DEF Goal

\* Two syncs at work began in the same minute; who is about to begin one is
\* still in it.
SyncInv ==
    /\ \A c, d \in Runs("sync") : loc[c].at = loc[d].at
    /\ \A c \in Callers, d \in Runs("sync") :
          loc[c].pc = "begin" /\ loc[c].job = "sync" => loc[d].at = now

\* Without an overlap there is one run of a job today.
OneOwn == "overlap" \notin excuses => \A j \in Jobs : \A c, d \in Own(j) : c = d

LEMMA OthersRun ==
    ASSUME NEW c \in Callers, Moves(c), NEW j \in Jobs, NEW d \in Callers, d # c
    PROVE  /\ d \in Runs(j)' <=> d \in Runs(j)
           /\ d \in Own(j)' <=> d \in Own(j)
           /\ loc'[d] = loc[d]
  BY DEF Moves, Runs, Own, Working

\* A run that stays, leaves or is not yet at work adds none to those that are.
LEMMA NoMoreRuns ==
    ASSUME NEW c \in Callers, NEW j \in Jobs,
           loc' = loc \/ loc'[c].pc \in {"idle", "recheck", "begin"} \/ Steady(c),
           c \in Runs(j)'
    PROVE  /\ c \in Runs(j) /\ (c \in Own(j)' => c \in Own(j))
           /\ loc'[c].at = loc[c].at
  BY DEF Runs, Own, Working, Steady, Fixed, Kept

LEMMA SyncInvStep ==
    ASSUME TypeOK, RunsSound, SyncInv, Next
    PROVE  SyncInv'
  <1> DEFINE Begins(c) == loc[c].pc = "begin" /\ loc[c].job = "sync"
  <1>1. ASSUME NEW c \in Callers, OneMoves(c)
        PROVE  SyncInv'
    <2>1. Moves(c) /\ now' = now
      BY <1>1, RunSoundStep DEF RunsSound, Moves
    <2>j. "sync" \in Jobs
      BY DEF Jobs
    <2>2. \A d \in Callers : d # c =>
              /\ d \in Runs("sync")' <=> d \in Runs("sync")
              /\ loc'[d] = loc[d]
      BY <2>1, <2>j, OthersRun
    <2>r. Runs("sync") \subseteq Callers /\ Runs("sync")' \subseteq Callers
      BY DEF Runs
    <2>3. ASSUME c \in Runs("sync")' => c \in Runs("sync") /\ loc'[c].at = loc[c].at,
                 Begins(c)' => Begins(c)
          PROVE  SyncInv'
      BY <2>1, <2>2, <2>3, <2>r DEF SyncInv
    <2>4. ASSUME loc' = loc \/ loc'[c].pc \in {"idle", "recheck", "begin"} \/ Steady(c)
          PROVE  c \in Runs("sync")' => c \in Runs("sync") /\ loc'[c].at = loc[c].at
      BY <2>4, <2>j, NoMoreRuns
    <2>5. CASE loc' = loc
      BY <2>3, <2>4, <2>5
    <2>6. CASE loc'[c].pc \in {"idle", "recheck"}
      BY <2>3, <2>4, <2>6
    <2>7. CASE Steady(c)
      BY <2>3, <2>4, <2>7 DEF Steady, Working
    <2>8. CASE /\ loc'[c].pc = "begin" /\ Kept(c) /\ (loc[c].job = "sync" => ~Active)
      <3>1. CASE loc[c].job = "sync"
        <4>1. Runs("sync") = {}
          BY <2>8, <3>1 DEF Active
        <4>2. Runs("sync")' = {}
          BY <4>1, <2>2, <2>4, <2>8, <2>r
        <4> QED
          BY <4>2 DEF SyncInv
      <3>2. CASE loc[c].job # "sync"
        BY <2>3, <2>4, <2>8, <3>2 DEF Kept
      <3> QED
        BY <3>1, <3>2
    <2>9. CASE loc'[c].pc = "work" /\ loc'[c].job # "sync"
      BY <2>3, <2>9 DEF Runs
    <2>10. CASE /\ loc[c].pc = "begin" /\ loc'[c].pc = "work" /\ Kept(c)
                /\ loc[c].job = "sync" /\ loc'[c].at = now
      <3>1. Begins(c) /\ ~Begins(c)'
        BY <2>10
      <3>2. \A d \in Runs("sync") : loc[d].at = now
        BY <3>1 DEF SyncInv
      <3> QED
        BY <2>1, <2>2, <2>10, <2>r, <3>1, <3>2 DEF SyncInv
    <2>11. loc'[c] = NoRun => loc'[c].pc \in {"idle", "recheck"}
      BY DEF NoRun
    <2> QED
      BY <1>1, <2>5, <2>6, <2>7, <2>8, <2>9, <2>10, <2>11, RunKinds DEF RunsSound, Fresh, Kept
  <1>2. ASSUME NEW cs \in {Ticks, Requests}, Crash(cs)
        PROVE  SyncInv'
    <2>1. \A c \in Callers : loc'[c] = NoRun \/ loc'[c] = loc[c]
      BY <1>2, CrashMoves
    <2>2. now' = now
      BY <1>2, CrashMoves
    <2>3. \A c \in Runs("sync")' : c \in Runs("sync") /\ loc'[c] = loc[c]
      BY <2>1 DEF Runs, Working, NoRun
    <2>4. \A c \in Callers : Begins(c)' => Begins(c)
      BY <2>1 DEF NoRun
    <2> QED
      BY <2>2, <2>3, <2>4 DEF SyncInv
  <1>3. ASSUME NEW gap \in BOOLEAN, Clock(gap)
        PROVE  SyncInv'
    <2>1. loc' = loc /\ \A c \in Callers : ~Begins(c)
      BY <1>3 DEF Clock, LooksAreShort
    <2> QED
      BY <2>1 DEF SyncInv, Runs, Working
  <1>4. ASSUME NEW w \in BOOLEAN, Midnight(w)
        PROVE  SyncInv'
    <2>1. \A c \in Callers : \/ loc'[c].pc = "idle"
                             \/ /\ loc'[c].pc = loc[c].pc /\ loc'[c].job = loc[c].job
                                /\ loc'[c].at = loc[c].at /\ loc[c].pc # "begin"
      <3> TAKE c \in Callers
      <3>1. loc[c].pc = "idle" => loc'[c].pc = "idle"
        BY <1>4, MidnightMoves
      <3> QED
        BY <1>4, <3>1, MidnightMoves
    <2>2. \A c \in Runs("sync")' : c \in Runs("sync") /\ loc'[c].at = loc[c].at
      BY <2>1 DEF Runs, Working
    <2>3. \A c \in Callers : ~Begins(c)'
      BY <2>1
    <2> QED
      BY <2>2, <2>3 DEF SyncInv
  <1> QED
    BY <1>1, <1>2, <1>3, <1>4, NextSplits

LEMMA OneOwnStep ==
    ASSUME TypeOK, RunsSound, OneOwn, Next
    PROVE  OneOwn'
  <1>1. ASSUME NEW c \in Callers, OneMoves(c)
        PROVE  OneOwn'
    <2> SUFFICES ASSUME "overlap" \notin excuses', NEW j \in Jobs,
                        NEW d \in Own(j)', NEW e \in Own(j)'
                 PROVE  d = e
      BY DEF OneOwn
    <2>1. Moves(c) /\ "overlap" \notin excuses
      BY <1>1, RunSoundStep DEF RunsSound, Moves
    <2>2. \A x \in Callers : x # c => (x \in Own(j)' <=> x \in Own(j))
      BY <2>1, OthersRun
    <2>3. d \in Callers /\ e \in Callers /\ Own(j) \subseteq Callers
      BY DEF Own, Runs
    <2>4. \A x, y \in Own(j) : x = y
      BY <2>1 DEF OneOwn
    <2>5. CASE c \in Own(j)' => c \in Own(j)
      BY <2>2, <2>3, <2>4, <2>5
    <2>6. CASE Overlap(j) \subseteq excuses'
      <3>1. Own(j) = {}
        BY <2>6 DEF Overlap, Own
      <3> QED
        BY <2>2, <2>3, <3>1
    <2>7. CASE loc' = loc \/ loc'[c].pc \in {"idle", "recheck", "begin"} \/ Steady(c)
      BY <2>5, <2>7, NoMoreRuns DEF Own
    <2>8. CASE loc'[c].job # j
      BY <2>5, <2>8 DEF Own, Runs
    <2>9. loc'[c] = NoRun => loc'[c].pc \in {"idle", "recheck", "begin"}
      BY DEF NoRun
    <2> QED
      BY <1>1, <2>6, <2>7, <2>8, <2>9, RunKinds DEF RunsSound, Fresh, Kept
  <1>2. ASSUME NEW cs \in {Ticks, Requests}, Crash(cs)
        PROVE  OneOwn'
    <2>1. \A c \in Callers : loc'[c] = NoRun \/ loc'[c] = loc[c]
      BY <1>2, CrashMoves
    <2>2. \A j \in Jobs : Own(j)' \subseteq Own(j)
      BY <2>1 DEF Own, Runs, Working, NoRun
    <2>3. excuses \subseteq excuses'
      BY <1>2, CrashMoves
    <2> QED
      BY <2>2, <2>3 DEF OneOwn
  <1>3. ASSUME NEW gap \in BOOLEAN, Clock(gap)
        PROVE  OneOwn'
    BY <1>3 DEF Clock, Excuse, OneOwn, Own, Runs, Working
  <1>4. ASSUME NEW w \in BOOLEAN, Midnight(w)
        PROVE  OneOwn'
    <2>1. \A c \in Callers : loc'[c].pc = "idle" \/ loc'[c].own = FALSE
      <3> TAKE c \in Callers
      <3>1. loc[c].pc = "idle" => loc'[c].pc = "idle"
        BY <1>4, MidnightMoves
      <3> QED
        BY <1>4, <3>1, MidnightMoves
    <2>2. \A j \in Jobs : Own(j)' = {}
      BY <2>1 DEF Own, Runs, Working
    <2> QED
      BY <2>2 DEF OneOwn
  <1> QED
    BY <1>1, <1>2, <1>3, <1>4, NextSplits

-----------------------------------------------------------------------------
(* The rows of the proof.                                                    *)

Whole == \A k \in 1..Strategies : rows[k] # "none"

\* The strategies a run of the proof has behind it have rows, on a day on
\* which nobody asked for a few of them.
ProofInv ==
    "asked" \notin excuses =>
      /\ \A c \in Own("proof") :
           /\ loc[c].pc = "work" =>
                \A k \in 1..Strategies : k <= Strategies - loc[c].left => rows[k] # "none"
           /\ loc[c].pc = "mark" => Whole
      /\ mark["proof"] = "done" => Whole

\* Which actions leave a mark, and on which job.
LEMMA WarmedMarks ==
    ASSUME TypeOK, NEW b \in BOOLEAN, Warmed(b)
    PROVE  /\ \A j \in Jobs \ {"prewarm"} : mark'[j] = mark[j]
           /\ mark'["prewarm"] \in {mark["prewarm"], "done"}
           /\ ~b => mark'["prewarm"] = "done"
           /\ after \subseteq after'
           /\ now >= Cron["prewarm"] => "prewarm" \in after'
  BY DEF Warmed, TypeOK, Jobs

LEMMA SyncStepsMarks ==
    ASSUME TypeOK, NEW c \in Callers, NEW o \in BOOLEAN, NEW w \in BOOLEAN,
           NEW b \in BOOLEAN, SyncSteps(c, o, w, b)
    PROVE  /\ \A j \in Jobs \ {"prewarm"} : mark'[j] = mark[j]
           /\ mark'["prewarm"] \in {mark["prewarm"], "done"}
           /\ after \subseteq after'
           /\ UNCHANGED <<orphan, rows, keys, sent, looked>>
  <1>1. CASE w
    <2>1. Warmed(b)
      BY <1>1 DEF SyncSteps
    <2> QED
      BY <2>1, WarmedMarks DEF SyncSteps
  <1>2. CASE ~w
    BY <1>2 DEF SyncSteps, TypeOK
  <1> QED
    BY <1>1, <1>2

LEMMA SyncDoneMarks ==
    ASSUME TypeOK, NEW c \in Callers, SyncDone(c)
    PROVE  /\ \A j \in Jobs \ {"sync"} : mark'[j] = mark[j]
           /\ mark'["sync"] = IF loc[c].ok THEN "done" ELSE mark["sync"]
           /\ UNCHANGED <<orphan, rows, keys, sent, looked, after>>
  BY DEF SyncDone, TypeOK, Jobs

LEMMA BeginMarks ==
    ASSUME TypeOK, NEW c \in Callers, NEW n \in 1..Strategies, NEW b \in BOOLEAN,
           Begin(c, n, b)
    PROVE  /\ \A j \in Jobs \ {loc[c].job} : mark'[j] = mark[j]
           /\ mark'[loc[c].job] = IF loc[c].job = "sync" \/ b THEN mark[loc[c].job] ELSE "running"
           /\ UNCHANGED <<orphan, rows, keys, sent, looked>>
           /\ n < Strategies => loc[c].job = "proof" /\ loc[c].force
  <1>1. loc[c].job \in Jobs
    BY DEF TypeOK
  <1> QED
    BY <1>1 DEF Begin, TypeOK

LEMMA MarkMarks ==
    ASSUME TypeOK, NEW c \in Callers, NEW b \in BOOLEAN, Mark(c, b)
    PROVE  /\ \A j \in Jobs \ {loc[c].job} : mark'[j] = mark[j]
           /\ mark'[loc[c].job] = IF loc[c].own /\ ~b THEN "done" ELSE mark[loc[c].job]
           /\ UNCHANGED <<orphan, rows, keys, sent, looked, after>>
           /\ loc[c].pc = "mark" /\ loc[c].job # "sync"
  <1>1. loc[c].job \in Jobs
    BY DEF TypeOK
  <1> QED
    BY <1>1 DEF Mark, TypeOK

LEMMA ProofInvStep ==
    ASSUME TypeOK, RunsSound, ProofInv, Next
    PROVE  ProofInv'
  <1>p. "proof" \in Jobs
    BY DEF Jobs
  <1>m. mark["proof"] \in {"no", "running", "done"}
    BY <1>p DEF TypeOK
  <1>q. ASSUME NEW c \in Callers, Moves(c), rows' = rows, c \notin Own("proof")',
               mark'["proof"] = mark["proof"] \/ mark'["proof"] = "running"
        PROVE  ProofInv'
    <2>1. excuses \subseteq excuses'
      BY <1>q DEF Moves
    <2>2. \A d \in Own("proof")' : d \in Own("proof") /\ loc'[d] = loc[d]
      BY <1>q, <1>p, OthersRun DEF Own, Runs
    <2> QED
      BY <1>q, <2>1, <2>2 DEF ProofInv, Whole
  <1>1. ASSUME NEW c \in Callers, Run(c), Moves(c), RunSound(c)
        PROVE  ProofInv'
    <2>1. ASSUME NEW b \in BOOLEAN, Recheck(c, b)
          PROVE  ProofInv'
      <3>1. mark' = mark /\ rows' = rows
        BY <2>1 DEF Recheck, stores
      <3>2. \/ loc'[c].pc \in {"idle", "begin"}
            \/ loc[c].job = "evening" /\ Kept(c)
        BY <2>1, RecheckMoves DEF NoRun
      <3>3. c \notin Own("proof")'
        BY <3>2 DEF Own, Runs, Working, Kept
      <3> QED
        BY <1>1, <1>q, <3>1, <3>3
    <2>2. ASSUME NEW b \in BOOLEAN, Prewarm(c, b)
          PROVE  ProofInv'
      <3>1. mark'["proof"] = mark["proof"] /\ rows' = rows
        BY <2>2, <1>p, WarmedMarks DEF Prewarm
      <3>2. loc'[c] = NoRun
        BY <2>2, PrewarmMoves
      <3>3. c \notin Own("proof")'
        BY <3>2 DEF Own, Runs, Working, NoRun
      <3> QED
        BY <1>1, <1>q, <3>1, <3>3
    <2>3. ASSUME NEW b \in BOOLEAN, NEW x \in BOOLEAN,
                 SetKey(c, b) \/ Send(c, b) \/ Check(c, x, b) \/ Build(c)
          PROVE  ProofInv'
      <3>1. mark' = mark /\ rows' = rows
        BY <2>3 DEF SetKey, Send, Check, Build, stores
      <3>2. loc[c].job \in Alerting /\ Kept(c)
        BY <1>1, <2>3, SetKeyMoves, SendMoves, CheckMoves, BuildMoves
           DEF SetKey, Send, Check, Build, RunSound, Fixed
      <3>3. c \notin Own("proof")'
        BY <3>2 DEF Own, Runs, Kept, Alerting
      <3> QED
        BY <1>1, <1>q, <3>1, <3>3
    <2>4. ASSUME NEW b \in BOOLEAN, Mark(c, b)
          PROVE  ProofInv'
      <3>1. rows' = rows /\ excuses \subseteq excuses'
        BY <1>1, <2>4 DEF Mark, Moves
      <3>2. loc'[c] = NoRun
        BY <2>4, MarkMoves
      <3>3. c \notin Own("proof")'
        BY <3>2 DEF Own, Runs, Working, NoRun
      <3>4. CASE loc[c].job = "proof" /\ loc[c].own
        <4>1. c \in Own("proof") /\ loc[c].pc = "mark"
          BY <2>4, <3>4 DEF Own, Runs, Working, Mark
        <4>2. "asked" \notin excuses => Whole
          BY <4>1 DEF ProofInv
        <4>3. \A d \in Own("proof")' : d \in Own("proof") /\ loc'[d] = loc[d]
          BY <1>1, <1>p, <3>3, OthersRun DEF Own, Runs
        <4> QED
          BY <3>1, <4>2, <4>3 DEF ProofInv, Whole
      <3>5. CASE ~(loc[c].job = "proof" /\ loc[c].own)
        <4>1. mark'["proof"] = mark["proof"]
          BY <2>4, <3>5, <1>p, MarkMarks
        <4> QED
          BY <1>1, <1>q, <3>1, <3>3, <4>1
      <3> QED
        BY <3>4, <3>5
    <2>5. ASSUME NEW b \in BOOLEAN, ProofRow(c, b)
          PROVE  ProofInv'
      <3>1. loc[c].pc = "work" /\ loc[c].job = "proof" /\ mark' = mark
        BY <2>5 DEF ProofRow
      <3>2. loc[c].left \in 1..Strategies
        BY <1>1, <3>1 DEF RunSound
      <3>3. /\ Fixed(c) /\ loc'[c].left = loc[c].left - 1
            /\ loc'[c].pc = IF loc[c].left = 1 THEN "mark" ELSE "work"
        BY <2>5, <3>2, ProofRowMoves
      <3>4. \A d \in Own("proof")' : d # c => d \in Own("proof") /\ loc'[d] = loc[d]
        BY <1>1, <1>p, OthersRun DEF Own, Runs
      <3>5. excuses \subseteq excuses'
        BY <1>1 DEF Moves
      <3> DEFINE n == Strategies - loc[c].left + 1
                 v == IF b THEN "ok" ELSE "failed"
      <3>6. n \in 1..Strategies /\ v # "none"
        BY <3>2, DayIsSound
      <3>7. rows' = IF loc[c].own THEN [rows EXCEPT ![n] = v] ELSE rows
        BY <2>5 DEF ProofRow
      <3>8. \A k \in 1..Strategies : rows[k] # "none" => rows'[k] # "none"
        <4> HIDE DEF n, v
        <4> QED
          BY <3>6, <3>7 DEF TypeOK
      <3>9. Whole => Whole'
        BY <3>8 DEF Whole
      <3> SUFFICES ASSUME "asked" \notin excuses', NEW d \in Own("proof")'
                   PROVE  /\ loc'[d].pc = "work" =>
                               \A k \in 1..Strategies : k <= Strategies - loc'[d].left => rows'[k] # "none"
                          /\ loc'[d].pc = "mark" => Whole'
        BY <3>1, <3>5, <3>9 DEF ProofInv, Whole
      <3>10. CASE d # c
        BY <3>4, <3>5, <3>8, <3>9, <3>10 DEF ProofInv
      <3>11. CASE d = c
        <4>1. loc[c].own /\ c \in Own("proof")
          BY <3>1, <3>3, <3>11 DEF Own, Runs, Working, Fixed, Kept
        <4>2. \A k \in 1..Strategies : k <= Strategies - loc[c].left => rows[k] # "none"
          BY <3>1, <3>5, <4>1 DEF ProofInv
        <4>3. rows'[n] # "none"
          <5> HIDE DEF n, v
          <5> QED
            BY <3>6, <3>7, <4>1 DEF TypeOK
        <4>4. \A k \in 1..Strategies : k <= Strategies - loc'[c].left => rows'[k] # "none"
          <5> TAKE k \in 1..Strategies
          <5>1. k <= Strategies - loc'[c].left => k <= Strategies - loc[c].left \/ k = n
            BY <3>2, <3>3, DayIsSound
          <5> QED
            BY <3>8, <4>2, <4>3, <5>1
        <4>5. loc'[c].pc = "mark" => \A k \in 1..Strategies : k <= Strategies - loc'[c].left
          BY <3>2, <3>3, DayIsSound
        <4> QED
          BY <3>11, <4>4, <4>5 DEF Whole
      <3> QED
        BY <3>10, <3>11
    <2>6. ASSUME NEW n \in 1..Strategies, NEW b \in BOOLEAN, Begin(c, n, b)
          PROVE  ProofInv'
      <3>1. rows' = rows /\ (n < Strategies => loc[c].job = "proof" /\ loc[c].force)
        BY <2>6, BeginMarks
      <3>2. /\ loc[c].pc = "begin" /\ Kept(c) /\ loc'[c].pc = "work"
            /\ loc'[c].left = IF loc[c].job = "proof" THEN n ELSE 0
        BY <2>6, BeginMoves
      <3>3. mark'["proof"] = mark["proof"] \/ mark'["proof"] = "running"
        BY <2>6, <1>p, BeginMarks
      <3>4. CASE loc[c].job # "proof"
        <4>1. c \notin Own("proof")'
          BY <3>2, <3>4 DEF Own, Runs, Kept
        <4> QED
          BY <1>1, <1>q, <3>1, <3>3, <4>1
      <3>5. CASE loc[c].job = "proof"
        <4>1. excuses \subseteq excuses'
          BY <1>1 DEF Moves
        <4>2. "asked" \notin excuses' => n = Strategies
          <5>1. "asked" \notin excuses => c \notin Requests
            BY <1>1, <3>2 DEF RunSound, Looking
          <5>2. "asked" \notin excuses => ~loc[c].force
            BY <1>1, <5>1 DEF RunSound
          <5> QED
            BY <3>1, <4>1, <5>2, DayIsSound
        <4>3. \A d \in Own("proof")' : d # c => d \in Own("proof") /\ loc'[d] = loc[d]
          BY <1>1, <1>p, OthersRun DEF Own, Runs
        <4>4. "asked" \notin excuses' =>
                \A k \in 1..Strategies : ~(k <= Strategies - loc'[c].left)
          BY <3>2, <3>5, <4>2, DayIsSound
        <4> QED
          BY <3>1, <3>2, <3>3, <4>1, <4>3, <4>4 DEF ProofInv, Whole
      <3> QED
        BY <3>4, <3>5
    <2>7. ASSUME NEW o \in BOOLEAN, NEW w \in BOOLEAN, NEW b \in BOOLEAN, SyncSteps(c, o, w, b)
          PROVE  ProofInv'
      <3>1. mark'["proof"] = mark["proof"] /\ rows' = rows
        BY <2>7, <1>p, SyncStepsMarks
      <3>2. loc[c].job = "sync" /\ Kept(c)
        BY <2>7, SyncStepsMoves DEF SyncSteps, Fixed
      <3>3. c \notin Own("proof")'
        BY <3>2 DEF Own, Runs, Kept
      <3> QED
        BY <1>1, <1>q, <3>1, <3>3
    <2>8. ASSUME SyncDone(c)
          PROVE  ProofInv'
      <3>1. mark'["proof"] = mark["proof"] /\ rows' = rows
        BY <2>8, <1>p, SyncDoneMarks
      <3>2. loc'[c] = NoRun
        BY <2>8, SyncDoneMoves
      <3>3. c \notin Own("proof")'
        BY <3>2 DEF Own, Runs, Working, NoRun
      <3> QED
        BY <1>1, <1>q, <3>1, <3>3
    <2> QED
      BY <1>1, <2>1, <2>2, <2>3, <2>4, <2>5, <2>6, <2>7, <2>8 DEF Run
  <1>2. ASSUME NEW c \in Callers, OneMoves(c)
        PROVE  ProofInv'
    <2>1. Moves(c) /\ RunSound(c)
      BY <1>2, RunSoundStep DEF RunsSound
    <2>2. ASSUME NEW j \in Jobs, NEW b \in BOOLEAN, Tick(c, j, b)
          PROVE  ProofInv'
      <3>1. mark' = mark /\ rows' = rows /\ loc[c].pc = "idle"
        BY <2>2 DEF Tick, stores
      <3>2. \/ loc' = loc \/ loc'[c].pc = "recheck"
            \/ j = "prewarm" /\ Fresh(c, j, FALSE)
        BY <2>2, TickMoves
      <3>3. c \notin Own("proof")'
        BY <3>1, <3>2 DEF Own, Runs, Working, Fresh
      <3> QED
        BY <1>q, <2>1, <3>1, <3>3
    <2>3. ASSUME NEW j \in Jobs, NEW f \in BOOLEAN, Ask(c, j, f)
          PROVE  ProofInv'
      <3>1. mark' = mark /\ rows' = rows
        BY <2>3 DEF Ask, stores
      <3>2. loc'[c].pc = "recheck"
        BY <2>3, AskMoves
      <3>3. c \notin Own("proof")'
        BY <3>2 DEF Own, Runs, Working
      <3> QED
        BY <1>q, <2>1, <3>1, <3>3
    <2>4. ASSUME NEW s \in BOOLEAN, Throw(c, s)
          PROVE  ProofInv'
      <3>1. mark' = mark /\ rows' = rows
        BY <2>4 DEF Throw
      <3>2. loc'[c] = NoRun
        BY <2>4, ThrowMoves
      <3>3. c \notin Own("proof")'
        BY <3>2 DEF Own, Runs, Working, NoRun
      <3> QED
        BY <1>q, <2>1, <3>1, <3>3
    <2> QED
      BY <1>1, <1>2, <2>1, <2>2, <2>3, <2>4 DEF OneMoves
  <1>3. ASSUME NEW cs \in {Ticks, Requests}, Crash(cs)
        PROVE  ProofInv'
    <2>1. \A c \in Callers : loc'[c] = NoRun \/ loc'[c] = loc[c]
      BY <1>3, CrashMoves
    <2>2. \A c \in Own("proof")' : c \in Own("proof") /\ loc'[c] = loc[c]
      BY <2>1 DEF Own, Runs, Working, NoRun
    <2>3. excuses \subseteq excuses' /\ rows' = rows /\ mark' = mark
      BY <1>3, CrashMoves DEF Crash
    <2> QED
      BY <2>2, <2>3 DEF ProofInv, Whole
  <1>4. ASSUME NEW gap \in BOOLEAN, Clock(gap)
        PROVE  ProofInv'
    BY <1>4 DEF Clock, Excuse, ProofInv, Whole, Own, Runs, Working, stores
  <1>5. ASSUME NEW w \in BOOLEAN, Midnight(w)
        PROVE  ProofInv'
    <2>1. \A c \in Callers : loc'[c].pc = "idle" \/ loc'[c].own = FALSE
      <3> TAKE c \in Callers
      <3>1. loc[c].pc = "idle" => loc'[c].pc = "idle"
        BY <1>5, MidnightMoves
      <3> QED
        BY <1>5, <3>1, MidnightMoves
    <2>2. Own("proof")' = {}
      BY <2>1 DEF Own, Runs, Working
    <2>3. mark'["proof"] = "no"
      BY <1>5, <1>p DEF Midnight
    <2> QED
      BY <2>2, <2>3 DEF ProofInv
  <1> QED
    BY <1>2, <1>3, <1>4, <1>5, NextSplits

-----------------------------------------------------------------------------
(* Messages and their dedupe keys.                                           *)

\* A day on which a message may not go out twice.
Calm(j, i) == /\ excuses \cap {"fault", "overlap"} = {}
              /\ "asked" \in excuses => <<j, i>> = <<"evening", "whatsapp">>

\* A message that has a key is sent by a run that then holds or has left it.
KeyAt(j, i) ==
    Calm(j, i) =>
      /\ sent[j][i] <= 1
      /\ sent[j][i] > 0 => \/ i \in keys[j]
                          \/ \E c \in Own(j) : loc[c].pc = "key" /\ loc[c].item = i
      /\ \A c \in Own(j) : loc[c].pc = "send" /\ loc[c].item = i => sent[j][i] = 0

KeyInv == \A j \in Alerting, i \in Items : <<j, i>> # <<"evening", "mail">> => KeyAt(j, i)

\* The digest's mail has none: its run is the only one of the day.
MailInv ==
    Calm("evening", "mail") =>
      /\ sent["evening"]["mail"] <= 1
      /\ sent["evening"]["mail"] > 0 => mark["evening"] = "done" \/ Own("evening") # {}
      /\ \A c \in Own("evening") : loc[c].item = "mail" /\ loc[c].pc \in {"work", "check", "send"}
                                   => sent["evening"]["mail"] = 0

LEMMA CalmBefore ==
    ASSUME NEW c \in Callers, Moves(c), NEW j \in Alerting, NEW i \in Items, Calm(j, i)'
    PROVE  Calm(j, i)
  BY DEF Moves, Calm

LEMMA AlertingJobs == Alerting \subseteq Jobs
  BY DEF Alerting, Jobs

\* On such a day the one run of the job reads and writes the day's key.
LEMMA CalmRun ==
    ASSUME TypeOK, RunsSound, OneOwn, NEW j \in Alerting, NEW i \in Items,
           <<j, i>> # <<"evening", "mail">>, Calm(j, i), NEW c \in Own(j)
    PROVE  /\ \A d \in Own(j) : d = c
           /\ loc[c].item = i => DayKey(loc[c]) /\ HasKey(loc[c])
  <1>1. c \in Callers /\ loc[c].job = j /\ loc[c].own /\ loc[c].pc # "idle"
    BY DEF Own, Runs, Working
  <1>2. loc[c].force => "asked" \in excuses
    BY <1>1 DEF RunsSound, RunSound
  <1>3. j = "exits" => ~loc[c].force
    BY <1>2 DEF Calm
  <1>4. \A d \in Own(j) : d = c
    BY AlertingJobs DEF OneOwn, Calm
  <1>5. loc[c].item = i => HasKey(loc[c])
    BY <1>1 DEF HasKey
  <1> QED
    BY <1>1, <1>3, <1>4, <1>5 DEF DayKey

LEMMA KeyQuiet ==
    ASSUME NEW c \in Callers, Moves(c), sent' = sent, keys' = keys,
           loc[c].pc # "key" \/ "fault" \in excuses', loc'[c].pc # "send", KeyInv
    PROVE  KeyInv'
  <1> SUFFICES ASSUME NEW j \in Alerting, NEW i \in Items, <<j, i>> # <<"evening", "mail">>,
                      Calm(j, i)'
               PROVE  KeyAt(j, i)'
    BY DEF KeyInv, KeyAt
  <1>1. Calm(j, i) /\ KeyAt(j, i) /\ j \in Jobs
    BY CalmBefore, AlertingJobs DEF KeyInv
  <1>2. \A d \in Callers : d # c => (d \in Own(j)' <=> d \in Own(j)) /\ loc'[d] = loc[d]
    BY <1>1, OthersRun
  <1>3. Own(j) \subseteq Callers /\ Own(j)' \subseteq Callers
    BY DEF Own, Runs
  <1>4. loc[c].pc # "key"
    BY DEF Calm
  <1>5. sent[j][i] > 0 => \/ i \in keys[j]
                         \/ \E d \in Own(j)' : loc'[d].pc = "key" /\ loc'[d].item = i
    BY <1>1, <1>2, <1>3, <1>4 DEF KeyAt
  <1>6. \A d \in Own(j)' : loc'[d].pc = "send" /\ loc'[d].item = i => sent[j][i] = 0
    BY <1>1, <1>2, <1>3 DEF KeyAt
  <1> QED
    BY <1>1, <1>5, <1>6 DEF KeyAt

LEMMA CheckKeys ==
    ASSUME TypeOK, RunsSound, OneOwn, KeyInv, NEW c \in Callers,
           NEW x \in BOOLEAN, NEW b \in BOOLEAN, Check(c, x, b)
    PROVE  KeyInv'
  <1>1. /\ Moves(c) /\ Fixed(c) /\ Fault(b) \subseteq excuses' /\ loc[c].pc = "check"
        /\ \/ /\ x /\ loc'[c].pc = "send" /\ loc'[c].item = loc[c].item
              /\ ~(DayKey(loc[c]) /\ loc[c].item \in keys[loc[c].job] /\ ~b)
           \/ ~x /\ Follows(c)
    BY CheckMoves
  <1>2. sent' = sent /\ keys' = keys
    BY DEF Check, stores
  <1>3. CASE Follows(c)
    BY <1>1, <1>2, <1>3, KeyQuiet DEF Follows
  <1>4. CASE /\ loc'[c].pc = "send" /\ loc'[c].item = loc[c].item
             /\ ~(DayKey(loc[c]) /\ loc[c].item \in keys[loc[c].job] /\ ~b)
    <2> SUFFICES ASSUME NEW j \in Alerting, NEW i \in Items, <<j, i>> # <<"evening", "mail">>,
                        Calm(j, i)'
                 PROVE  KeyAt(j, i)'
      BY DEF KeyInv, KeyAt
    <2>1. Calm(j, i) /\ KeyAt(j, i) /\ j \in Jobs
      BY <1>1, CalmBefore, AlertingJobs DEF KeyInv
    <2>2. \A d \in Callers : d # c => (d \in Own(j)' <=> d \in Own(j)) /\ loc'[d] = loc[d]
      BY <1>1, <2>1, OthersRun
    <2>3. Own(j) \subseteq Callers /\ Own(j)' \subseteq Callers
      BY DEF Own, Runs
    <2>4. sent[j][i] > 0 => \/ i \in keys[j]
                           \/ \E d \in Own(j)' : loc'[d].pc = "key" /\ loc'[d].item = i
      BY <1>1, <2>1, <2>2, <2>3 DEF KeyAt
    <2>5. ASSUME c \in Own(j)', loc[c].item = i
          PROVE  sent[j][i] = 0
      <3>1. c \in Own(j) /\ loc[c].job = j
        BY <1>1, <2>5 DEF Own, Runs, Working, Fixed, Kept
      <3>2. DayKey(loc[c]) /\ \A d \in Own(j) : d = c
        BY <2>1, <2>5, <3>1, CalmRun
      <3>3. ~b
        BY <1>1 DEF Calm, Fault
      <3>4. i \notin keys[j]
        BY <1>4, <2>5, <3>1, <3>2, <3>3
      <3>5. ~(sent[j][i] > 0)
        BY <1>1, <2>1, <3>2, <3>4 DEF KeyAt
      <3>6. sent[j][i] \in 0..2
        BY DEF TypeOK
      <3> QED
        BY <3>5, <3>6
    <2>6. \A d \in Own(j)' : loc'[d].pc = "send" /\ loc'[d].item = i => sent[j][i] = 0
      BY <1>4, <2>1, <2>2, <2>3, <2>5 DEF KeyAt
    <2> QED
      BY <1>2, <2>1, <2>4, <2>6 DEF KeyAt
  <1> QED
    BY <1>1, <1>3, <1>4

LEMMA SendCounts ==
    ASSUME TypeOK, RunsSound, NEW c \in Callers, NEW x \in BOOLEAN, Send(c, x),
           NEW j \in Alerting, NEW i \in Items
    PROVE  /\ sent'[j][i] = sent[j][i] \/ (sent'[j][i] = sent[j][i] + 1
                 /\ loc[c].own /\ loc[c].job = j /\ loc[c].item = i)
           /\ keys' = keys /\ mark' = mark
  <1>1. loc[c].job \in Alerting /\ loc[c].item \in Items
    BY DEF Send, RunsSound, RunSound, TypeOK
  <1>2. CASE x /\ loc[c].own /\ sent[loc[c].job][loc[c].item] < 2
    <2>1. sent' = [sent EXCEPT ![loc[c].job][loc[c].item] = @ + 1]
      BY <1>2 DEF Send
    <2>2. sent \in [Alerting -> [Items -> 0..2]]
      BY DEF TypeOK
    <2>3. CASE loc[c].job = j
      <3>1. sent'[j] = [sent[j] EXCEPT ![loc[c].item] = @ + 1]
        BY <2>1, <2>2, <2>3
      <3>2. sent[j] \in [Items -> 0..2]
        BY <2>2
      <3> QED
        BY <1>1, <1>2, <2>3, <3>1, <3>2 DEF Send, stores
    <2>4. CASE loc[c].job # j
      <3>1. sent'[j] = sent[j]
        BY <1>1, <2>1, <2>2, <2>4
      <3> QED
        BY <3>1 DEF Send, stores
    <2> QED
      BY <2>3, <2>4
  <1>3. CASE ~(x /\ loc[c].own /\ sent[loc[c].job][loc[c].item] < 2)
    BY <1>3 DEF Send, stores
  <1> QED
    BY <1>2, <1>3

LEMMA SendKeys ==
    ASSUME TypeOK, RunsSound, OneOwn, KeyInv, NEW c \in Callers,
           NEW x \in BOOLEAN, Send(c, x)
    PROVE  KeyInv'
  <1>1. /\ Moves(c) /\ Fixed(c) /\ (~x => "fault" \in excuses') /\ loc[c].pc = "send"
        /\ \/ /\ x /\ HasKey(loc[c]) /\ loc'[c].pc = "key"
              /\ loc'[c].item = loc[c].item
           \/ ~(x /\ HasKey(loc[c])) /\ Follows(c)
    BY SendMoves DEF Send
  <1> SUFFICES ASSUME NEW j \in Alerting, NEW i \in Items, <<j, i>> # <<"evening", "mail">>,
                      Calm(j, i)'
               PROVE  KeyAt(j, i)'
    BY DEF KeyInv, KeyAt
  <1>2. Calm(j, i) /\ KeyAt(j, i) /\ j \in Jobs /\ x
    BY <1>1, CalmBefore, AlertingJobs DEF KeyInv, Calm
  <1>3. \A d \in Callers : d # c => (d \in Own(j)' <=> d \in Own(j)) /\ loc'[d] = loc[d]
    BY <1>1, <1>2, OthersRun
  <1>4. Own(j) \subseteq Callers /\ Own(j)' \subseteq Callers
    BY DEF Own, Runs
  <1>5. keys' = keys
    BY SendCounts
  <1>6. CASE loc[c].own /\ loc[c].job = j /\ loc[c].item = i
    <2>1. c \in Own(j)
      BY <1>1, <1>6 DEF Own, Runs, Working
    <2>2. HasKey(loc[c]) /\ \A d \in Own(j) : d = c
      BY <1>2, <1>6, <2>1, CalmRun
    <2>3. loc'[c].pc = "key" /\ loc'[c].item = i
      BY <1>1, <1>2, <1>6, <2>2
    <2>4. c \in Own(j)'
      BY <1>1, <1>6, <2>3 DEF Own, Runs, Working, Fixed, Kept
    <2>5. sent[j][i] = 0
      BY <1>1, <1>2, <1>6, <2>1 DEF KeyAt
    <2>6. sent'[j][i] <= 1
      BY <2>5, SendCounts
    <2>7. \A d \in Own(j)' : loc'[d].pc # "send"
      BY <1>3, <1>4, <2>2, <2>3
    <2> QED
      BY <2>3, <2>4, <2>6, <2>7 DEF KeyAt
  <1>7. CASE ~(loc[c].own /\ loc[c].job = j /\ loc[c].item = i)
    <2>1. sent'[j][i] = sent[j][i]
      BY <1>7, SendCounts
    <2>2. loc'[c].pc # "send"
      BY <1>1 DEF Follows
    <2>3. sent[j][i] > 0 => \/ i \in keys[j]
                           \/ \E d \in Own(j)' : loc'[d].pc = "key" /\ loc'[d].item = i
      BY <1>1, <1>2, <1>3, <1>4 DEF KeyAt
    <2>4. \A d \in Own(j)' : loc'[d].pc = "send" /\ loc'[d].item = i => sent[j][i] = 0
      BY <1>2, <1>3, <1>4, <2>2 DEF KeyAt
    <2> QED
      BY <1>2, <1>5, <2>1, <2>3, <2>4 DEF KeyAt
  <1> QED
    BY <1>6, <1>7

LEMMA SetKeyKeys ==
    ASSUME TypeOK, RunsSound, OneOwn, KeyInv, NEW c \in Callers,
           NEW b \in BOOLEAN, SetKey(c, b)
    PROVE  KeyInv'
  <1>1. Moves(c) /\ Fixed(c) /\ Fault(b) \subseteq excuses' /\ Follows(c) /\ loc[c].pc = "key"
    BY SetKeyMoves DEF SetKey
  <1> SUFFICES ASSUME NEW j \in Alerting, NEW i \in Items, <<j, i>> # <<"evening", "mail">>,
                      Calm(j, i)'
               PROVE  KeyAt(j, i)'
    BY DEF KeyInv, KeyAt
  <1>2. Calm(j, i) /\ KeyAt(j, i) /\ j \in Jobs /\ ~b
    BY <1>1, CalmBefore, AlertingJobs DEF KeyInv, Calm, Fault
  <1>3. \A d \in Callers : d # c => (d \in Own(j)' <=> d \in Own(j)) /\ loc'[d] = loc[d]
    BY <1>1, <1>2, OthersRun
  <1>4. Own(j) \subseteq Callers /\ Own(j)' \subseteq Callers
    BY DEF Own, Runs
  <1>5. sent' = sent
    BY DEF SetKey
  <1>6. keys[j] \subseteq keys'[j]
    BY DEF SetKey, TypeOK
  <1>7. c \in Own(j) /\ loc[c].item = i => i \in keys'[j]
    <2> SUFFICES ASSUME c \in Own(j), loc[c].item = i PROVE i \in keys'[j]
      OBVIOUS
    <2>1. DayKey(loc[c])
      BY <1>2, CalmRun
    <2>2. loc[c].job = j
      BY DEF Own, Runs
    <2>3. keys' = [keys EXCEPT ![j] = @ \cup {i}]
      BY <1>2, <2>1, <2>2 DEF SetKey
    <2> QED
      BY <2>3 DEF TypeOK
  <1>8. sent[j][i] > 0 => \/ i \in keys'[j]
                         \/ \E d \in Own(j)' : loc'[d].pc = "key" /\ loc'[d].item = i
    <2>1. CASE i \in keys[j]
      BY <1>6, <2>1
    <2>2. CASE \E d \in Own(j) : loc[d].pc = "key" /\ loc[d].item = i
      BY <1>3, <1>4, <1>7, <2>2
    <2> QED
      BY <1>2, <2>1, <2>2 DEF KeyAt
  <1>9. \A d \in Own(j)' : loc'[d].pc = "send" /\ loc'[d].item = i => sent[j][i] = 0
    BY <1>1, <1>2, <1>3, <1>4 DEF KeyAt, Follows
  <1> QED
    BY <1>2, <1>5, <1>8, <1>9 DEF KeyAt

LEMMA KeyInvStep ==
    ASSUME TypeOK, RunsSound, OneOwn, KeyInv, Next
    PROVE  KeyInv'
  <1>1. ASSUME NEW c \in Callers, OneMoves(c)
        PROVE  KeyInv'
    <2>1. Moves(c) /\ RunSound(c)
      BY <1>1, RunSoundStep DEF RunsSound
    <2>2. ASSUME sent' = sent, keys' = keys,
                 loc[c].pc # "key" \/ "fault" \in excuses', loc'[c].pc # "send"
          PROVE  KeyInv'
      BY <2>1, <2>2, KeyQuiet
    <2>3. ASSUME NEW j \in Jobs, NEW b \in BOOLEAN, Tick(c, j, b) \/ Ask(c, j, b)
          PROVE  KeyInv'
      <3>1. sent' = sent /\ keys' = keys /\ loc[c].pc = "idle"
        BY <2>3 DEF Tick, Ask, stores
      <3>2. loc'[c].pc # "send"
        BY <2>3, <3>1, TickMoves, AskMoves
      <3> QED
        BY <2>2, <3>1, <3>2
    <2>4. ASSUME NEW b \in BOOLEAN, Recheck(c, b) \/ Prewarm(c, b) \/ Mark(c, b) \/ SyncDone(c)
          PROVE  KeyInv'
      <3>1. sent' = sent /\ keys' = keys /\ loc[c].pc # "key"
        BY <2>4 DEF Recheck, Prewarm, Mark, SyncDone, stores
      <3>2. loc'[c].pc # "send"
        BY <2>4, RecheckMoves, PrewarmMoves, MarkMoves, SyncDoneMoves DEF NoRun
      <3> QED
        BY <2>2, <3>1, <3>2
    <2>5. ASSUME NEW n \in 1..Strategies, NEW b \in BOOLEAN, Begin(c, n, b)
          PROVE  KeyInv'
      <3>1. sent' = sent /\ keys' = keys /\ loc[c].pc # "key"
        BY <2>5 DEF Begin
      <3>2. loc'[c].pc # "send"
        BY <2>5, BeginMoves
      <3> QED
        BY <2>2, <3>1, <3>2
    <2>6. ASSUME NEW o \in BOOLEAN, NEW w \in BOOLEAN, NEW b \in BOOLEAN, SyncSteps(c, o, w, b)
          PROVE  KeyInv'
      <3>1. sent' = sent /\ keys' = keys /\ loc[c].pc # "key"
        BY <2>6 DEF SyncSteps
      <3>2. loc'[c].pc # "send"
        BY <2>6, SyncStepsMoves
      <3> QED
        BY <2>2, <3>1, <3>2
    <2>7. ASSUME Build(c)
          PROVE  KeyInv'
      <3>1. sent' = sent /\ keys' = keys /\ loc[c].pc # "key"
        BY <2>7 DEF Build, stores
      <3>2. loc'[c].pc # "send"
        BY <2>7, BuildMoves
      <3> QED
        BY <2>2, <3>1, <3>2
    <2>8. ASSUME NEW b \in BOOLEAN, ProofRow(c, b)
          PROVE  KeyInv'
      <3>1. sent' = sent /\ keys' = keys /\ loc[c].pc = "work" /\ loc[c].job = "proof"
        BY <2>8 DEF ProofRow
      <3>2. loc'[c].pc # "send"
        BY <2>1, <2>8, <3>1, ProofRowMoves DEF RunSound
      <3> QED
        BY <2>2, <3>1, <3>2
    <2>9. ASSUME NEW b \in BOOLEAN, Throw(c, b)
          PROVE  KeyInv'
      <3>1. sent' = sent /\ keys' = keys
        BY <2>9 DEF Throw
      <3>2. loc'[c].pc # "send" /\ "fault" \in excuses'
        BY <2>9, ThrowMoves DEF NoRun
      <3> QED
        BY <2>2, <3>1, <3>2
    <2>10. ASSUME Run(c)
           PROVE  KeyInv'
      BY <2>10, <2>4, <2>5, <2>6, <2>7, <2>8, CheckKeys, SendKeys, SetKeyKeys DEF Run
    <2> QED
      BY <1>1, <2>3, <2>9, <2>10 DEF OneMoves
  <1>2. ASSUME NEW cs \in {Ticks, Requests}, Crash(cs)
        PROVE  KeyInv'
    BY <1>2, CrashMoves DEF KeyInv, KeyAt, Calm
  <1>3. ASSUME NEW gap \in BOOLEAN, Clock(gap)
        PROVE  KeyInv'
    <2>1. loc' = loc /\ sent' = sent /\ keys' = keys /\ excuses \subseteq excuses'
      BY <1>3 DEF Clock, Excuse, stores
    <2>2. \A j \in Alerting, i \in Items : Calm(j, i)' => Calm(j, i)
      BY <2>1 DEF Calm
    <2>3. \A j \in Alerting : Own(j)' = Own(j)
      BY <2>1 DEF Own, Runs, Working
    <2> QED
      BY <2>1, <2>2, <2>3 DEF KeyInv, KeyAt
  <1>4. ASSUME NEW w \in BOOLEAN, Midnight(w)
        PROVE  KeyInv'
    <2>1. \A j \in Alerting, i \in Items : sent'[j][i] = 0
      BY <1>4 DEF Midnight
    <2> QED
      BY <2>1 DEF KeyInv, KeyAt
  <1> QED
    BY <1>1, <1>2, <1>3, <1>4, NextSplits

LEMMA MailQuiet ==
    ASSUME NEW c \in Callers, Moves(c), MailInv, sent' = sent,
           mark["evening"] = "done" => mark'["evening"] = "done",
           c \in Own("evening") => c \in Own("evening")' \/ mark'["evening"] = "done"
                                  \/ "fault" \in excuses',
           c \in Own("evening")' /\ loc'[c].item = "mail"
             /\ loc'[c].pc \in {"work", "check", "send"} =>
               c \in Own("evening") /\ loc[c].item = "mail"
                 /\ loc[c].pc \in {"work", "check", "send"}
    PROVE  MailInv'
  <1> SUFFICES ASSUME Calm("evening", "mail")' PROVE MailInv'
    BY DEF MailInv
  <1>1. Calm("evening", "mail") /\ "fault" \notin excuses'
    BY CalmBefore DEF Calm, Alerting, Items
  <1>2. \A d \in Callers : d # c =>
            (d \in Own("evening")' <=> d \in Own("evening")) /\ loc'[d] = loc[d]
    BY OthersRun DEF Jobs
  <1>3. Own("evening") \subseteq Callers /\ Own("evening")' \subseteq Callers
    BY DEF Own, Runs
  <1>4. sent["evening"]["mail"] > 0 => mark'["evening"] = "done" \/ Own("evening")' # {}
    BY <1>1, <1>2, <1>3 DEF MailInv
  <1>5. \A d \in Own("evening")' :
            loc'[d].item = "mail" /\ loc'[d].pc \in {"work", "check", "send"}
              => sent["evening"]["mail"] = 0
    BY <1>1, <1>2, <1>3 DEF MailInv
  <1> QED
    BY <1>1, <1>4, <1>5 DEF MailInv

LEMMA RecheckMail ==
    ASSUME TypeOK, RunsSound, MailInv, NEW c \in Callers, NEW b \in BOOLEAN, Recheck(c, b)
    PROVE  MailInv'
  <1>1. /\ Moves(c) /\ loc[c].pc = "recheck"
        /\ Fault(b) \subseteq excuses' \/ loc[c].job = "evening"
        /\ \/ loc'[c] = NoRun
           \/ /\ loc[c].job = "evening" /\ Kept(c) /\ loc'[c].pc = "work"
              /\ loc[c].force \/ ~Found(loc[c].job, b)
              /\ Overlap("evening") \subseteq excuses'
           \/ loc[c].job # "evening" /\ Kept(c) /\ loc'[c].pc = "begin"
    BY RecheckMoves
  <1>2. sent' = sent /\ mark' = mark
    BY DEF Recheck, stores
  <1>3. c \notin Own("evening")
    BY <1>1 DEF Own, Runs, Working
  <1>4. CASE loc'[c] = NoRun \/ loc'[c].pc = "begin"
    <2>1. c \notin Own("evening")'
      BY <1>4 DEF Own, Runs, Working, NoRun
    <2> QED
      BY <1>1, <1>2, <1>3, <2>1, MailQuiet
  <1>5. CASE /\ loc[c].job = "evening" /\ Kept(c) /\ loc'[c].pc = "work"
             /\ loc[c].force \/ ~Found(loc[c].job, b)
             /\ Overlap("evening") \subseteq excuses'
    <2> SUFFICES ASSUME Calm("evening", "mail")' PROVE MailInv'
      BY DEF MailInv
    <2>1. Calm("evening", "mail") /\ excuses \subseteq excuses'
      BY <1>1, CalmBefore DEF Moves, Alerting, Items
    <2>2. "asked" \notin excuses /\ "overlap" \notin excuses'
      BY <2>1 DEF Calm
    <2>3. RunSound(c) /\ loc[c].own
      BY <1>1 DEF RunsSound, RunSound, Looking
    <2>4. ~loc[c].force
      BY <1>1, <2>2, <2>3 DEF RunSound
    <2>5. mark["evening"] # "done"
      BY <1>5, <2>4 DEF Found, Marked
    <2>6. Own("evening") = {}
      BY <1>5, <2>2 DEF Overlap, Own
    <2>7. ~(sent["evening"]["mail"] > 0) /\ sent["evening"]["mail"] \in 0..2
      BY <2>1, <2>5, <2>6 DEF MailInv, TypeOK, Alerting, Items
    <2>8. sent'["evening"]["mail"] = 0
      BY <1>2, <2>7
    <2> QED
      BY <2>8 DEF MailInv
  <1> QED
    BY <1>1, <1>4, <1>5

LEMMA SendMail ==
    ASSUME TypeOK, RunsSound, OneOwn, MailInv, NEW c \in Callers,
           NEW x \in BOOLEAN, Send(c, x)
    PROVE  MailInv'
  <1>1. /\ Moves(c) /\ Fixed(c) /\ (~x => "fault" \in excuses') /\ loc[c].pc = "send"
        /\ \/ /\ x /\ HasKey(loc[c]) /\ loc'[c].pc = "key"
              /\ loc'[c].item = loc[c].item
           \/ ~(x /\ HasKey(loc[c])) /\ Follows(c)
    BY SendMoves DEF Send
  <1> SUFFICES ASSUME Calm("evening", "mail")' PROVE MailInv'
    BY DEF MailInv
  <1>e. "evening" \in Alerting /\ "evening" \in Jobs /\ "mail" \in Items
    BY DEF Alerting, Jobs, Items
  <1>2. Calm("evening", "mail") /\ x
    BY <1>1, <1>e, CalmBefore DEF Calm
  <1>3. \A d \in Callers : d # c =>
            (d \in Own("evening")' <=> d \in Own("evening")) /\ loc'[d] = loc[d]
    BY <1>1, <1>e, OthersRun
  <1>4. Own("evening") \subseteq Callers /\ Own("evening")' \subseteq Callers
    BY DEF Own, Runs
  <1>5. mark' = mark
    BY <1>e, SendCounts
  <1>6. loc'[c].pc \in {"key", "check", "mark"}
    BY <1>1 DEF Follows
  <1>7. c \in Own("evening")' <=> c \in Own("evening")
    BY <1>1, <1>6 DEF Own, Runs, Working, Fixed, Kept
  <1>8. loc'[c].item = "mail" => loc'[c].pc = "key"
    BY <1>1 DEF Follows
  <1>9. CASE loc[c].own /\ loc[c].job = "evening" /\ loc[c].item = "mail"
    <2>1. c \in Own("evening")
      BY <1>1, <1>9 DEF Own, Runs, Working
    <2>2. \A d \in Own("evening") : d = c
      BY <1>2, <1>e, <2>1 DEF OneOwn, Calm
    <2>3. sent["evening"]["mail"] = 0
      BY <1>1, <1>2, <1>9, <2>1 DEF MailInv
    <2>4. sent'["evening"]["mail"] <= 1
      BY <2>3, <1>e, SendCounts
    <2>5. \A d \in Own("evening")' : d = c
      BY <1>3, <1>4, <2>2
    <2>6. \A d \in Own("evening")' :
              ~(loc'[d].item = "mail" /\ loc'[d].pc \in {"work", "check", "send"})
      BY <1>8, <2>5
    <2> QED
      BY <1>7, <2>1, <2>4, <2>6 DEF MailInv
  <1>10. CASE ~(loc[c].own /\ loc[c].job = "evening" /\ loc[c].item = "mail")
    <2>1. sent'["evening"]["mail"] = sent["evening"]["mail"]
      BY <1>10, <1>e, SendCounts
    <2>2. sent["evening"]["mail"] > 0 => mark["evening"] = "done" \/ Own("evening")' # {}
      BY <1>2, <1>3, <1>4, <1>7 DEF MailInv
    <2>3. \A d \in Own("evening")' :
            loc'[d].item = "mail" /\ loc'[d].pc \in {"work", "check", "send"}
              => sent["evening"]["mail"] = 0
      <3> TAKE d \in Own("evening")'
      <3>1. CASE d = c
        BY <1>8, <3>1
      <3>2. CASE d # c
        BY <1>2, <1>3, <1>4, <3>2 DEF MailInv
      <3> QED
        BY <3>1, <3>2
    <2> QED
      BY <1>2, <1>5, <2>1, <2>2, <2>3 DEF MailInv
  <1> QED
    BY <1>9, <1>10

LEMMA MailInvStep ==
    ASSUME TypeOK, RunsSound, OneOwn, MailInv, Next
    PROVE  MailInv'
  <1>e. "evening" \in Jobs
    BY DEF Jobs
  <1>1. ASSUME NEW c \in Callers, OneMoves(c)
        PROVE  MailInv'
    <2>1. Moves(c) /\ RunSound(c)
      BY <1>1, RunSoundStep DEF RunsSound
    <2>2. ASSUME sent' = sent, mark["evening"] = "done" => mark'["evening"] = "done",
                 c \notin Own("evening"), c \notin Own("evening")'
          PROVE  MailInv'
      BY <2>1, <2>2, MailQuiet
    <2>3. ASSUME NEW j \in Jobs, NEW b \in BOOLEAN, Tick(c, j, b) \/ Ask(c, j, b)
          PROVE  MailInv'
      <3>1. sent' = sent /\ mark' = mark /\ loc[c].pc = "idle"
        BY <2>3 DEF Tick, Ask, stores
      <3>2. \/ loc' = loc \/ loc'[c].pc = "recheck"
            \/ Fresh(c, "prewarm", FALSE)
        BY <2>3, TickMoves, AskMoves
      <3>3. c \notin Own("evening") /\ c \notin Own("evening")'
        BY <3>1, <3>2 DEF Own, Runs, Working, Fresh
      <3> QED
        BY <2>2, <3>1, <3>3
    <2>4. ASSUME NEW b \in BOOLEAN, Prewarm(c, b) \/ SyncDone(c)
          PROVE  MailInv'
      <3>1. sent' = sent /\ mark'["evening"] = mark["evening"]
        BY <1>e, <2>4, WarmedMarks, SyncDoneMarks DEF Prewarm
      <3>2. loc[c].job # "evening" /\ loc'[c] = NoRun
        BY <2>4, PrewarmMoves, SyncDoneMoves DEF Prewarm, SyncDone
      <3>3. c \notin Own("evening") /\ c \notin Own("evening")'
        BY <3>2 DEF Own, Runs, Working, NoRun
      <3> QED
        BY <2>2, <3>1, <3>3
    <2>5. ASSUME NEW n \in 1..Strategies, NEW b \in BOOLEAN, Begin(c, n, b)
          PROVE  MailInv'
      <3>1. loc[c].pc = "begin" /\ Kept(c)
        BY <2>5, BeginMoves
      <3>2. loc[c].job # "evening"
        BY <2>1, <3>1 DEF RunSound
      <3>3. sent' = sent /\ mark'["evening"] = mark["evening"]
        BY <1>e, <2>5, <3>2, BeginMarks
      <3>4. c \notin Own("evening") /\ c \notin Own("evening")'
        BY <3>1, <3>2 DEF Own, Runs, Working, Kept
      <3> QED
        BY <2>2, <3>3, <3>4
    <2>6. ASSUME NEW o \in BOOLEAN, NEW w \in BOOLEAN, NEW b \in BOOLEAN, SyncSteps(c, o, w, b)
          PROVE  MailInv'
      <3>1. loc[c].job # "evening" /\ Kept(c)
        BY <2>6, SyncStepsMoves DEF SyncSteps, Fixed
      <3>2. sent' = sent /\ mark'["evening"] = mark["evening"]
        BY <1>e, <2>6, SyncStepsMarks
      <3>3. c \notin Own("evening") /\ c \notin Own("evening")'
        BY <3>1 DEF Own, Runs, Kept
      <3> QED
        BY <2>2, <3>2, <3>3
    <2>7. ASSUME NEW x \in BOOLEAN, NEW b \in BOOLEAN, Build(c) \/ Check(c, x, b) \/ SetKey(c, b)
          PROVE  MailInv'
      <3>1. sent' = sent /\ mark' = mark /\ loc[c].pc \in {"work", "check", "key"}
        BY <2>7 DEF Build, Check, SetKey, stores
      <3>2. /\ Fixed(c) /\ loc'[c].pc \in {"check", "send", "mark"}
            /\ loc'[c].item = "mail" => loc[c].item = "mail" /\ ~SetKey(c, b)
        BY <2>7, BuildMoves, CheckMoves, SetKeyMoves DEF Follows, Build, Check, SetKey
      <3>3. ~SetKey(c, b) => loc[c].pc \in {"work", "check", "send"}
        BY <2>7 DEF Build, Check
      <3>4. c \in Own("evening") <=> c \in Own("evening")'
        BY <3>1, <3>2 DEF Own, Runs, Working, Fixed, Kept
      <3> QED
        BY <2>1, <3>1, <3>2, <3>3, <3>4, MailQuiet
    <2>8. ASSUME NEW b \in BOOLEAN, ProofRow(c, b)
          PROVE  MailInv'
      <3>1. sent' = sent /\ mark' = mark /\ loc[c].pc = "work" /\ loc[c].job = "proof"
        BY <2>8 DEF ProofRow
      <3>2. Kept(c)
        BY <2>1, <2>8, <3>1, ProofRowMoves DEF RunSound, Fixed
      <3>3. c \notin Own("evening") /\ c \notin Own("evening")'
        BY <3>1, <3>2 DEF Own, Runs, Kept
      <3> QED
        BY <2>2, <3>1, <3>3
    <2>9. ASSUME NEW b \in BOOLEAN, Mark(c, b)
          PROVE  MailInv'
      <3>1. sent' = sent /\ Fault(b) \subseteq excuses' /\ loc'[c] = NoRun
        BY <2>9, MarkMoves, MarkMarks
      <3>2. c \notin Own("evening")'
        BY <3>1 DEF Own, Runs, Working, NoRun
      <3>3. mark["evening"] = "done" => mark'["evening"] = "done"
        BY <1>e, <2>9, MarkMarks
      <3>4. c \in Own("evening") => mark'["evening"] = "done" \/ "fault" \in excuses'
        <4>1. CASE b
          BY <3>1, <4>1 DEF Fault
        <4>2. CASE ~b
          BY <2>9, <4>2, MarkMarks DEF Own, Runs
        <4> QED
          BY <4>1, <4>2
      <3> QED
        BY <2>1, <3>1, <3>2, <3>3, <3>4, MailQuiet
    <2>10. ASSUME NEW b \in BOOLEAN, Throw(c, b)
           PROVE  MailInv'
      <3>1. "fault" \in excuses'
        BY <2>10, ThrowMoves
      <3> QED
        BY <3>1 DEF MailInv, Calm
    <2>11. ASSUME Run(c)
           PROVE  MailInv'
      BY <2>11, <2>4, <2>5, <2>6, <2>7, <2>8, <2>9, RecheckMail, SendMail DEF Run
    <2> QED
      BY <1>1, <2>3, <2>10, <2>11 DEF OneMoves
  <1>2. ASSUME NEW cs \in {Ticks, Requests}, Crash(cs)
        PROVE  MailInv'
    BY <1>2, CrashMoves DEF MailInv, Calm
  <1>3. ASSUME NEW gap \in BOOLEAN, Clock(gap)
        PROVE  MailInv'
    <2>1. loc' = loc /\ sent' = sent /\ mark' = mark /\ excuses \subseteq excuses'
      BY <1>3 DEF Clock, Excuse, stores
    <2>2. Calm("evening", "mail")' => Calm("evening", "mail")
      BY <2>1 DEF Calm
    <2>3. Own("evening")' = Own("evening")
      BY <2>1 DEF Own, Runs, Working
    <2> QED
      BY <2>1, <2>2, <2>3 DEF MailInv
  <1>4. ASSUME NEW w \in BOOLEAN, Midnight(w)
        PROVE  MailInv'
    <2>1. sent'["evening"]["mail"] = 0
      BY <1>4 DEF Midnight, Alerting, Items
    <2> QED
      BY <2>1 DEF MailInv
  <1> QED
    BY <1>1, <1>2, <1>3, <1>4, NextSplits

-----------------------------------------------------------------------------
(* What a day owes: every job that had its tick is done, at work or looked   *)
(* at, and ran at its hour.                                                  *)

\* What a tick that finds nothing to do has found.
Served(j) == \/ mark[j] = "done" \/ Own(j) # {}
             \/ j = "sync" /\ (orphan \/ Runs(j) # {})
             \/ j = "prewarm" /\ Runs(j) # {}
             \/ Resting(j)

\* A tick is between its look and its work.
LookedOut(j) == \E c \in Ticks : Looking(c) /\ loc[c].job = j

Proven == \E k \in 1..Strategies : rows[k] = "ok"

ServedInv ==
    "fault" \notin excuses =>
      /\ \A j \in plan : now >= Cron[j] + Grace => j \in looked
      /\ \A j \in looked : Served(j) \/ LookedOut(j)
      /\ \A j \in Jobs : mark[j] = "running" => Own(j) # {}
      /\ Proven => mark["proof"] = "done" \/ Own("proof") # {}

\* The prewarm of a day with a sync may have been warmed by it before its hour.
AtHour(j) == j \in after \/ (j = "prewarm" /\ "sync" \in plan)

HourInv ==
    /\ "asked" \notin excuses => \A j \in Jobs : Own(j) # {} => j \in after
    /\ excuses \cap {"asked", "carried"} = {} =>
          \A j \in Jobs : mark[j] = "done" => AtHour(j)
    /\ "asked" \notin excuses => (Proven => "proof" \in after)
    /\ excuses = {} =>
          \A j \in looked : \/ AtHour(j) \/ (j = "sync" /\ orphan)
                           \/ Resting(j) \/ LookedOut(j)

\* What rests has not run, unless somebody asked.
RestInv == "asked" \notin excuses => \A j \in after : ~Resting(j)

\* A run at work goes on or leaves the mark of its job, unless it fails; and a
\* mark gives way only to a run.
HandsOn(c, j) ==
    /\ c \in Own(j) => c \in Own(j)' \/ mark'[j] = "done"
    /\ j \in {"sync", "prewarm"} /\ c \in Runs(j) => c \in Runs(j)' \/ mark'[j] = "done"
    /\ mark[j] = "done" => mark'[j] = "done" \/ c \in Own(j)'
    /\ mark'[j] = "running" => mark[j] = "running" \/ c \in Own(j)'

\* A step that leaves the marks alone and takes no run from its work.
LEMMA HandsOnQuiet ==
    ASSUME NEW c \in Callers, NEW j \in Jobs, mark'[j] = mark[j],
           \/ loc[c].pc \in {"idle", "recheck", "begin"} \/ Steady(c)
           \/ loc[c].job # j
    PROVE  HandsOn(c, j)
  BY DEF HandsOn, Own, Runs, Working, Steady, Fixed, Kept

LEMMA RunHandsOn ==
    ASSUME TypeOK, NEW c \in Callers, RunSound(c), OneMoves(c), NEW j \in Jobs,
           "fault" \notin excuses'
    PROVE  HandsOn(c, j)
  <1>1. ASSUME NEW i \in Jobs, NEW b \in BOOLEAN, Tick(c, i, b) \/ Ask(c, i, b)
        PROVE  HandsOn(c, j)
    <2>1. loc[c].pc = "idle" /\ mark' = mark
      BY <1>1 DEF Tick, Ask, stores
    <2> QED
      BY <2>1, HandsOnQuiet
  <1>2. ASSUME NEW b \in BOOLEAN, Recheck(c, b)
        PROVE  HandsOn(c, j)
    <2>1. loc[c].pc = "recheck" /\ mark' = mark
      BY <1>2 DEF Recheck, stores
    <2> QED
      BY <2>1, HandsOnQuiet
  <1>3. ASSUME NEW n \in 1..Strategies, NEW b \in BOOLEAN, Begin(c, n, b)
        PROVE  HandsOn(c, j)
    <2>1. loc[c].pc = "begin" /\ Kept(c) /\ loc'[c].pc = "work"
      BY <1>3, BeginMoves
    <2>2. CASE loc[c].job # j
      <3>1. mark'[j] = mark[j]
        BY <1>3, <2>2, BeginMarks
      <3> QED
        BY <2>1, <3>1, HandsOnQuiet
    <2>3. CASE loc[c].job = j
      <3>1. c \in Own(j)'
        BY <2>1, <2>3 DEF Own, Runs, Working, Kept, RunSound, Looking
      <3>2. c \notin Runs(j)
        BY <2>1 DEF Runs, Working
      <3> QED
        BY <3>1, <3>2 DEF HandsOn
    <2> QED
      BY <2>2, <2>3
  <1>4. ASSUME NEW b \in BOOLEAN, Prewarm(c, b)
        PROVE  HandsOn(c, j)
    <2>1. Warmed(b) /\ loc[c].job = "prewarm" /\ Fault(b) \subseteq excuses'
      BY <1>4, PrewarmMoves DEF Prewarm
    <2>2. ~b
      BY <2>1 DEF Fault
    <2>3. CASE j = "prewarm"
      <3>1. mark'[j] = "done"
        BY <2>1, <2>2, <2>3, WarmedMarks
      <3> QED
        BY <3>1 DEF HandsOn
    <2>4. CASE j # "prewarm"
      BY <2>1, <2>4, WarmedMarks, HandsOnQuiet
    <2> QED
      BY <2>3, <2>4
  <1>5. ASSUME NEW o \in BOOLEAN, NEW w \in BOOLEAN, NEW b \in BOOLEAN, SyncSteps(c, o, w, b)
        PROVE  HandsOn(c, j)
    <2>1. loc[c].pc = "work" /\ Fixed(c) /\ loc'[c].pc = "mark" /\ loc[c].job = "sync"
      BY <1>5, SyncStepsMoves DEF SyncSteps
    <2>2. Steady(c)
      BY <2>1 DEF Steady, Working
    <2>3. mark'[j] \in {mark[j], "done"}
      BY <1>5, SyncStepsMarks
    <2>4. CASE mark'[j] = mark[j]
      BY <2>2, <2>4, HandsOnQuiet
    <2>5. CASE mark'[j] = "done"
      BY <2>5 DEF HandsOn
    <2> QED
      BY <2>3, <2>4, <2>5
  <1>6. ASSUME SyncDone(c)
        PROVE  HandsOn(c, j)
    <2>1. loc[c].ok /\ loc[c].job = "sync"
      BY <1>6, SyncDoneMoves DEF SyncDone
    <2>2. CASE j = "sync"
      <3>1. mark'[j] = "done"
        BY <1>6, <2>1, <2>2, SyncDoneMarks
      <3> QED
        BY <3>1 DEF HandsOn
    <2>3. CASE j # "sync"
      BY <1>6, <2>1, <2>3, SyncDoneMarks, HandsOnQuiet
    <2> QED
      BY <2>2, <2>3
  <1>7. ASSUME NEW x \in BOOLEAN, NEW b \in BOOLEAN,
               Check(c, x, b) \/ Send(c, b) \/ SetKey(c, b) \/ Build(c)
        PROVE  HandsOn(c, j)
    <2>1. /\ Fixed(c) /\ loc[c].pc \in {"work", "check", "send", "key"}
          /\ loc'[c].pc \in {"send", "key", "check", "mark"}
      BY <1>7, CheckMoves, SendMoves, SetKeyMoves, BuildMoves
         DEF Check, Send, SetKey, Build, Follows
    <2>2. Steady(c) /\ mark' = mark
      BY <1>7, <2>1 DEF Steady, Working, Check, Send, SetKey, Build, stores
    <2> QED
      BY <2>2, HandsOnQuiet
  <1>8. ASSUME NEW b \in BOOLEAN, ProofRow(c, b)
        PROVE  HandsOn(c, j)
    <2>1. loc[c].pc = "work" /\ loc[c].left \in 1..Strategies /\ mark' = mark
      BY <1>8 DEF ProofRow, RunSound
    <2>2. Fixed(c) /\ loc'[c].pc \in {"mark", "work"}
      BY <1>8, <2>1, ProofRowMoves
    <2>3. Steady(c)
      BY <2>1, <2>2 DEF Steady, Working
    <2> QED
      BY <2>1, <2>3, HandsOnQuiet
  <1>9. ASSUME NEW b \in BOOLEAN, Mark(c, b)
        PROVE  HandsOn(c, j)
    <2>1. /\ Fault(b) \subseteq excuses' /\ loc[c].pc = "mark" /\ loc[c].job # "sync"
          /\ loc[c].job # "prewarm"
      BY <1>9, MarkMoves DEF Mark, RunSound
    <2>2. ~b
      BY <2>1 DEF Fault
    <2>3. CASE loc[c].job = j
      <3>1. mark'[j] = IF loc[c].own THEN "done" ELSE mark[j]
        BY <1>9, <2>2, <2>3, MarkMarks
      <3> QED
        BY <2>1, <2>3, <3>1 DEF HandsOn, Own
    <2>4. CASE loc[c].job # j
      BY <1>9, <2>4, MarkMarks, HandsOnQuiet
    <2> QED
      BY <2>3, <2>4
  <1>10. ASSUME NEW b \in BOOLEAN, Throw(c, b)
         PROVE  FALSE
    BY <1>10, ThrowMoves
  <1>11. ASSUME Run(c)
         PROVE  HandsOn(c, j)
    BY <1>11, <1>2, <1>3, <1>4, <1>5, <1>6, <1>7, <1>8, <1>9 DEF Run
  <1> QED
    BY <1>1, <1>10, <1>11 DEF OneMoves

\* Within the day, what has run stays so, a stranded row stays, and no look is
\* taken back.
LEMMA DayGrows ==
    ASSUME TypeOK, NEW c \in Callers, OneMoves(c)
    PROVE  after \subseteq after' /\ looked \subseteq looked' /\ (orphan => orphan')
  <1>0. orphan \in BOOLEAN
    BY DEF TypeOK
  <1>1. ASSUME NEW j \in Jobs, NEW b \in BOOLEAN, Tick(c, j, b)
        PROVE  after \subseteq after' /\ looked \subseteq looked' /\ (orphan => orphan')
    <2>1. after \subseteq after'
      BY <1>1, TickMoves
    <2> QED
      BY <1>1, <2>1 DEF Tick, stores
  <1>2. ASSUME NEW j \in Jobs, NEW f \in BOOLEAN, Ask(c, j, f)
        PROVE  after \subseteq after' /\ looked \subseteq looked' /\ (orphan => orphan')
    BY <1>2 DEF Ask, stores
  <1>3. ASSUME NEW s \in BOOLEAN, Throw(c, s)
        PROVE  after \subseteq after' /\ looked \subseteq looked' /\ (orphan => orphan')
    BY <1>0, <1>3 DEF Throw
  <1>4. ASSUME NEW b \in BOOLEAN, Recheck(c, b)
        PROVE  after \subseteq after' /\ looked \subseteq looked' /\ (orphan => orphan')
    <2>1. after \subseteq after'
      BY <1>4, RecheckMoves
    <2> QED
      BY <1>4, <2>1 DEF Recheck, stores
  <1>5. ASSUME NEW n \in 1..Strategies, NEW b \in BOOLEAN, Begin(c, n, b)
        PROVE  after \subseteq after' /\ looked \subseteq looked' /\ (orphan => orphan')
    <2>1. after \subseteq after'
      BY <1>5, BeginMoves
    <2> QED
      BY <1>5, <2>1 DEF Begin
  <1>6. ASSUME NEW b \in BOOLEAN, Prewarm(c, b)
        PROVE  after \subseteq after' /\ looked \subseteq looked' /\ (orphan => orphan')
    BY <1>6, WarmedMarks DEF Prewarm
  <1>7. ASSUME NEW o \in BOOLEAN, NEW w \in BOOLEAN, NEW b \in BOOLEAN, SyncSteps(c, o, w, b)
        PROVE  after \subseteq after' /\ looked \subseteq looked' /\ (orphan => orphan')
    BY <1>7, SyncStepsMarks
  <1>8. ASSUME NEW x \in BOOLEAN, NEW b \in BOOLEAN,
               \/ SetKey(c, b) \/ Mark(c, b) \/ Send(c, b) \/ ProofRow(c, b)
               \/ SyncDone(c) \/ Build(c) \/ Check(c, x, b)
        PROVE  after \subseteq after' /\ looked \subseteq looked' /\ (orphan => orphan')
    BY <1>8 DEF SetKey, Mark, Send, ProofRow, SyncDone, Build, Check, stores
  <1>9. ASSUME Run(c)
        PROVE  after \subseteq after' /\ looked \subseteq looked' /\ (orphan => orphan')
    BY <1>9, <1>4, <1>5, <1>6, <1>7, <1>8 DEF Run
  <1> QED
    BY <1>1, <1>2, <1>3, <1>9 DEF OneMoves

\* What a look that ends a run has found.
LEMMA FoundIs ==
    ASSUME NEW j \in Jobs, NEW b \in BOOLEAN, Found(j, b)
    PROVE  mark[j] = "done" \/ (j = "proof" /\ Proven)
  BY DEF Found, Marked, Proven

\* A tick that ends a look without a failure has found its job served, or has
\* begun it at its hour.
LEMMA LookEnds ==
    ASSUME TypeOK, NEW c \in Callers, c \in Ticks, RunSound(c), OneMoves(c), Looking(c),
           "fault" \notin excuses', NEW j \in Jobs, loc[c].job = j
    PROVE  \/ Looking(c)' /\ loc'[c].job = j
           \/ Resting(j)
           \/ c \in Own(j)' /\ j \in after'
           \/ mark[j] = "done" /\ mark'[j] = "done"
           \/ j = "proof" /\ Proven
           \/ j = "sync" /\ Active /\ orphan' = orphan /\ Runs("sync") \subseteq Runs("sync")'
  <1>1. c \notin Requests /\ loc[c].own /\ ~loc[c].force /\ Due(j)
    BY TicksAreNoRequests DEF RunSound, Looking
  <1>2. now >= Cron[j]
    BY <1>1, DayIsSound DEF Due, TypeOK
  <1>3. ASSUME NEW b \in BOOLEAN, Recheck(c, b), loc'[c] = NoRun,
               Found(j, b) \/ (j = "sync" /\ Active)
        PROVE  \/ mark[j] = "done" /\ mark'[j] = "done"
               \/ j = "proof" /\ Proven
               \/ j = "sync" /\ Active /\ orphan' = orphan /\ Runs("sync") \subseteq Runs("sync")'
    <2>1. mark' = mark /\ orphan' = orphan /\ Moves(c)
      BY <1>3, RecheckMoves DEF Recheck, stores
    <2>2. Runs("sync") \subseteq Runs("sync")'
      <3> SUFFICES ASSUME NEW d \in Runs("sync") PROVE d \in Runs("sync")'
        OBVIOUS
      <3>1. d \in Callers /\ d # c
        BY DEF Runs, Working, Looking
      <3> QED
        BY <2>1, <3>1, OthersRun DEF Jobs
    <2> QED
      BY <1>3, <2>1, <2>2, FoundIs
  <1>4. ASSUME NEW b \in BOOLEAN, Recheck(c, b), loc[c].job = "evening", Kept(c),
               loc'[c].pc = "work",
               after' = IF now >= Cron["evening"] THEN after \cup {"evening"} ELSE after
        PROVE  c \in Own(j)' /\ j \in after'
    BY <1>1, <1>2, <1>4 DEF Own, Runs, Working, Kept
  <1>5. ASSUME NEW b \in BOOLEAN, Recheck(c, b), Kept(c), loc'[c].pc = "begin"
        PROVE  Looking(c)' /\ loc'[c].job = j
    BY <1>5 DEF Looking, Kept
  <1>6. ASSUME NEW n \in 1..Strategies, NEW b \in BOOLEAN, Begin(c, n, b)
        PROVE  c \in Own(j)' /\ j \in after'
    <2>1. /\ Kept(c) /\ loc'[c].pc = "work"
          /\ after' = IF now >= Cron[j] THEN after \cup {j} ELSE after
      BY <1>6, BeginMoves
    <2> QED
      BY <1>1, <1>2, <2>1 DEF Own, Runs, Working, Kept
  <1>7. ASSUME NEW b \in BOOLEAN, Throw(c, b)
        PROVE  FALSE
    BY <1>7, ThrowMoves
  <1>8. CASE Run(c)
    <2>1. \/ \E b \in BOOLEAN : Recheck(c, b)
          \/ \E n \in 1..Strategies, b \in BOOLEAN : Begin(c, n, b)
      BY <1>8 DEF Run, Looking, Prewarm, SetKey, Mark, Send, ProofRow, SyncSteps, SyncDone,
                  Build, Check
    <2>2. ASSUME NEW b \in BOOLEAN, Recheck(c, b)
          PROVE  \/ Resting(j)
                 \/ loc'[c] = NoRun /\ (Found(j, b) \/ (j = "sync" /\ Active))
                 \/ /\ loc[c].job = "evening" /\ Kept(c) /\ loc'[c].pc = "work"
                    /\ after' = IF now >= Cron["evening"] THEN after \cup {"evening"} ELSE after
                 \/ Kept(c) /\ loc'[c].pc = "begin"
      BY <2>2, RecheckMoves
    <2> QED
      BY <1>3, <1>4, <1>5, <1>6, <2>1, <2>2
  <1>9. ASSUME NEW i \in Jobs, NEW b \in BOOLEAN, Tick(c, i, b) \/ Ask(c, i, b)
        PROVE  FALSE
    BY <1>9 DEF Tick, Ask, Looking
  <1> QED
    BY <1>7, <1>8, <1>9 DEF OneMoves

\* What is served stays served.
LEMMA StaysServed ==
    ASSUME TypeOK, NEW c \in Callers, RunSound(c), OneMoves(c), NEW j \in Jobs,
           "fault" \notin excuses', Moves(c)
    PROVE  /\ mark[j] = "done" \/ Own(j) # {} => mark'[j] = "done" \/ Own(j)' # {}
           /\ Served(j) => Served(j)'
           /\ (mark[j] = "running" => Own(j) # {}) => (mark'[j] = "running" => Own(j)' # {})
  <1>1. HandsOn(c, j)
    BY RunHandsOn
  <1>2. \A d \in Callers : d # c => (d \in Own(j) => d \in Own(j)') /\ (d \in Runs(j) => d \in Runs(j)')
    BY OthersRun
  <1>3. Own(j) \subseteq Callers /\ Runs(j) \subseteq Callers
    BY DEF Own, Runs
  <1>4. mark[j] = "done" \/ Own(j) # {} => mark'[j] = "done" \/ Own(j)' # {}
    BY <1>1, <1>2, <1>3 DEF HandsOn
  <1>5. j \in {"sync", "prewarm"} /\ Runs(j) # {} => mark'[j] = "done" \/ Runs(j)' # {}
    BY <1>1, <1>2, <1>3 DEF HandsOn
  <1>6. orphan => orphan'
    BY DayGrows
  <1>7. (mark[j] = "running" => Own(j) # {}) => (mark'[j] = "running" => Own(j)' # {})
    BY <1>1, <1>2, <1>3 DEF HandsOn
  <1>8. Resting(j)' = Resting(j)
    BY DEF Moves, Resting, Weekend, Muted
  <1> QED
    BY <1>4, <1>5, <1>6, <1>7, <1>8 DEF Served

\* The rows are written by the proof, the looks are those of ticks.
LEMMA RowsOf ==
    ASSUME NEW c \in Callers, OneMoves(c)
    PROVE  rows' = rows \/ \E b \in BOOLEAN : ProofRow(c, b)
  <1>1. ASSUME NEW o \in BOOLEAN, NEW w \in BOOLEAN, NEW b \in BOOLEAN, SyncSteps(c, o, w, b)
        PROVE  rows' = rows
    BY <1>1 DEF SyncSteps
  <1>2. ASSUME NEW n \in 1..Strategies, NEW b \in BOOLEAN, Begin(c, n, b)
        PROVE  rows' = rows
    BY <1>2 DEF Begin
  <1>3. ASSUME NEW x \in BOOLEAN, NEW b \in BOOLEAN,
               \/ Recheck(c, b) \/ Prewarm(c, b) \/ SetKey(c, b) \/ Mark(c, b)
               \/ Send(c, b) \/ SyncDone(c) \/ Build(c) \/ Check(c, x, b) \/ Throw(c, b)
        PROVE  rows' = rows
    BY <1>3 DEF Recheck, Prewarm, SetKey, Mark, Send, SyncDone, Build, Check, Throw, stores
  <1>4. ASSUME NEW j \in Jobs, NEW b \in BOOLEAN, Tick(c, j, b) \/ Ask(c, j, b)
        PROVE  rows' = rows
    BY <1>4 DEF Tick, Ask, stores
  <1> QED
    BY <1>1, <1>2, <1>3, <1>4 DEF OneMoves, Run

LEMMA LookedOf ==
    ASSUME NEW c \in Callers, OneMoves(c)
    PROVE  looked' = looked \/ \E j \in Jobs, b \in BOOLEAN : Tick(c, j, b) /\ c \in Ticks
  <1>1. ASSUME NEW o \in BOOLEAN, NEW w \in BOOLEAN, NEW b \in BOOLEAN, SyncSteps(c, o, w, b)
        PROVE  looked' = looked
    BY <1>1 DEF SyncSteps
  <1>2. ASSUME NEW n \in 1..Strategies, NEW b \in BOOLEAN, Begin(c, n, b)
        PROVE  looked' = looked
    BY <1>2 DEF Begin
  <1>3. ASSUME NEW x \in BOOLEAN, NEW b \in BOOLEAN,
               \/ Recheck(c, b) \/ Prewarm(c, b) \/ SetKey(c, b) \/ Mark(c, b)
               \/ Send(c, b) \/ SyncDone(c) \/ Build(c) \/ Check(c, x, b)
               \/ Throw(c, b) \/ ProofRow(c, b)
        PROVE  looked' = looked
    BY <1>3 DEF Recheck, Prewarm, SetKey, Mark, Send, SyncDone, Build, Check, Throw, ProofRow, stores
  <1>4. ASSUME NEW j \in Jobs, NEW b \in BOOLEAN, Ask(c, j, b)
        PROVE  looked' = looked
    BY <1>4 DEF Ask
  <1> QED
    BY <1>1, <1>2, <1>3, <1>4 DEF OneMoves, Run

LEMMA ServedStep ==
    ASSUME TypeOK, RunsSound, ServedInv, Next
    PROVE  ServedInv'
  <1>1. ASSUME NEW c \in Callers, OneMoves(c)
        PROVE  ServedInv'
    <2> SUFFICES ASSUME "fault" \notin excuses' PROVE ServedInv'
      BY DEF ServedInv
    <2>1. /\ Moves(c) /\ RunSound(c) /\ excuses \subseteq excuses'
          /\ now' = now /\ plan' = plan /\ day' = day
      BY <1>1, RunSoundStep DEF RunsSound, Moves
    <2>2. "fault" \notin excuses
      BY <2>1
    <2>j. plan \subseteq Jobs /\ looked \subseteq Jobs /\ "proof" \in Jobs /\ "sync" \in Jobs
      BY DayIsSound DEF TypeOK, Jobs
    <2>3. \A j \in Jobs : /\ Served(j) => Served(j)'
                          /\ mark'[j] = "running" => Own(j)' # {}
      BY <1>1, <2>1, <2>2, StaysServed DEF ServedInv
    <2>4. \A j \in plan : now' >= Cron[j] + Grace => j \in looked'
      BY <1>1, <2>1, <2>2, DayGrows DEF ServedInv
    <2>5. Proven => mark'["proof"] = "done" \/ Own("proof")' # {}
      BY <1>1, <2>1, <2>2, <2>j, StaysServed DEF ServedInv
    <2>6. Proven' => mark'["proof"] = "done" \/ Own("proof")' # {}
      <3>1. CASE rows' = rows
        BY <2>5, <3>1 DEF Proven
      <3>2. ASSUME NEW b \in BOOLEAN, ProofRow(c, b)
            PROVE  Proven' => mark'["proof"] = "done" \/ Own("proof")' # {}
        <4>1. /\ loc[c].pc = "work" /\ loc[c].job = "proof" /\ (loc[c].own \/ rows' = rows)
          BY <3>2 DEF ProofRow
        <4>2. loc[c].left \in 1..Strategies
          BY <2>1, <4>1 DEF RunSound
        <4>3. Fixed(c) /\ loc'[c].pc \in {"mark", "work"}
          BY <3>2, <4>2, ProofRowMoves
        <4>4. loc[c].own => c \in Own("proof")'
          BY <4>1, <4>3 DEF Own, Runs, Working, Fixed, Kept
        <4> QED
          BY <3>1, <4>1, <4>4
      <3> QED
        BY <1>1, <3>1, <3>2, RowsOf
    <2>7. ASSUME NEW j \in Jobs, LookedOut(j)
          PROVE  Served(j)' \/ LookedOut(j)'
      <3>1. PICK d \in Ticks : Looking(d) /\ loc[d].job = j
        BY <2>7 DEF LookedOut
      <3>2. d \in Callers
        BY DEF Callers
      <3>3. CASE d # c
        <4>1. loc'[d] = loc[d]
          BY <2>1, <3>2, <3>3 DEF Moves
        <4> QED
          BY <3>1, <4>1 DEF LookedOut, Looking
      <3>4. CASE d = c
        <4>1. Looking(c) /\ loc[c].job = j /\ c \in Ticks
          BY <3>1, <3>4
        <4>2. \/ Looking(c)' /\ loc'[c].job = j
              \/ Resting(j)
              \/ c \in Own(j)' /\ j \in after'
              \/ mark[j] = "done" /\ mark'[j] = "done"
              \/ j = "proof" /\ Proven
              \/ j = "sync" /\ Active /\ orphan' = orphan /\ Runs("sync") \subseteq Runs("sync")'
          BY <1>1, <2>1, <4>1, LookEnds
        <4>3. CASE Looking(c)' /\ loc'[c].job = j
          BY <4>1, <4>3 DEF LookedOut
        <4>4. CASE j = "sync" /\ Active /\ orphan' = orphan /\ Runs("sync") \subseteq Runs("sync")'
          BY <4>4 DEF Served, Active
        <4>5. CASE \/ c \in Own(j)' \/ mark'[j] = "done"
                   \/ j = "proof" /\ Proven
          BY <2>5, <4>5 DEF Served
        <4>6. CASE Resting(j)
          <5>1. Resting(j)'
            BY <2>1, <4>6 DEF Resting, Weekend, Muted, Moves
          <5> QED
            BY <5>1 DEF Served
        <4> QED
          BY <4>2, <4>3, <4>4, <4>5, <4>6
      <3> QED
        BY <3>3, <3>4
    <2>8. ASSUME NEW i \in Jobs, NEW b \in BOOLEAN, Tick(c, i, b), c \in Ticks
          PROVE  Served(i)' \/ LookedOut(i)'
      <3>1. mark' = mark /\ orphan' = orphan
        BY <2>8 DEF Tick, stores
      <3>2. \/ loc' = loc /\ (Found(i, b) \/ (i = "sync" /\ Active))
            \/ i = "evening" /\ day.weekend
            \/ i = "prewarm" /\ Fresh(c, i, FALSE) /\ loc'[c].pc = "work"
            \/ Fresh(c, i, FALSE) /\ loc'[c].pc = "recheck"
        BY <2>8, TickMoves
      <3>3. CASE Found(i, b)
        <4>1. mark[i] = "done" \/ (i = "proof" /\ Proven)
          BY <3>3, FoundIs
        <4> QED
          BY <2>5, <3>1, <4>1 DEF Served
      <3>4. CASE i = "sync" /\ Active
        <4>1. Served("sync")
          BY <3>4 DEF Active, Served
        <4> QED
          BY <2>3, <2>j, <3>4, <4>1
      <3>5. CASE Fresh(c, i, FALSE) /\ loc'[c].pc = "work"
        <4>1. c \in Own(i)'
          BY <3>5 DEF Own, Runs, Working, Fresh
        <4> QED
          BY <4>1 DEF Served
      <3>6. CASE Fresh(c, i, FALSE) /\ loc'[c].pc = "recheck"
        BY <2>8, <3>6 DEF LookedOut, Looking, Fresh
      <3>7. CASE i = "evening" /\ day.weekend
        BY <2>3, <3>7 DEF Served, Resting, Weekend
      <3> QED
        BY <3>2, <3>3, <3>4, <3>5, <3>6, <3>7
    <2>9. \A j \in looked : Served(j)' \/ LookedOut(j)'
      BY <2>2, <2>3, <2>7, <2>j DEF ServedInv
    <2>10. \A j \in looked' : Served(j)' \/ LookedOut(j)'
      <3>1. CASE looked' = looked
        BY <2>9, <3>1
      <3>2. ASSUME NEW i \in Jobs, NEW b \in BOOLEAN, Tick(c, i, b), c \in Ticks
            PROVE  \A j \in looked' : Served(j)' \/ LookedOut(j)'
        <4>1. looked' = looked \cup {i}
          BY <3>2 DEF Tick
        <4> QED
          BY <2>8, <2>9, <3>2, <4>1
      <3> QED
        BY <1>1, <3>1, <3>2, LookedOf
    <2> QED
      BY <2>1, <2>3, <2>4, <2>6, <2>10 DEF ServedInv
  <1>2. ASSUME NEW cs \in {Ticks, Requests}, Crash(cs)
        PROVE  ServedInv'
    BY <1>2, CrashMoves DEF ServedInv
  <1>3. ASSUME NEW gap \in BOOLEAN, Clock(gap)
        PROVE  ServedInv'
    <2> SUFFICES ASSUME "fault" \notin excuses' PROVE ServedInv'
      BY DEF ServedInv
    <2>1. /\ loc' = loc /\ mark' = mark /\ rows' = rows /\ orphan' = orphan /\ looked' = looked
          /\ plan' = plan /\ day' = day /\ now' = now + 1
          /\ Excuse(Fault(gap)) /\ (Unlooked # {} <=> gap)
      BY <1>3 DEF Clock, stores
    <2>2. ~gap /\ "fault" \notin excuses
      BY <2>1 DEF Excuse, Fault
    <2>3. \A j \in plan : now' >= Cron[j] + Grace => j \in looked'
      <3> SUFFICES ASSUME NEW j \in plan, now' >= Cron[j] + Grace PROVE j \in looked
        BY <2>1
      <3>1. j \in Jobs
        BY DayIsSound DEF TypeOK
      <3>2. Cron[j] \in Nat /\ Grace \in Nat /\ now \in Nat
        BY <3>1, DayIsSound DEF TypeOK
      <3>3. CASE now >= Cron[j] + Grace
        BY <2>2, <3>3 DEF ServedInv
      <3>4. CASE now = Cron[j] + Grace - 1
        BY <2>1, <2>2, <3>4 DEF Unlooked
      <3> QED
        BY <2>1, <3>2, <3>3, <3>4
    <2>4. \A j \in Jobs : Served(j)' = Served(j) /\ LookedOut(j)' = LookedOut(j) /\ Own(j)' = Own(j)
      BY <2>1 DEF Served, LookedOut, Own, Runs, Working, Looking, Resting, Weekend, Muted
    <2>5. Proven' = Proven
      BY <2>1 DEF Proven
    <2>6. looked \subseteq Jobs /\ "proof" \in Jobs
      BY DEF TypeOK, Jobs
    <2>7. /\ \A j \in looked : Served(j) \/ LookedOut(j)
          /\ \A j \in Jobs : mark[j] = "running" => Own(j) # {}
          /\ Proven => mark["proof"] = "done" \/ Own("proof") # {}
      BY <2>2 DEF ServedInv
    <2>8. \A j \in looked' : Served(j)' \/ LookedOut(j)'
      BY <2>1, <2>4, <2>6, <2>7
    <2>9. \A j \in Jobs : mark'[j] = "running" => Own(j)' # {}
      BY <2>1, <2>4, <2>7
    <2>10. Proven' => mark'["proof"] = "done" \/ Own("proof")' # {}
      BY <2>1, <2>4, <2>5, <2>6, <2>7
    <2> QED
      BY <2>1, <2>3, <2>8, <2>9, <2>10 DEF ServedInv
  <1>4. ASSUME NEW w \in BOOLEAN, Midnight(w)
        PROVE  ServedInv'
    <2>1. /\ looked' = {} /\ now' = 0 /\ plan' = plan /\ \A j \in Jobs : mark'[j] = "no"
          /\ \A k \in 1..Strategies : rows'[k] = "none"
      BY <1>4 DEF Midnight
    <2>2. \A j \in plan : ~(now' >= Cron[j] + Grace)
      BY <2>1, DayIsSound DEF TypeOK
    <2>3. ~Proven'
      BY <2>1 DEF Proven
    <2> QED
      BY <2>1, <2>2, <2>3 DEF ServedInv
  <1> QED
    BY <1>1, <1>2, <1>3, <1>4, NextSplits

\* A run of today that nobody asked for began at its hour.
LEMMA OwnBegins ==
    ASSUME TypeOK, NEW c \in Callers, RunSound(c), OneMoves(c), NEW j \in Jobs,
           "asked" \notin excuses', c \in Own(j)'
    PROVE  c \in Own(j) \/ j \in after'
  <1>0. excuses \subseteq excuses'
    BY RunSoundStep DEF Moves
  <1>d. ASSUME Due(j)
        PROVE  now >= Cron[j]
    BY <1>d, DayIsSound DEF Due, TypeOK
  <1>h. ASSUME Looking(c), loc[c].job = j
        PROVE  now >= Cron[j]
    <2>1. c \notin Requests
      BY <1>0, <1>h DEF RunSound, Looking
    <2>2. Due(j)
      BY <1>h, <2>1 DEF RunSound, Callers
    <2> QED
      BY <2>2, <1>d
  <1>1. CASE Steady(c)
    BY <1>1 DEF Own, Runs, Steady, Fixed, Kept
  <1>2. CASE loc' = loc
    BY <1>2 DEF Own, Runs, Working
  <1>3. loc'[c].job = j /\ Working(c)'
    BY DEF Own, Runs
  <1>4. ASSUME NEW i \in Jobs, NEW b \in BOOLEAN, Tick(c, i, b)
        PROVE  c \in Own(j) \/ j \in after'
    <2>1. \/ loc' = loc \/ loc'[c].pc = "recheck"
          \/ Fresh(c, i, FALSE) /\ after' = IF now >= Cron[i] THEN after \cup {i} ELSE after
      BY <1>4, TickMoves
    <2>2. now >= Cron[i]
      BY <1>4, DayIsSound DEF Tick, Due, TypeOK
    <2> QED
      BY <1>2, <1>3, <2>1, <2>2 DEF Fresh, Working
  <1>5. ASSUME NEW i \in Jobs, NEW f \in BOOLEAN, Ask(c, i, f)
        PROVE  FALSE
    BY <1>5, AskMoves
  <1>6. ASSUME NEW b \in BOOLEAN, Recheck(c, b)
        PROVE  j \in after'
    <2>1. /\ loc[c].pc = "recheck"
          /\ \/ loc'[c] = NoRun \/ loc'[c].pc = "begin"
             \/ /\ loc[c].job = "evening" /\ Kept(c)
                /\ after' = IF now >= Cron["evening"] THEN after \cup {"evening"} ELSE after
      BY <1>6, RecheckMoves
    <2>2. /\ loc[c].job = "evening" /\ Kept(c) /\ j = "evening"
          /\ after' = IF now >= Cron["evening"] THEN after \cup {"evening"} ELSE after
      BY <1>3, <2>1 DEF Working, NoRun, Kept
    <2> QED
      BY <1>h, <2>1, <2>2 DEF Looking
  <1>7. ASSUME NEW n \in 1..Strategies, NEW b \in BOOLEAN, Begin(c, n, b)
        PROVE  j \in after'
    <2>1. /\ loc[c].pc = "begin" /\ Kept(c)
          /\ after' = IF now >= Cron[loc[c].job] THEN after \cup {loc[c].job} ELSE after
      BY <1>7, BeginMoves
    <2> QED
      BY <1>3, <1>h, <2>1 DEF Looking, Kept
  <1>8. ASSUME ~Looking(c), loc[c].pc # "idle"
        PROVE  c \in Own(j) \/ j \in after'
    <2>1. loc'[c] # NoRun
      BY <1>3 DEF Working, NoRun
    <2>2. Steady(c) \/ loc' = loc
      BY <1>8, <2>1, RunKinds DEF Looking
    <2> QED
      BY <1>1, <1>2, <2>2
  <1>9. ASSUME NEW b \in BOOLEAN, Throw(c, b)
        PROVE  FALSE
    BY <1>3, <1>9, ThrowMoves DEF Working, NoRun
  <1>10. ASSUME Run(c)
         PROVE  c \in Own(j) \/ j \in after'
    <2>1. \/ \E b \in BOOLEAN : Recheck(c, b)
          \/ \E n \in 1..Strategies, b \in BOOLEAN : Begin(c, n, b)
          \/ ~Looking(c) /\ loc[c].pc # "idle"
      BY <1>10 DEF Run, Looking, Prewarm, SetKey, Mark, Send, ProofRow, SyncSteps, SyncDone,
                   Build, Check
    <2> QED
      BY <1>6, <1>7, <1>8, <2>1
  <1> QED
    BY <1>4, <1>5, <1>9, <1>10 DEF OneMoves

\* A mark "done" is left by a run of the job, or by the sync for the prewarm.
LEMMA MarkBegins ==
    ASSUME TypeOK, NEW c \in Callers, RunSound(c), OneMoves(c), NEW j \in Jobs,
           mark'[j] = "done", mark[j] # "done"
    PROVE  c \in Own(j) \/ (j = "prewarm" /\ "sync" \in plan) \/ "carried" \in excuses
  <1>1. ASSUME loc[c].pc # "idle", Working(c), loc[c].job = j
        PROVE  c \in Own(j) \/ "carried" \in excuses
    BY <1>1 DEF Own, Runs, RunSound
  <1>2. ASSUME NEW x \in BOOLEAN, NEW b \in BOOLEAN,
               \/ Recheck(c, b) \/ Send(c, b) \/ SetKey(c, b) \/ ProofRow(c, b)
               \/ Build(c) \/ Check(c, x, b) \/ Throw(c, b)
        PROVE  FALSE
    BY <1>2 DEF Recheck, SetKey, Send, ProofRow, Build, Check, Throw, stores
  <1>3. ASSUME NEW i \in Jobs, NEW b \in BOOLEAN, Tick(c, i, b) \/ Ask(c, i, b)
        PROVE  FALSE
    BY <1>3 DEF Tick, Ask, stores
  <1>4. ASSUME NEW b \in BOOLEAN, Prewarm(c, b)
        PROVE  c \in Own(j) \/ "carried" \in excuses
    <2>1. j = "prewarm" /\ loc[c].pc = "work" /\ loc[c].job = "prewarm"
      BY <1>4, WarmedMarks DEF Prewarm
    <2> QED
      BY <1>1, <2>1 DEF Working
  <1>5. ASSUME NEW b \in BOOLEAN, Mark(c, b)
        PROVE  c \in Own(j) \/ "carried" \in excuses
    <2>1. j = loc[c].job /\ loc[c].pc = "mark"
      BY <1>5, MarkMarks
    <2> QED
      BY <1>1, <2>1 DEF Working
  <1>6. ASSUME SyncDone(c)
        PROVE  c \in Own(j) \/ "carried" \in excuses
    <2>1. j = "sync" /\ loc[c].pc = "mark" /\ loc[c].job = "sync"
      BY <1>6, SyncDoneMarks DEF SyncDone
    <2> QED
      BY <1>1, <2>1 DEF Working
  <1>7. ASSUME NEW o \in BOOLEAN, NEW w \in BOOLEAN, NEW b \in BOOLEAN, SyncSteps(c, o, w, b)
        PROVE  j = "prewarm" /\ "sync" \in plan
    <2>1. j = "prewarm"
      BY <1>7, SyncStepsMarks
    <2>2. "sync" \in plan
      BY <1>7 DEF SyncSteps, RunSound
    <2> QED
      BY <2>1, <2>2
  <1>8. ASSUME NEW n \in 1..Strategies, NEW b \in BOOLEAN, Begin(c, n, b)
        PROVE  FALSE
    <2>1. mark'[j] = mark[j] \/ mark'[j] = "running"
      BY <1>8, BeginMarks
    <2> QED
      BY <2>1
  <1>9. ASSUME Run(c)
        PROVE  c \in Own(j) \/ (j = "prewarm" /\ "sync" \in plan) \/ "carried" \in excuses
    BY <1>9, <1>2, <1>4, <1>5, <1>6, <1>7, <1>8 DEF Run
  <1> QED
    BY <1>2, <1>3, <1>9 DEF OneMoves

\* On a day on which nothing was carried over every sync is of today.
LEMMA SyncsOfToday ==
    ASSUME TypeOK, RunsSound, HourInv, excuses = {}, Runs("sync") # {}
    PROVE  "sync" \in after
  <1>1. PICK d \in Runs("sync") : TRUE
    OBVIOUS
  <1>2. d \in Callers /\ loc[d].pc # "idle"
    BY <1>1 DEF Runs, Working
  <1>3. loc[d].own
    BY <1>2 DEF RunsSound, RunSound
  <1>4. d \in Own("sync")
    BY <1>1, <1>3 DEF Own
  <1> QED
    BY <1>4 DEF HourInv, Jobs

LEMMA HourStep ==
    ASSUME TypeOK, RunsSound, HourInv, Next
    PROVE  HourInv'
  <1>1. ASSUME NEW c \in Callers, OneMoves(c)
        PROVE  HourInv'
    <2>1. /\ Moves(c) /\ RunSound(c) /\ excuses \subseteq excuses' /\ plan' = plan /\ day' = day
      BY <1>1, RunSoundStep DEF RunsSound, Moves
    <2>g. after \subseteq after' /\ (orphan => orphan') /\ orphan \in BOOLEAN
      BY <1>1, DayGrows DEF TypeOK
    <2>j. looked \subseteq Jobs /\ "proof" \in Jobs /\ "sync" \in Jobs
      BY DEF TypeOK, Jobs
    <2>2. ASSUME "asked" \notin excuses', NEW j \in Jobs, NEW d \in Own(j)'
          PROVE  j \in after'
      <3>1. d \in Own(j) => j \in after'
        BY <2>1, <2>2, <2>g DEF HourInv
      <3>2. CASE d = c
        BY <1>1, <2>1, <2>2, <3>1, <3>2, OwnBegins
      <3>3. CASE d # c
        <4>1. d \in Own(j)
          BY <2>1, <2>2, <3>3, OthersRun DEF Own, Runs
        <4> QED
          BY <3>1, <4>1
      <3> QED
        BY <3>2, <3>3
    <2>3. ASSUME NEW j \in Jobs, AtHour(j)
          PROVE  AtHour(j)'
      BY <2>1, <2>3, <2>g DEF AtHour
    <2>4. ASSUME excuses' \cap {"asked", "carried"} = {}, NEW j \in Jobs, mark'[j] = "done"
          PROVE  AtHour(j)'
      <3>1. CASE mark[j] = "done"
        BY <2>1, <2>3, <2>4, <3>1 DEF HourInv
      <3>2. CASE mark[j] # "done"
        <4>1. c \in Own(j) \/ (j = "prewarm" /\ "sync" \in plan)
          BY <1>1, <2>1, <2>4, <3>2, MarkBegins
        <4>2. AtHour(j)
          BY <2>1, <2>4, <4>1 DEF HourInv, AtHour
        <4> QED
          BY <2>3, <4>2
      <3> QED
        BY <3>1, <3>2
    <2>5. "asked" \notin excuses' => (Proven' => "proof" \in after')
      <3> SUFFICES ASSUME "asked" \notin excuses', Proven' PROVE "proof" \in after'
        OBVIOUS
      <3>1. CASE rows' = rows
        BY <2>1, <2>g, <3>1 DEF Proven, HourInv
      <3>2. ASSUME NEW b \in BOOLEAN, ProofRow(c, b), rows' # rows
            PROVE  "proof" \in after'
        <4>1. c \in Own("proof")
          BY <3>2 DEF ProofRow, Own, Runs, Working
        <4> QED
          BY <2>1, <2>g, <2>j, <4>1 DEF HourInv
      <3> QED
        BY <1>1, <3>1, <3>2, RowsOf
    <2>6. ASSUME excuses' = {}, NEW j \in looked'
          PROVE  \/ AtHour(j)' \/ (j = "sync" /\ orphan')
                 \/ Resting(j)' \/ LookedOut(j)'
      <3>r. Resting(j)' = Resting(j)
        BY <2>1 DEF Moves, Resting, Weekend, Muted
      <3>1. excuses = {} /\ "fault" \notin excuses' /\ "asked" \notin excuses'
        BY <2>1, <2>6
      <3>2. ASSUME j \in Jobs,
                   \/ mark[j] = "done"
                   \/ j \in after
                   \/ j = "proof" /\ Proven
                   \/ j = "sync" /\ Active
            PROVE  AtHour(j)' \/ (j = "sync" /\ orphan')
        <4>1. CASE mark[j] = "done"
          BY <2>3, <3>1, <3>2, <4>1 DEF HourInv
        <4>2. CASE j \in after
          BY <2>3, <3>2, <4>2 DEF AtHour
        <4>3. CASE j = "proof" /\ Proven
          BY <2>3, <2>j, <3>1, <4>3 DEF HourInv, AtHour
        <4>4. CASE j = "sync" /\ Active
          BY <2>3, <2>g, <2>j, <3>1, <4>4, SyncsOfToday DEF Active, AtHour
        <4> QED
          BY <3>2, <4>1, <4>2, <4>3, <4>4
      <3>3. ASSUME j \in looked
            PROVE  \/ AtHour(j)' \/ (j = "sync" /\ orphan')
                 \/ Resting(j)' \/ LookedOut(j)'
        <4>0. j \in Jobs
          BY <2>j, <3>3
        <4>1. CASE AtHour(j)
          BY <2>3, <4>0, <4>1
        <4>2. CASE j = "sync" /\ orphan
          BY <2>g, <4>2
        <4>3. CASE LookedOut(j)
          <5>1. PICK d \in Ticks : Looking(d) /\ loc[d].job = j
            BY <4>3 DEF LookedOut
          <5>2. d \in Callers
            BY DEF Callers
          <5>3. CASE d # c
            <6>1. loc'[d] = loc[d]
              BY <2>1, <5>2, <5>3 DEF Moves
            <6> QED
              BY <5>1, <6>1 DEF LookedOut, Looking
          <5>4. CASE d = c
            <6>1. Looking(c) /\ loc[c].job = j /\ c \in Ticks
              BY <5>1, <5>4
            <6>2. \/ Looking(c)' /\ loc'[c].job = j
                  \/ Resting(j)
                  \/ j \in after'
                  \/ mark[j] = "done"
                  \/ j = "proof" /\ Proven
                  \/ j = "sync" /\ Active
              BY <1>1, <2>1, <3>1, <4>0, <6>1, LookEnds
            <6>3. CASE Looking(c)' /\ loc'[c].job = j
              BY <6>1, <6>3 DEF LookedOut
            <6>4. CASE j \in after'
              BY <6>4 DEF AtHour
            <6> QED
              BY <3>2, <3>r, <4>0, <6>2, <6>3, <6>4
          <5> QED
            BY <5>3, <5>4
        <4> QED
          BY <3>1, <3>3, <3>r, <4>1, <4>2, <4>3 DEF HourInv
      <3>4. ASSUME NEW i \in Jobs, NEW b \in BOOLEAN, Tick(c, i, b), c \in Ticks, j = i
            PROVE  \/ AtHour(j)' \/ (j = "sync" /\ orphan')
                 \/ Resting(j)' \/ LookedOut(j)'
        <4>1. \/ Found(j, b) \/ (j = "sync" /\ Active)
              \/ j = "evening" /\ day.weekend
              \/ /\ Fresh(c, j, FALSE) /\ loc'[c].pc = "work"
                 /\ after' = IF now >= Cron[j] THEN after \cup {j} ELSE after
              \/ Fresh(c, j, FALSE) /\ loc'[c].pc = "recheck"
          BY <3>4, TickMoves
        <4>2. now >= Cron[j]
          BY <3>4, DayIsSound DEF Tick, Due, TypeOK
        <4>3. CASE Found(j, b)
          BY <3>2, <3>4, <4>3, FoundIs
        <4>4. CASE j = "sync" /\ Active
          BY <3>2, <3>4, <4>4
        <4>5. CASE /\ Fresh(c, j, FALSE) /\ loc'[c].pc = "work"
                   /\ after' = IF now >= Cron[j] THEN after \cup {j} ELSE after
          BY <4>2, <4>5 DEF AtHour
        <4>6. CASE Fresh(c, j, FALSE) /\ loc'[c].pc = "recheck"
          BY <3>4, <4>6 DEF LookedOut, Looking, Fresh
        <4>7. CASE j = "evening" /\ day.weekend
          BY <3>r, <4>7 DEF Resting, Weekend
        <4> QED
          BY <4>1, <4>3, <4>4, <4>5, <4>6, <4>7
      <3>5. CASE looked' = looked
        BY <2>6, <3>3, <3>5
      <3>6. ASSUME NEW i \in Jobs, NEW b \in BOOLEAN, Tick(c, i, b), c \in Ticks
            PROVE  j \in looked \/ j = i
        BY <2>6, <3>6 DEF Tick
      <3> QED
        BY <1>1, <3>3, <3>4, <3>5, <3>6, LookedOf
    <2> QED
      BY <2>1, <2>2, <2>4, <2>5, <2>6 DEF HourInv
  <1>2. ASSUME NEW cs \in {Ticks, Requests}, Crash(cs)
        PROVE  HourInv'
    <2>1. /\ "fault" \in excuses' /\ excuses \subseteq excuses' /\ plan' = plan /\ day' = day
          /\ \A c \in Callers : loc'[c] = NoRun \/ loc'[c] = loc[c]
      BY <1>2, CrashMoves
    <2>2. \A j \in Jobs : Own(j)' \subseteq Own(j)
      BY <2>1 DEF Own, Runs, Working, NoRun
    <2>3. mark' = mark /\ rows' = rows /\ after' = after
      BY <1>2 DEF Crash
    <2>4. \A j \in Jobs : AtHour(j)' = AtHour(j)
      BY <2>1, <2>3 DEF AtHour
    <2>5. Proven' = Proven
      BY <2>3 DEF Proven
    <2> QED
      BY <2>1, <2>2, <2>3, <2>4, <2>5 DEF HourInv
  <1>3. ASSUME NEW gap \in BOOLEAN, Clock(gap)
        PROVE  HourInv'
    <2>1. /\ loc' = loc /\ mark' = mark /\ rows' = rows /\ orphan' = orphan /\ looked' = looked
          /\ plan' = plan /\ day' = day /\ after' = after /\ excuses \subseteq excuses'
      BY <1>3 DEF Clock, stores, Excuse
    <2>2. \A j \in Jobs : /\ AtHour(j)' = AtHour(j) /\ LookedOut(j)' = LookedOut(j)
                          /\ Own(j)' = Own(j) /\ Resting(j)' = Resting(j)
      BY <2>1 DEF AtHour, LookedOut, Own, Runs, Working, Looking, Resting, Weekend, Muted
    <2>3. Proven' = Proven
      BY <2>1 DEF Proven
    <2>4. looked \subseteq Jobs
      BY DEF TypeOK
    <2>5. "asked" \notin excuses' => \A j \in Jobs : Own(j)' # {} => j \in after'
      BY <2>1, <2>2 DEF HourInv
    <2>6. excuses' \cap {"asked", "carried"} = {} =>
            \A j \in Jobs : mark'[j] = "done" => AtHour(j)'
      BY <2>1, <2>2 DEF HourInv
    <2>7. "asked" \notin excuses' => (Proven' => "proof" \in after')
      BY <2>1, <2>3 DEF HourInv
    <2>8. excuses' = {} =>
            \A j \in looked' : \/ AtHour(j)' \/ (j = "sync" /\ orphan')
                               \/ Resting(j)' \/ LookedOut(j)'
      BY <2>1, <2>2, <2>4 DEF HourInv
    <2> QED
      BY <2>5, <2>6, <2>7, <2>8 DEF HourInv
  <1>4. ASSUME NEW w \in BOOLEAN, Midnight(w)
        PROVE  HourInv'
    <2>1. /\ looked' = {} /\ \A j \in Jobs : mark'[j] = "no"
          /\ \A k \in 1..Strategies : rows'[k] = "none"
      BY <1>4 DEF Midnight
    <2>2. \A c \in Callers : loc'[c].pc = "idle" \/ loc'[c].own = FALSE
      <3> TAKE c \in Callers
      <3>1. loc[c].pc = "idle" => loc'[c].pc = "idle"
        BY <1>4, MidnightMoves
      <3> QED
        BY <1>4, <3>1, MidnightMoves
    <2>3. \A j \in Jobs : Own(j)' = {}
      BY <2>2 DEF Own, Runs, Working
    <2>4. ~Proven'
      BY <2>1 DEF Proven
    <2> QED
      BY <2>1, <2>3, <2>4 DEF HourInv
  <1> QED
    BY <1>1, <1>2, <1>3, <1>4, NextSplits

\* What a step of one run adds to the jobs that have run does not rest.
LEMMA RestOne ==
    ASSUME TypeOK, NEW c \in Callers, RunSound(c), OneMoves(c), "asked" \notin excuses',
           NEW j \in after', j \notin after
    PROVE  ~Resting(j)
  <1>0. excuses \subseteq excuses'
    BY RunSoundStep DEF Moves
  <1>p. ~Resting("prewarm")
    BY DayIsSound DEF Resting, Weekend, Muted
  <1>t. Looking(c) => c \in Ticks /\ c \notin Requests
    BY <1>0 DEF RunSound, Looking, Callers
  <1>1. ASSUME NEW i \in Jobs, NEW b \in BOOLEAN, Tick(c, i, b)
        PROVE  ~Resting(j)
    <2>1. i # "prewarm" => after' = after
      BY <1>1 DEF Tick
    <2>2. i = "prewarm" => after' \subseteq after \cup {"prewarm"}
      BY <1>1, TickMoves
    <2> QED
      BY <1>p, <2>1, <2>2
  <1>2. ASSUME NEW b \in BOOLEAN, Recheck(c, b)
        PROVE  ~Resting(j)
    <2>1. /\ loc[c].pc = "recheck"
          /\ \/ after' = after
             \/ loc[c].job = "evening" /\ after' \subseteq after \cup {"evening"}
      BY <1>2, RecheckMoves
    <2>2. j = "evening" /\ loc[c].job = "evening"
      BY <2>1
    <2>3. ~day.weekend
      BY <1>t, <2>1, <2>2 DEF RunSound, Looking
    <2> QED
      BY <2>2, <2>3 DEF Resting, Weekend, Muted
  <1>3. ASSUME NEW n \in 1..Strategies, NEW b \in BOOLEAN, Begin(c, n, b)
        PROVE  ~Resting(j)
    <2>1. loc[c].pc = "begin" /\ after' \subseteq after \cup {loc[c].job}
      BY <1>3, BeginMoves
    <2>2. ~Resting(loc[c].job)
      BY <1>t, <2>1 DEF RunSound, Looking
    <2> QED
      BY <2>1, <2>2
  <1>4. ASSUME NEW b \in BOOLEAN, Warmed(b) \/ after' = after
        PROVE  ~Resting(j)
    BY <1>4, <1>p DEF Warmed
  <1>5. ASSUME NEW o \in BOOLEAN, NEW w \in BOOLEAN, NEW b \in BOOLEAN, SyncSteps(c, o, w, b)
        PROVE  ~Resting(j)
    BY <1>4, <1>5 DEF SyncSteps
  <1>6. ASSUME NEW b \in BOOLEAN, Prewarm(c, b)
        PROVE  ~Resting(j)
    BY <1>4, <1>6 DEF Prewarm
  <1>7. ASSUME NEW x \in BOOLEAN, NEW b \in BOOLEAN,
               \/ SetKey(c, b) \/ Mark(c, b) \/ Send(c, b) \/ ProofRow(c, b)
               \/ SyncDone(c) \/ Build(c) \/ Check(c, x, b) \/ Throw(c, b)
        PROVE  after' = after
    BY <1>7 DEF SetKey, Mark, Send, ProofRow, SyncDone, Build, Check, Throw
  <1>8. ASSUME NEW i \in Jobs, NEW f \in BOOLEAN, Ask(c, i, f)
        PROVE  after' = after
    BY <1>8 DEF Ask
  <1>9. ASSUME Run(c)
        PROVE  ~Resting(j)
    BY <1>2, <1>3, <1>5, <1>6, <1>7, <1>9 DEF Run
  <1> QED
    BY <1>1, <1>7, <1>8, <1>9 DEF OneMoves

LEMMA RestStep ==
    ASSUME TypeOK, RunsSound, RestInv, Next
    PROVE  RestInv'
  <1>1. ASSUME NEW c \in Callers, OneMoves(c)
        PROVE  RestInv'
    <2> SUFFICES ASSUME "asked" \notin excuses', NEW j \in after' PROVE ~Resting(j)'
      BY DEF RestInv
    <2>1. RunSound(c) /\ day' = day /\ excuses \subseteq excuses'
      BY <1>1, RunSoundStep DEF RunsSound, Moves
    <2>2. ~Resting(j)
      BY <1>1, <2>1, RestOne DEF RestInv
    <2> QED
      BY <2>1, <2>2 DEF Resting, Weekend, Muted
  <1>2. ASSUME NEW cs \in {Ticks, Requests}, Crash(cs)
        PROVE  RestInv'
    <2>1. day' = day /\ after' = after /\ excuses \subseteq excuses'
      BY <1>2, CrashMoves DEF Crash
    <2> QED
      BY <2>1 DEF RestInv, Resting, Weekend, Muted
  <1>3. ASSUME NEW gap \in BOOLEAN, Clock(gap)
        PROVE  RestInv'
    <2>1. day' = day /\ after' = after /\ excuses \subseteq excuses'
      BY <1>3 DEF Clock, Excuse
    <2> QED
      BY <2>1 DEF RestInv, Resting, Weekend, Muted
  <1>4. ASSUME NEW w \in BOOLEAN, Midnight(w)
        PROVE  RestInv'
    BY <1>4 DEF Midnight, RestInv
  <1> QED
    BY <1>1, <1>2, <1>3, <1>4, NextSplits

-----------------------------------------------------------------------------
(* The invariant of the day, and what it gives.                              *)

DayInv == /\ TypeOK /\ RunsSound
          /\ SyncInv /\ ProofInv
          /\ OneOwn /\ KeyInv /\ MailInv
          /\ ServedInv /\ HourInv /\ RestInv

LEMMA InitDay == Init => DayInv
  <1> SUFFICES ASSUME Init PROVE DayInv
    OBVIOUS
  <1>1. TypeOK
    BY InitTyped
  <1>2. \A c \in Callers : loc[c] = NoRun
    BY DEF Init
  <1>3. RunsSound
    BY <1>2 DEF RunsSound, RunSound, Looking, NoRun
  <1>4. \A j \in Jobs : Runs(j) = {} /\ Own(j) = {}
    BY <1>2 DEF Runs, Own, Working, NoRun
  <1>5. /\ excuses = {} /\ looked = {} /\ now = 0 /\ \A j \in Jobs : mark[j] = "no"
        /\ \A k \in 1..Strategies : rows[k] = "none"
    BY DEF Init
  <1>6. \A j \in Alerting, i \in Items : sent[j][i] = 0
    BY DEF Init
  <1>7. SyncInv /\ ProofInv
    BY <1>4, <1>5 DEF SyncInv, ProofInv, Jobs
  <1>8. OneOwn
    BY <1>4 DEF OneOwn
  <1>9. KeyInv
    BY <1>6 DEF KeyInv, KeyAt
  <1>10. MailInv
    BY <1>6 DEF MailInv, Alerting, Items
  <1>11. ~Proven
    BY <1>5 DEF Proven
  <1>12. \A j \in plan : ~(now >= Cron[j] + Grace)
    BY <1>1, <1>5, DayIsSound DEF TypeOK
  <1>13. ServedInv
    BY <1>5, <1>11, <1>12 DEF ServedInv
  <1>14. HourInv
    BY <1>4, <1>5, <1>11 DEF HourInv
  <1>15. RestInv
    BY DEF Init, RestInv
  <1> QED
    BY <1>1, <1>3, <1>7, <1>8, <1>9, <1>10, <1>13, <1>14, <1>15 DEF DayInv

LEMMA StutterDay ==
    ASSUME DayInv, UNCHANGED vars
    PROVE  DayInv'
  <1> USE DEF vars, stores
  <1>1. \A j \in Jobs : Own(j)' = Own(j) /\ Runs(j)' = Runs(j)
    BY DEF Own, Runs, Working
  <1>r. \A j : Resting(j)' = Resting(j)
    BY DEF Resting, Weekend, Muted
  <1>2. TypeOK'
    BY DEF DayInv, TypeOK
  <1>3. RunsSound'
    BY <1>r DEF DayInv, RunsSound, RunSound, Looking, Due, HasKey
  <1>4. SyncInv' /\ ProofInv'
    BY DEF DayInv, SyncInv, ProofInv, Whole, Own, Runs, Working
  <1>5. OneOwn'
    BY DEF DayInv, OneOwn, Own, Runs, Working
  <1>6. KeyInv' /\ MailInv'
    BY DEF DayInv, KeyInv, KeyAt, MailInv, Calm, Own, Runs, Working
  <1>7. \A j \in Jobs : /\ Served(j)' = Served(j) /\ LookedOut(j)' = LookedOut(j)
                        /\ AtHour(j)' = AtHour(j)
    BY <1>1, <1>r DEF Served, LookedOut, Looking, AtHour
  <1>8. Proven' = Proven
    BY DEF Proven
  <1>9. looked \subseteq Jobs /\ "proof" \in Jobs
    BY DEF DayInv, TypeOK, Jobs
  <1>10. ServedInv'
    <2> SUFFICES ASSUME "fault" \notin excuses PROVE ServedInv'
      BY DEF ServedInv
    <2>1. \A j \in looked' : Served(j)' \/ LookedOut(j)'
      BY <1>7, <1>9 DEF DayInv, ServedInv
    <2>2. \A j \in Jobs : mark'[j] = "running" => Own(j)' # {}
      BY <1>1 DEF DayInv, ServedInv
    <2>3. Proven' => mark'["proof"] = "done" \/ Own("proof")' # {}
      BY <1>1, <1>8, <1>9 DEF DayInv, ServedInv
    <2> QED
      BY <2>1, <2>2, <2>3 DEF DayInv, ServedInv
  <1>11. HourInv'
    <2>1. "asked" \notin excuses' => \A j \in Jobs : Own(j)' # {} => j \in after'
      BY <1>1 DEF DayInv, HourInv
    <2>2. excuses' \cap {"asked", "carried"} = {} =>
            \A j \in Jobs : mark'[j] = "done" => AtHour(j)'
      BY <1>7 DEF DayInv, HourInv
    <2>3. excuses' = {} =>
            \A j \in looked' : \/ AtHour(j)' \/ (j = "sync" /\ orphan')
                               \/ Resting(j)' \/ LookedOut(j)'
      BY <1>7, <1>9, <1>r DEF DayInv, HourInv
    <2>4. "asked" \notin excuses' => (Proven' => "proof" \in after')
      BY <1>8 DEF DayInv, HourInv
    <2> QED
      BY <2>1, <2>2, <2>3, <2>4 DEF HourInv
  <1>12. RestInv'
    BY <1>r DEF DayInv, RestInv
  <1> QED
    BY <1>12, <1>2, <1>3, <1>4, <1>5, <1>6, <1>10, <1>11 DEF DayInv

LEMMA DayStep == DayInv /\ [Next]_vars => DayInv'
  BY TypeStep, SoundStep, SyncInvStep, ProofInvStep, OneOwnStep, KeyInvStep, MailInvStep,
     ServedStep, HourStep, RestStep, StutterDay DEF DayInv

\* The groups together are preserved by every step of the day.
THEOREM DayInvariant == Spec => []DayInv
  BY InitDay, DayStep, PTL DEF Spec

\* Every variable of the day keeps its type.
THEOREM DayTyped == Spec => []TypeOK
  <1>1. DayInv => TypeOK
    BY DEF DayInv
  <1> QED
    BY <1>1, DayInvariant, PTL

\* On a day without a failure or an overlap no message goes out twice, unless
\* somebody asked for it, and the digest's WhatsApp message not even then.
THEOREM MessagesOncePerDay == Spec => []OncePerDay
  <1>1. DayInv => OncePerDay
    <2> SUFFICES ASSUME DayInv, NEW j \in Alerting, NEW i \in Items, Calm(j, i)
                 PROVE  ~(sent[j][i] > 1)
      BY DEF OncePerDay, Calm
    <2>1. sent[j][i] \in 0..2
      BY DEF DayInv, TypeOK
    <2>2. sent[j][i] <= 1
      BY DEF DayInv, KeyInv, KeyAt, MailInv
    <2> QED
      BY <2>1, <2>2
  <1> QED
    BY <1>1, DayInvariant, PTL

\* Two daily syncs of today at work began in the same minute.
THEOREM SyncsOverlapOnlyInTheirMinute == Spec => []SyncsOverlapInOneMinute
  <1>1. DayInv => SyncsOverlapInOneMinute
    BY DEF DayInv, SyncInv, SyncsOverlapInOneMinute
  <1> QED
    BY <1>1, DayInvariant, PTL

\* A proof marked done on a day without requests has a row per strategy.
THEOREM ProofIsWhole == Spec => []DoneProofIsWhole
  <1>1. DayInv => DoneProofIsWhole
    BY DEF DayInv, ProofInv, Whole, DoneProofIsWhole
  <1> QED
    BY <1>1, DayInvariant, PTL

\* At the end of a day no tick is between its look and its work.
LEMMA NoLookAtNight ==
    ASSUME DayInv, now = DayEnd, NEW j \in Jobs
    PROVE  ~LookedOut(j)
  <1> SUFFICES ASSUME NEW c \in Ticks, Looking(c), loc[c].job = j PROVE FALSE
    BY DEF LookedOut
  <1>1. Due(j)
    BY DEF DayInv, RunsSound, RunSound, Callers
  <1>2. Cron[j] \in Nat /\ Cron[j] + Grace <= DayEnd /\ Grace \in Nat /\ DayEnd \in Nat
    BY DayIsSound
  <1> QED
    BY <1>1, <1>2 DEF Due

\* By then every job of the plan has had its tick.
LEMMA AllLooked ==
    ASSUME DayInv, now = DayEnd, "fault" \notin excuses, NEW j \in plan
    PROVE  j \in Jobs /\ j \in looked
  <1>1. j \in Jobs
    BY DayIsSound DEF DayInv, TypeOK
  <1>2. now >= Cron[j] + Grace
    BY <1>1, DayIsSound
  <1> QED
    BY <1>1, <1>2 DEF DayInv, ServedInv

\* A day without failures ends with every job of the plan done or at work, but
\* for those that rest.
THEOREM DayServed == Spec => []DayIsServed
  <1>1. DayInv => DayIsServed
    <2> SUFFICES ASSUME DayInv, now = DayEnd, "fault" \notin excuses, NEW j \in plan
                 PROVE  \/ mark[j] = "done" \/ Runs(j) # {} \/ (j = "sync" /\ orphan)
                        \/ Resting(j)
      BY DEF DayIsServed
    <2>1. j \in Jobs /\ j \in looked /\ ~LookedOut(j)
      BY AllLooked, NoLookAtNight
    <2>2. Served(j)
      BY <2>1 DEF DayInv, ServedInv
    <2>3. Own(j) # {} => Runs(j) # {}
      BY DEF Own
    <2> QED
      BY <2>2, <2>3 DEF Served
  <1> QED
    BY <1>1, DayInvariant, PTL

\* On a day on which nothing was out of order every job has run at its hour,
\* but for those that rest: they have not run.
THEOREM JobsRunAtTheirHour == Spec => []RunsAtItsHour
  <1>1. DayInv => RunsAtItsHour
    <2> SUFFICES ASSUME DayInv, now = DayEnd, excuses = {}, NEW j \in plan
                 PROVE  IF Resting(j) THEN j \notin after
                        ELSE \/ j \in after \/ (j = "sync" /\ orphan)
                             \/ j = "prewarm" /\ "sync" \in plan
      BY DEF RunsAtItsHour
    <2>1. j \in Jobs /\ j \in looked /\ ~LookedOut(j)
      BY AllLooked, NoLookAtNight
    <2>2. \/ AtHour(j) \/ (j = "sync" /\ orphan) \/ Resting(j)
      BY <2>1 DEF DayInv, HourInv
    <2>3. Resting(j) => j \notin after
      BY DEF DayInv, RestInv
    <2> QED
      BY <2>2, <2>3 DEF AtHour
  <1> QED
    BY <1>1, DayInvariant, PTL
=============================================================================
