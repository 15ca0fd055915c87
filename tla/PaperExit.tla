------------------------------ MODULE PaperExit ------------------------------
(***************************************************************************)
(* The exits of one intraday paper position: the tick that walks the bars  *)
(* of the chart (manageOpenPositions, walkIntradayPositionActions), the    *)
(* booking of the targets, the hard time stop, and the backtest the walk   *)
(* is meant to agree with (simulateScaledTrade).                           *)
(*                                                                         *)
(* Prices are the five levels of a plan: stop, entry, T1, T2, T3, one step *)
(* apart.  The chart spans five days: it starts with the bars of the days  *)
(* before.  The market prints a level at a time; a print extends the bar   *)
(* in progress or opens the next one, so a tick may see half a bar.  A tick *)
(* reads the row, then the chart, then finds the row again, then writes it *)
(* by id: other ticks, manual closes and prints come in between.  Money    *)
(* and share counts of the wallet are in PaperWallet.                      *)
(***************************************************************************)
EXTENDS Integers, Sequences, SequencesExt

CONSTANTS
    Worker,        \* the worker's interval tick
    Requests,      \* manual ticks and manual closes (API)
    Sides,         \* sides the plan may take
    Qtys,          \* order sizes
    Charts,        \* charts to start from: days before, and the session so far
    MaxPrints      \* prices printed from then on              (bound)

ASSUME WorkerIsNoRequest == Worker \notin Requests
ASSUME SidesAreSides     == Sides \subseteq {"long", "short"}
ASSUME BoundsAreNumbers  == Qtys \subseteq Nat \ {0} /\ MaxPrints \in Nat

Callers == {Worker} \cup Requests
Levels  == 1..5

\* `late`: the bar's label is TIME_STOP_MIN or after it, on whatever day.
Bar == [low : Levels, high : Levels, late : BOOLEAN, today : BOOLEAN]

ASSUME ChartsAreCharts == Charts \subseteq Seq(Bar)

VARIABLES
    bars,      \* the chart; the session's last bar is still forming
    prints,    \* prices printed so far
    late,      \* the session clock is past TIME_STOP_MIN (or the phase is post)
    row,       \* the paper_positions row
    loc,       \* what each caller is doing
    run        \* since the entry: T1 not reached, reached, price back at the entry

vars == <<bars, prints, late, row, loc, run>>

Actions == {"HOLD", "PARTIAL_T1", "PARTIAL_T2", "EXIT_NOW", "EXIT_TARGET",
            "EXIT_TIME", "manual"}
Row     == [status : {"none", "open", "closed"}, side : {"long", "short"},
            stop : Levels, t1 : BOOLEAN, t2 : BOOLEAN, qty : Nat, orig : Nat,
            entered : Nat, from : Nat, reason : Actions]
Loc     == [at : {"idle", "manage", "flatten", "partial", "partialTx", "close",
                  "closeTx", "enter"},
            row : Row, act : Actions]

TypeOK ==
    /\ bars \in Seq(Bar) /\ prints \in 0..MaxPrints
    /\ late \in BOOLEAN
    /\ row \in Row /\ loc \in [Callers -> Loc]
    /\ row.status = "open" => row.qty \in 1..row.orig
    /\ run \in {"before", "reached", "back"}

NoRow == [status |-> "none", side |-> "long", stop |-> 1, t1 |-> FALSE, t2 |-> FALSE,
          qty |-> 0, orig |-> 0, entered |-> 0, from |-> 0, reason |-> "HOLD"]
Idle  == [at |-> "idle", row |-> NoRow, act |-> "HOLD"]

Init ==
    /\ bars \in Charts /\ prints = 0 /\ late = FALSE
    /\ row = NoRow /\ run = "before"
    /\ loc = [c \in Callers |-> Idle]

-----------------------------------------------------------------------------
(* Levels of a plan, seen from its side. *)

Level(side, k) == IF side = "long" THEN k ELSE 6 - k
Stop(side)     == Level(side, 1)
Entry(side)    == Level(side, 2)
Target(side, k) == Level(side, 2 + k)

Tighter(side, a, b) == IF side = "long" THEN a >= b ELSE a <= b

HitStop(bar, stop, side) ==
    IF side = "long" THEN bar.low <= stop ELSE bar.high >= stop

HitTarget(bar, target, side) ==
    IF side = "long" THEN bar.high >= target ELSE bar.low <= target

-----------------------------------------------------------------------------
(* walkIntradayPositionActions *)

\* Mutant: the bars are not filtered.
Forward_All(r, bs) == bs

\* forwardBarsSinceEntry: bars that opened at most 15 minutes before the entry
\* (so the entry bar and, on a 5m chart, bars before it).  If the chart has none,
\* its data being late, the whole chart, earlier days included.
Forward(r, bs) == IF r.from > Len(bs) THEN bs ELSE SubSeq(bs, r.from, Len(bs))

\* Mutant: the targets are looked at before the stop.
WalkBar_TargetFirst(r, w, bar) ==
    LET touched(k) == HitTarget(bar, Target(r.side, k), r.side)
        t1 == w.t1 \/ touched(1)
        t2 == w.t2 \/ (t1 /\ touched(2))
    IN  IF w.act # "HOLD"                    THEN w
        ELSE IF t1 /\ ~r.t1                  THEN [w EXCEPT !.act = "PARTIAL_T1"]
        ELSE IF HitStop(bar, w.stop, r.side) THEN [w EXCEPT !.act = "EXIT_NOW"]
        ELSE IF t2 /\ ~r.t2                  THEN [w EXCEPT !.act = "PARTIAL_T2"]
        ELSE IF t2 /\ touched(3)             THEN [w EXCEPT !.act = "EXIT_TARGET"]
        ELSE IF bar.late                     THEN [w EXCEPT !.act = "EXIT_TIME"]
        ELSE [w EXCEPT !.t1 = t1, !.t2 = t2]

\* One bar of the walk: stop, T1, T2, T3, time stop; the first one that asks
\* for an action ends the walk.  A target the row has booked is passed over.
WalkBar(r, w, bar) ==
    LET touched(k) == HitTarget(bar, Target(r.side, k), r.side)
        t1 == w.t1 \/ touched(1)
        t2 == w.t2 \/ (t1 /\ touched(2))
    IN  IF w.act # "HOLD"                    THEN w
        ELSE IF HitStop(bar, w.stop, r.side) THEN [w EXCEPT !.act = "EXIT_NOW"]
        ELSE IF t1 /\ ~r.t1                  THEN [w EXCEPT !.act = "PARTIAL_T1"]
        ELSE IF t2 /\ ~r.t2                  THEN [w EXCEPT !.act = "PARTIAL_T2"]
        ELSE IF t2 /\ touched(3)             THEN [w EXCEPT !.act = "EXIT_TARGET"]
        ELSE IF bar.late                     THEN [w EXCEPT !.act = "EXIT_TIME"]
        ELSE [w EXCEPT !.t1 = t1, !.t2 = t2]

Walk(r, bs) ==
    FoldLeft(LAMBDA w, bar : WalkBar(r, w, bar),
             [act |-> "HOLD", stop |-> r.stop, t1 |-> r.t1, t2 |-> r.t2],
             Forward(r, bs)).act

\* evaluateIntradayPosition: without a chart, hold.  (TIGHTEN_STOP is advice to
\* a reader: the trader does nothing on it.)
Evaluate(r, bs) == IF bs = <<>> THEN "HOLD" ELSE Walk(r, bs)

-----------------------------------------------------------------------------
(* simulateScaledTrade: the backtest of a plan entered on bar e. *)

SimBar(side, s, bar) ==
    LET touched(k) == HitTarget(bar, Target(side, k), side)
        t1 == s.t1 \/ touched(1)
        t2 == s.t2 \/ (t1 /\ touched(2))
    IN  IF s.exit # "none"                 THEN s
        ELSE IF bar.late                   THEN [s EXCEPT !.exit = "X_TIME"]
        ELSE IF HitStop(bar, s.stop, side) THEN [s EXCEPT !.exit = IF s.t1 THEN "X1_BE" ELSE "X1"]
        ELSE IF t2 /\ touched(3)           THEN [s EXCEPT !.t1 = TRUE, !.t2 = TRUE, !.exit = "T3"]
        ELSE [s EXCEPT !.t1 = t1, !.t2 = t2, !.stop = IF t1 THEN Entry(side) ELSE @]

Sim(side, e, bs) ==
    FoldLeft(LAMBDA s, bar : SimBar(side, s, bar),
             [exit |-> "none", t1 |-> FALSE, t2 |-> FALSE, stop |-> Stop(side)],
             SubSeq(bs, e + 1, Len(bs)))

-----------------------------------------------------------------------------
(* The market, as long as the position is not closed, and the clock. *)

\* The chart has a bar of the session.
Opened == bars # <<>> /\ bars[Len(bars)].today

\* The price moves; `run` remembers where it has been since the entry.
Reach(p) ==
    LET open == row.status = "open" IN
    run' = CASE open /\ run = "before" /\ Tighter(row.side, p, Target(row.side, 1)) -> "reached"
             [] open /\ run = "reached" /\ Tighter(row.side, Entry(row.side), p)    -> "back"
             [] OTHER                                                               -> run

\* A print that changes neither the bar nor `run` is left out.
Quote(p) ==
    LET b == bars[Len(bars)] IN
    /\ prints < MaxPrints /\ Opened /\ row.status # "closed"
    /\ bars' = [bars EXCEPT ![Len(bars)] =
                  [b EXCEPT !.low  = IF p < b.low THEN p ELSE b.low,
                            !.high = IF p > b.high THEN p ELSE b.high]]
    /\ prints' = prints + 1
    /\ Reach(p)
    /\ <<bars, run>>' # <<bars, run>>
    /\ UNCHANGED <<late, row, loc>>

NextBar(p) ==
    /\ prints < MaxPrints /\ row.status # "closed"
    /\ bars' = Append(bars, [low |-> p, high |-> p, late |-> late, today |-> TRUE])
    /\ prints' = prints + 1
    /\ Reach(p)
    /\ UNCHANGED <<late, row, loc>>

\* 14:30 IST; later the session's post phase.
TimeStop ==
    /\ ~late /\ late' = TRUE
    /\ UNCHANGED <<bars, prints, row, loc, run>>

-----------------------------------------------------------------------------
(* tickPaperUser *)

Quit(c) == loc' = [loc EXCEPT ![c] = Idle]

\* The clock and the open rows are read on entry.  Past the time stop the tick
\* only flattens.  A tick with nothing to flatten, or after the trade, is left out.
TickBegin(c) ==
    /\ loc[c].at = "idle"
    /\ row.status = "open" \/ (row.status = "none" /\ ~late)
    /\ loc' = [loc EXCEPT ![c] =
                 IF late THEN [Idle EXCEPT !.at = "flatten"]
                 ELSE IF row.status = "open" THEN [Idle EXCEPT !.at = "manage", !.row = row]
                 ELSE [Idle EXCEPT !.at = "enter"]]
    /\ UNCHANGED <<bars, prints, late, row, run>>

\* manageOpenPositions: the chart, of all five days, is fetched, or not, after
\* the row was read.
Manage(c) ==
    /\ loc[c].at = "manage"
    /\ \E chart \in {bars, <<>>} :
          LET act == Evaluate(loc[c].row, chart) IN
          loc' = [loc EXCEPT ![c] =
                    [Idle EXCEPT !.act = act,
                                 !.at  = CASE act = "HOLD"                         -> "idle"
                                           [] act \in {"PARTIAL_T1", "PARTIAL_T2"} -> "partial"
                                           [] OTHER                                -> "close"]]
    /\ UNCHANGED <<bars, prints, late, row, run>>

\* The force-close: the last close, or the entry price without a chart.
Flatten(c) ==
    /\ loc[c].at = "flatten"
    /\ loc' = [loc EXCEPT ![c].at = "close", ![c].act = "EXIT_TIME"]
    /\ UNCHANGED <<bars, prints, late, row, run>>

ManualClose(c) ==
    /\ c \in Requests /\ loc[c].at = "idle" /\ row.status = "open"
    /\ loc' = [loc EXCEPT ![c].at = "close", ![c].act = "manual"]
    /\ UNCHANGED <<bars, prints, late, row, run>>

-----------------------------------------------------------------------------
(* closePaperPosition and bookPaperPartial find the open row again, then     *)
(* update it by id.                                                          *)

CloseFind(c) ==
    /\ loc[c].at = "close"
    /\ IF row.status = "open" THEN loc' = [loc EXCEPT ![c].at = "closeTx"] ELSE Quit(c)
    /\ UNCHANGED <<bars, prints, late, row, run>>

CloseWrite(c) ==
    /\ loc[c].at = "closeTx"
    /\ row' = [row EXCEPT !.status = "closed", !.qty = 0, !.reason = loc[c].act]
    /\ Quit(c)
    /\ UNCHANGED <<bars, prints, late, run>>

\* sharesForPartialWeight of the stratzy_trend book, 70/20/10.
Sell(r, act) ==
    LET part == (r.orig * (IF act = "PARTIAL_T1" THEN 70 ELSE 20)) \div 100
        want == IF part < 1 THEN 1 ELSE part
    IN  IF want > r.qty THEN r.qty ELSE want

Bookable(r, act) == IF act = "PARTIAL_T1" THEN ~r.t1 ELSE r.t1 /\ ~r.t2

\* A sale of all that is left is a close at the target.
PartialFind(c) ==
    /\ loc[c].at = "partial"
    /\ loc' = [loc EXCEPT ![c] =
                 IF ~(row.status = "open" /\ Bookable(row, @.act)) THEN Idle
                 ELSE IF Sell(row, @.act) >= row.qty
                 THEN [@ EXCEPT !.at = "close", !.act = "EXIT_TARGET"]
                 ELSE [@ EXCEPT !.at = "partialTx", !.row = row]]
    /\ UNCHANGED <<bars, prints, late, row, run>>

\* Mutant: T2 writes the plan's stop back.
PartialWrite_PlanStop(c) ==
    LET r == loc[c].row   act == loc[c].act IN
    /\ loc[c].at = "partialTx"
    /\ row' = [row EXCEPT !.qty  = r.qty - Sell(r, act),
                          !.t1   = r.t1 \/ act = "PARTIAL_T1",
                          !.t2   = r.t2 \/ act = "PARTIAL_T2",
                          !.stop = IF act = "PARTIAL_T1" THEN Entry(r.side) ELSE Stop(r.side)]
    /\ Quit(c)
    /\ UNCHANGED <<bars, prints, late, run>>

\* After T1 the stop is the entry price, or stays if it is already tighter.
PartialWrite(c) ==
    LET r == loc[c].row   act == loc[c].act   be == Entry(r.side) IN
    /\ loc[c].at = "partialTx"
    /\ row' = [row EXCEPT !.qty  = r.qty - Sell(r, act),
                          !.t1   = r.t1 \/ act = "PARTIAL_T1",
                          !.t2   = r.t2 \/ act = "PARTIAL_T2",
                          !.stop = IF act = "PARTIAL_T1" /\ Tighter(r.side, be, r.stop)
                                   THEN be ELSE r.stop]
    /\ Quit(c)
    /\ UNCHANGED <<bars, prints, late, run>>

-----------------------------------------------------------------------------
(* openFromSignal, once: the plan's entry is a price of the last bar.  Which  *)
(* of the session's bars opened within 15 minutes before the entry depends on *)
(* the timeframe and on the delay of the data: none of the chart's may have.  *)

Enter(c, side, qty) ==
    /\ loc[c].at = "enter" /\ row.status = "none"
    /\ Opened /\ Entry(side) \in bars[Len(bars)].low..bars[Len(bars)].high
    /\ \E from \in {Len(bars) - 1, Len(bars), Len(bars) + 1} \ {0} :
          /\ from <= Len(bars) => bars[from].today
          /\ row' = [NoRow EXCEPT !.status = "open", !.side = side, !.stop = Stop(side),
                                  !.qty = qty, !.orig = qty, !.entered = Len(bars),
                                  !.from = from]
    /\ Quit(c)
    /\ UNCHANGED <<bars, prints, late, run>>

NoEntry(c) ==
    /\ loc[c].at = "enter"
    /\ Quit(c)
    /\ UNCHANGED <<bars, prints, late, row, run>>

\* A database error, or the worker restarting in mid-tick.
Fail(c) ==
    /\ loc[c].at # "idle"
    /\ Quit(c)
    /\ UNCHANGED <<bars, prints, late, row, run>>

-----------------------------------------------------------------------------
Step(c) ==
    \/ TickBegin(c) \/ Manage(c) \/ Flatten(c)
    \/ CloseFind(c) \/ CloseWrite(c) \/ PartialFind(c) \/ PartialWrite(c)
    \/ NoEntry(c) \/ \E s \in Sides, q \in Qtys : Enter(c, s, q)

Market == TimeStop \/ \E p \in Levels : Quote(p) \/ NextBar(p)

Next ==
    \/ Market
    \/ \E c \in Callers : Step(c) \/ ManualClose(c) \/ Fail(c)

Spec == Init /\ [][Next]_vars

-----------------------------------------------------------------------------
\* Until T1 is booked the tick and the backtest agree when the walk starts after
\* the entry bar: the same first event, whichever comes first.
WalkAgreesUntilT1 ==
    (row.status = "open" /\ ~row.t1 /\ row.from = row.entered + 1
       /\ row.from <= Len(bars) /\ \A i \in row.from..Len(bars) : ~bars[i].late)
    => LET act == Walk(row, bars)
           s   == Sim(row.side, row.entered, bars)
       IN  /\ act = "HOLD"       <=> s.exit = "none" /\ ~s.t1
           /\ act = "EXIT_NOW"   <=> s.exit = "X1"
           /\ act = "PARTIAL_T1" <=> s.t1

\* However ticks overlap, the effective stop never moves away from the price.
StopOnlyTightens ==
    [][row.status = "open" => Tighter(row.side, row'.stop, row.stop)]_vars

\* The bars that may count for a row: from 15 minutes before the entry on.  A
\* chart that was late at the entry had none of them, and then the code takes
\* every bar it has, those of earlier days too.
Counted(r) == IF r.from > r.entered THEN 1..Len(bars) ELSE r.from..Len(bars)

\* However ticks overlap, a target is on the row only if a bar that counts
\* reached it: nothing of an earlier day when the chart knew the entry bar.
BookedWasReached ==
    \A k \in {1, 2} :
       (IF k = 1 THEN row.t1 ELSE row.t2)
         => \E i \in Counted(row) :
               Tighter(row.side, IF row.side = "long" THEN bars[i].high ELSE bars[i].low,
                       Target(row.side, k))

\* "Worker books PARTIAL_T1 -> PARTIAL_T2 -> EXIT_TARGET on live bars": the
\* runner is not stopped at breakeven while the price has reached T1 and not come
\* back to the entry since.
RunnerStoppedOnReturn ==
    [][(row.status = "open" /\ row.t1 /\ row'.status = "closed" /\ row'.reason = "EXIT_NOW")
         => run # "reached"]_vars

=============================================================================
