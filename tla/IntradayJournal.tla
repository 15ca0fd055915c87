--------------------------- MODULE IntradayJournal ---------------------------
(***************************************************************************)
(* The intraday position journal of one user and one instrument: the       *)
(* requests that add, edit, close and reopen rows, and the worker's sweep  *)
(* that closes what an earlier session left open.  A request finds its row *)
(* (or the absence of one), checks, and writes in a second statement; the  *)
(* sweep lists the leftovers, awaits a mark for each and writes by id.     *)
(*                                                                         *)
(* Prices are five levels, 0 for a stop that is not set.  Targets and the  *)
(* price and reason of a close are left out.                               *)
(***************************************************************************)
EXTENDS Integers, FiniteSets

CONSTANTS
    Users,      \* the user's requests that may be in flight
    Worker,     \* the tick that sweeps
    Rows,       \* row ids                              (bound)
    LastDay,    \* sessions 0..LastDay                  (bound)
    Sides,      \* subset of {"long", "short"}
    Entries,    \* entry prices a user may give
    Stops       \* stops a user may give, besides none

Levels == 1..5

ASSUME WorkerIsNoUser   == Worker \notin Users
ASSUME SidesAreSides    == Sides \subseteq {"long", "short"}
ASSUME PricesAreLevels  == Entries \cup Stops \subseteq Levels
ASSUME LastDayIsNatural == LastDay \in Nat

VARIABLES
    rows,     \* nifty_intraday_positions
    day,      \* the IST session date
    loc,      \* what each caller is doing
    torn      \* rows and sessions that two requests had in hand at once

vars == <<rows, day, loc, torn>>

Row == [status : {"none", "open", "closed"}, side : {"long", "short"},
        session : 0..LastDay, entry : Levels, stop : {0} \cup Levels,
        undo   : BOOLEAN,      \* closed less than UNDO_CLOSE_WINDOW_MS ago
        undone : BOOLEAN]      \* has been reopened

NoRow == [status |-> "none", side |-> "long", session |-> 0, entry |-> 3, stop |-> 0,
          undo |-> FALSE, undone |-> FALSE]
Idle  == [pc |-> "idle"]

Callers == Users \cup {Worker}

TypeOK ==
    /\ rows \in [Rows -> Row] /\ day \in 0..LastDay
    /\ \A c \in Callers : loc[c].pc \in {"idle", "add", "edit", "close", "reopen", "sweep"}
    /\ \A r \in Rows : rows[r].undo => rows[r].status = "closed"
    /\ torn \in [rows : SUBSET Rows, sessions : SUBSET (0..LastDay)]

Init ==
    /\ rows = [r \in Rows |-> NoRow] /\ day = 0
    /\ loc = [c \in Callers |-> Idle]
    /\ torn = [rows |-> {}, sessions |-> {}]

Open(r)    == rows[r].status = "open"
Done(c)    == loc' = [loc EXCEPT ![c] = Idle]
Write(r, row) == rows' = [rows EXCEPT ![r] = row]

\* p is beyond q on the losing side of the trade.
Worse(side, p, q) == IF side = "long" THEN p < q ELSE p > q

-----------------------------------------------------------------------------
(* createIntradayPosition *)

StopFits(side, entry, stop) == stop # 0 => Worse(side, stop, entry)

Added(side, entry, stop, session) ==
    [status |-> "open", side |-> side, session |-> session, entry |-> entry,
     stop |-> stop, undo |-> FALSE, undone |-> FALSE]

\* Another add of the session is between its look and its write.
Adding(c, session) ==
    \E d \in Users \ {c} : loc[d].pc = "add" /\ loc[d].row.session = session

TakeSession(c, session) ==
    torn' = IF Adding(c, session)
            THEN [torn EXCEPT !.sessions = @ \cup {session}] ELSE torn

\* Mutant: any other open row stops the add only if it is today's.
AddFind_Today(c) ==
    \E side \in Sides, e \in Entries, s \in {0} \cup Stops, d \in 0..day :
       /\ loc[c] = Idle
       /\ StopFits(side, e, s)
       /\ ~\E r \in Rows : Open(r) /\ rows[r].session = day
       /\ loc' = [loc EXCEPT ![c] = [pc |-> "add", row |-> Added(side, e, s, d)]]
       /\ TakeSession(c, d)
       /\ UNCHANGED <<rows, day>>

AddFind(c) ==
    \E side \in Sides, e \in Entries, s \in {0} \cup Stops, d \in 0..day :
       /\ loc[c] = Idle
       /\ StopFits(side, e, s)
       /\ ~\E r \in Rows : Open(r) /\ rows[r].session = d
       /\ loc' = [loc EXCEPT ![c] = [pc |-> "add", row |-> Added(side, e, s, d)]]
       /\ TakeSession(c, d)
       /\ UNCHANGED <<rows, day>>

AddWrite(c) ==
    /\ loc[c].pc = "add"
    /\ \E r \in Rows : rows[r].status = "none" /\ Write(r, loc[c].row)
    /\ Done(c) /\ UNCHANGED <<day, torn>>

\* updateIntradayPosition: the new stop is judged against the row as found.
\* Entry and stop are a level or Keep, for what the request does not name; a
\* stop may be 0, the null that clears it.
Keep == 6
New(value, old) == IF value = Keep THEN old ELSE value

\* Mutant: a stop that is kept is not judged against the new entry.
StopAllowed_KeepFree(row, entry, stop) ==
    stop \notin {0, Keep} =>
        /\ Worse(row.side, stop, New(entry, row.entry))
        /\ row.stop # 0 => ~Worse(row.side, stop, row.stop)

\* Mutant: the ratchet of a long, for either side.
StopAllowed_LongOnly(row, entry, stop) ==
    LET next == New(stop, row.stop)
    IN  next # 0 =>
            /\ Worse(row.side, next, New(entry, row.entry))
            /\ row.stop # 0 => next >= row.stop

StopAllowed(row, entry, stop) ==
    LET next == New(stop, row.stop)
    IN  next # 0 =>
            /\ Worse(row.side, next, New(entry, row.entry))
            /\ row.stop # 0 => ~Worse(row.side, next, row.stop)

\* Another edit of the row is between its look and its write.
Editing(c, r) == \E d \in Users \ {c} : loc[d].pc = "edit" /\ loc[d].r = r

EditFind(c) ==
    \E r \in Rows, e \in {Keep} \cup Entries, s \in {0, Keep} \cup Stops :
       /\ loc[c] = Idle /\ Open(r)
       /\ StopAllowed(rows[r], e, s)
       /\ loc' = [loc EXCEPT ![c] = [pc |-> "edit", r |-> r, entry |-> e, stop |-> s]]
       /\ torn' = IF Editing(c, r) THEN [torn EXCEPT !.rows = @ \cup {r}] ELSE torn
       /\ UNCHANGED <<rows, day>>

EditWrite(c) ==
    /\ loc[c].pc = "edit"
    /\ LET l == loc[c] IN
         rows' = [rows EXCEPT ![l.r].entry = New(l.entry, @), ![l.r].stop = New(l.stop, @)]
    /\ Done(c) /\ UNCHANGED <<day, torn>>

Closed(row) == [row EXCEPT !.status = "closed", !.undo = TRUE]

\* closeIntradayPosition; the price, and its band, are PaperWallet's subject.
CloseFind(c) ==
    \E r \in Rows :
       /\ loc[c] = Idle /\ Open(r)
       /\ loc' = [loc EXCEPT ![c] = [pc |-> "close", r |-> r]]
       /\ UNCHANGED <<rows, day, torn>>

CloseWrite(c) ==
    /\ loc[c].pc = "close"
    /\ Write(loc[c].r, Closed(rows[loc[c].r]))
    /\ Done(c) /\ UNCHANGED <<day, torn>>

Reopened(row) == [row EXCEPT !.status = "open", !.undo = FALSE, !.undone = TRUE]

\* reopenIntradayPosition, within five minutes of the close; the duplicate
\* check of the add is not repeated.
ReopenFind(c) ==
    \E r \in Rows :
       /\ loc[c] = Idle /\ rows[r].status = "closed" /\ rows[r].undo
       /\ loc' = [loc EXCEPT ![c] = [pc |-> "reopen", r |-> r]]
       /\ UNCHANGED <<rows, day, torn>>

ReopenWrite(c) ==
    /\ loc[c].pc = "reopen"
    /\ Write(loc[c].r, Reopened(rows[loc[c].r]))
    /\ Done(c) /\ UNCHANGED <<day, torn>>

-----------------------------------------------------------------------------
(* flattenOvernightIntradayJournal and the clock. *)

\* Mutant: yesterday's rows only count once they are two days old.
Leftovers_Late == {r \in Rows : Open(r) /\ rows[r].session + 1 < day}

Leftovers == {r \in Rows : Open(r) /\ rows[r].session < day}

SweepFind ==
    /\ loc[Worker] = Idle /\ Leftovers # {}
    /\ loc' = [loc EXCEPT ![Worker] = [pc |-> "sweep", todo |-> Leftovers]]
    /\ UNCHANGED <<rows, day, torn>>

Swept(sweep, r) ==
    IF sweep.todo = {r} THEN Idle ELSE [sweep EXCEPT !.todo = sweep.todo \ {r}]

SweepWrite(r) ==
    /\ loc[Worker].pc = "sweep" /\ r \in loc[Worker].todo
    /\ Write(r, Closed(rows[r]))
    /\ loc' = [loc EXCEPT ![Worker] = Swept(loc[Worker], r)]
    /\ UNCHANGED <<day, torn>>

\* The sweep dies with its worker, or with an update that fails.
SweepDies ==
    /\ loc[Worker].pc = "sweep"
    /\ Done(Worker) /\ UNCHANGED <<rows, day, torn>>

UndoExpires(r) ==
    /\ rows[r].undo
    /\ Write(r, [rows[r] EXCEPT !.undo = FALSE])
    /\ UNCHANGED <<day, loc, torn>>

Midnight ==
    /\ day < LastDay /\ day' = day + 1
    /\ UNCHANGED <<rows, loc, torn>>

Request(c) ==
    \/ AddFind(c) \/ EditFind(c) \/ CloseFind(c) \/ ReopenFind(c)
    \/ AddWrite(c) \/ EditWrite(c) \/ CloseWrite(c) \/ ReopenWrite(c)

Next ==
    \/ \E c \in Users : Request(c)
    \/ SweepFind \/ SweepDies
    \/ \E r \in Rows : SweepWrite(r) \/ UndoExpires(r)
    \/ Midnight

\* The worker ticks for ever, and no row is always the one a sweep dies before.
Fairness == WF_vars(SweepFind) /\ \A r \in Rows : SF_vars(SweepWrite(r))

Spec == Init /\ [][Next]_vars /\ Fairness

-----------------------------------------------------------------------------
(* Properties. *)

\* An open row is protected on the right side: its stop, when set, is below the
\* entry of a long and above that of a short, whichever of the two was edited
\* last (the checks of createIntradayPosition and updateIntradayPosition), and
\* whatever overlaps, but for a row that two edits had in hand at once: each is
\* judged on the row the other has not written yet.
StopIsProtective ==
    \A r \in Rows \ torn.rows : Open(r) /\ rows[r].stop # 0 =>
        Worse(rows[r].side, rows[r].stop, rows[r].entry)

\* Two open rows of a session come from an undone close only: the add refuses
\* a second one ("Close it first or use a different instrument"), unless two adds
\* of the session looked before either wrote.
SecondRowIsUndone ==
    \A r, q \in Rows :
        r # q /\ Open(r) /\ Open(q) /\ rows[r].session = rows[q].session
        /\ rows[r].session \notin torn.sessions
        => rows[r].undone \/ rows[q].undone

\* What a session leaves open does not stay open: however often the sweep dies,
\* and whatever is reopened, an overnight row is closed again.
OvernightIsFlattened ==
    \A r \in Rows : (Open(r) /\ rows[r].session < day) ~> ~Open(r)

\* The trail ratchet of updateIntradayPosition: while a row stays open, moving
\* its stop only tightens it, also when entry and stop are edited in turn and
\* other requests come between, but for a row that two edits had in hand at once.
\* (A stop may be taken away, and the next one is then free.)
MovedStopTightens ==
    [][\A r \in Rows \ torn.rows :
         /\ Open(r) /\ Open(r)'
         /\ rows[r].stop # 0 /\ rows'[r].stop # 0
         => ~Worse(rows[r].side, rows'[r].stop, rows[r].stop)]_vars
=============================================================================
