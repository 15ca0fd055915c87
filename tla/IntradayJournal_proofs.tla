----------------------- MODULE IntradayJournal_proofs -----------------------
(***************************************************************************)
(* Theorems about IntradayJournal, for any rows, sessions, prices, sides   *)
(* and any number of requests in flight, which overlap each other and the  *)
(* worker's sweep at every await.                                          *)
(***************************************************************************)
EXTENDS IntradayJournal, TLAPS

\* What a caller carries from its look to its write.
Carried ==
    [pc : {"idle"}] \cup [pc : {"add"}, row : Row]
      \cup [pc : {"edit"}, r : Rows, entry : 1..6, stop : 0..6]
      \cup [pc : {"close", "reopen"}, r : Rows]
      \cup [pc : {"sweep"}, todo : SUBSET Rows]

UndoOfClosed == \A r \in Rows : rows[r].undo => rows[r].status = "closed"

TypeInv ==
    /\ rows \in [Rows -> Row] /\ day \in 0..LastDay
    /\ loc \in [Callers -> Carried]
    /\ UndoOfClosed
    /\ \A c \in Callers : loc[c].pc = "add" => loc[c].row.status = "open" /\ ~loc[c].row.undo
    /\ torn \in [rows : SUBSET Rows, sessions : SUBSET (0..LastDay)]

LEMMA RowTypes ==
    /\ NoRow \in Row
    /\ Idle \in Carried
<1>1. NoRow \in Row
  BY LastDayIsNatural DEF NoRow, Row, Levels
<1>2. Idle \in Carried
  BY DEF Idle, Carried
<1> QED BY <1>1, <1>2

LEMMA ClosedTypes ==
    ASSUME NEW row \in Row
    PROVE  Closed(row) \in Row /\ Closed(row).status = "closed"
<1> DEFINE half == [row EXCEPT !.status = "closed"]
<1>1. half \in Row /\ half.status = "closed"
  BY DEF Row
<1>2. Closed(row) = [half EXCEPT !.undo = TRUE]
  BY DEF Closed
<1> HIDE DEF half
<1>3. [half EXCEPT !.undo = TRUE] \in Row /\ [half EXCEPT !.undo = TRUE].status = "closed"
  BY <1>1 DEF Row
<1> QED BY <1>2, <1>3

LEMMA ReopenedTypes ==
    ASSUME NEW row \in Row
    PROVE  Reopened(row) \in Row /\ ~Reopened(row).undo
<1> DEFINE open == [row EXCEPT !.status = "open"]
           past == [open EXCEPT !.undo = FALSE]
<1>1. open \in Row
  BY DEF Row
<1>2. past = [open EXCEPT !.undo = FALSE]
  OBVIOUS
<1>3. Reopened(row) = [past EXCEPT !.undone = TRUE]
  BY DEF Reopened
<1> HIDE DEF open
<1>4. past \in Row /\ ~past.undo
  BY <1>1 DEF Row
<1> HIDE DEF past
<1>5. [past EXCEPT !.undone = TRUE] \in Row /\ ~[past EXCEPT !.undone = TRUE].undo
  BY <1>4 DEF Row
<1> QED BY <1>3, <1>5

\* A step that leaves the types of rows as they are keeps the rest.
LEMMA WriteTypes ==
    ASSUME TypeInv, NEW r \in Rows, NEW row \in Row, Write(r, row),
           row.undo => row.status = "closed"
    PROVE  rows' \in [Rows -> Row] /\ UndoOfClosed'
BY DEF TypeInv, Write, UndoOfClosed

LEMMA DoneTypes ==
    ASSUME TypeInv, NEW c \in Callers, Done(c)
    PROVE  /\ loc' \in [Callers -> Carried]
           /\ \A d \in Callers : loc'[d].pc = "add" => loc'[d].row.status = "open" /\ ~loc'[d].row.undo
BY RowTypes DEF TypeInv, Done, Idle

LEMMA TornTypes ==
    ASSUME TypeInv, NEW c \in Users,
           \/ torn' = torn
           \/ \E r \in Rows :
                torn' = IF Editing(c, r) THEN [torn EXCEPT !.rows = @ \cup {r}] ELSE torn
           \/ \E d \in 0..LastDay : TakeSession(c, d)
    PROVE  /\ torn' \in [rows : SUBSET Rows, sessions : SUBSET (0..LastDay)]
           /\ torn.rows \subseteq torn'.rows /\ torn.sessions \subseteq torn'.sessions
BY DEF TypeInv, TakeSession

\* Requests keep the types.
LEMMA FindTypes ==
    ASSUME TypeInv, NEW c \in Users,
           AddFind(c) \/ EditFind(c) \/ CloseFind(c) \/ ReopenFind(c)
    PROVE  TypeInv'
<1>c. c \in Callers
  BY DEF Callers
<1>1. CASE AddFind(c)
  <2>1. PICK side \in Sides, e \in Entries, s \in {0} \cup Stops, d \in 0..day :
          /\ UNCHANGED <<rows, day>> /\ TakeSession(c, d)
          /\ loc' = [loc EXCEPT ![c] = [pc |-> "add", row |-> Added(side, e, s, d)]]
    BY <1>1 DEF AddFind
  <2>2. d \in 0..LastDay
    BY LastDayIsNatural DEF TypeInv
  <2>3. /\ Added(side, e, s, d) \in Row /\ Added(side, e, s, d).status = "open"
        /\ ~Added(side, e, s, d).undo
    BY <2>2, SidesAreSides, PricesAreLevels DEF Added, Row, Levels
  <2>4. [pc |-> "add", row |-> Added(side, e, s, d)] \in Carried
    BY <2>3 DEF Carried
  <2>5. torn' \in [rows : SUBSET Rows, sessions : SUBSET (0..LastDay)]
    BY <2>1, <2>2, TornTypes
  <2> QED
    BY <1>c, <2>1, <2>3, <2>4, <2>5 DEF TypeInv, UndoOfClosed
<1>2. CASE EditFind(c)
  <2>1. PICK r \in Rows, e \in {Keep} \cup Entries, s \in {0, Keep} \cup Stops :
          /\ UNCHANGED <<rows, day>>
          /\ torn' = IF Editing(c, r) THEN [torn EXCEPT !.rows = @ \cup {r}] ELSE torn
          /\ loc' = [loc EXCEPT ![c] = [pc |-> "edit", r |-> r, entry |-> e, stop |-> s]]
    BY <1>2 DEF EditFind
  <2>2. [pc |-> "edit", r |-> r, entry |-> e, stop |-> s] \in Carried
    BY PricesAreLevels DEF Carried, Keep, Levels
  <2>3. torn' \in [rows : SUBSET Rows, sessions : SUBSET (0..LastDay)]
    BY <2>1, TornTypes
  <2> QED
    BY <1>c, <2>1, <2>2, <2>3 DEF TypeInv, UndoOfClosed
<1>3. CASE CloseFind(c)
  <2>1. PICK r \in Rows :
          UNCHANGED <<rows, day, torn>> /\ loc' = [loc EXCEPT ![c] = [pc |-> "close", r |-> r]]
    BY <1>3 DEF CloseFind
  <2>2. [pc |-> "close", r |-> r] \in Carried
    BY DEF Carried
  <2> QED
    BY <1>c, <2>1, <2>2 DEF TypeInv, UndoOfClosed
<1>4. CASE ReopenFind(c)
  <2>1. PICK r \in Rows :
          UNCHANGED <<rows, day, torn>> /\ loc' = [loc EXCEPT ![c] = [pc |-> "reopen", r |-> r]]
    BY <1>4 DEF ReopenFind
  <2>2. [pc |-> "reopen", r |-> r] \in Carried
    BY DEF Carried
  <2> QED
    BY <1>c, <2>1, <2>2 DEF TypeInv, UndoOfClosed
<1> QED
  BY <1>1, <1>2, <1>3, <1>4

LEMMA RequestWriteTypes ==
    ASSUME TypeInv, NEW c \in Users,
           AddWrite(c) \/ EditWrite(c) \/ CloseWrite(c) \/ ReopenWrite(c)
    PROVE  TypeInv'
<1>c. c \in Callers
  BY DEF Callers
<1>0. loc[c] \in Carried
  BY <1>c DEF TypeInv
<1>d. Done(c) /\ UNCHANGED <<day, torn>>
  BY DEF AddWrite, EditWrite, CloseWrite, ReopenWrite
<1>1. CASE AddWrite(c)
  <2>1. loc[c].row \in Row /\ ~loc[c].row.undo
    BY <1>0, <1>1, <1>c DEF AddWrite, Carried, TypeInv
  <2>2. PICK r \in Rows : Write(r, loc[c].row)
    BY <1>1 DEF AddWrite
  <2> QED
    BY <1>c, <1>d, <2>1, <2>2, WriteTypes, DoneTypes DEF TypeInv
<1>2. CASE EditWrite(c)
  <2>1. /\ loc[c].r \in Rows /\ loc[c].entry \in 1..6 /\ loc[c].stop \in 0..6
    BY <1>0, <1>2 DEF EditWrite, Carried
  <2> DEFINE old == rows[loc[c].r]
             new == [old EXCEPT !.entry = New(loc[c].entry, old.entry),
                                !.stop = New(loc[c].stop, old.stop)]
  <2>2. Write(loc[c].r, new)
    BY <1>2, <2>1 DEF EditWrite, Write, TypeInv, Row
  <2>3. old \in Row
    BY <2>1 DEF TypeInv
  <2>4. New(loc[c].stop, old.stop) \in {0} \cup Levels /\ New(loc[c].entry, old.entry) \in Levels
    BY <2>1, <2>3 DEF New, Keep, Levels, Row
  <2>5. new \in Row /\ new.undo = old.undo /\ new.status = old.status
    BY <2>1, <2>3, <2>4 DEF Row
  <2> QED
    BY <1>c, <1>d, <2>1, <2>2, <2>5, WriteTypes, DoneTypes DEF TypeInv, UndoOfClosed
<1>3. CASE CloseWrite(c)
  <2>1. loc[c].r \in Rows
    BY <1>0, <1>3 DEF CloseWrite, Carried
  <2>2. Closed(rows[loc[c].r]) \in Row /\ Closed(rows[loc[c].r]).status = "closed"
    BY <2>1, ClosedTypes DEF TypeInv
  <2> QED
    BY <1>3, <1>c, <1>d, <2>1, <2>2, WriteTypes, DoneTypes DEF TypeInv, CloseWrite
<1>4. CASE ReopenWrite(c)
  <2>1. loc[c].r \in Rows
    BY <1>0, <1>4 DEF ReopenWrite, Carried
  <2>2. Reopened(rows[loc[c].r]) \in Row /\ ~Reopened(rows[loc[c].r]).undo
    BY <2>1, ReopenedTypes DEF TypeInv
  <2>3. Write(loc[c].r, Reopened(rows[loc[c].r]))
    BY <1>4 DEF ReopenWrite
  <2> QED
    BY <1>c, <1>d, <2>1, <2>2, <2>3, WriteTypes, DoneTypes DEF TypeInv
<1> QED
  BY <1>1, <1>2, <1>3, <1>4

\* The worker and the clock keep them as well.
LEMMA SweepTypes ==
    ASSUME TypeInv, SweepFind \/ SweepDies \/ \E r \in Rows : SweepWrite(r)
    PROVE  TypeInv'
<1>w. Worker \in Callers
  BY DEF Callers
<1>1. CASE SweepFind
  <2>1. [pc |-> "sweep", todo |-> Leftovers] \in Carried
    BY DEF Carried, Leftovers
  <2> QED
    BY <1>1, <1>w, <2>1 DEF SweepFind, TypeInv, UndoOfClosed
<1>2. CASE SweepDies
  <2>1. Done(Worker) /\ UNCHANGED <<rows, day, torn>>
    BY <1>2 DEF SweepDies
  <2> QED
    BY <1>w, <2>1, DoneTypes DEF TypeInv, UndoOfClosed
<1>3. ASSUME NEW r \in Rows, SweepWrite(r) PROVE TypeInv'
  <2>1. Write(r, Closed(rows[r])) /\ UNCHANGED <<day, torn>>
    BY <1>3 DEF SweepWrite
  <2>2. rows[r] \in Row
    BY DEF TypeInv
  <2>3. rows' \in [Rows -> Row] /\ UndoOfClosed'
    BY <2>1, <2>2, ClosedTypes, WriteTypes
  <2>4. Swept(loc[Worker], r) \in Carried /\ Swept(loc[Worker], r).pc # "add"
    <3>1. loc[Worker] \in Carried /\ loc[Worker].pc = "sweep"
      BY <1>3, <1>w DEF SweepWrite, TypeInv
    <3>2. loc[Worker] \in [pc : {"sweep"}, todo : SUBSET Rows]
      BY <3>1 DEF Carried
    <3>3. [loc[Worker] EXCEPT !.todo = loc[Worker].todo \ {r}]
            \in [pc : {"sweep"}, todo : SUBSET Rows]
      BY <3>2
    <3> QED
      BY <3>3, RowTypes DEF Carried, Idle, Swept
  <2>5. loc' = [loc EXCEPT ![Worker] = Swept(loc[Worker], r)]
    BY <1>3 DEF SweepWrite
  <2> QED
    BY <1>w, <2>1, <2>3, <2>4, <2>5 DEF TypeInv
<1> QED
  BY <1>1, <1>2, <1>3

LEMMA UndoExpiresTypes ==
    ASSUME TypeInv, NEW r \in Rows, UndoExpires(r)
    PROVE  TypeInv'
<1> DEFINE row == [rows[r] EXCEPT !.undo = FALSE]
<1>1. row \in Row /\ ~row.undo
  BY DEF TypeInv, Row
<1>2. Write(r, row) /\ UNCHANGED <<day, loc, torn>>
  BY DEF UndoExpires
<1> HIDE DEF row
<1>3. rows' \in [Rows -> Row] /\ UndoOfClosed'
  BY <1>1, <1>2, WriteTypes
<1> QED
  BY <1>2, <1>3 DEF TypeInv

LEMMA TypeInit == Init => TypeInv
BY RowTypes, LastDayIsNatural DEF Init, TypeInv, UndoOfClosed, NoRow, Idle

LEMMA TypeStep == TypeInv /\ [Next]_vars => TypeInv'
<1> SUFFICES ASSUME TypeInv, [Next]_vars PROVE TypeInv'
  OBVIOUS
<1>1. ASSUME NEW c \in Users, Request(c) PROVE TypeInv'
  BY <1>1, FindTypes, RequestWriteTypes DEF Request
<1>2. CASE SweepFind \/ SweepDies \/ \E r \in Rows : SweepWrite(r)
  BY <1>2, SweepTypes
<1>3. ASSUME NEW r \in Rows, UndoExpires(r) PROVE TypeInv'
  BY <1>3, UndoExpiresTypes
<1>4. CASE Midnight
  BY <1>4, LastDayIsNatural DEF Midnight, TypeInv, UndoOfClosed
<1>5. CASE UNCHANGED vars
  BY <1>5 DEF vars, TypeInv, UndoOfClosed
<1> QED
  BY <1>1, <1>2, <1>3, <1>4, <1>5 DEF Next

\* Every variable keeps its type, and only a closed row can be undone, for any
\* number of overlapping requests (schema NiftyIntradayPosition, undoCloseMeta).
THEOREM JournalTypeCorrect == Spec => []TypeOK
<1>1. TypeInv => TypeOK
  <2>1. \A x \in Carried : x.pc \in {"idle", "add", "edit", "close", "reopen", "sweep"}
    BY DEF Carried
  <2> QED
    BY <2>1 DEF TypeInv, TypeOK, UndoOfClosed
<1> QED
  BY <1>1, TypeInit, TypeStep, PTL DEF Spec

-----------------------------------------------------------------------------
(* What a look has found stays true until the write, but for rows and         *)
(* sessions that two requests had in hand at once: other requests and the     *)
(* sweep open and close rows, but no other moves a stop that an edit is about *)
(* to move, and none opens a row for the first time but an add.               *)

RowFits(row) == StopFits(row.side, row.entry, row.stop)

\* A pending add meets no open row of its session but reopened ones, and a
\* pending edit is still allowed by the row it will write.
LookHolds(c) ==
    /\ loc[c].pc = "add" =>
          /\ RowFits(loc[c].row)
          /\ loc[c].row.session \notin torn.sessions =>
                \A r \in Rows : Open(r) /\ rows[r].session = loc[c].row.session
                                => rows[r].undone
    /\ loc[c].pc = "edit" =>
          /\ rows[loc[c].r].status # "none"
          /\ loc[c].r \notin torn.rows
               => StopAllowed(rows[loc[c].r], loc[c].entry, loc[c].stop)

\* Two requests that have the same in hand have torn it.
Apart(c, d) ==
    /\ loc[c].pc = "add" /\ loc[d].pc = "add" /\ loc[c].row.session = loc[d].row.session
         => loc[c].row.session \in torn.sessions
    /\ loc[c].pc = "edit" /\ loc[d].pc = "edit" /\ loc[c].r = loc[d].r
         => loc[c].r \in torn.rows

JournalInv ==
    /\ TypeInv
    /\ \A r \in Rows \ torn.rows : RowFits(rows[r])
    /\ SecondRowIsUndone
    /\ \A c \in Users : LookHolds(c)
    /\ \A c, d \in Users : c # d => Apart(c, d)

\* The step of one row that MovedStopTightens is about.
Tightens(r) ==
    (Open(r) /\ Open(r)' /\ rows[r].stop # 0 /\ rows'[r].stop # 0)
      => ~Worse(rows[r].side, rows'[r].stop, rows[r].stop)

\* No row changes what edits are judged by, and none is opened but as undone.
Settled ==
    \A r \in Rows :
        /\ rows'[r].side = rows[r].side /\ rows'[r].entry = rows[r].entry
        /\ rows'[r].stop = rows[r].stop /\ rows'[r].session = rows[r].session
        /\ rows[r].undone => rows'[r].undone
        /\ rows'[r].status = "open" => rows[r].status = "open" \/ rows'[r].undone
        /\ rows[r].status # "none" => rows'[r].status # "none"

Torn ==
    torn.rows \subseteq torn'.rows /\ torn.sessions \subseteq torn'.sessions

LEMMA SettledTightens ==
    ASSUME TypeInv, Settled, NEW r \in Rows
    PROVE  Tightens(r)
<1>1. rows[r] \in Row /\ rows'[r].stop = rows[r].stop
  BY DEF TypeInv, Settled
<1>2. rows[r].stop \in Int
  BY <1>1 DEF Row, Levels
<1> QED BY <1>1, <1>2 DEF Tightens, Worse

LEMMA SettledRows ==
    ASSUME JournalInv, Settled, Torn
    PROVE  /\ \A r \in Rows \ torn'.rows : RowFits(rows'[r])
           /\ SecondRowIsUndone'
<1>1. \A r \in Rows \ torn'.rows : RowFits(rows'[r])
  BY DEF JournalInv, Settled, Torn, RowFits
<1>2. SecondRowIsUndone'
  BY DEF JournalInv, Settled, Torn, SecondRowIsUndone, Open
<1> QED BY <1>1, <1>2

LEMMA SettledLook ==
    ASSUME JournalInv, Settled, Torn, NEW c \in Users,
           loc'[c] = loc[c] \/ loc'[c].pc \notin {"add", "edit"}
    PROVE  LookHolds(c)'
<1>c. c \in Callers
  BY DEF Callers
<1>1. CASE loc'[c].pc \notin {"add", "edit"}
  BY <1>1 DEF LookHolds
<1>2. CASE loc'[c] = loc[c]
  <2>0. LookHolds(c)
    BY DEF JournalInv
  <2>1. loc'[c].pc = "add" => RowFits(loc'[c].row)
    BY <1>2, <2>0 DEF LookHolds
  <2>2. loc'[c].pc = "add" /\ loc'[c].row.session \notin torn'.sessions =>
          \A r \in Rows : Open(r)' /\ rows'[r].session = loc'[c].row.session
                          => rows'[r].undone
    BY <1>2, <2>0 DEF LookHolds, Settled, Torn, Open
  <2>3. ASSUME loc'[c].pc = "edit"
        PROVE  /\ rows'[loc'[c].r].status # "none"
               /\ loc'[c].r \notin torn'.rows
                    => StopAllowed(rows'[loc'[c].r], loc'[c].entry, loc'[c].stop)
    <3>1. loc[c] \in Carried /\ loc[c].pc = "edit"
      BY <1>2, <1>c, <2>3 DEF JournalInv, TypeInv
    <3>2. loc[c].r \in Rows
      BY <3>1 DEF Carried
    <3> QED
      BY <1>2, <2>0, <3>1, <3>2 DEF LookHolds, Settled, Torn, StopAllowed, New
  <2> QED
    BY <2>1, <2>2, <2>3 DEF LookHolds
<1> QED
  BY <1>1, <1>2

\* A step that changes no look in hand, but for ending some.
LEMMA KeptApart ==
    ASSUME JournalInv, Torn,
           \A c \in Users : loc'[c] = loc[c] \/ loc'[c].pc \notin {"add", "edit"}
    PROVE  \A c, d \in Users : c # d => Apart(c, d)'
<1> SUFFICES ASSUME NEW c \in Users, NEW d \in Users, c # d
             PROVE  Apart(c, d)'
  OBVIOUS
<1>1. Apart(c, d)
  BY DEF JournalInv
<1> QED
  BY <1>1 DEF Apart, Torn

LEMMA SettledWrite ==
    ASSUME TypeInv, NEW r \in Rows, NEW row, Write(r, row),
           row.side = rows[r].side, row.entry = rows[r].entry, row.stop = rows[r].stop,
           row.session = rows[r].session, rows[r].undone => row.undone,
           row.status = "open" => rows[r].status = "open" \/ row.undone,
           row.status # "none"
    PROVE  Settled
BY DEF TypeInv, Write, Settled

LEMMA ClosedSettles ==
    ASSUME TypeInv, NEW r \in Rows, Write(r, Closed(rows[r]))
    PROVE  Settled
<1>1. rows[r] \in Row
  BY DEF TypeInv
<1> DEFINE row == [rows[r] EXCEPT !.status = "closed"]
<1>2. /\ row \in Row
      /\ row.side = rows[r].side /\ row.entry = rows[r].entry /\ row.stop = rows[r].stop
      /\ row.session = rows[r].session /\ row.undone = rows[r].undone
      /\ row.status = "closed"
  BY <1>1 DEF Row
<1>3. Closed(rows[r]) = [row EXCEPT !.undo = TRUE]
  BY DEF Closed
<1> HIDE DEF row
<1>4. /\ Closed(rows[r]).side = rows[r].side /\ Closed(rows[r]).entry = rows[r].entry
      /\ Closed(rows[r]).stop = rows[r].stop /\ Closed(rows[r]).session = rows[r].session
      /\ Closed(rows[r]).undone = rows[r].undone /\ Closed(rows[r]).status = "closed"
  BY <1>2, <1>3 DEF Row
<1> QED
  BY <1>4, SettledWrite

LEMMA ReopenedSettles ==
    ASSUME TypeInv, NEW r \in Rows, Write(r, Reopened(rows[r]))
    PROVE  Settled
<1> DEFINE new  == Reopened(rows[r])
           open == [rows[r] EXCEPT !.status = "open"]
           past == [open EXCEPT !.undo = FALSE]
<1>1. rows[r] \in Row
  BY DEF TypeInv
<1>2. /\ open \in Row /\ open.side = rows[r].side /\ open.session = rows[r].session
      /\ open.entry = rows[r].entry /\ open.stop = rows[r].stop /\ open.status = "open"
  BY <1>1 DEF Row
<1>3. new = [past EXCEPT !.undone = TRUE]
  BY DEF Reopened
<1>4. past = [open EXCEPT !.undo = FALSE]
  OBVIOUS
<1> HIDE DEF open
<1>5. /\ past \in Row /\ past.side = open.side /\ past.session = open.session
      /\ past.entry = open.entry /\ past.stop = open.stop /\ past.status = open.status
  BY <1>2, <1>4 DEF Row
<1> HIDE DEF past, new
<1>6. /\ new.side = rows[r].side /\ new.session = rows[r].session
      /\ new.entry = rows[r].entry /\ new.stop = rows[r].stop
      /\ new.undone /\ new.status = "open"
  BY <1>2, <1>3, <1>5 DEF Row
<1>7. Write(r, new)
  BY DEF new
<1> QED
  BY <1>6, <1>7, SettledWrite

\* All steps but those of an add or an edit.
LEMMA OthersSettle ==
    ASSUME TypeInv,
           \/ \E u \in Users : CloseFind(u) \/ CloseWrite(u) \/ ReopenFind(u) \/ ReopenWrite(u)
           \/ SweepFind \/ SweepDies \/ Midnight \/ UNCHANGED vars
           \/ \E r \in Rows : SweepWrite(r) \/ UndoExpires(r)
    PROVE  /\ Settled /\ Torn
           /\ \A c \in Users : loc'[c] = loc[c] \/ loc'[c].pc \notin {"add", "edit"}
<1>u. Worker \notin Users /\ Users \subseteq Callers /\ Worker \in Callers
  BY WorkerIsNoUser DEF Callers
<1>l. \A x : \A b \in Callers : loc' = [loc EXCEPT ![b] = x] =>
         loc'[b] = x /\ \A c \in Callers \ {b} : loc'[c] = loc[c]
  BY DEF TypeInv
<1>k. UNCHANGED rows => Settled
  BY DEF Settled
<1>t. UNCHANGED torn => Torn
  BY DEF Torn
<1>1. ASSUME NEW u \in Users, CloseFind(u) \/ ReopenFind(u)
      PROVE  Settled /\ Torn /\ \A c \in Users : loc'[c] = loc[c] \/ loc'[c].pc \notin {"add", "edit"}
  <2>1. PICK r \in Rows, pc \in {"close", "reopen"} :
          loc' = [loc EXCEPT ![u] = [pc |-> pc, r |-> r]] /\ UNCHANGED <<rows, torn>>
    BY <1>1 DEF CloseFind, ReopenFind
  <2>2. loc'[u] = [pc |-> pc, r |-> r]
    BY <1>u, <2>1 DEF TypeInv
  <2>3. loc'[u].pc \notin {"add", "edit"}
    BY <2>1, <2>2
  <2> QED
    BY <1>k, <1>l, <1>t, <1>u, <2>1, <2>3
<1>2. ASSUME NEW u \in Users, CloseWrite(u) \/ ReopenWrite(u)
      PROVE  Settled /\ Torn /\ \A c \in Users : loc'[c] = loc[c] \/ loc'[c].pc \notin {"add", "edit"}
  <2>1. loc[u] \in Carried /\ loc[u].pc \in {"close", "reopen"}
    BY <1>2, <1>u DEF CloseWrite, ReopenWrite, TypeInv
  <2>2. loc[u].r \in Rows
    BY <2>1 DEF Carried
  <2>3. Settled
    BY <1>2, <2>2, ClosedSettles, ReopenedSettles DEF CloseWrite, ReopenWrite
  <2>4. loc' = [loc EXCEPT ![u] = Idle] /\ UNCHANGED torn
    BY <1>2 DEF CloseWrite, ReopenWrite, Done
  <2>5. loc'[u] = Idle
    BY <1>u, <2>4 DEF TypeInv
  <2>6. loc'[u].pc = "idle"
    BY <2>5 DEF Idle
  <2> QED
    BY <1>l, <1>t, <1>u, <2>3, <2>4, <2>6
<1>3. CASE Midnight \/ UNCHANGED vars
  BY <1>3, <1>k, <1>t DEF Midnight, vars
<1>4. CASE SweepFind \/ SweepDies
  <2>1. /\ UNCHANGED <<rows, torn>>
        /\ loc' = [loc EXCEPT ![Worker] = [pc |-> "sweep", todo |-> Leftovers]]
             \/ loc' = [loc EXCEPT ![Worker] = Idle]
    BY <1>4 DEF SweepFind, SweepDies, Done
  <2> QED
    BY <1>k, <1>l, <1>t, <1>u, <2>1
<1>5. ASSUME NEW r \in Rows, SweepWrite(r)
      PROVE  Settled /\ Torn /\ \A c \in Users : loc'[c] = loc[c]
  <2>1. Settled
    BY <1>5, ClosedSettles DEF SweepWrite
  <2>2. loc' = [loc EXCEPT ![Worker] = Swept(loc[Worker], r)] /\ UNCHANGED torn
    BY <1>5 DEF SweepWrite
  <2> QED
    BY <1>l, <1>t, <1>u, <2>1, <2>2
<1>6. ASSUME NEW r \in Rows, UndoExpires(r)
      PROVE  Settled /\ Torn /\ UNCHANGED loc
  <2>1. rows[r] \in Row /\ rows[r].status = "closed"
    BY <1>6 DEF UndoExpires, TypeInv, UndoOfClosed
  <2> DEFINE row == [rows[r] EXCEPT !.undo = FALSE]
  <2>2. /\ row.side = rows[r].side /\ row.entry = rows[r].entry /\ row.stop = rows[r].stop
        /\ row.session = rows[r].session /\ row.undone = rows[r].undone
        /\ row.status = "closed"
    BY <2>1 DEF Row
  <2>3. Write(r, row) /\ UNCHANGED <<loc, torn>>
    BY <1>6 DEF UndoExpires
  <2> HIDE DEF row
  <2> QED
    BY <1>t, <2>2, <2>3, SettledWrite
<1> QED
  BY <1>1, <1>2, <1>3, <1>4, <1>5, <1>6

\* A look that passes sets up what the write needs, or tears what another has.
LEMMA AddFindStep ==
    ASSUME JournalInv, TypeInv', NEW u \in Users, AddFind(u)
    PROVE  JournalInv' /\ Settled
<1>u. u \in Callers /\ Users \subseteq Callers
  BY DEF Callers
<1>1. PICK side \in Sides, e \in Entries, s \in {0} \cup Stops, d \in 0..day :
        /\ StopFits(side, e, s)
        /\ ~\E r \in Rows : Open(r) /\ rows[r].session = d
        /\ UNCHANGED <<rows, day>> /\ TakeSession(u, d)
        /\ loc' = [loc EXCEPT ![u] = [pc |-> "add", row |-> Added(side, e, s, d)]]
  BY DEF AddFind
<1>2. loc'[u] = [pc |-> "add", row |-> Added(side, e, s, d)]
      /\ \A c \in Users \ {u} : loc'[c] = loc[c]
  BY <1>u, <1>1 DEF JournalInv, TypeInv
<1>3. /\ loc'[u].pc = "add" /\ loc'[u].row.session = d
      /\ loc'[u].row.side = side /\ loc'[u].row.entry = e /\ loc'[u].row.stop = s
  BY <1>2 DEF Added
<1>4. d \in 0..LastDay
  BY LastDayIsNatural DEF JournalInv, TypeInv
<1>5. Settled /\ Torn
  BY <1>1, <1>4, TornTypes DEF Settled, Torn, JournalInv
<1>6. \A c \in Users \ {u} : LookHolds(c)'
  BY <1>2, <1>5, SettledLook
<1>7. LookHolds(u)'
  BY <1>1, <1>3 DEF LookHolds, RowFits, Open
<1>8. \A c \in Users \ {u} : Apart(c, u)' /\ Apart(u, c)'
  <2> SUFFICES ASSUME NEW c \in Users, c # u
               PROVE  Apart(c, u)' /\ Apart(u, c)'
    OBVIOUS
  <2>1. loc'[c].pc = "add" /\ loc'[c].row.session = d => d \in torn'.sessions
    BY <1>1, <1>2 DEF TakeSession, Adding, JournalInv, TypeInv
  <2> QED
    BY <1>3, <2>1 DEF Apart
<1>9. \A b, c \in Users \ {u} : b # c => Apart(b, c)'
  BY <1>2, <1>5 DEF JournalInv, Apart, Torn
<1> QED
  BY <1>5, <1>6, <1>7, <1>8, <1>9, SettledRows DEF JournalInv

LEMMA EditFindStep ==
    ASSUME JournalInv, TypeInv', NEW u \in Users, EditFind(u)
    PROVE  JournalInv' /\ Settled
<1>u. u \in Callers /\ Users \subseteq Callers
  BY DEF Callers
<1>1. PICK r \in Rows, e \in {Keep} \cup Entries, s \in {0, Keep} \cup Stops :
        /\ Open(r) /\ StopAllowed(rows[r], e, s)
        /\ UNCHANGED <<rows, day>>
        /\ torn' = IF Editing(u, r) THEN [torn EXCEPT !.rows = @ \cup {r}] ELSE torn
        /\ loc' = [loc EXCEPT ![u] = [pc |-> "edit", r |-> r, entry |-> e, stop |-> s]]
  BY DEF EditFind
<1>2. loc'[u] = [pc |-> "edit", r |-> r, entry |-> e, stop |-> s]
      /\ \A c \in Users \ {u} : loc'[c] = loc[c]
  BY <1>u, <1>1 DEF JournalInv, TypeInv
<1>3. /\ loc'[u].pc = "edit" /\ loc'[u].r = r /\ loc'[u].entry = e /\ loc'[u].stop = s
  BY <1>2
<1>5. Settled /\ Torn
  BY <1>1, TornTypes DEF Settled, Torn, JournalInv
<1>6. \A c \in Users \ {u} : LookHolds(c)'
  BY <1>2, <1>5, SettledLook
<1>7. LookHolds(u)'
  BY <1>1, <1>3 DEF LookHolds, Open
<1>8. \A c \in Users \ {u} : Apart(c, u)' /\ Apart(u, c)'
  <2> SUFFICES ASSUME NEW c \in Users, c # u
               PROVE  Apart(c, u)' /\ Apart(u, c)'
    OBVIOUS
  <2>1. loc'[c].pc = "edit" /\ loc'[c].r = r => r \in torn'.rows
    BY <1>1, <1>2 DEF Editing, JournalInv, TypeInv
  <2> QED
    BY <1>3, <2>1 DEF Apart
<1>9. \A b, c \in Users \ {u} : b # c => Apart(b, c)'
  BY <1>2, <1>5 DEF JournalInv, Apart, Torn
<1> QED
  BY <1>5, <1>6, <1>7, <1>8, <1>9, SettledRows DEF JournalInv

\* A write ends its own look.
LEMMA WriteEndsLook ==
    ASSUME JournalInv, NEW u \in Users, Done(u), UNCHANGED torn
    PROVE  /\ LookHolds(u)'
           /\ \A c \in Users \ {u} : loc'[c] = loc[c]
           /\ \A c, d \in Users : c # d => Apart(c, d)'
<1>1. Users \subseteq Callers
  BY DEF Callers
<1>2. loc'[u].pc = "idle" /\ \A c \in Users \ {u} : loc'[c] = loc[c]
  BY <1>1 DEF JournalInv, TypeInv, Done, Idle
<1>3. Torn
  BY DEF Torn
<1>4. \A c, d \in Users : c # d => Apart(c, d)'
  BY <1>2, <1>3, KeptApart
<1> QED
  BY <1>2, <1>4 DEF LookHolds

LEMMA AddStep ==
    ASSUME JournalInv, TypeInv', NEW u \in Users, AddWrite(u)
    PROVE  JournalInv' /\ \A r \in Rows \ torn.rows : Tightens(r)
<1>u. Users \subseteq Callers
  BY DEF Callers
<1>1. PICK r \in Rows : rows[r].status = "none" /\ rows' = [rows EXCEPT ![r] = loc[u].row]
  BY DEF AddWrite, Write
<1>d. Done(u) /\ UNCHANGED torn
  BY DEF AddWrite
<1> DEFINE new == loc[u].row
<1>2. /\ RowFits(new) /\ loc[u].pc = "add" /\ new.status = "open"
      /\ new.session \notin torn.sessions =>
           \A q \in Rows : Open(q) /\ rows[q].session = new.session => rows[q].undone
  BY <1>u DEF AddWrite, JournalInv, LookHolds, TypeInv
<1>3. rows'[r] = new /\ \A q \in Rows \ {r} : rows'[q] = rows[q]
  BY <1>1 DEF JournalInv, TypeInv
<1>e. \A c \in Users \ {u} : loc'[c] = loc[c]
  BY <1>d, WriteEndsLook
<1>8. \A c \in Users \ {u} :
         loc[c].pc = "add" /\ loc[c].row.session = new.session
           => new.session \in torn.sessions
  BY <1>2 DEF JournalInv, Apart
<1> HIDE DEF new
<1>4. \A q \in Rows \ torn'.rows : RowFits(rows'[q])
  BY <1>2, <1>3, <1>d DEF JournalInv
<1>5. ASSUME NEW q \in Rows PROVE Tightens(q)
  <2>1. rows[q] \in Row
    BY DEF JournalInv, TypeInv
  <2>2. rows[q].stop \in Int
    BY <2>1 DEF Row, Levels
  <2> QED
    BY <1>1, <1>3, <2>2 DEF Tightens, Open, Worse
<1>6. SecondRowIsUndone'
  BY <1>2, <1>3, <1>d DEF JournalInv, SecondRowIsUndone, Open
<1>7. ASSUME NEW c \in Users, c # u PROVE LookHolds(c)'
  <2>1. loc'[c] = loc[c] /\ LookHolds(c)
    BY <1>7, <1>e DEF JournalInv
  <2>2. loc[c].pc = "edit" => loc[c].r \in Rows \ {r}
    <3>1. loc[c] \in Carried
      BY <1>u DEF JournalInv, TypeInv
    <3>2. loc[c].pc = "edit" => loc[c].r \in Rows
      BY <3>1 DEF Carried
    <3> QED
      BY <1>1, <2>1, <3>2 DEF LookHolds
  <2>3. loc[c].pc = "add" /\ loc[c].row.session \notin torn.sessions =>
          \A q \in Rows : rows'[q].status = "open" /\ rows'[q].session = loc[c].row.session
                          => rows'[q].undone
    BY <1>3, <1>7, <1>8, <2>1 DEF LookHolds, Open
  <2> QED
    BY <1>3, <1>d, <2>1, <2>2, <2>3 DEF LookHolds, Open
<1> QED
  BY <1>4, <1>5, <1>6, <1>7, <1>d, WriteEndsLook DEF JournalInv

LEMMA EditStep ==
    ASSUME JournalInv, TypeInv', NEW u \in Users, EditWrite(u)
    PROVE  JournalInv' /\ \A r \in Rows \ torn.rows : Tightens(r)
<1> DEFINE r    == loc[u].r
           next == New(loc[u].stop, rows[r].stop)
           held == New(loc[u].entry, rows[r].entry)
<1>u. Users \subseteq Callers
  BY DEF Callers
<1>1. loc[u] \in Carried /\ loc[u].pc = "edit" /\ Done(u) /\ UNCHANGED torn
  BY <1>u DEF EditWrite, JournalInv, TypeInv
<1>2. r \in Rows
  BY <1>1 DEF Carried
<1>3. rows[r] \in Row
  BY <1>2 DEF JournalInv, TypeInv
<1>4. r \notin torn.rows => StopAllowed(rows[r], loc[u].entry, loc[u].stop)
  BY <1>1 DEF JournalInv, LookHolds
<1>5. /\ \A q \in Rows \ {r} : rows'[q] = rows[q]
      /\ rows'[r].stop = next /\ rows'[r].entry = held
      /\ rows'[r].side = rows[r].side /\ rows'[r].status = rows[r].status
      /\ rows'[r].session = rows[r].session /\ rows'[r].undone = rows[r].undone
  <2> DEFINE new == [rows[r] EXCEPT !.entry = held, !.stop = next]
  <2>1. rows' = [rows EXCEPT ![r].entry = New(loc[u].entry, @),
                             ![r].stop = New(loc[u].stop, @)]
    BY DEF EditWrite
  <2>2. rows \in [Rows -> Row]
    BY DEF JournalInv, TypeInv
  <2>3. rows' = [rows EXCEPT ![r] = new]
    BY <1>2, <1>3, <2>1, <2>2 DEF Row
  <2>4. /\ new.stop = next /\ new.entry = held
        /\ new.side = rows[r].side /\ new.status = rows[r].status
        /\ new.session = rows[r].session /\ new.undone = rows[r].undone
    BY <1>3 DEF Row
  <2> HIDE DEF new, next, held
  <2>5. rows'[r] = new /\ \A q \in Rows \ {r} : rows'[q] = rows[q]
    BY <1>2, <2>2, <2>3
  <2> QED
    BY <2>4, <2>5
<1>6. r \notin torn.rows =>
        /\ next # 0 => Worse(rows[r].side, next, held)
        /\ next # 0 /\ rows[r].stop # 0 => ~Worse(rows[r].side, next, rows[r].stop)
  BY <1>4 DEF StopAllowed
<1>a. \A c \in Users \ {u} : loc[c].pc = "edit" /\ loc[c].r = r => r \in torn.rows
  BY <1>1 DEF JournalInv, Apart
<1>e. \A c \in Users \ {u} : loc'[c] = loc[c]
  BY <1>1, WriteEndsLook
<1> HIDE DEF next, held, r
<1>7. \A q \in Rows \ torn'.rows : RowFits(rows'[q])
  BY <1>1, <1>5, <1>6 DEF JournalInv, RowFits, StopFits
<1>8. ASSUME NEW q \in Rows \ torn.rows PROVE Tightens(q)
  <2>1. CASE q = r
    BY <1>5, <1>6, <1>8, <2>1 DEF Tightens
  <2>2. CASE q # r
    <3>1. rows[q] \in Row /\ rows'[q] = rows[q]
      BY <1>5, <2>2 DEF JournalInv, TypeInv
    <3>2. rows[q].stop \in Int
      BY <3>1 DEF Row, Levels
    <3> QED
      BY <3>1, <3>2 DEF Tightens, Worse
  <2> QED
    BY <2>1, <2>2
<1>9. \A q \in Rows : /\ rows'[q].status = rows[q].status
                      /\ rows'[q].session = rows[q].session
                      /\ rows'[q].undone = rows[q].undone
  BY <1>5
<1>10. SecondRowIsUndone'
  BY <1>1, <1>9 DEF JournalInv, SecondRowIsUndone, Open
<1>11. ASSUME NEW c \in Users, c # u PROVE LookHolds(c)'
  <2>1. loc'[c] = loc[c] /\ LookHolds(c)
    BY <1>11, <1>e DEF JournalInv
  <2>2. loc[c].pc = "edit" => loc[c].r \in Rows
    <3>1. loc[c] \in Carried
      BY <1>u DEF JournalInv, TypeInv
    <3> QED
      BY <3>1 DEF Carried
  <2>3. loc[c].pc = "edit" /\ loc[c].r \notin torn.rows => rows'[loc[c].r] = rows[loc[c].r]
    BY <1>5, <1>11, <1>a, <2>2
  <2>4. loc[c].pc = "edit" =>
          /\ rows'[loc[c].r].status # "none"
          /\ loc[c].r \notin torn.rows
               => StopAllowed(rows'[loc[c].r], loc[c].entry, loc[c].stop)
    BY <1>9, <2>1, <2>2, <2>3 DEF LookHolds
  <2>5. loc[c].pc = "add" =>
          /\ RowFits(loc[c].row)
          /\ loc[c].row.session \notin torn.sessions =>
                \A q \in Rows : rows'[q].status = "open"
                                 /\ rows'[q].session = loc[c].row.session
                               => rows'[q].undone
    BY <1>9, <2>1 DEF LookHolds, Open
  <2> QED
    BY <1>1, <2>1, <2>4, <2>5 DEF LookHolds, Open
<1> QED
  BY <1>1, <1>7, <1>8, <1>10, <1>11, WriteEndsLook DEF JournalInv

LEMMA JournalStep ==
    ASSUME JournalInv, [Next]_vars
    PROVE  JournalInv' /\ \A r \in Rows \ torn.rows : Tightens(r)
<1>t. TypeInv /\ TypeInv'
  BY TypeStep DEF JournalInv
<1>1. ASSUME NEW u \in Users, AddFind(u) \/ EditFind(u)
      PROVE  JournalInv' /\ \A r \in Rows \ torn.rows : Tightens(r)
  BY <1>t, <1>1, AddFindStep, EditFindStep, SettledTightens
<1>2. ASSUME NEW u \in Users, AddWrite(u) \/ EditWrite(u)
      PROVE  JournalInv' /\ \A r \in Rows \ torn.rows : Tightens(r)
  BY <1>t, <1>2, AddStep, EditStep
<1>3. CASE \/ \E u \in Users : CloseFind(u) \/ CloseWrite(u) \/ ReopenFind(u) \/ ReopenWrite(u)
           \/ SweepFind \/ SweepDies \/ Midnight \/ UNCHANGED vars
           \/ \E r \in Rows : SweepWrite(r) \/ UndoExpires(r)
  <2>1. /\ Settled /\ Torn
        /\ \A c \in Users : loc'[c] = loc[c] \/ loc'[c].pc \notin {"add", "edit"}
    BY <1>t, <1>3, OthersSettle
  <2>2. \A c \in Users : LookHolds(c)'
    BY <2>1, SettledLook
  <2>3. \A c, d \in Users : c # d => Apart(c, d)'
    BY <2>1, KeptApart
  <2> QED
    BY <1>t, <2>1, <2>2, <2>3, SettledRows, SettledTightens DEF JournalInv
<1> QED
  BY <1>1, <1>2, <1>3 DEF Next, Request

LEMMA JournalInit == Init => JournalInv
<1> SUFFICES ASSUME Init
             PROVE  JournalInv
  OBVIOUS
<1>1. (\A c \in Users : loc[c] = Idle) /\ \A r \in Rows : rows[r] = NoRow
  BY DEF Init, Callers
<1>2. \A r \in Rows : RowFits(rows[r]) /\ ~Open(r)
  BY <1>1 DEF RowFits, StopFits, NoRow, Open
<1> QED
  BY <1>1, <1>2, TypeInit DEF JournalInv, SecondRowIsUndone, LookHolds, Apart, Idle

LEMMA JournalAlways == Spec => []JournalInv
<1>1. JournalInv /\ [Next]_vars => JournalInv'
  BY JournalStep
<1> QED
  BY <1>1, JournalInit, PTL DEF Spec

\* For any number of requests in flight the stop of an open row stays on the losing
\* side of its entry, whichever of the two is edited and whenever the sweep runs
\* (the checks of createIntradayPosition and updateIntradayPosition), but for rows
\* that two edits had in hand at once.
THEOREM StopsProtect == Spec => []StopIsProtective
<1>1. JournalInv => StopIsProtective
  BY DEF JournalInv, RowFits, StopFits, StopIsProtective
<1> QED
  BY <1>1, JournalAlways, PTL

\* For any number of requests in flight two open rows of one session come from an
\* undone close (the duplicate check of createIntradayPosition, which
\* reopenIntradayPosition lacks) or from two adds that both looked before either
\* wrote.
THEOREM SecondRowsAreUndone == Spec => []SecondRowIsUndone
<1>1. JournalInv => SecondRowIsUndone
  BY DEF JournalInv
<1> QED
  BY <1>1, JournalAlways, PTL

\* For any number of requests in flight a stop that is moved while its row is open
\* only tightens (the trail ratchet of updateIntradayPosition), but for rows that
\* two edits had in hand at once.
THEOREM StopsTighten == Spec => MovedStopTightens
<1>1. JournalInv /\ [Next]_vars =>
        [\A r \in Rows \ torn.rows :
           /\ Open(r) /\ Open(r)'
           /\ rows[r].stop # 0 /\ rows'[r].stop # 0
           => ~Worse(rows[r].side, rows'[r].stop, rows[r].stop)]_vars
  BY JournalStep DEF Tightens
<1> QED
  BY <1>1, JournalAlways, PTL DEF Spec, MovedStopTightens
=============================================================================
