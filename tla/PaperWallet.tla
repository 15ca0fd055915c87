----------------------------- MODULE PaperWallet -----------------------------
(***************************************************************************)
(* One user's paper wallet and the callers that trade on it concurrently:  *)
(* the worker's intraday tick, its swing tick and the API handlers (manual *)
(* close, manual tick, repair, archive, arm).                              *)
(*                                                                         *)
(* Every operation of the code is  find rows  ->  transaction { read the   *)
(* wallet; write rows and the wallet's new absolute balances }.  Postgres  *)
(* runs the transactions READ COMMITTED, so each arrow is a point where    *)
(* another caller may commit: the position (loc.row) may be stale when the *)
(* transaction starts and the wallet (loc.w) stale when it writes.         *)
(*                                                                         *)
(* Data kept: share counts, and money in units such that a share costs     *)
(* Price.  A row's reservedCash is always entry price * open quantity, so  *)
(* it is the derived Held(row).  The result of a sale is chosen from Moves *)
(* (rupees per share, fees and slippage included); heat, sector and stop   *)
(* sizing only ever refuse an entry and are left to the choice of entries. *)
(***************************************************************************)
EXTENDS Integers, FiniteSets, FiniteSetsExt

CONSTANTS
    Callers,       \* worker ticks and API requests in flight
    Intraday,      \* instruments of the intraday book (source paper_auto)
    Swing,         \* symbols of the swing book (source swing_paper_auto)
    Books,         \* the books the user may arm
    MaxPos,        \* position rows ever created                    (bound)
    Opening,       \* PAPER_OPENING_BALANCE_INR
    Price,         \* entry price of a share
    Qtys,          \* order sizes sizePaperShares can return
    Moves,         \* net results per share sold
    Tags,          \* fill prices (intraday) or snapshot minutes (swing)
    MaxOpen,       \* PAPER_MAX_OPEN_POSITIONS
    KillLoss,      \* PAPER_DAILY_LOSS_KILL_PCT of the equity, in rupees
    MaxDay         \* trading days                                  (bound)

Sources == {"paper_auto", "swing_paper_auto"}
Targets == {"PARTIAL_T1", "PARTIAL_T2"}
Pos     == 1..MaxPos
Days    == 1..MaxDay
Keys    == (Intraday \cup Swing) \X Days \X Tags

ASSUME BooksAreSound ==
    /\ Intraday \cap Swing = {} /\ Intraday \cup Swing # {} /\ Tags # {}
    /\ Books \subseteq Sources
ASSUME AmountsAreNumbers ==
    /\ MaxPos \in Nat \ {0} /\ MaxOpen \in Nat /\ KillLoss \in Nat
    /\ MaxDay \in Nat \ {0}
    /\ Opening \in Nat /\ Price \in Nat \ {0}
    /\ Qtys \subseteq Nat \ {0}
    /\ Moves \subseteq Int
\* isCompatibleMarkPrice keeps a sale within 20% of the entry price.
ASSUME LossesAreBounded == \A m \in Moves : -Price <= m

VARIABLES
    wallet,     \* the paper_wallets row
    pos,        \* the paper_positions rows
    orders,     \* client_order_ids of opening orders (unique per user)
    ledgerPnl,  \* sum of the P&L and void rows since the last funding/reset row
    armed,      \* auto_armed of the wallet, swing_paper_auto:<user> setting
    day,        \* the session date
    loc         \* what each caller is doing

vars == <<wallet, pos, orders, ledgerPnl, armed, day, loc>>

-----------------------------------------------------------------------------
Wallet == [funded : BOOLEAN, cash : Int, reserved : Nat, realized : Int]
Row    == [status : {"none", "open", "closed"}, key : Keys, qty : Nat, orig : Nat,
           pnl : Int, t1 : BOOLEAN, t2 : BOOLEAN, closedOn : Nat,
           mark : {"none", "compatible", "edge", "void"}]
Loc    == [at : {"idle", "tick", "fund", "close", "closeTx", "refind", "partial",
                 "partialTx", "open", "openTx", "void", "voidTx", "archive", "reset"},
           job : Sources \cup {"none"}, p : Pos, row : Row, w : Wallet,
           target : Targets, sell : Nat]

TypeOK ==
    /\ wallet \in Wallet
    /\ pos \in [Pos -> Row]
    /\ orders \subseteq Keys
    /\ ledgerPnl \in Int
    /\ armed \in [Sources -> BOOLEAN]
    /\ day \in Days
    /\ loc \in [Callers -> Loc]

Inst(row) == row.key[1]
Source(i) == IF i \in Intraday THEN "paper_auto" ELSE "swing_paper_auto"
Held(row) == Price * row.qty
NoWallet  == [funded |-> FALSE, cash |-> 0, reserved |-> 0, realized |-> 0]
NoRow     == [status |-> "none", key |-> CHOOSE k \in Keys : TRUE, qty |-> 0,
              orig |-> 0, pnl |-> 0, t1 |-> FALSE, t2 |-> FALSE, closedOn |-> 0,
              mark |-> "none"]
Idle      == [at |-> "idle", job |-> "none", p |-> 1, row |-> NoRow, w |-> NoWallet,
              target |-> "PARTIAL_T1", sell |-> 0]

Open   == {p \in Pos : pos[p].status = "open"}
Closed == {p \in Pos : pos[p].status = "closed"}

Init ==
    /\ wallet = NoWallet
    /\ pos = [p \in Pos |-> NoRow]
    /\ orders = {}
    /\ ledgerPnl = 0
    /\ armed = [s \in Sources |-> FALSE]
    /\ day = 1
    /\ loc = [c \in Callers |-> Idle]

-----------------------------------------------------------------------------
(* Control of a caller. *)

\* The operation is over: back to the tick that called it, or to its client.
Done(c) ==
    loc' = [loc EXCEPT ![c] = [Idle EXCEPT !.job = loc[c].job,
                                           !.at = IF loc[c].job = "none" THEN "idle" ELSE "tick"]]

\* A database error rolls the transaction back.  The intraday tick catches it
\* around an entry and goes on; anywhere else it ends the user's tick.
Fail(c) ==
    /\ loc[c].at \notin {"idle", "tick"}
    /\ IF loc[c].at \in {"open", "openTx"} /\ loc[c].job = "paper_auto"
       THEN Done(c)
       ELSE loc' = [loc EXCEPT ![c] = Idle]
    /\ UNCHANGED <<wallet, pos, orders, ledgerPnl, armed, day>>

\* ensurePaperWallet: no wallet found.
EnsureFind(c) ==
    /\ loc[c].at = "idle" /\ ~wallet.funded
    /\ loc' = [loc EXCEPT ![c].at = "fund"]
    /\ UNCHANGED <<wallet, pos, orders, ledgerPnl, armed, day>>

\* The wallet and its funding row are created together; (user, currency) is
\* unique, so a second creation aborts.
EnsureCreate(c) ==
    /\ loc[c].at = "fund"
    /\ IF wallet.funded
       THEN UNCHANGED <<wallet, ledgerPnl>>
       ELSE /\ wallet' = [NoWallet EXCEPT !.funded = TRUE, !.cash = Opening]
            /\ ledgerPnl' = 0
    /\ Done(c)
    /\ UNCHANGED <<pos, orders, armed, day>>

\* setPaperAutoArmed, setSwingPaperAutoArmed.
Arm(s, b) ==
    /\ wallet.funded
    /\ armed' = [armed EXCEPT ![s] = b]
    /\ UNCHANGED <<wallet, pos, orders, ledgerPnl, day, loc>>

\* tickPaperUser and tickSwingPaperUser look at the arm flag once, on entry.
TickBegin(c, s) ==
    /\ loc[c].at = "idle" /\ wallet.funded /\ armed[s]
    /\ loc' = [loc EXCEPT ![c].at = "tick", ![c].job = s]
    /\ UNCHANGED <<wallet, pos, orders, ledgerPnl, armed, day>>

TickEnd(c) ==
    /\ loc[c].at = "tick"
    /\ loc' = [loc EXCEPT ![c] = Idle]
    /\ UNCHANGED <<wallet, pos, orders, ledgerPnl, armed, day>>

NextDay ==
    /\ day < MaxDay
    /\ day' = day + 1
    /\ UNCHANGED <<wallet, pos, orders, ledgerPnl, armed, loc>>

\* A tick manages the positions of its own book; the manual close lists the
\* intraday book only.
Manages(c, p) ==
    \/ loc[c].at = "tick" /\ loc[c].job = Source(Inst(pos[p]))
    \/ loc[c].at = "idle" /\ Source(Inst(pos[p])) = "paper_auto"


\* The transaction reads the wallet before it writes anything.
ReadWallet(c, from, to) ==
    /\ loc[c].at = from
    /\ loc' = [loc EXCEPT ![c].at = to, ![c].w = wallet]
    /\ UNCHANGED <<wallet, pos, orders, ledgerPnl, armed, day>>

\* Mutants of Credit: the reserve without its floor at zero, the realised P&L
\* left out.
Credit_NoFloor(w, cost, net) ==
    wallet' = [wallet EXCEPT !.cash     = w.cash + cost + net,
                             !.reserved = w.reserved - cost,
                             !.realized = w.realized + net]

Credit_CashOnly(w, cost, net) ==
    wallet' = [wallet EXCEPT !.cash     = w.cash + cost + net,
                             !.reserved = IF w.reserved > cost THEN w.reserved - cost ELSE 0]

\* The balances of wallet snapshot w after a sale that frees cost at result net.
\* The whole wallet row is not written: only the three balances are.
Credit(w, cost, net) ==
    wallet' = [wallet EXCEPT !.cash     = w.cash + cost + net,
                             !.reserved = IF w.reserved > cost THEN w.reserved - cost ELSE 0,
                             !.realized = w.realized + net]

-----------------------------------------------------------------------------
(* closePaperPosition: find the open row; then, in a transaction keyed by   *)
(* the row's id alone, close it and credit the wallet.                      *)

CloseFind(c, p) ==
    /\ Manages(c, p) /\ p \in Open
    /\ loc' = [loc EXCEPT ![c].at = "close", ![c].p = p, ![c].row = pos[p]]
    /\ UNCHANGED <<wallet, pos, orders, ledgerPnl, armed, day>>

CloseRead(c) == ReadWallet(c, "close", "closeTx")

\* The mark passed isCompatibleMarkPrice; an "edge" mark is one within the
\* exit slippage of the 20% bound, so that the stored fill price is outside it.
CloseWrite(c) ==
    LET l == loc[c] IN
    /\ l.at = "closeTx"
    /\ \E m \in Moves, mark \in {"compatible", "edge"} :
          LET net == m * l.row.qty IN
          /\ Credit(l.w, Held(l.row), net)
          /\ pos' = [pos EXCEPT ![l.p].status = "closed", ![l.p].qty = 0,
                                ![l.p].pnl = l.row.pnl + net,
                                ![l.p].closedOn = day, ![l.p].mark = mark]
          /\ ledgerPnl' = ledgerPnl + net
    /\ Done(c)
    /\ UNCHANGED <<orders, armed, day>>

-----------------------------------------------------------------------------
(* bookPaperPartial *)

\* Percent of the original quantity sold at a target: the stratzy_trend book
\* 70/20/10 for the intraday source, as_planned 40/40/20 for swing.
Weight(row, target) ==
    CASE Source(Inst(row)) = "paper_auto" /\ target = "PARTIAL_T1" -> 70
      [] Source(Inst(row)) = "paper_auto" /\ target = "PARTIAL_T2" -> 20
      [] OTHER -> 40

\* sharesForPartialWeight: at least one share, at most what is open.
SharesFor(orig, open, weight) ==
    Min({open, Max({1, (orig * weight) \div 100})})

\* Mutant: T2 does not wait for T1.
Bookable_AnyOrder(row, target) ==
    IF target = "PARTIAL_T1" THEN ~row.t1 ELSE ~row.t2

Bookable(row, target) ==
    IF target = "PARTIAL_T1" THEN ~row.t1 ELSE row.t1 /\ ~row.t2

\* Mutant: a partial may sell everything.
PartialFind_Flatten(c, p, target) ==
    LET sell == SharesFor(pos[p].orig, pos[p].qty, Weight(pos[p], target)) IN
    /\ loc[c].at = "tick" /\ Manages(c, p) /\ p \in Open
    /\ Bookable(pos[p], target)
    /\ loc' = [loc EXCEPT ![c].at = "partial", ![c].p = p, ![c].row = pos[p],
                          ![c].target = target, ![c].sell = sell]
    /\ UNCHANGED <<wallet, pos, orders, ledgerPnl, armed, day>>

\* A sale that would empty the row becomes a full close, which finds the row
\* again.
PartialFind(c, p, target) ==
    LET sell == SharesFor(pos[p].orig, pos[p].qty, Weight(pos[p], target)) IN
    /\ loc[c].at = "tick" /\ Manages(c, p) /\ p \in Open
    /\ Bookable(pos[p], target)
    /\ loc' = IF sell >= pos[p].qty
              THEN [loc EXCEPT ![c].at = "refind", ![c].p = p]
              ELSE [loc EXCEPT ![c].at = "partial", ![c].p = p, ![c].row = pos[p],
                               ![c].target = target, ![c].sell = sell]
    /\ UNCHANGED <<wallet, pos, orders, ledgerPnl, armed, day>>

Refind(c) ==
    /\ loc[c].at = "refind"
    /\ IF loc[c].p \in Open
       THEN loc' = [loc EXCEPT ![c].at = "close", ![c].row = pos[loc[c].p]]
       ELSE Done(c)
    /\ UNCHANGED <<wallet, pos, orders, ledgerPnl, armed, day>>

PartialRead(c) == ReadWallet(c, "partial", "partialTx")

\* Mutants: the row found is written back whole; the whole reserve is freed.
PartialWrite_WholeRow(c) ==
    LET l == loc[c] IN
    /\ l.at = "partialTx"
    /\ \E m \in Moves :
          LET net == m * l.sell IN
          /\ Credit(l.w, Price * l.sell, net)
          /\ pos' = [pos EXCEPT ![l.p] =
                       [l.row EXCEPT !.qty = @ - l.sell, !.pnl = @ + net,
                                     !.t1 = @ \/ l.target = "PARTIAL_T1",
                                     !.t2 = @ \/ l.target = "PARTIAL_T2"]]
          /\ ledgerPnl' = ledgerPnl + net
    /\ Done(c)
    /\ UNCHANGED <<orders, armed, day>>

PartialWrite_FreeAll(c) ==
    LET l == loc[c] IN
    /\ l.at = "partialTx"
    /\ \E m \in Moves :
          LET net == m * l.sell IN
          /\ Credit(l.w, Held(l.row), net)
          /\ pos' = [pos EXCEPT ![l.p].qty = l.row.qty - l.sell,
                                ![l.p].pnl = l.row.pnl + net,
                                ![l.p].t1 = l.row.t1 \/ l.target = "PARTIAL_T1",
                                ![l.p].t2 = l.row.t2 \/ l.target = "PARTIAL_T2"]
          /\ ledgerPnl' = ledgerPnl + net
    /\ Done(c)
    /\ UNCHANGED <<orders, armed, day>>

\* The update names the columns it computed from the row it found, not the
\* row's status.
PartialWrite(c) ==
    LET l == loc[c] IN
    /\ l.at = "partialTx"
    /\ \E m \in Moves :
          LET net == m * l.sell IN
          /\ Credit(l.w, Price * l.sell, net)
          /\ pos' = [pos EXCEPT ![l.p].qty = l.row.qty - l.sell,
                                ![l.p].pnl = l.row.pnl + net,
                                ![l.p].t1 = l.row.t1 \/ l.target = "PARTIAL_T1",
                                ![l.p].t2 = l.row.t2 \/ l.target = "PARTIAL_T2"]
          /\ ledgerPnl' = ledgerPnl + net
    /\ Done(c)
    /\ UNCHANGED <<orders, armed, day>>

-----------------------------------------------------------------------------
(* openFromSignal and openSwingPaperCandidate *)

\* Mutant: both books look at today's session only.
Duplicate_Session(i) ==
    \E p \in Open : Inst(pos[p]) = i /\ pos[p].key[2] = day

\* Intraday refuses a second open row of the instrument in the session, swing
\* any open row of the symbol.
Duplicate(i) ==
    \E p \in Open : /\ Inst(pos[p]) = i
                    /\ i \in Intraday => pos[p].key[2] = day

\* The kill switch sums the closed rows whose session date, the date they were
\* opened on, is today.
SessionPnl ==
    MapThenSumSet(LAMBDA p : pos[p].pnl, {p \in Closed : pos[p].key[2] = day})

\* canOpenPaperTrade with the reads that feed it, and the order-id lookup.
OpenFind(c, i, qty, tag) ==
    LET key == <<i, day, tag>> IN
    /\ loc[c].at = "tick" /\ loc[c].job = Source(i)
    /\ ~Duplicate(i)
    /\ Cardinality(Open) < MaxOpen
    /\ wallet.cash >= Price * qty
    /\ SessionPnl > -KillLoss
    /\ key \notin orders
    /\ loc' = [loc EXCEPT ![c].at = "open",
                          ![c].row = [NoRow EXCEPT !.status = "open", !.key = key,
                                                   !.qty = qty, !.orig = qty]]
    /\ UNCHANGED <<wallet, pos, orders, ledgerPnl, armed, day>>

\* The only gate repeated inside the transaction is cash. It is a gate on the
\* wallet as read: two fills that read the same cash may both spend it.
OpenRead(c) ==
    /\ ReadWallet(c, "open", "openTx")
    /\ wallet.cash >= Held(loc[c].row)

\* Mutant: no unique index on (user, client_order_id).
OpenWrite_NoUnique(c) ==
    LET l == loc[c] IN
    /\ l.at = "openTx"
    /\ \E p \in Pos :
          /\ pos[p].status = "none" /\ \A q \in 1..(p - 1) : pos[q].status # "none"
          /\ pos' = [pos EXCEPT ![p] = l.row]
    /\ orders' = orders \cup {l.row.key}
    /\ wallet' = [wallet EXCEPT !.cash     = l.w.cash - Held(l.row),
                                !.reserved = l.w.reserved + Held(l.row)]
    /\ Done(c)
    /\ UNCHANGED <<ledgerPnl, armed, day>>

\* A second order with the same id violates the unique index: Fail.
OpenWrite(c) ==
    LET l == loc[c] IN
    /\ l.at = "openTx"
    /\ l.row.key \notin orders
    /\ \E p \in Pos :
          /\ pos[p].status = "none" /\ \A q \in 1..(p - 1) : pos[q].status # "none"
          /\ pos' = [pos EXCEPT ![p] = l.row]
    /\ orders' = orders \cup {l.row.key}
    /\ wallet' = [wallet EXCEPT !.cash     = l.w.cash - Held(l.row),
                                !.reserved = l.w.reserved + Held(l.row)]
    /\ Done(c)
    /\ UNCHANGED <<ledgerPnl, armed, day>>

-----------------------------------------------------------------------------
(* repairScaleMismatchedPaperCloses: void the closes whose fill price is    *)
(* outside the 20% band and take their P&L back.                            *)

VoidFind(c, p) ==
    /\ loc[c].at = "idle" /\ p \in Closed /\ pos[p].mark = "edge"
    /\ loc' = [loc EXCEPT ![c].at = "void", ![c].p = p, ![c].row = pos[p]]
    /\ UNCHANGED <<wallet, pos, orders, ledgerPnl, armed, day>>

VoidRead(c) == ReadWallet(c, "void", "voidTx")

VoidWrite(c) ==
    LET l == loc[c] IN
    /\ l.at = "voidTx"
    /\ wallet' = [wallet EXCEPT !.cash     = l.w.cash - l.row.pnl,
                                !.realized = l.w.realized - l.row.pnl]
    /\ pos' = [pos EXCEPT ![l.p].pnl = 0, ![l.p].mark = "void"]
    /\ ledgerPnl' = ledgerPnl - l.row.pnl
    /\ Done(c)
    /\ UNCHANGED <<orders, armed, day>>

-----------------------------------------------------------------------------
(* archiveSwingPaperPeriod with reset_wallet: the flat-book check, then the *)
(* swing disarm, then a transaction that does not look at the book again.   *)

\* Mutant: only the swing book has to be flat.
ArchiveFind_SwingFlat(c) ==
    /\ loc[c].at = "idle" /\ wallet.funded
    /\ \A p \in Open : Inst(pos[p]) \notin Swing
    /\ loc' = [loc EXCEPT ![c].at = "archive"]
    /\ UNCHANGED <<wallet, pos, orders, ledgerPnl, armed, day>>

ArchiveFind(c) ==
    /\ loc[c].at = "idle" /\ wallet.funded
    /\ Open = {}
    /\ loc' = [loc EXCEPT ![c].at = "archive"]
    /\ UNCHANGED <<wallet, pos, orders, ledgerPnl, armed, day>>

ArchiveDisarm(c) ==
    /\ loc[c].at = "archive"
    /\ armed' = [armed EXCEPT !["swing_paper_auto"] = FALSE]
    /\ loc' = [loc EXCEPT ![c].at = "reset"]
    /\ UNCHANGED <<wallet, pos, orders, ledgerPnl, day>>

\* Mutant: the realised P&L survives the reset.
ArchiveReset_KeepPnl(c) ==
    /\ loc[c].at = "reset"
    /\ wallet' = [wallet EXCEPT !.cash = Opening, !.reserved = 0]
    /\ armed' = [armed EXCEPT !["paper_auto"] = FALSE]
    /\ ledgerPnl' = 0
    /\ Done(c)
    /\ UNCHANGED <<pos, orders, day>>

ArchiveReset(c) ==
    /\ loc[c].at = "reset"
    /\ wallet' = [wallet EXCEPT !.cash = Opening, !.reserved = 0, !.realized = 0]
    /\ armed' = [armed EXCEPT !["paper_auto"] = FALSE]
    /\ ledgerPnl' = 0
    /\ Done(c)
    /\ UNCHANGED <<pos, orders, day>>

-----------------------------------------------------------------------------
Operation(c) ==
    \/ EnsureFind(c) \/ EnsureCreate(c)
    \/ \E p \in Pos : CloseFind(c, p) \/ VoidFind(c, p)
    \/ \E p \in Pos, t \in Targets : PartialFind(c, p, t)
    \/ \E i \in Intraday \cup Swing, q \in Qtys, t \in Tags : OpenFind(c, i, q, t)
    \/ CloseRead(c) \/ CloseWrite(c)
    \/ Refind(c) \/ PartialRead(c) \/ PartialWrite(c)
    \/ OpenRead(c) \/ OpenWrite(c)
    \/ VoidRead(c) \/ VoidWrite(c)
    \/ ArchiveFind(c) \/ ArchiveDisarm(c) \/ ArchiveReset(c)
    \/ Fail(c)

Tick(c) == TickEnd(c) \/ \E s \in Sources : TickBegin(c, s)

Environment == NextDay \/ \E s \in Books, b \in BOOLEAN : Arm(s, b)

Next == Environment \/ \E c \in Callers : Tick(c) \/ Operation(c)

Spec == Init /\ [][Next]_vars

\* The same callers when no two operations overlap, as they would behind a
\* lock per wallet.  The code holds no such lock (the swing tick's Redis lock
\* covers swing ticks only), so this is an assumption on the load: one
\* operation at a time, ticks and requests still interleaved between them.
Quiet(c) == loc[c].at \in {"idle", "tick"}

SerialNext ==
    \/ Environment
    \/ \E c \in Callers :
          \/ Tick(c)
          \/ Operation(c) /\ \A d \in Callers \ {c} : Quiet(d)

SerialSpec == Init /\ [][SerialNext]_vars


-----------------------------------------------------------------------------
(* Properties that hold however the operations overlap. *)

\* A closed row never opens again: the stale partial or close that still
\* updates it by id does not name the status of an open row.
ClosedIsFinal ==
    [][\A p \in Pos : pos[p].status = "closed" => pos'[p].status = "closed"]_vars

\* T2 is only ever booked on a row whose T1 was booked, although both flags
\* are written from a copy of the row that may be stale.
T2NeedsT1 == \A p \in Pos : pos[p].t2 => pos[p].t1

\* "Repeat worker ticks cannot duplicate the same order": at most one row was
\* opened per client_order_id, whoever raced past the lookup.
OneRowPerOrder ==
    \A p, q \in Open \cup Closed : p # q => pos[p].key # pos[q].key

\* An open row always has shares left: a partial never flattens the row it
\* was computed from, even one another caller has already cut.
OpenHasShares == \A p \in Open : 0 < pos[p].qty /\ pos[p].qty <= pos[p].orig

-----------------------------------------------------------------------------
(* Properties of the serialised wallet. *)

\* Cash and reserve are the opening balance plus what was realised.
Reconciled ==
    wallet.funded => wallet.cash + wallet.reserved = Opening + wallet.realized

\* The reserve is the cost of what is open.
ReservedBacked ==
    wallet.reserved = SumFunctionOnSet([p \in Pos |-> Held(pos[p])], Open)

\* The append-only ledger explains the realised P&L of the period.
LedgerExplains == wallet.realized = ledgerPnl

\* One open row per swing symbol, one per intraday instrument and session.
OneOpenPerInstrument ==
    \A p, q \in Open :
       p # q /\ Inst(pos[p]) = Inst(pos[q])
          => Inst(pos[p]) \in Intraday /\ pos[p].key[2] # pos[q].key[2]

\* Every step is one atomic event of the account, or invisible to it.
Account == INSTANCE PaperAccount WITH
    funded   <- wallet.funded,
    cash     <- wallet.cash,
    reserved <- wallet.reserved,
    realized <- wallet.realized,
    held     <- [p \in Pos |-> Held(pos[p])]

AccountSpec == Account!AccountSpec

=============================================================================
