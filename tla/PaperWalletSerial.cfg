\* The same callers with operations that do not overlap.
SPECIFICATION SerialSpec
CONSTANTS
    c1 = c1
    c2 = c2
    nifty50 = nifty50
    TCS = TCS
    Callers = {c1}
    Intraday <- MCIntraday
    Swing <- MCSwing
    Books = {"paper_auto", "swing_paper_auto"}
    MaxPos = 3
    Opening = 24
    Price = 4
    Qtys = {2}
    Moves = {1}
    Tags = {1}
    MaxOpen = 2
    KillLoss = 3
    MaxDay = 2
INVARIANTS
    Reconciled
    ReservedBacked
    LedgerExplains
    OneOpenPerInstrument
PROPERTY
    AccountSpec
