\* Two callers whose operations overlap at every await, on two rows of three
\* shares: T2 leaves a runner or empties the row, by the profile.
SPECIFICATION Spec
CONSTANTS
    c1 = c1
    c2 = c2
    nifty50 = nifty50
    TCS = TCS
    Callers <- MCCallers
    Intraday <- MCIntraday
    Swing = {}
    Books = {"paper_auto"}
    MaxPos = 2
    Opening = 3
    Price = 1
    Qtys = {3}
    Moves <- RaceMoves
    Tags = {1, 2}
    MaxOpen = 1
    KillLoss = 3
    MaxDay = 1
SYMMETRY CallerSymmetry
INVARIANTS
    TypeOK
    OneRowPerOrder
    T2NeedsT1
    OpenHasShares
PROPERTIES
    ClosedIsFinal
