\* Two overlapping refreshes of one row of either book, with a bad tick: what a
\* refresh stores never forces a later exit.
SPECIFICATION Spec
CONSTANTS
    a = a
    b = b
    Refreshers <- MCRefreshers
    Books       = {"journal", "paper"}
    Prices      = {10000, 10040, 10240, 10640}
    BadTicks    = {11500}
    Ema9Trails  = {10020}
    HardStops   = {9725}
    Structurals = {0}
    Regimes     = {"bear"}
    Targets     = {400, 825}
    Edits       = {825}
SYMMETRY Symmetry
INVARIANTS VerdictForgets StopFitsPeak EvidenceKeepsPartials
PROPERTIES HighWaterHeals
CHECK_DEADLOCK FALSE
