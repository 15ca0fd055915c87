----------------------------- MODULE MCPaperExit -----------------------------
EXTENDS PaperExit

CONSTANTS w, m

MCRequests == {m}

Old(low, high, isLate) == [low |-> low, high |-> high, late |-> isLate, today |-> FALSE]
New(p) == [low |-> p, high |-> p, late |-> FALSE, today |-> TRUE]

\* A day before that went through the levels, the last bar after the time stop; the
\* session has opened at the entry of a long.
MCCharts == {<<Old(2, 4, FALSE), Old(3, 3, TRUE), New(2)>>}
=============================================================================
