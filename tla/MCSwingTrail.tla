---------------------------- MODULE MCSwingTrail ----------------------------
EXTENDS SwingTrail, TLC

CONSTANTS a, b

MCRefreshers == {a, b}
Symmetry     == Permutations(MCRefreshers)
=============================================================================
