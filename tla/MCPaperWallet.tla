--------------------------- MODULE MCPaperWallet ---------------------------
(* Small instances of PaperWallet for TLC. *)
EXTENDS PaperWallet, TLC

CONSTANTS c1, c2, nifty50, TCS

MCCallers  == {c1, c2}
MCIntraday == {nifty50}
MCSwing    == {TCS}
RaceMoves   == {0}
SerialMoves == {-2, 1}
CallerSymmetry == Permutations(Callers)

=============================================================================
