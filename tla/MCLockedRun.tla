----------------------------- MODULE MCLockedRun -----------------------------
(* An instance of LockedRun for TLC. *)
EXTENDS LockedRun

CONSTANTS t1, t2, s1, s2

MCTicks  == {t1, t2}
MCStarts == {s1, s2}

=============================================================================
