------------------------------ MODULE MCAutoScan ------------------------------
(* Instances of AutoScan for TLC. *)
EXTENDS AutoScan

CONSTANTS c1, c2, r1, j1, j2

OneCaller  == {c1}
TwoCallers == {c1, c2}
OneReader  == {r1}
OneJob     == {j1}
TwoJobs    == {j1, j2}

===============================================================================
