---------------------------- MODULE PaperAccount ----------------------------
(***************************************************************************)
(* What the paper wallet promises its user, one atomic step per accounting *)
(* event: an account of cash, reserved cash and realised P&L, and for      *)
(* every position row the part of the reserve that it holds.  The amounts  *)
(* of a step are read off the state it leads to, so that each action is a  *)
(* law relating two states: what a fill, a sale, a reversal or a reset may *)
(* do to the account and to nothing else.                                  *)
(*                                                                         *)
(* PaperWallet splits each event into a read outside a transaction, a read *)
(* inside it and a write; it implements this account when the operations   *)
(* on one wallet do not overlap.                                           *)
(***************************************************************************)
EXTENDS Integers

CONSTANTS Pos,      \* the rows a position can occupy
          Opening   \* rupees an account is funded with

VARIABLES funded, cash, reserved, realized, held

avars == <<funded, cash, reserved, realized, held>>

AccountInit ==
    /\ funded = FALSE
    /\ cash = 0 /\ reserved = 0 /\ realized = 0
    /\ held = [p \in Pos |-> 0]

\* The account is seeded once.
Fund ==
    /\ ~funded /\ funded'
    /\ cash' = Opening /\ reserved' = 0 /\ realized' = 0
    /\ UNCHANGED held

\* A fill moves its notional from cash to the reserve of one idle row.
Buy(p) ==
    LET notional == held'[p] IN
    /\ funded /\ held[p] = 0 /\ 0 < notional /\ notional <= cash
    /\ cash' = cash - notional
    /\ reserved' = reserved + notional
    /\ held' = [held EXCEPT ![p] = notional]
    /\ UNCHANGED <<funded, realized>>

\* A sale of part or all of a position releases the cost of what was sold
\* and books its net result.
Sell(p) ==
    LET cost == held[p] - held'[p]
        net  == realized' - realized
    IN  /\ funded /\ 0 < cost /\ cost <= held[p]
        /\ cash' = cash + cost + net
        /\ reserved' = reserved - cost
        /\ held' = [held EXCEPT ![p] = held[p] - cost]
        /\ UNCHANGED funded

\* The result of a close that must not stand is taken back.
Reverse ==
    /\ funded
    /\ cash' - cash = realized' - realized
    /\ UNCHANGED <<funded, reserved, held>>

\* A new evaluation period starts from the opening balance with a flat book.
Reset ==
    /\ funded /\ \A p \in Pos : held[p] = 0
    /\ cash' = Opening /\ reserved' = 0 /\ realized' = 0
    /\ UNCHANGED <<funded, held>>

AccountNext ==
    \/ Fund
    \/ \E p \in Pos : Buy(p) \/ Sell(p)
    \/ Reverse
    \/ Reset

AccountSpec == AccountInit /\ [][AccountNext]_avars

=============================================================================
