--------------------------- MODULE MCLendingPool ---------------------------
(* The pool by itself, on small instances. *)
EXTENDS LendingPool

CONSTANTS u1, u2

MCEndowment == [u \in {u1, u2} |-> IF u = u1 THEN 2 ELSE 1]

\* 50% at rest, 70% at the kink, 120% when every token is lent; BPS_SCALE = 10.
MCRates == {[base_rate_bps |-> 5, optimal_utilization_bps |-> 8,
             slope_1_bps |-> 2, slope_2_bps |-> 5]}

MCAmounts == {-1, 0, 1, 2}
============================================================================
