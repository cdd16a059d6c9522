---------------------------- MODULE MCLumenLend ----------------------------
(* The protocol on small instances: u1 lends, u2 pledges and borrows, and   *)
(* either may do anything else.                                             *)
EXTENDS LumenLend

CONSTANTS u1, u2

MCEndowment == [u \in {u1, u2} |-> IF u = u1 THEN 2 ELSE 3]

MCSoloEndowment == [u \in {u1} |-> 5]

\* A flat 50% per unit of time.
MCRates == {[base_rate_bps |-> 50, optimal_utilization_bps |-> 80,
             slope_1_bps |-> 0, slope_2_bps |-> 0]}

MCVaultConfigs == {[max_ltv_bps |-> 75, liquidation_threshold_bps |-> 80,
                    is_enabled |-> TRUE]}

MCEngineConfigs == {[liquidation_bonus_bps |-> 100, close_factor_bps |-> 50,
                     is_enabled |-> TRUE]}
============================================================================
