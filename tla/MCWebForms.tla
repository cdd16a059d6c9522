----------------------------- MODULE MCWebForms -----------------------------
(* The views and the forms on a small instance: one user with enough tokens *)
(* for every leg of the curve, and prices below and above one dollar that   *)
(* divide by neither scale.                                                 *)
EXTENDS WebForms

CONSTANT u1

MCEndowment == [u \in {u1} |-> 14]

\* 3% at rest, 10% at the kink, 29% when every token is lent.
MCCurve == [base_rate_bps |-> 3, optimal_utilization_bps |-> 80,
            slope_1_bps |-> 7, slope_2_bps |-> 19]

MCRates == {MCCurve}

MCMarketConfig == [rates |-> MCCurve, reserveFactorBps |-> 10, maxLtvBps |-> 75,
                   liquidationThresholdBps |-> 80, liquidationBonusBps |-> 60]

MCVaultConfigs == {[max_ltv_bps |-> 75, liquidation_threshold_bps |-> 80,
                    is_enabled |-> TRUE]}

MCEngineConfigs == {[liquidation_bonus_bps |-> 60, close_factor_bps |-> 50,
                     is_enabled |-> TRUE]}
============================================================================
