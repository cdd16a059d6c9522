------------------------ MODULE MCDocumentedClaims ------------------------
(* Instances for the claims; the numbers are those of init-testnet.sh where *)
(* TLC's integers allow.                                                    *)
EXTENDS DocumentedClaims

CONSTANTS u1, u2

\* u2 pledges; u1 lends.
MCEndowment == [u \in {u1, u2} |-> IF u = u1 THEN 3 ELSE 5]

\* One lender with enough to keep the utilization low.
MCDeepEndowment == [u \in {u1, u2} |-> IF u = u1 THEN 10 ELSE 2]

\* scripts/init-testnet.sh: 2%, 80%, 5%, 50%.
MCScriptRates == {[base_rate_bps |-> 200, optimal_utilization_bps |-> 8000,
                   slope_1_bps |-> 500, slope_2_bps |-> 5000]}

\* A rate that shows within one unit of time.
MCSteepRates == {[base_rate_bps |-> 10000, optimal_utilization_bps |-> 8000,
                  slope_1_bps |-> 0, slope_2_bps |-> 0]}

MCVaultConfigs == {[max_ltv_bps |-> 7500, liquidation_threshold_bps |-> 8000,
                    is_enabled |-> TRUE]}

MCEngineConfigs == {[liquidation_bonus_bps |-> 500, close_factor_bps |-> 5000,
                     is_enabled |-> TRUE]}
============================================================================
