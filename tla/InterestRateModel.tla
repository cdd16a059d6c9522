------------------------- MODULE InterestRateModel -------------------------
(***************************************************************************)
(* contracts/interest-rate-model: the kinked rate curve.  Its storage is   *)
(* the configuration that initialize sets once; everything else is a pure  *)
(* function.  Each function f has a companion fOK, true when none of the   *)
(* checked operations on its path overflows: the call that needs f fails   *)
(* otherwise.                                                              *)
(***************************************************************************)
EXTENDS Soroban

CONSTANTS BPS_SCALE,    \* 10_000 in the code
          RateConfigs,  \* configurations initialize may be called with
          NoConfig

RateModelConfig == [base_rate_bps : Nat, optimal_utilization_bps : Nat,
                    slope_1_bps : Nat, slope_2_bps : Nat]

ASSUME RateAssumption ==
    /\ BPS_SCALE \in 1..I128Max
    /\ RateConfigs \subseteq RateModelConfig
    /\ NoConfig \notin RateModelConfig

VARIABLE rate_config

RateTypeOK == rate_config \in RateModelConfig \cup {NoConfig}

RateInit == rate_config = NoConfig

\* initialize refuses a curve with a denominator of 0.
RateConfigOK(config) ==
    /\ config.optimal_utilization_bps # 0
    /\ config.optimal_utilization_bps < BPS_SCALE

RateInitialize(config) ==
    /\ rate_config = NoConfig
    /\ RateConfigOK(config)
    /\ rate_config' = config
    /\ UNCHANGED host_vars

----------------------------------------------------------------------------
get_utilizationOK(borrowed, supplied) ==
    supplied # 0 /\ borrowed < supplied => Fits(borrowed * BPS_SCALE)

get_utilization(borrowed, supplied) ==
    IF supplied = 0 THEN 0
    ELSE IF borrowed >= supplied THEN BPS_SCALE
    ELSE Quot(borrowed * BPS_SCALE, supplied)

\* Base + (U / Optimal) * Slope1
RateBelowKink(c, u) ==
    c.base_rate_bps + Quot(u * c.slope_1_bps, c.optimal_utilization_bps)

\* Base + Slope1 + ((U - Optimal) / (100% - Optimal)) * Slope2
RateAboveKink(c, u) ==
    c.base_rate_bps + c.slope_1_bps
      + Quot((u - c.optimal_utilization_bps) * c.slope_2_bps,
             BPS_SCALE - c.optimal_utilization_bps)

get_borrow_rateOK(borrowed, supplied) ==
    LET c == rate_config
        u == get_utilization(borrowed, supplied)
    IN  /\ c # NoConfig
        /\ get_utilizationOK(borrowed, supplied)
        /\ IF u <= c.optimal_utilization_bps
           THEN /\ Fits(u * c.slope_1_bps)
                /\ Fits(RateBelowKink(c, u))
           ELSE /\ Fits((u - c.optimal_utilization_bps) * c.slope_2_bps)
                /\ Fits(c.base_rate_bps + c.slope_1_bps)
                /\ Fits(RateAboveKink(c, u))

get_borrow_rate(borrowed, supplied) ==
    LET u == get_utilization(borrowed, supplied)
    IN  IF u <= rate_config.optimal_utilization_bps
        THEN RateBelowKink(rate_config, u)
        ELSE RateAboveKink(rate_config, u)

\* What a supplier earns: the borrow rate on the part lent, less the reserve
\* factor.  No contract calls it.
GrossSupplyRate(borrowed, supplied) ==
    Quot(get_borrow_rate(borrowed, supplied) * get_utilization(borrowed, supplied),
         BPS_SCALE)

get_supply_rate(borrowed, supplied, reserve_factor_bps) ==
    Quot(GrossSupplyRate(borrowed, supplied) * (BPS_SCALE - reserve_factor_bps),
         BPS_SCALE)
============================================================================
