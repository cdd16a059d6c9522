----------------------------- MODULE MarketView -----------------------------
(***************************************************************************)
(* What the web application computes from what it reads: the market and    *)
(* the position refresh puts together with the functions of                *)
(* packages/shared and a configuration of its own, and what the pages say  *)
(* of them.  A refresh reads one state of the ledger here, so a view is a  *)
(* function of it; how its requests and answers interleave with everything *)
(* else is WebClient's subject.                                            *)
(***************************************************************************)
EXTENDS LumenLend, SharedMath

CONSTANT MarketConfig    \* DEFAULT_XLM_USDC_MARKET_CONFIG, what the views use

\* The contracts' price scale is a multiple of the token's unit: both are
\* powers of ten.  A whole is 10_000 basis points on both sides, and the
\* application's own limits are parts of it: 75% may be borrowed, and beyond
\* 80% a position is liquidatable.
ASSUME ViewAssumption ==
    /\ PRICE_SCALE % TokenUnit = 0
    /\ BPS_DIVISOR = BPS_SCALE
    /\ MarketConfig \in [rates : RateModelConfig, reserveFactorBps : 0..BPS_DIVISOR,
                         maxLtvBps : 0..BPS_DIVISOR,
                         liquidationThresholdBps : 0..BPS_DIVISOR,
                         liquidationBonusBps : Nat]
    /\ MarketConfig.maxLtvBps <= MarketConfig.liquidationThresholdBps

----------------------------------------------------------------------------
\* What refresh makes of the market; calculateUtilization throws on a total
\* below zero, and the read of a stale or missing price fails.
MarketReadable ==
    /\ market # NoMarket
    /\ market.total_borrowed >= 0
    /\ get_priceOK

MarketShown ==
    LET utilizationBps ==
            calculateUtilization(market.total_borrowed, market.total_supplied)
        borrowApyBps == calculateBorrowRate(utilizationBps, MarketConfig.rates)
    IN  [totalSupply    |-> market.total_supplied,
         totalBorrowed  |-> market.total_borrowed,
         priceUsd       |-> get_price,
         utilizationBps |-> utilizationBps,
         borrowApyBps   |-> borrowApyBps,
         supplyApyBps   |-> calculateSupplyRate(borrowApyBps, utilizationBps,
                                                MarketConfig.reserveFactorBps)]

\* tokenAmountToUsd throws on a debt below zero, and with it the refresh.
PositionReadable(user) == current_debt(user) >= 0

\* What it makes of a position: the debt is the stored principal, and the
\* limits are those of the application's configuration.
PositionShown(user) ==
    LET collateralValueUsd == tokenAmountToUsd(collateral[user], get_price)
        borrowedValueUsd   == tokenAmountToUsd(current_debt(user), get_price)
        borrowCapacityUsd  ==
            calculateBorrowCapacity(collateralValueUsd, MarketConfig.maxLtvBps)
        hf == calculateHealthFactor(collateralValueUsd, borrowedValueUsd,
                                    MarketConfig.liquidationThresholdBps)
    IN  [suppliedAmount       |-> SharesOf(user),
         borrowedAmount       |-> current_debt(user),
         collateralAmount     |-> collateral[user],
         collateralValueUsd   |-> collateralValueUsd,
         borrowedValueUsd     |-> borrowedValueUsd,
         borrowCapacityUsd    |-> borrowCapacityUsd,
         availableToBorrowUsd |->
            IF borrowCapacityUsd > borrowedValueUsd
            THEN borrowCapacityUsd - borrowedValueUsd ELSE 0,
         healthFactorBps      |-> hf.basisPoints,
         healthFactorStatus   |-> hf.status]

\* What the provider holds for a connected account: market.state and
\* userPosition.
refresh(user) ==
    [market |-> MarketShown, position |-> PositionShown(user)]

----------------------------------------------------------------------------
\* The market card's bar turns red above 80%, whatever the curve.
BarIsRed(shown) == 5 * shown.utilizationBps > 4 * BPS_DIVISOR

\* The badge of the position summary, from the score in basis points; a
\* position without a debt has an infinite score.
SummaryBadge(p) ==
    CASE p.borrowedAmount = 0 \/ 2 * p.healthFactorBps >= 3 * BPS_DIVISOR -> "Healthy"
      [] p.borrowedAmount > 0 /\ p.healthFactorBps < BPS_DIVISOR -> "Liquidatable"
      [] OTHER -> "Caution"

\* The gauge takes the status it is given and otherwise judges by the score,
\* where 99 and more stands for no debt.
GaugeStatus(hfBps, given) ==
    CASE given # "none" -> given
      [] given = "none" /\ hfBps >= 99 * BPS_DIVISOR -> "infinite"
      [] given = "none" /\ hfBps < BPS_DIVISOR -> "liquidatable"
      [] given = "none" /\ BPS_DIVISOR <= hfBps /\ 2 * hfBps < 3 * BPS_DIVISOR -> "warning"
      [] OTHER -> "safe"

\* What the application's displays of one position say of its health: the
\* summary's figure and badge, its gauge, and the gauge of the borrow form,
\* which is given the score alone.
SaidLiquidatable(p) ==
    {p.healthFactorStatus = "liquidatable",
     SummaryBadge(p) = "Liquidatable",
     GaugeStatus(p.healthFactorBps, p.healthFactorStatus) = "liquidatable",
     GaugeStatus(p.healthFactorBps, "none") = "liquidatable"}

----------------------------------------------------------------------------
\* The rates shown are those the contracts charge and pay, while the curve set
\* at initialisation is the application's: two implementations, one of which
\* rounds the gross supply rate and then the net one, so that it may pay one
\* basis point less than shown.  The bar, whose limit is written into the
\* page, is red where the second slope applies if the kink is at 80%.
ShownRatesAreTheContracts ==
    MarketReadable /\ rate_config = MarketConfig.rates =>
        LET shown    == MarketShown
            borrowed == market.total_borrowed
            supplied == market.total_supplied
            kink     == rate_config.optimal_utilization_bps
        IN  /\ shown.utilizationBps = get_utilization(borrowed, supplied)
            /\ shown.borrowApyBps = get_borrow_rate(borrowed, supplied)
            /\ shown.supplyApyBps
                 - get_supply_rate(borrowed, supplied,
                                   MarketConfig.reserveFactorBps) \in 0..1
            /\ 5 * kink = 4 * BPS_SCALE =>
                 BarIsRed(shown) = (get_utilization(borrowed, supplied) > kink)

\* One unit of the vault's values, which are coarser than the application's.
VaultUnitUsd == PRICE_SCALE \div TokenUnit

\* The application's risk limits are a copy; nothing ties them to the vault's.
LimitsAgree ==
    /\ vault_config # NoVaultConfig
    /\ vault_config.max_ltv_bps = MarketConfig.maxLtvBps
    /\ vault_config.liquidation_threshold_bps
         = MarketConfig.liquidationThresholdBps

\* Each display of a position says it is liquidatable when the engine would
\* take it, except within one unit of the vault's values of the threshold: the
\* two sides round the same quotient at different places and scales.  The
\* engine takes nothing it cannot value in the width of its integers.
ShownHealthAgrees ==
    MarketReadable /\ LimitsAgree =>
        \A user \in Users :
            LET p == PositionShown(user)
            IN  /\ PositionReadable(user) /\ ValuesFit(user)
                /\ SaidLiquidatable(p) # {is_liquidatable(user)}
                => Abs(p.collateralValueUsd * MarketConfig.liquidationThresholdBps
                         - p.borrowedValueUsd * BPS_DIVISOR)
                     < VaultUnitUsd * BPS_DIVISOR
============================================================================
