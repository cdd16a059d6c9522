----------------------------- MODULE SharedMath -----------------------------
(***************************************************************************)
(* packages/shared/src/math: what the web application and the indexer      *)
(* compute with.  The functions repeat the contracts' arithmetic in        *)
(* another language, at another scale and with roundings of their own.     *)
(* They throw on negative arguments; the web's views say when a total or a *)
(* debt below zero would be one (MarketReadable, PositionReadable), and no *)
(* other caller modelled here passes any.                                  *)
(***************************************************************************)
EXTENDS Integers

CONSTANTS BPS_DIVISOR,   \* 10_000 in the code
          TokenUnit      \* 10 to the 7 decimals of the token in the code

ASSUME SharedAssumption ==
    /\ BPS_DIVISOR \in Nat \ {0}
    /\ TokenUnit \in Nat \ {0}

mulDivDown(a, b, denominator) == (a * b) \div denominator

tokenAmountToUsd(amount, priceUsd) == mulDivDown(amount, priceUsd, TokenUnit)

applyBps(amount, bps) == mulDivDown(amount, bps, BPS_DIVISOR)

----------------------------------------------------------------------------
calculateUtilization(totalBorrowed, totalSupply) ==
    IF totalSupply = 0 THEN 0
    ELSE IF totalBorrowed >= totalSupply THEN BPS_DIVISOR
    ELSE mulDivDown(totalBorrowed, BPS_DIVISOR, totalSupply)

\* Mutant of calculateBorrowRate: the second slope starts at zero utilization.
calculateBorrowRateFromZero(utilizationBps, c) ==
    IF utilizationBps <= c.optimal_utilization_bps
    THEN c.base_rate_bps
           + (utilizationBps * c.slope_1_bps) \div c.optimal_utilization_bps
    ELSE c.base_rate_bps + c.slope_1_bps
           + (utilizationBps * c.slope_2_bps)
               \div (BPS_DIVISOR - c.optimal_utilization_bps)

\* A number, rounded down only at the end; as the other terms are whole the
\* quotient may be rounded by itself.
calculateBorrowRate(utilizationBps, c) ==
    IF utilizationBps <= c.optimal_utilization_bps
    THEN IF c.optimal_utilization_bps = 0 THEN c.base_rate_bps
         ELSE c.base_rate_bps
                + (utilizationBps * c.slope_1_bps) \div c.optimal_utilization_bps
    ELSE c.base_rate_bps + c.slope_1_bps
           + ((utilizationBps - c.optimal_utilization_bps) * c.slope_2_bps)
               \div (BPS_DIVISOR - c.optimal_utilization_bps)

\* One rounding at the end.
calculateSupplyRate(borrowRateBps, utilizationBps, reserveFactorBps) ==
    (borrowRateBps * utilizationBps * (BPS_DIVISOR - reserveFactorBps))
      \div (BPS_DIVISOR * BPS_DIVISOR)

----------------------------------------------------------------------------
\* Mutant of calculateBorrowCapacity: all of the collateral counts.
calculateBorrowCapacityAtFull(collateralValueUsd, maxLtvBps) == collateralValueUsd

calculateBorrowCapacity(collateralValueUsd, maxLtvBps) ==
    applyBps(collateralValueUsd, maxLtvBps)

\* 999_999 in the code, what stands for a health factor without a debt.
InfiniteBps == 100 * BPS_DIVISOR - 1

\* 10_000, 12_000 and 15_000 in the code.
StatusOf(hfBps) ==
    CASE hfBps < BPS_DIVISOR -> "liquidatable"
      [] BPS_DIVISOR <= hfBps /\ 5 * hfBps < 6 * BPS_DIVISOR -> "danger"
      [] 6 * BPS_DIVISOR <= 5 * hfBps /\ 2 * hfBps < 3 * BPS_DIVISOR -> "warning"
      [] OTHER -> "safe"

\* Mutant of calculateHealthFactor: the threshold is not applied.
calculateHealthFactorAtFull(collateralUsd, debtUsd, thresholdBps) ==
    IF debtUsd = 0
    THEN [basisPoints |-> InfiniteBps, status |-> "infinite"]
    ELSE LET hfBps == mulDivDown(collateralUsd, BPS_DIVISOR, debtUsd)
         IN  [basisPoints |-> hfBps, status |-> StatusOf(hfBps)]

\* No collateral is a health factor of zero, as the formula has it.
calculateHealthFactor(collateralUsd, debtUsd, thresholdBps) ==
    IF debtUsd = 0
    THEN [basisPoints |-> InfiniteBps, status |-> "infinite"]
    ELSE LET hfBps == mulDivDown(applyBps(collateralUsd, thresholdBps),
                                 BPS_DIVISOR, debtUsd)
         IN  [basisPoints |-> hfBps, status |-> StatusOf(hfBps)]

\* Mutant of seizedCollateralAmount: the bonus is left out.
seizedWithoutBonus(repayDebtAmount, priceUsd, liquidationBonusBps) ==
    mulDivDown(tokenAmountToUsd(repayDebtAmount, priceUsd), TokenUnit, priceUsd)

\* calculateLiquidationAmounts with one asset on both sides: the repayment is
\* valued, the bonus added to the value, and the value turned into tokens.
seizedCollateralAmount(repayDebtAmount, priceUsd, liquidationBonusBps) ==
    mulDivDown(applyBps(tokenAmountToUsd(repayDebtAmount, priceUsd),
                        BPS_DIVISOR + liquidationBonusBps),
               TokenUnit, priceUsd)
============================================================================
