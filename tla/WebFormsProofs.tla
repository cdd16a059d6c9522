--------------------------- MODULE WebFormsProofs ---------------------------
(***************************************************************************)
(* What the web application shows and accepts, against the contracts, for  *)
(* every price, configuration, scale and width of the integers.  A view is *)
(* a function of the state, so the invariants are those of the protocol;   *)
(* the rest is the arithmetic of two implementations that round the same   *)
(* quotients at different places and scales.                               *)
(***************************************************************************)
EXTENDS WebForms, HealthProofs

----------------------------------------------------------------------------
(* Quotients.                                                               *)

\* Both languages divide alike where nothing is negative.
LEMMA QuotIsDiv ==
    ASSUME NEW a \in Nat, NEW b \in Nat \ {0}
    PROVE  Quot(a, b) = a \div b
BY DEF Quot, Abs

LEMMA DivBounds ==
    ASSUME NEW a \in Nat, NEW b \in Nat \ {0}
    PROVE  a \div b \in Nat /\ (a \div b) * b <= a /\ a < (a \div b + 1) * b
BY SMTT(30)

LEMMA ProductNat ==
    ASSUME NEW a \in Nat, NEW b \in Nat
    PROVE  a * b \in Nat
BY SMTT(30)

LEMMA Regrouped ==
    ASSUME NEW a \in Int, NEW b \in Int, NEW c \in Int
    PROVE  a * (b * c) = (a * c) * b
BY SMTT(30)

\* What a quotient is below.
LEMMA DivBelow ==
    ASSUME NEW a \in Nat, NEW b \in Nat \ {0}, NEW n \in Nat
    PROVE  a \div b < n <=> a < n * b
<1> DEFINE q == a \div b
<1>1. q \in Nat /\ q * b <= a /\ a < (q + 1) * b
  BY DivBounds
<1> HIDE DEF q
<1>2. q * b \in Nat /\ (q + 1) * b \in Nat /\ n * b \in Nat
  BY <1>1, ProductNat
<1>3. ASSUME q < n PROVE a < n * b
  <2>1. (q + 1) * b <= n * b
    BY <1>1, <1>3, Multiplied
  <2> QED
    BY <1>1, <1>2, <2>1
<1>4. ASSUME n <= q PROVE n * b <= a
  <2>1. n * b <= q * b
    BY <1>1, <1>4, Multiplied
  <2> QED
    BY <1>1, <1>2, <2>1
<1>5. q < n <=> a < n * b
  BY <1>1, <1>2, <1>3, <1>4
<1> QED
  BY <1>5 DEF q

LEMMA DivMonotone ==
    ASSUME NEW a \in Nat, NEW c \in Nat, NEW b \in Nat \ {0}, a <= c
    PROVE  a \div b <= c \div b
<1> DEFINE q == c \div b
<1>1. q \in Nat /\ c < (q + 1) * b /\ (q + 1) * b \in Nat
  BY DivBounds, ProductNat
<1> HIDE DEF q
<1>2. a < (q + 1) * b
  BY <1>1
<1>3. a \div b < q + 1
  BY <1>1, <1>2, DivBelow
<1>4. a \div b \in Nat
  BY DivBounds
<1>5. a \div b <= q
  BY <1>1, <1>3, <1>4
<1> QED
  BY <1>5 DEF q

\* A quotient is at least what fits into the dividend.
LEMMA DivAtLeast ==
    ASSUME NEW a \in Nat, NEW b \in Nat \ {0}, NEW n \in Nat, n * b <= a
    PROVE  n <= a \div b
<1>1. ~(a < n * b)
  BY ProductNat
<1>2. a \div b \in Nat
  BY DivBounds
<1> QED
  BY <1>1, <1>2, DivBelow

\* The same value at a scale and at one k times coarser.
LEMMA CoarserBounds ==
    ASSUME NEW n \in Nat, NEW unit \in Nat \ {0}, NEW k \in Nat \ {0},
           NEW fine \in Nat, fine * unit <= n, n < (fine + 1) * unit,
           NEW coarse \in Nat, coarse * (unit * k) <= n, n < (coarse + 1) * (unit * k)
    PROVE  coarse * k <= fine /\ fine < (coarse + 1) * k
<1>1. coarse * (unit * k) = (coarse * k) * unit
  BY Regrouped
<1>2. (coarse + 1) * (unit * k) = ((coarse + 1) * k) * unit
  BY Regrouped
<1>3. /\ coarse * k \in Nat /\ (coarse + 1) * k \in Nat
      /\ fine * unit \in Nat /\ (fine + 1) * unit \in Nat
  BY ProductNat
<1>4. (coarse * k) * unit \in Nat /\ ((coarse + 1) * k) * unit \in Nat
  BY <1>3, ProductNat
<1>5. coarse * k < fine + 1
  <2>1. (coarse * k) * unit < (fine + 1) * unit
    BY <1>1, <1>3, <1>4
  <2> QED
    BY <1>3, <2>1, Cancelled
<1>6. fine < (coarse + 1) * k
  <2>1. fine * unit < ((coarse + 1) * k) * unit
    BY <1>2, <1>3, <1>4
  <2> QED
    BY <1>3, <2>1, Cancelled
<1> QED
  BY <1>3, <1>5, <1>6

LEMMA Coarser ==
    ASSUME NEW n \in Nat, NEW unit \in Nat \ {0}, NEW k \in Nat \ {0}
    PROVE  /\ n \div unit \in Nat /\ n \div (unit * k) \in Nat
           /\ (n \div (unit * k)) * k <= n \div unit
           /\ n \div unit < (n \div (unit * k) + 1) * k
<1> DEFINE fine == n \div unit
           coarse == n \div (unit * k)
<1>1. unit * k \in Nat \ {0}
  BY SMTT(30)
<1>2. /\ fine \in Nat /\ fine * unit <= n /\ n < (fine + 1) * unit
      /\ coarse \in Nat /\ coarse * (unit * k) <= n /\ n < (coarse + 1) * (unit * k)
  BY <1>1, DivBounds
<1> HIDE DEF fine, coarse
<1>3. coarse * k <= fine /\ fine < (coarse + 1) * k
  BY <1>2, CoarserBounds
<1> QED
  BY <1>2, <1>3 DEF fine, coarse

----------------------------------------------------------------------------
(* Scales.                                                                  *)

\* The vault's unit of value, in units of the application's.
LEMMA Scales ==
    /\ BPS_DIVISOR \in Nat \ {0} /\ BPS_DIVISOR = BPS_SCALE
    /\ TokenUnit \in Nat \ {0} /\ PRICE_SCALE \in Nat \ {0}
    /\ VaultUnitUsd \in Nat \ {0}
    /\ PRICE_SCALE = TokenUnit * VaultUnitUsd
    /\ MarketConfig.maxLtvBps \in 0..BPS_DIVISOR
    /\ MarketConfig.liquidationThresholdBps \in 0..BPS_DIVISOR
    /\ MarketConfig.reserveFactorBps \in 0..BPS_DIVISOR
    /\ MarketConfig.liquidationBonusBps \in Nat
    /\ MarketConfig.rates \in RateModelConfig
    /\ MarketConfig.rates # NoConfig
<1>1. /\ BPS_DIVISOR \in Nat \ {0} /\ BPS_DIVISOR = BPS_SCALE
      /\ TokenUnit \in Nat \ {0} /\ PRICE_SCALE \in Nat \ {0}
      /\ PRICE_SCALE % TokenUnit = 0
  BY SharedAssumption, ViewAssumption, VaultAssumption
<1>2. PRICE_SCALE = TokenUnit * VaultUnitUsd /\ VaultUnitUsd \in Nat
  <2>1. \A a \in Nat : \A b \in Nat \ {0} : a % b = 0 => a = b * (a \div b) /\ a \div b \in Nat
    BY SMTT(30)
  <2> QED
    BY <1>1, <2>1 DEF VaultUnitUsd
<1>3. VaultUnitUsd # 0
  BY <1>1, <1>2
<1> QED
  BY <1>1, <1>2, <1>3, ViewAssumption, RateAssumption

\* A value shown and the vault's.
LEMMA ValuesShown ==
    ASSUME TypeInv, get_priceOK, NEW amount \in Nat
    PROVE  LET fine   == tokenAmountToUsd(amount, get_price)
               coarse == asset_value_usd(amount)
           IN  /\ get_price \in Nat \ {0}
               /\ fine \in Nat /\ coarse \in Nat
               /\ coarse * VaultUnitUsd <= fine
               /\ fine < (coarse + 1) * VaultUnitUsd
<1>1. get_price \in Nat \ {0}
  BY DEF TypeInv, OracleTypeOK, get_priceOK, get_price, PriceRecord
<1>2. amount * get_price \in Nat
  BY <1>1, ProductNat
<1>3. asset_value_usd(amount) = (amount * get_price) \div (TokenUnit * VaultUnitUsd)
  <2>1. CASE amount = 0
    <3>1. amount * get_price = 0
      BY <1>1, <2>1
    <3>2. TokenUnit * VaultUnitUsd \in Nat \ {0}
      BY Scales
    <3>3. 0 \div (TokenUnit * VaultUnitUsd) = 0
      BY <3>2, SMTT(30)
    <3> QED
      BY <2>1, <3>1, <3>3 DEF asset_value_usd
  <2>2. CASE amount # 0
    <3>1. asset_value_usd(amount) = Quot(amount * get_price, PRICE_SCALE)
      BY <2>2 DEF asset_value_usd
    <3> QED
      BY <1>2, <3>1, Scales, QuotIsDiv
  <2> QED
    BY <2>1, <2>2
<1>4. tokenAmountToUsd(amount, get_price) = (amount * get_price) \div TokenUnit
  BY DEF tokenAmountToUsd, mulDivDown
<1> QED
  BY <1>1, <1>2, <1>3, <1>4, Scales, Coarser
----------------------------------------------------------------------------
(* The rates.                                                               *)

LEMMA UtilizationShown ==
    ASSUME NEW borrowed \in Nat, NEW supplied \in Nat
    PROVE  /\ calculateUtilization(borrowed, supplied) = get_utilization(borrowed, supplied)
           /\ get_utilization(borrowed, supplied) \in Nat
<1>1. CASE supplied = 0 \/ borrowed >= supplied
  BY <1>1, Scales DEF calculateUtilization, get_utilization
<1>2. CASE supplied # 0 /\ borrowed < supplied
  <2>1. borrowed * BPS_SCALE \in Nat /\ supplied \in Nat \ {0}
    BY <1>2, Scales, ProductNat
  <2>2. /\ Quot(borrowed * BPS_SCALE, supplied) = (borrowed * BPS_SCALE) \div supplied
        /\ Quot(borrowed * BPS_SCALE, supplied) \in Nat
    BY <2>1, QuotIsDiv, QuotNonNegative
  <2> QED
    BY <1>2, <2>2, Scales DEF calculateUtilization, get_utilization, mulDivDown
<1> QED
  BY <1>1, <1>2

LEMMA BorrowRateShown ==
    ASSUME RateTypeOK, RateValid, rate_config # NoConfig,
           NEW borrowed \in Nat, NEW supplied \in Nat
    PROVE  calculateBorrowRate(get_utilization(borrowed, supplied), rate_config)
             = get_borrow_rate(borrowed, supplied)
<1> DEFINE u == get_utilization(borrowed, supplied)
           c == rate_config
<1>1. /\ c.base_rate_bps \in Nat
      /\ c.optimal_utilization_bps \in Nat \ {0}
      /\ c.slope_1_bps \in Nat
      /\ c.slope_2_bps \in Nat
      /\ BPS_SCALE - c.optimal_utilization_bps \in Nat \ {0}
  BY RateAssumption DEF RateTypeOK, RateValid, RateConfigOK, RateModelConfig
<1>2. u \in Nat
  BY UtilizationShown
<1>3. CASE u <= c.optimal_utilization_bps
  <2>1. u * c.slope_1_bps \in Nat
    BY <1>1, <1>2, ProductNat
  <2>2. Quot(u * c.slope_1_bps, c.optimal_utilization_bps)
          = (u * c.slope_1_bps) \div c.optimal_utilization_bps
    BY <1>1, <2>1, QuotIsDiv
  <2> QED
    BY <1>1, <1>3, <2>2 DEF calculateBorrowRate, get_borrow_rate, RateBelowKink
<1>4. CASE ~(u <= c.optimal_utilization_bps)
  <2>1. u - c.optimal_utilization_bps \in Nat
    BY <1>1, <1>2, <1>4
  <2>2. (u - c.optimal_utilization_bps) * c.slope_2_bps \in Nat
    BY <1>1, <2>1, ProductNat
  <2>3. Quot((u - c.optimal_utilization_bps) * c.slope_2_bps,
             BPS_SCALE - c.optimal_utilization_bps)
          = ((u - c.optimal_utilization_bps) * c.slope_2_bps)
              \div (BPS_SCALE - c.optimal_utilization_bps)
    BY <1>1, <2>2, QuotIsDiv
  <2> QED
    BY <1>4, <2>3, Scales DEF calculateBorrowRate, get_borrow_rate, RateAboveKink
<1> QED
  BY <1>3, <1>4

\* A product reduced by F of D parts at once or after it was divided by D.
LEMMA DividedTwice ==
    ASSUME NEW n \in Nat, NEW D \in Nat \ {0}, NEW F \in 0..D,
           NEW g \in Nat, g * D <= n, n < (g + 1) * D,
           NEW net \in Nat, net * D <= g * F, g * F < (net + 1) * D
    PROVE  net * (D * D) <= n * F /\ n * F < (net + 2) * (D * D)
<1>1. F \in Nat /\ F <= D
  OBVIOUS
<1>2. /\ g * F \in Nat /\ g * D \in Nat /\ net * D \in Nat /\ n * F \in Nat
      /\ D * D \in Nat /\ D * F \in Nat /\ (g + 1) * D \in Nat /\ (net + 1) * D \in Nat
  BY <1>1, ProductNat
<1>3. net * (D * D) <= n * F
  <2>1. (net * D) * D <= (g * F) * D
    BY <1>2, Multiplied
  <2>2. (g * D) * F <= n * F
    BY <1>1, <1>2, Multiplied
  <2>3. (net * D) * D = net * (D * D) /\ (g * F) * D = (g * D) * F
    BY <1>1, SMTT(30)
  <2> QED
    BY <1>2, <2>1, <2>2, <2>3, ProductNat
<1>4. n * F < (net + 2) * (D * D)
  <2>1. n * F <= ((g + 1) * D) * F
    BY <1>1, <1>2, Multiplied
  <2>2. ((g + 1) * D) * F = (g * F) * D + D * F
    BY <1>1, SMTT(30)
  <2>3. (g * F) * D < ((net + 1) * D) * D
    BY <1>2, MultipliedStrictly
  <2>4. F * D <= D * D
    BY <1>1, Multiplied
  <2>5. F * D = D * F /\ ((net + 1) * D) * D + D * D = (net + 2) * (D * D)
    BY <1>1, SMTT(30)
  <2>6. (g * F) * D \in Nat /\ ((net + 1) * D) * D \in Nat /\ ((g + 1) * D) * F \in Nat
    BY <1>1, <1>2, ProductNat
  <2> QED
    BY <1>2, <2>1, <2>2, <2>3, <2>4, <2>5, <2>6
<1> QED
  BY <1>3, <1>4

LEMMA SupplyRateShown ==
    ASSUME NEW rate \in Nat, NEW u \in Nat, NEW f \in 0..BPS_DIVISOR
    PROVE  calculateSupplyRate(rate, u, f)
             - Quot(Quot(rate * u, BPS_SCALE) * (BPS_SCALE - f), BPS_SCALE) \in 0..1
<1> DEFINE n == rate * u
           D == BPS_DIVISOR
           F == BPS_DIVISOR - f
           g == n \div D
           net == (g * F) \div D
           shown == (n * F) \div (D * D)
<1>1. /\ D \in Nat \ {0} /\ F \in 0..D /\ F \in Nat /\ n \in Nat
      /\ D * D \in Nat /\ D * D # 0
  BY Scales, ProductNat, SMTT(30)
<1>2. g \in Nat /\ g * D <= n /\ n < (g + 1) * D
  BY <1>1, DivBounds
<1>3. g * F \in Nat /\ n * F \in Nat
  BY <1>1, <1>2, ProductNat
<1>4. net \in Nat /\ net * D <= g * F /\ g * F < (net + 1) * D
  BY <1>1, <1>3, DivBounds
<1>5. /\ calculateSupplyRate(rate, u, f) = shown
      /\ Quot(Quot(rate * u, BPS_SCALE) * (BPS_SCALE - f), BPS_SCALE) = net
  <2>1. Quot(rate * u, BPS_SCALE) = g
    BY <1>1, Scales, QuotIsDiv
  <2>2. Quot(g * F, D) = net
    BY <1>1, <1>3, QuotIsDiv
  <2> QED
    BY <2>1, <2>2, Scales DEF calculateSupplyRate
<1> HIDE DEF n, D, F, g, net
<1>6. net * (D * D) <= n * F /\ n * F < (net + 2) * (D * D)
  BY <1>1, <1>2, <1>4, DividedTwice
<1> DEFINE E == D * D
<1>7. E \in Nat \ {0} /\ net + 2 \in Nat /\ shown = (n * F) \div E
  BY <1>1, <1>4
<1> HIDE DEF shown
<1>8. net * E <= n * F /\ n * F < (net + 2) * E
  BY <1>6
<1> HIDE DEF E
<1>9. (n * F) \div E \in Nat
  BY <1>3, <1>7, DivBounds
<1>10. net <= shown
  BY <1>3, <1>4, <1>7, <1>8, DivAtLeast
<1>11. (n * F) \div E < net + 2
  BY <1>3, <1>7, <1>8, DivBelow
<1> QED
  BY <1>4, <1>5, <1>7, <1>9, <1>10, <1>11

\* In a typed state of a solvent pool the rates agree.
LEMMA RatesAgree ==
    ASSUME TypeInv, Solvency
    PROVE  ShownRatesAreTheContracts
<1> SUFFICES ASSUME MarketReadable, rate_config = MarketConfig.rates
             PROVE  ShownRatesAreTheContracts
  BY DEF ShownRatesAreTheContracts
<1> DEFINE b == market.total_borrowed
           s == market.total_supplied
           u == get_utilization(b, s)
           r == get_borrow_rate(b, s)
           f == MarketConfig.reserveFactorBps
<1>1. b \in Nat /\ s \in Nat
  <2>1. market \in MarketState /\ b >= 0 /\ b <= s
    BY DEF MarketReadable, Solvency, TypeInv, PoolTypeInv, PoolTypeOK
  <2> QED
    BY <2>1 DEF MarketState
<1>2. RateTypeOK /\ RateValid /\ rate_config # NoConfig
  BY Scales DEF TypeInv, PoolTypeInv
<1>3. calculateUtilization(b, s) = u /\ u \in Nat
  BY <1>1, UtilizationShown
<1>4. calculateBorrowRate(u, MarketConfig.rates) = r /\ r \in Nat
  <2>1. calculateBorrowRate(u, rate_config) = r
    BY <1>1, <1>2, BorrowRateShown
  <2>2. s \in Int
    BY <1>1
  <2>3. r \in Nat
    BY <1>1, <1>2, <2>2, BorrowRateNonNegative
  <2> QED
    BY <2>1, <2>3
<1>5. calculateSupplyRate(r, u, f)
        - Quot(Quot(r * u, BPS_SCALE) * (BPS_SCALE - f), BPS_SCALE) \in 0..1
  BY <1>3, <1>4, SupplyRateShown, Scales
<1>6. get_supply_rate(b, s, f)
        = Quot(Quot(r * u, BPS_SCALE) * (BPS_SCALE - f), BPS_SCALE)
  BY DEF get_supply_rate, GrossSupplyRate
<1>7. /\ MarketShown.utilizationBps = u
      /\ MarketShown.borrowApyBps = r
      /\ MarketShown.supplyApyBps = calculateSupplyRate(r, u, f)
  BY <1>3, <1>4 DEF MarketShown
<1>8. 5 * rate_config.optimal_utilization_bps = 4 * BPS_SCALE =>
        BarIsRed(MarketShown) = (u > rate_config.optimal_utilization_bps)
  <2>1. rate_config.optimal_utilization_bps \in Nat
    BY <1>2 DEF RateTypeOK, RateModelConfig
  <2>2. BarIsRed(MarketShown) = (5 * u > 4 * BPS_SCALE)
    BY <1>7, Scales DEF BarIsRed
  <2> HIDE DEF u
  <2>3. 5 * rate_config.optimal_utilization_bps = 4 * BPS_SCALE =>
          (5 * u > 4 * BPS_SCALE <=> u > rate_config.optimal_utilization_bps)
    BY <1>3, <2>1, Scales
  <2> QED
    BY <2>2, <2>3
<1> QED
  BY <1>5, <1>6, <1>7, <1>8 DEF ShownRatesAreTheContracts

\* The rates on display are the contracts', whatever the curve, the totals and
\* the scale; what a supplier earns differs by at most one basis point.
THEOREM RatesShown == Spec \/ DeployedSpec => []ShownRatesAreTheContracts
BY RatesAgree, Invariant, PTL

----------------------------------------------------------------------------
(* The health of a position.                                                *)

\* Two products compared at a fine scale and at one k times coarser.
LEMMA FineAndCoarse ==
    ASSUME NEW V \in Nat, NEW W \in Nat, NEW v \in Nat, NEW w \in Nat,
           NEW k \in Nat \ {0}, NEW B \in Nat \ {0}, NEW T \in 0..B,
           v * k <= V, V < (v + 1) * k, w * k <= W, W < (w + 1) * k,
           (V * T < W * B) # (v * T < w * B)
    PROVE  Abs(V * T - W * B) < k * B
<1>1. T \in Nat /\ T <= B
  OBVIOUS
<1>2. /\ V * T \in Nat /\ W * B \in Nat /\ v * T \in Nat /\ w * B \in Nat
      /\ k * B \in Nat /\ k * T \in Nat /\ v * k \in Nat /\ w * k \in Nat
      /\ (v + 1) * k \in Nat /\ (w + 1) * k \in Nat
      /\ (v * T) * k \in Nat /\ (w * B) * k \in Nat
  BY <1>1, ProductNat
<1>3. (v * k) * T = (v * T) * k /\ (w * k) * B = (w * B) * k
  BY <1>1, SMTT(30)
<1>4. ((v + 1) * k) * T = (v * T) * k + k * T /\ ((w + 1) * k) * B = (w * B) * k + k * B
  BY <1>1, SMTT(30)
<1>5. (v * T) * k <= V * T /\ (w * B) * k <= W * B
  <2>1. (v * k) * T <= V * T /\ (w * k) * B <= W * B
    BY <1>1, <1>2, Multiplied
  <2> QED
    BY <1>3, <2>1
<1>6. V * T <= (v * T) * k + k * T /\ W * B < (w * B) * k + k * B
  <2>1. V * T <= ((v + 1) * k) * T
    BY <1>1, <1>2, Multiplied
  <2>2. W * B < ((w + 1) * k) * B
    BY <1>2, MultipliedStrictly
  <2> QED
    BY <1>4, <2>1, <2>2
<1>7. k * T <= k * B
  <2>1. T * k <= B * k
    BY <1>1, Multiplied
  <2> QED
    BY <1>1, <2>1, SMTT(30)
<1>8. CASE V * T < W * B /\ ~(v * T < w * B)
  <2>1. (w * B) * k <= (v * T) * k
    BY <1>2, <1>8, Multiplied
  <2>2. W * B - V * T < k * B
    BY <1>2, <1>5, <1>6, <2>1
  <2> QED
    BY <1>2, <1>8, <2>2 DEF Abs
<1>9. CASE ~(V * T < W * B) /\ v * T < w * B
  <2>1. (v * T) * k < (w * B) * k
    BY <1>2, <1>9, MultipliedStrictly
  <2>2. V * T - W * B < k * B
    BY <1>2, <1>5, <1>6, <1>7, <2>1
  <2> QED
    BY <1>2, <1>9, <2>2 DEF Abs
<1> QED
  BY <1>8, <1>9

\* Less counts than is owed exactly when the products say so.
LEMMA CountsForLess ==
    ASSUME NEW v \in Nat, NEW w \in Nat, NEW T \in Nat, NEW B \in Nat \ {0}
    PROVE  /\ (v * T) \div B \in Nat
           /\ (v * T) \div B < w <=> v * T < w * B
BY ProductNat, DivBounds, DivBelow

\* The score as the shared math has it.
LEMMA ScoreShown ==
    ASSUME NEW a \in Nat, NEW W \in Nat \ {0}
    PROVE  LET h == (a * BPS_DIVISOR) \div W
           IN  h \in Nat /\ (h < BPS_DIVISOR <=> a < W)
<1> DEFINE D == BPS_DIVISOR
<1>1. D \in Nat \ {0} /\ a * D \in Nat
  BY Scales, ProductNat
<1> HIDE DEF D
<1>2. (a * D) \div W < D <=> a * D < D * W
  BY <1>1, DivBelow
<1>3. D * W = W * D
  BY <1>1
<1>4. a < W => a * D < W * D
  BY <1>1, MultipliedStrictly
<1>5. a * D < W * D => a < W
  BY <1>1, Cancelled
<1>6. (a * D) \div W \in Nat
  BY <1>1, DivBounds
<1> QED
  BY <1>2, <1>3, <1>4, <1>5, <1>6 DEF D

\* What counts against a debt, as the shared math has it.
LEMMA HealthShown ==
    ASSUME NEW V \in Nat, NEW W \in Nat, NEW T \in Nat
    PROVE  LET hf == calculateHealthFactor(V, W, T)
           IN  /\ W = 0 => hf = [basisPoints |-> InfiniteBps, status |-> "infinite"]
               /\ W # 0 => /\ hf.basisPoints \in Nat
                           /\ hf.basisPoints < BPS_DIVISOR <=> V * T < W * BPS_DIVISOR
                           /\ hf.status = StatusOf(hf.basisPoints)
<1> DEFINE a == (V * T) \div BPS_DIVISOR
           h == (a * BPS_DIVISOR) \div W
<1>1. a \in Nat /\ (a < W <=> V * T < W * BPS_DIVISOR)
  BY Scales, CountsForLess
<1>2. W # 0 => h \in Nat /\ (h < BPS_DIVISOR <=> a < W)
  BY <1>1, ScoreShown
<1>3. W # 0 => calculateHealthFactor(V, W, T) = [basisPoints |-> h, status |-> StatusOf(h)]
  BY DEF calculateHealthFactor, applyBps, mulDivDown
<1>4. W = 0 => calculateHealthFactor(V, W, T)
                 = [basisPoints |-> InfiniteBps, status |-> "infinite"]
  BY DEF calculateHealthFactor
<1> HIDE DEF a, h
<1> QED
  BY <1>1, <1>2, <1>3, <1>4

LEMMA StatusShown ==
    ASSUME NEW h \in Nat
    PROVE  /\ StatusOf(h) = "liquidatable" <=> h < BPS_DIVISOR
           /\ StatusOf(h) # "none"
<1>1. BPS_DIVISOR \in Nat \ {0}
  BY Scales
<1>2. CASE h < BPS_DIVISOR
  BY <1>1, <1>2 DEF StatusOf
<1>3. CASE BPS_DIVISOR <= h /\ 5 * h < 6 * BPS_DIVISOR
  BY <1>1, <1>3 DEF StatusOf
<1>4. CASE 6 * BPS_DIVISOR <= 5 * h /\ 2 * h < 3 * BPS_DIVISOR
  BY <1>1, <1>4 DEF StatusOf
<1>5. CASE 3 * BPS_DIVISOR <= 2 * h
  BY <1>1, <1>5 DEF StatusOf
<1> QED
  BY <1>1, <1>2, <1>3, <1>4, <1>5

\* All displays of a position with a score say the same.
LEMMA DisplaysOfScore ==
    ASSUME NEW p, p.borrowedAmount \in Nat \ {0}, p.healthFactorBps \in Nat,
           p.healthFactorStatus = StatusOf(p.healthFactorBps)
    PROVE  SaidLiquidatable(p) = {p.healthFactorBps < BPS_DIVISOR}
<1> DEFINE h == p.healthFactorBps
           low == h < BPS_DIVISOR
<1>1. BPS_DIVISOR \in Nat \ {0}
  BY Scales
<1>2. (p.healthFactorStatus = "liquidatable") = low /\ p.healthFactorStatus # "none"
  BY StatusShown
<1>3. (SummaryBadge(p) = "Liquidatable") = low
  BY <1>1 DEF SummaryBadge
<1>4. (GaugeStatus(h, p.healthFactorStatus) = "liquidatable") = low
  BY <1>2 DEF GaugeStatus
<1>5. (GaugeStatus(h, "none") = "liquidatable") = low
  <2>1. CASE h >= 99 * BPS_DIVISOR
    BY <1>1, <2>1 DEF GaugeStatus
  <2>2. CASE low
    BY <1>1, <2>2 DEF GaugeStatus
  <2>3. CASE BPS_DIVISOR <= h /\ 2 * h < 3 * BPS_DIVISOR
    BY <1>1, <2>3 DEF GaugeStatus
  <2>4. CASE 3 * BPS_DIVISOR <= 2 * h /\ h < 99 * BPS_DIVISOR
    BY <1>1, <2>4 DEF GaugeStatus
  <2> QED
    BY <1>1, <2>1, <2>2, <2>3, <2>4
<1> QED
  BY <1>2, <1>3, <1>4, <1>5 DEF SaidLiquidatable

\* And all displays of one without a score.
LEMMA DisplaysOfInfinite ==
    ASSUME NEW p, p.borrowedAmount \in Nat, p.healthFactorBps = InfiniteBps,
           p.healthFactorStatus = "infinite"
    PROVE  SaidLiquidatable(p) = {FALSE}
<1> DEFINE h == p.healthFactorBps
<1>1. BPS_DIVISOR \in Nat \ {0} /\ h \in Nat /\ h >= 99 * BPS_DIVISOR
  BY Scales DEF InfiniteBps
<1>2. SummaryBadge(p) = "Healthy"
  BY <1>1 DEF SummaryBadge
<1>3. GaugeStatus(h, "none") = "infinite"
  BY <1>1 DEF GaugeStatus
<1>4. GaugeStatus(h, p.healthFactorStatus) = "infinite"
  BY DEF GaugeStatus
<1> QED
  BY <1>2, <1>3, <1>4 DEF SaidLiquidatable

\* Nothing is worth nothing.
LEMMA NoValue ==
    ASSUME get_price \in Nat
    PROVE  tokenAmountToUsd(0, get_price) = 0 /\ asset_value_usd(0) = 0
<1>1. 0 * get_price = 0
  OBVIOUS
<1>2. TokenUnit \in Nat \ {0} /\ 0 \div TokenUnit = 0
  BY Scales, SMTT(30)
<1> QED
  BY <1>1, <1>2 DEF tokenAmountToUsd, mulDivDown, asset_value_usd

LEMMA DebtReadable ==
    ASSUME TypeInv, NEW user \in Users, PositionReadable(user)
    PROVE  current_debt(user) \in Nat /\ collateral[user] \in Nat
<1>1. collateral[user] \in Nat
  BY DEF TypeInv, VaultTypeOK
<1>2. current_debt(user) \in Int
  BY DEF TypeInv, PoolTypeInv, PoolTypeOK, UserLendingPosition, current_debt
<1> QED
  BY <1>1, <1>2 DEF PositionReadable

\* What the displays say, in products.
LEMMA DisplaysAgree ==
    ASSUME TypeInv, get_priceOK, NEW user \in Users, PositionReadable(user)
    PROVE  LET p == PositionShown(user)
           IN  SaidLiquidatable(p) =
                 {p.collateralValueUsd * MarketConfig.liquidationThresholdBps
                    < p.borrowedValueUsd * BPS_DIVISOR}
<1> DEFINE p == PositionShown(user)
           d == current_debt(user)
           V == tokenAmountToUsd(collateral[user], get_price)
           W == tokenAmountToUsd(d, get_price)
           T == MarketConfig.liquidationThresholdBps
           hf == calculateHealthFactor(V, W, T)
<1>1. d \in Nat /\ collateral[user] \in Nat /\ get_price \in Nat /\ V \in Nat /\ W \in Nat
  BY DebtReadable, ValuesShown
<1>2. T \in Nat /\ BPS_DIVISOR \in Nat \ {0} /\ V * T \in Nat
  BY <1>1, Scales, ProductNat
<1>3. /\ p.borrowedAmount = d
      /\ p.collateralValueUsd = V /\ p.borrowedValueUsd = W
      /\ p.healthFactorBps = hf.basisPoints
      /\ p.healthFactorStatus = hf.status
  BY DEF PositionShown
<1>4. CASE W = 0
  <2>1. p.healthFactorBps = InfiniteBps /\ p.healthFactorStatus = "infinite"
    BY <1>1, <1>2, <1>3, <1>4, HealthShown
  <2> HIDE DEF p
  <2>2. SaidLiquidatable(p) = {FALSE}
    BY <1>1, <1>3, <2>1, DisplaysOfInfinite
  <2>3. (V * T < W * BPS_DIVISOR) = FALSE
    BY <1>2, <1>4
  <2> QED
    BY <1>3, <2>2, <2>3 DEF p
<1>5. CASE W # 0
  <2>1. d # 0
    BY <1>1, <1>5, NoValue
  <2>2. /\ p.healthFactorBps \in Nat
        /\ p.healthFactorBps < BPS_DIVISOR <=> V * T < W * BPS_DIVISOR
        /\ p.healthFactorStatus = StatusOf(p.healthFactorBps)
    <3>1. /\ hf.basisPoints \in Nat
          /\ hf.basisPoints < BPS_DIVISOR <=> V * T < W * BPS_DIVISOR
          /\ hf.status = StatusOf(hf.basisPoints)
      <4> HIDE DEF V, W, T
      <4> QED
        BY <1>1, <1>2, <1>5, HealthShown
    <3> QED
      BY <1>3, <3>1
  <2> HIDE DEF p
  <2>3. SaidLiquidatable(p) = {p.healthFactorBps < BPS_DIVISOR}
    BY <1>1, <1>3, <2>1, <2>2, DisplaysOfScore
  <2>4. (p.healthFactorBps < BPS_DIVISOR) = (V * T < W * BPS_DIVISOR)
    BY <2>2
  <2> QED
    BY <1>3, <2>3, <2>4 DEF p
<1> QED
  BY <1>4, <1>5

\* What the engine takes, in products, where the vault can value it.
LEMMA EngineTakes ==
    ASSUME TypeInv, get_priceOK, vault_config # NoVaultConfig,
           NEW user \in Users, PositionReadable(user), ValuesFit(user)
    PROVE  is_liquidatable(user) =
             (asset_value_usd(collateral[user]) * vault_config.liquidation_threshold_bps
                < asset_value_usd(current_debt(user)) * BPS_SCALE)
<1> DEFINE d == current_debt(user)
           c == collateral[user]
           v == asset_value_usd(c)
           w == asset_value_usd(d)
           T == vault_config.liquidation_threshold_bps
<1>1. d \in Nat /\ c \in Nat /\ get_price \in Nat /\ v \in Nat /\ w \in Nat
  BY DebtReadable, ValuesShown
<1>2. vault_config \in CollateralConfig /\ price \in PriceRecord
  BY DEF TypeInv, VaultTypeOK, OracleTypeOK, get_priceOK
<1>3. T \in Nat /\ BPS_SCALE \in Nat \ {0} /\ I128Max \in Nat /\ BPS_SCALE <= I128Max
      /\ v * T \in Nat
  BY <1>1, <1>2, RateAssumption, HostAssumption, ProductNat DEF CollateralConfig
<1>4. AdjustedCollateral(c) < w <=> v * T < w * BPS_SCALE
  <2>1. AdjustedCollateral(c) = (v * T) \div BPS_SCALE
    BY <1>3, QuotIsDiv DEF AdjustedCollateral
  <2>2. (v * T) \div BPS_SCALE < w <=> v * T < w * BPS_SCALE
    <3> HIDE DEF v, w, T
    <3> QED
      BY <1>1, <1>3, CountsForLess
  <2> QED
    BY <2>1, <2>2
<1>5. CASE d = 0
  <2>1. ~is_liquidatable(user)
    BY <1>3, <1>5 DEF is_liquidatable, get_health_factor
  <2>2. w = 0
    BY <1>1, <1>5, NoValue
  <2>3. (v * T < w * BPS_SCALE) = FALSE
    BY <1>3, <2>2
  <2>4. is_liquidatable(user) \in BOOLEAN
    BY DEF is_liquidatable
  <2> QED
    BY <2>1, <2>3, <2>4
<1>6. CASE d # 0 /\ w = 0
  <2>1. ~is_liquidatable(user)
    BY <1>6 DEF is_liquidatable, get_health_factorOK, HealthFactorOK
  <2>2. (v * T < w * BPS_SCALE) = FALSE
    BY <1>3, <1>6
  <2>3. is_liquidatable(user) \in BOOLEAN
    BY DEF is_liquidatable
  <2> QED
    BY <2>1, <2>2, <2>3
<1>7. CASE d # 0 /\ w # 0
  <2>1. HealthFactorOK(c, d)
    BY <1>7 DEF HealthFactorOK, ValuesFit, asset_value_usdOK
  <2>4. get_health_factorOK(user)
    BY <1>7, <2>1 DEF get_health_factorOK
  <2>5. get_health_factor(user) = HealthFactor(c, d)
    BY <1>7 DEF get_health_factor
  <2>6. is_liquidatable(user) \in BOOLEAN
    BY DEF is_liquidatable
  <2>2. is_liquidatable(user) <=> HealthFactor(c, d) < BPS_SCALE
    <3>1. is_liquidatable(user) <=> get_health_factor(user) < BPS_SCALE
      BY <2>4 DEF is_liquidatable
    <3> QED
      BY <2>5, <3>1
  <2>3. HealthFactor(c, d) < BPS_SCALE <=> AdjustedCollateral(c) < w
    BY <1>1, <1>2, <1>7, BelowOne
  <2> QED
    BY <1>4, <2>2, <2>3, <2>6
<1> QED
  BY <1>5, <1>6, <1>7

LEMMA HealthAgrees ==
    ASSUME TypeInv, MarketReadable, LimitsAgree, NEW user \in Users,
           PositionReadable(user), ValuesFit(user),
           SaidLiquidatable(PositionShown(user)) # {is_liquidatable(user)}
    PROVE  LET p == PositionShown(user)
           IN  Abs(p.collateralValueUsd * MarketConfig.liquidationThresholdBps
                     - p.borrowedValueUsd * BPS_DIVISOR)
                 < VaultUnitUsd * BPS_DIVISOR
<1> DEFINE V == tokenAmountToUsd(collateral[user], get_price)
           W == tokenAmountToUsd(current_debt(user), get_price)
           v == asset_value_usd(collateral[user])
           w == asset_value_usd(current_debt(user))
           T == MarketConfig.liquidationThresholdBps
           B == BPS_DIVISOR
           k == VaultUnitUsd
<1>1. get_priceOK /\ vault_config # NoVaultConfig /\ vault_config.liquidation_threshold_bps = T
  BY DEF MarketReadable, LimitsAgree
<1>2. /\ V \in Nat /\ W \in Nat /\ v \in Nat /\ w \in Nat
      /\ v * k <= V /\ V < (v + 1) * k /\ w * k <= W /\ W < (w + 1) * k
  BY <1>1, DebtReadable, ValuesShown
<1>3. k \in Nat \ {0} /\ B \in Nat \ {0} /\ T \in 0..B /\ BPS_SCALE = B
  BY Scales
<1>4. PositionShown(user).collateralValueUsd = V /\ PositionShown(user).borrowedValueUsd = W
  BY DEF PositionShown
<1>5. SaidLiquidatable(PositionShown(user)) = {V * T < W * B}
  BY <1>1, <1>4, DisplaysAgree
<1>6. is_liquidatable(user) = (v * T < w * B)
  BY <1>1, <1>3, EngineTakes
<1>7. (V * T < W * B) # (v * T < w * B)
  BY <1>5, <1>6
<1> HIDE DEF V, W, v, w, T, B, k
<1>8. Abs(V * T - W * B) < k * B
  BY <1>2, <1>3, <1>7, FineAndCoarse
<1> QED
  BY <1>4, <1>8 DEF V, W, T, B, k

\* At every price, scale and threshold of no more than the whole, each display
\* of a position tells what the engine would do, but for less than one unit of
\* the vault's values around the threshold.
THEOREM HealthShownIsTrue == Spec \/ DeployedSpec => []ShownHealthAgrees
<1>1. TypeInv => ShownHealthAgrees
  BY HealthAgrees DEF ShownHealthAgrees
<1> QED
  BY <1>1, Invariant, PTL

----------------------------------------------------------------------------
(* The forms.                                                               *)

LEMMA ViewFields ==
    ASSUME NEW user \in Users
    PROVE  LET view == refresh(user)
           IN  /\ view.market.totalSupply = market.total_supplied
               /\ view.market.totalBorrowed = market.total_borrowed
               /\ view.market.priceUsd = get_price
               /\ view.position.suppliedAmount = SharesOf(user)
               /\ view.position.borrowedAmount = current_debt(user)
               /\ view.position.collateralAmount = collateral[user]
               /\ view.position.collateralValueUsd
                    = tokenAmountToUsd(collateral[user], get_price)
               /\ view.position.borrowCapacityUsd
                    = (tokenAmountToUsd(collateral[user], get_price)
                         * MarketConfig.maxLtvBps) \div BPS_DIVISOR
               /\ view.position.availableToBorrowUsd =
                    IF view.position.borrowCapacityUsd
                         > tokenAmountToUsd(current_debt(user), get_price)
                    THEN view.position.borrowCapacityUsd
                           - tokenAmountToUsd(current_debt(user), get_price)
                    ELSE 0
BY DEF refresh, MarketShown, PositionShown, calculateBorrowCapacity, applyBps, mulDivDown

\* Accrued debts are integers.
LEMMA AccruedDebtInt ==
    ASSUME TypeInv, market # NoMarket, AccrualOK(market), NEW user \in Users
    PROVE  AccruedDebt(user) \in Int
<1>1. CASE position[user] = NoPosition
  BY <1>1 DEF AccruedDebt
<1>2. CASE position[user] # NoPosition
  <2>1. position[user] \in UserLendingPosition
    BY <1>2 DEF TypeInv, PoolTypeInv, PoolTypeOK
  <2>2. AccruedIndex(market) \in Int
    BY AccruedIndexInt DEF TypeInv
  <2> QED
    BY <1>2, <2>1, <2>2, UserDebtInt DEF AccruedDebt
<1> QED
  BY <1>1, <1>2

LEMMA FormsAllow ==
    ASSUME TypeInv, NEW user \in Users, NEW amount \in Amounts
    PROVE  LET view == refresh(user)
           IN  /\ WithdrawOK(user, amount)
                    => SupplyFormAccepts(view, "withdraw", amount)
               /\ WithdrawCollateralOK(user, amount)
                    => SupplyFormAccepts(view, "withdraw_collat", amount)
               /\ PoolWouldTake(user, amount)
                    => \/ RepayFormAccepts(view, amount)
                       \/ AccruedDebt(user) > current_debt(user)
<1> DEFINE view == refresh(user)
<1>1. /\ view.position.suppliedAmount = SharesOf(user)
      /\ view.position.borrowedAmount = current_debt(user)
      /\ view.position.collateralAmount = collateral[user]
  BY ViewFields
<1>2. amount \in Int
  BY HostAssumption
<1> HIDE DEF view
<1>3. ASSUME WithdrawOK(user, amount)
      PROVE  SupplyFormAccepts(view, "withdraw", amount)
  <2>1. amount > 0 /\ amount <= SharesOf(user)
    BY <1>3 DEF WithdrawOK, Redeemable, SharesOf
  <2> QED
    BY <1>1, <2>1 DEF SupplyFormAccepts, validateAvailableAmount
<1>4. ASSUME WithdrawCollateralOK(user, amount)
      PROVE  SupplyFormAccepts(view, "withdraw_collat", amount)
  BY <1>1, <1>4 DEF WithdrawCollateralOK, SupplyFormAccepts, validateAvailableAmount
<1>5. ASSUME PoolWouldTake(user, amount), ~(AccruedDebt(user) > current_debt(user))
      PROVE  RepayFormAccepts(view, amount)
  <2>1. RepayOK(user, user, amount) /\ Repaid(user, amount) = amount
    BY <1>5 DEF PoolWouldTake
  <2>2. amount > 0 /\ market # NoMarket /\ AccrualOK(market) /\ position[user] # NoPosition
    BY <2>1 DEF RepayOK
  <2>3. AccruedDebt(user) \in Int
    BY <2>2, AccruedDebtInt
  <2>4. current_debt(user) \in Int
    BY DEF TypeInv, PoolTypeInv, PoolTypeOK, UserLendingPosition, current_debt
  <2>5. amount = IF amount > AccruedDebt(user) THEN AccruedDebt(user) ELSE amount
    BY <2>1, <2>2 DEF Repaid, RepayActual, AccruedDebt
  <2>6. amount <= AccruedDebt(user)
    BY <1>2, <2>3, <2>5
  <2>7. amount <= current_debt(user)
    BY <1>2, <1>5, <2>3, <2>4, <2>6
  <2> QED
    BY <1>1, <2>2, <2>7 DEF RepayFormAccepts, validateAvailableAmount
<1> QED
  BY <1>3, <1>4, <1>5 DEF view

\* No form stands in the way of what the contracts would do in full, except for
\* interest the stored principal does not include.
THEOREM FormsAllowThePossible ==
    Spec \/ DeployedSpec => []FormsRefuseOnlyTheImpossible
<1>1. TypeInv => FormsRefuseOnlyTheImpossible
  BY FormsAllow DEF FormsRefuseOnlyTheImpossible
<1> QED
  BY <1>1, Invariant, PTL

----------------------------------------------------------------------------
(* The liquidation table.                                                   *)

LEMMA Halved ==
    ASSUME NEW d \in Nat, NEW c \in Nat \ {0}
    PROVE  (d * c) \div (2 * c) = d \div 2
<1> DEFINE h == d \div 2
           q == (d * c) \div (2 * c)
<1>1. h \in Nat /\ 2 * h <= d /\ d < 2 * h + 2
  OBVIOUS
<1>2. 2 * c \in Nat \ {0} /\ d * c \in Nat
  BY ProductNat
<1>3. q \in Nat /\ q = (d * c) \div (2 * c)
  BY <1>2, DivBounds
<1> HIDE DEF h, q
<1>4. h * (2 * c) <= d * c
  <2>1. (2 * h) * c <= d * c
    BY <1>1, Multiplied
  <2>2. (2 * h) * c = h * (2 * c)
    BY <1>1
  <2> QED
    BY <2>1, <2>2
<1>5. d * c < (h + 1) * (2 * c)
  <2>1. d * c < (2 * h + 2) * c
    BY <1>1, MultipliedStrictly
  <2>2. (2 * h + 2) * c = (h + 1) * (2 * c)
    BY <1>1
  <2> QED
    BY <2>1, <2>2
<1>6. h <= (d * c) \div (2 * c)
  BY <1>1, <1>2, <1>4, DivAtLeast
<1>7. (d * c) \div (2 * c) < h + 1
  BY <1>1, <1>2, <1>5, DivBelow
<1>8. q = h
  BY <1>1, <1>3, <1>6, <1>7
<1> QED
  BY <1>8 DEF q, h

LEMMA FilledInIsAsked ==
    ASSUME TypeInv, NEW user \in Users, engine_config # NoEngineConfig,
           2 * engine_config.close_factor_bps = BPS_SCALE,
           current_debt(user) >= 0,
           NEW amount \in RepayFilledIn(current_debt(user))
    PROVE  /\ RepayAsked(user, amount) = amount
           /\ RepayAsked(user, current_debt(user)) - amount \in 0..1
<1> DEFINE d == current_debt(user)
           c == engine_config.close_factor_bps
           max == Quot(d * c, BPS_SCALE)
<1>1. d \in Nat
  BY DebtReadable DEF PositionReadable
<1>2. c \in Nat \ {0} /\ BPS_SCALE = 2 * c
  <2>1. engine_config \in LiquidationConfig
    BY DEF TypeInv, EngineTypeOK
  <2> QED
    BY <2>1, Scales DEF LiquidationConfig
<1>3. max = d \div 2
  <2>1. d * c \in Nat /\ 2 * c \in Nat \ {0}
    BY <1>1, <1>2, ProductNat
  <2>2. max = (d * c) \div (2 * c)
    BY <1>2, <2>1, QuotIsDiv
  <2> HIDE DEF d, c
  <2> QED
    BY <1>1, <1>2, <2>2, Halved
<1>4. amount \in {d \div 2} \cup (IF d % 2 = 0 /\ d > 0 THEN {d \div 2 - 1} ELSE {})
  BY DEF RepayFilledIn
<1>5. RepayAsked(user, amount) = (IF amount > max THEN max ELSE amount)
  BY DEF RepayAsked
<1>6. RepayAsked(user, d) = (IF d > max THEN max ELSE d)
  BY DEF RepayAsked
<1> HIDE DEF d, max
<1>7. /\ max \in Nat /\ amount \in Int /\ amount <= max /\ max - amount \in 0..1
      /\ (IF d > max THEN max ELSE d) = max
  BY <1>1, <1>3, <1>4
<1> QED
  BY <1>5, <1>6, <1>7 DEF d

\* What the table fills in for a borrower is what the engine takes, and at most
\* one unit less than it would take.
THEOREM LookupFilledIn == Spec \/ DeployedSpec => []LookupFillsIn
<1>1. TypeInv => LookupFillsIn
  BY FilledInIsAsked DEF LookupFillsIn, checkLiquidatable
<1> QED
  BY <1>1, Invariant, PTL

----------------------------------------------------------------------------
(* The estimate of a seizure: a tokens at the price p, worth U in units of   *)
(* tu; X is U with the bonus b on D, and est what X is in tokens again.  The *)
(* engine's e is a with the bonus.                                           *)

LEMMA ThroughThePrice ==
    ASSUME NEW a \in Nat, NEW p \in Nat \ {0}, NEW tu \in Nat \ {0},
           NEW D \in Nat \ {0}, NEW b \in Nat,
           NEW U \in Nat, U * tu <= a * p, a * p < (U + 1) * tu,
           NEW X \in Nat, X * D <= U * (D + b), U * (D + b) < (X + 1) * D,
           NEW est \in Nat, est * p <= X * tu, X * tu < (est + 1) * p,
           NEW e \in Nat, e * D <= a * (D + b)
    PROVE  /\ est * D <= a * (D + b)
           /\ (e - est - 1) * p * D < (2 * D + b) * tu
<1> DEFINE Y == U * (D + b)
           UT == U * tu
           AP == a * p
           XT == X * tu
           EP == est * p
           A == a * (D + b)
<1>1. /\ D + b \in Nat \ {0} /\ Y \in Nat /\ UT \in Nat /\ AP \in Nat /\ XT \in Nat
      /\ EP \in Nat /\ A \in Nat /\ (U + 1) * tu \in Nat /\ (est + 1) * p \in Nat
      /\ X * D \in Nat /\ (X + 1) * D \in Nat /\ e * D \in Nat /\ est * D \in Nat
      /\ tu * D \in Nat /\ tu * (D + b) \in Nat /\ p * D \in Nat
  BY ProductNat
<1>2. /\ UT * (D + b) = Y * tu
      /\ AP * (D + b) = A * p
      /\ XT * D = (X * D) * tu
      /\ EP * D = (est * D) * p
      /\ ((U + 1) * tu) * (D + b) = Y * tu + tu * (D + b)
      /\ ((X + 1) * D) * tu = XT * D + tu * D
      /\ ((est + 1) * p) * D = (est * D) * p + p * D
  BY SMTT(30)
<1>3. /\ Y * tu \in Nat /\ A * p \in Nat /\ XT * D \in Nat /\ (est * D) * p \in Nat
      /\ (e * D) * p \in Nat /\ EP * D \in Nat /\ UT * (D + b) \in Nat
      /\ AP * (D + b) \in Nat
  BY <1>1, ProductNat
<1>4. UT <= AP /\ AP < (U + 1) * tu /\ X * D <= Y /\ Y < (X + 1) * D
        /\ EP <= XT /\ XT < (est + 1) * p /\ e * D <= A
  OBVIOUS
<1>5. (e - est - 1) * p * D = (e * D) * p - (est * D) * p - p * D
  BY SMTT(30)
<1>6. (2 * D + b) * tu = tu * D + tu * (D + b)
  BY SMTT(30)
<1> HIDE DEF Y, UT, AP, XT, EP, A
\* The estimate is no more.
<1>7. EP * D <= XT * D
  BY <1>1, <1>4, Multiplied
<1>8. (X * D) * tu <= Y * tu
  BY <1>1, <1>4, Multiplied
<1>9. UT * (D + b) <= AP * (D + b)
  BY <1>1, <1>4, Multiplied
<1>10. (est * D) * p <= A * p
  BY <1>2, <1>3, <1>7, <1>8, <1>9
<1>11. est * D <= A
  <2>1. ASSUME A < est * D PROVE FALSE
    <3>1. A * p < (est * D) * p
      BY <1>1, <2>1, MultipliedStrictly
    <3> QED
      BY <1>3, <1>10, <3>1
  <2> QED
    BY <1>1, <2>1
\* And not much less.
<1>12. AP * (D + b) < ((U + 1) * tu) * (D + b)
  BY <1>1, <1>4, MultipliedStrictly
<1>13. Y * tu < ((X + 1) * D) * tu
  BY <1>1, <1>4, MultipliedStrictly
<1>14. XT * D < ((est + 1) * p) * D
  BY <1>1, <1>4, MultipliedStrictly
<1>15. (e * D) * p <= A * p
  BY <1>1, <1>4, Multiplied
<1>16. (e * D) * p < (est * D) * p + p * D + tu * D + tu * (D + b)
  BY <1>1, <1>2, <1>3, <1>12, <1>13, <1>14, <1>15
<1>17. (e - est - 1) * p * D < (2 * D + b) * tu
  BY <1>1, <1>3, <1>5, <1>6, <1>16
<1> QED
  BY <1>11, <1>17 DEF A

LEMMA EstimateAgrees ==
    ASSUME TypeInv, MarketReadable, engine_config # NoEngineConfig,
           engine_config.liquidation_bonus_bps = MarketConfig.liquidationBonusBps,
           NEW amount \in Nat
    PROVE  LET bonus == MarketConfig.liquidationBonusBps
               short == CollateralSeized(amount)
                          - seizedCollateralAmount(amount, MarketShown.priceUsd, bonus)
           IN  /\ short >= 0
               /\ (short - 1) * MarketShown.priceUsd * BPS_DIVISOR
                    < (2 * BPS_DIVISOR + bonus) * TokenUnit
<1> DEFINE b == MarketConfig.liquidationBonusBps
           p == get_price
           D == BPS_DIVISOR
           tu == TokenUnit
           U == (amount * p) \div tu
           X == (U * (D + b)) \div D
           est == (X * tu) \div p
           e == (amount * (D + b)) \div D
<1>1. MarketShown.priceUsd = p
  BY DEF MarketShown
<1>2. p \in Nat \ {0} /\ tu \in Nat \ {0} /\ D \in Nat \ {0} /\ b \in Nat /\ D = BPS_SCALE
        /\ D + b \in Nat
  BY ValuesShown, Scales DEF MarketReadable
<1>3. seizedCollateralAmount(amount, p, b) = est
  BY DEF seizedCollateralAmount, mulDivDown, applyBps, tokenAmountToUsd
<1>4. CollateralSeized(amount) = e
  <2>1. amount * (D + b) \in Nat
    BY <1>2, ProductNat
  <2>2. CollateralSeized(amount) = Quot(amount * (D + b), D)
    BY <1>2 DEF CollateralSeized
  <2> QED
    BY <1>2, <2>1, <2>2, QuotIsDiv
<1>5. amount * p \in Nat /\ amount * (D + b) \in Nat
  BY <1>2, ProductNat
<1>6. U \in Nat /\ U * tu <= amount * p /\ amount * p < (U + 1) * tu
  BY <1>2, <1>5, DivBounds
<1>7. X \in Nat /\ X * D <= U * (D + b) /\ U * (D + b) < (X + 1) * D
  <2>1. U * (D + b) \in Nat
    BY <1>2, <1>6, ProductNat
  <2> QED
    BY <1>2, <2>1, DivBounds
<1>8. est \in Nat /\ est * p <= X * tu /\ X * tu < (est + 1) * p
  <2>1. X * tu \in Nat
    BY <1>2, <1>7, ProductNat
  <2> QED
    BY <1>2, <2>1, DivBounds
<1>9. e \in Nat /\ e * D <= amount * (D + b) /\ amount * (D + b) < (e + 1) * D
  BY <1>2, <1>5, DivBounds
<1> HIDE DEF b, p, D, tu, U, X, est
<1>10. /\ est * D <= amount * (D + b)
       /\ (e - est - 1) * p * D < (2 * D + b) * tu
  <2> HIDE DEF e
  <2> QED
    BY <1>2, <1>6, <1>7, <1>8, <1>9, ThroughThePrice
<1>11. est <= e
  BY <1>2, <1>5, <1>8, <1>10, DivAtLeast
<1> HIDE DEF e
<1>12. e - est >= 0
  BY <1>8, <1>9, <1>11
<1> QED
  BY <1>1, <1>3, <1>4, <1>10, <1>12 DEF b, D, tu

\* At every price, scale and bonus, the shared estimate promises no more than
\* the engine seizes, and little less.
THEOREM SeizureEstimated == Spec \/ DeployedSpec => []SeizureEstimateAgrees
<1>1. \A a \in Amounts : a > 0 => a \in Nat
  BY HostAssumption
<1>2. TypeInv => SeizureEstimateAgrees
  BY <1>1, EstimateAgrees DEF SeizureEstimateAgrees
<1> QED
  BY <1>2, Invariant, PTL

----------------------------------------------------------------------------
(* The borrow form.                                                         *)

\* A debt within the capacity is not liquidatable, as the limit on loans is
\* below the threshold.
LEMMA WithinCapacity ==
    ASSUME NEW V \in Nat, NEW S \in Nat,
           S <= (V * MarketConfig.maxLtvBps) \div BPS_DIVISOR
    PROVE  calculateHealthFactor(V, S, MarketConfig.liquidationThresholdBps).status
             # "liquidatable"
<1> DEFINE L == MarketConfig.maxLtvBps
           T == MarketConfig.liquidationThresholdBps
           D == BPS_DIVISOR
           q == (V * L) \div D
<1>1. L \in Nat /\ T \in Nat /\ D \in Nat \ {0} /\ L <= T
  BY Scales, ViewAssumption
<1>2. V * L \in Nat /\ V * T \in Nat /\ S * D \in Nat
  BY <1>1, ProductNat
<1>3. q \in Nat /\ q * D <= V * L
  BY <1>1, <1>2, DivBounds
<1>4. S <= q
  OBVIOUS
<1> HIDE DEF q, L, T, D
<1>5. S * D <= q * D /\ q * D \in Nat
  BY <1>1, <1>3, <1>4, Multiplied, ProductNat
<1>6. V * L <= V * T
  <2>1. L * V <= T * V
    BY <1>1, Multiplied
  <2>2. L * V = V * L /\ T * V = V * T
    BY <1>1
  <2> QED
    BY <2>1, <2>2
<1>7. ~(V * T < S * D)
  BY <1>2, <1>3, <1>5, <1>6
<1>8. CASE S = 0
  <2>1. calculateHealthFactor(V, S, T) = [basisPoints |-> InfiniteBps, status |-> "infinite"]
    BY <1>1, <1>8, HealthShown
  <2> QED
    BY <2>1 DEF T
<1>9. CASE S # 0
  <2> DEFINE hf == calculateHealthFactor(V, S, T)
  <2>1. /\ hf.basisPoints \in Nat
        /\ hf.basisPoints < BPS_DIVISOR <=> V * T < S * BPS_DIVISOR
        /\ hf.status = StatusOf(hf.basisPoints)
    BY <1>1, <1>9, HealthShown
  <2> HIDE DEF hf
  <2>2. hf.status # "liquidatable"
    BY <1>7, <2>1, StatusShown DEF D
  <2> QED
    BY <2>2 DEF hf, T
<1> QED
  BY <1>8, <1>9

\* The numbers of a view.
LEMMA ViewNumbers ==
    ASSUME TypeInv, get_priceOK, NEW user \in Users, PositionReadable(user)
    PROVE  LET view == refresh(user)
           IN  /\ view.market.priceUsd \in Nat \ {0}
               /\ view.position.borrowedAmount \in Nat
               /\ view.position.collateralValueUsd \in Nat
               /\ view.position.borrowCapacityUsd \in Nat
               /\ view.position.availableToBorrowUsd \in Nat
<1> DEFINE V == tokenAmountToUsd(collateral[user], get_price)
           W == tokenAmountToUsd(current_debt(user), get_price)
           C == (V * MarketConfig.maxLtvBps) \div BPS_DIVISOR
<1>1. /\ current_debt(user) \in Nat /\ get_price \in Nat \ {0}
      /\ V \in Nat /\ W \in Nat
  BY DebtReadable, ValuesShown
<1>2. C \in Nat
  <2>1. V * MarketConfig.maxLtvBps \in Nat
    BY <1>1, Scales, ProductNat
  <2> QED
    BY <2>1, Scales, DivBounds
<1> HIDE DEF V, W, C
<1>3. (IF C > W THEN C - W ELSE 0) \in Nat
  BY <1>1, <1>2
<1> QED
  BY <1>1, <1>2, <1>3, ViewFields DEF V, W, C

\* An amount within the liquidity is accepted up to the capacity.
LEMMA AcceptedWithin ==
    ASSUME TypeInv, get_priceOK, NEW user \in Users, PositionReadable(user),
           NEW amount \in Nat \ {0}, amount <= availableLiquidity(refresh(user)),
           simulatedDebtUsd(refresh(user), amount)
             <= refresh(user).position.borrowCapacityUsd
    PROVE  BorrowFormAccepts(refresh(user), amount)
<1> DEFINE view == refresh(user)
           V == view.position.collateralValueUsd
           S == simulatedDebtUsd(view, amount)
<1>1. V \in Nat /\ view.position.borrowedAmount \in Nat /\ view.market.priceUsd \in Nat \ {0}
  BY ViewNumbers
<1>2. S \in Nat
  <2>1. (view.position.borrowedAmount + amount) * view.market.priceUsd \in Nat
    BY <1>1, ProductNat
  <2>2. S = ((view.position.borrowedAmount + amount) * view.market.priceUsd) \div TokenUnit
    BY DEF simulatedDebtUsd, tokenAmountToUsd, mulDivDown
  <2> QED
    BY <2>1, <2>2, Scales, DivBounds
<1>3. view.position.borrowCapacityUsd = (V * MarketConfig.maxLtvBps) \div BPS_DIVISOR
  BY ViewFields
<1>4. S <= view.position.borrowCapacityUsd /\ amount > 0
        /\ amount <= availableLiquidity(view)
  OBVIOUS
<1> HIDE DEF view
<1>5. calculateHealthFactor(V, S, MarketConfig.liquidationThresholdBps).status # "liquidatable"
  BY <1>1, <1>2, <1>3, <1>4, WithinCapacity
<1>6. BorrowFormAccepts(view, amount)
  BY <1>4, <1>5 DEF BorrowFormAccepts, validateAvailableAmount
<1> QED
  BY <1>6 DEF view

\* Dollars up to avail, rounded to n cents and taken for tokens: with a price
\* p of no more than a dollar they are worth hardly more.
LEMMA DollarsForTokens ==
    ASSUME NEW CU \in Nat \ {0}, NEW tu \in Nat \ {0}, NEW PS \in Nat \ {0},
           NEW p \in Nat \ {0}, p <= PS, NEW avail \in Nat, NEW n \in Nat,
           n * (2 * PS * CU) <= 2 * avail * tu + PS * CU
    PROVE  2 * ((n * CU) * p) <= 2 * (avail * tu) + CU * p
<1> DEFINE x == 2 * (n * CU) - CU
           at == avail * tu
<1>1. x \in Int /\ at \in Nat /\ CU * p \in Nat /\ n * CU \in Nat /\ (n * CU) * p \in Nat
  BY ProductNat
<1>2. x * PS = n * (2 * PS * CU) - PS * CU
  BY SMTT(30)
<1>3. 2 * avail * tu = 2 * at /\ n * (2 * PS * CU) \in Nat /\ PS * CU \in Nat
  BY ProductNat, SMTT(30)
<1>4. x * p = 2 * ((n * CU) * p) - CU * p
  BY SMTT(30)
<1> HIDE DEF x, at
<1>5. x * PS <= 2 * at
  BY <1>1, <1>2, <1>3
<1>6. x * p <= 2 * at
  <2>1. CASE x < 0
    <3>1. x * p <= 0 * p
      BY <1>1, <2>1, Multiplied
    <3> QED
      BY <1>1, <3>1
  <2>2. CASE x >= 0
    <3>1. x \in Nat
      BY <1>1, <2>2
    <3>2. p * x <= PS * x
      BY <3>1, Multiplied
    <3>3. p * x = x * p /\ PS * x = x * PS
      BY <3>1
    <3> QED
      BY <1>1, <1>5, <3>1, <3>2, <3>3
  <2> QED
    BY <1>1, <2>1, <2>2
<1> QED
  BY <1>1, <1>4, <1>6 DEF at

\* So a debt d with them is worth at most cap, half a cent and a unit.
LEMMA MaxAboveCapacity ==
    ASSUME NEW CU \in Nat \ {0}, NEW tu \in Nat \ {0}, NEW p \in Nat \ {0},
           NEW d \in Nat, NEW W \in Nat, d * p < (W + 1) * tu,
           NEW avail \in Nat, NEW max \in Nat,
           2 * (max * p) <= 2 * (avail * tu) + CU * p,
           NEW S \in Nat, S * tu <= (d + max) * p
    PROVE  2 * ((S - (W + avail)) - 1) * tu < CU * p
<1>1. /\ d * p \in Nat /\ max * p \in Nat /\ avail * tu \in Nat /\ S * tu \in Nat
      /\ CU * p \in Nat /\ W * tu \in Nat
  BY ProductNat
<1>2. (d + max) * p = d * p + max * p /\ (W + 1) * tu = W * tu + tu
  BY SMTT(30)
<1>3. 2 * ((S - (W + avail)) - 1) * tu
        = 2 * (S * tu) - 2 * (W * tu) - 2 * (avail * tu) - 2 * tu
  BY SMTT(30)
<1> QED
  BY <1>1, <1>2, <1>3

LEMMA MaxWorth ==
    ASSUME TypeInv, get_priceOK, NEW user \in Users, PositionReadable(user),
           refresh(user).market.priceUsd <= PRICE_SCALE,
           MaxBorrow(refresh(user)) \in Nat \ {0}
    PROVE  2 * ((simulatedDebtUsd(refresh(user), MaxBorrow(refresh(user)))
                   - refresh(user).position.borrowCapacityUsd) - 1) * TokenUnit
             < CentUnits * refresh(user).market.priceUsd
<1> DEFINE view == refresh(user)
           p == view.market.priceUsd
           d == view.position.borrowedAmount
           cap == view.position.borrowCapacityUsd
           avail == view.position.availableToBorrowUsd
           W == tokenAmountToUsd(d, p)
           max == MaxBorrow(view)
           S == simulatedDebtUsd(view, max)
           m == 2 * PRICE_SCALE * CentUnits
           x == 2 * avail * TokenUnit + PRICE_SCALE * CentUnits
           n == x \div m
<1>1. p \in Nat \ {0} /\ d \in Nat /\ cap \in Nat /\ avail \in Nat
  BY ViewNumbers
<1>2. TokenUnit \in Nat \ {0} /\ PRICE_SCALE \in Nat \ {0} /\ CentUnits \in Nat \ {0}
  BY Scales, FormAssumption
<1>3. max = n * CentUnits /\ max \in Nat \ {0} /\ p <= PRICE_SCALE
  BY DEF MaxBorrow
<1>4. d * p \in Nat /\ (d + max) * p \in Nat
  BY <1>1, <1>3, ProductNat
<1>5. W \in Nat /\ d * p < (W + 1) * TokenUnit
  <2>1. W = (d * p) \div TokenUnit
    BY DEF tokenAmountToUsd, mulDivDown
  <2> QED
    BY <1>2, <1>4, <2>1, DivBounds
<1>6. S \in Nat /\ S * TokenUnit <= (d + max) * p
  <2>1. S = ((d + max) * p) \div TokenUnit
    BY DEF simulatedDebtUsd, tokenAmountToUsd, mulDivDown
  <2> QED
    BY <1>2, <1>4, <2>1, DivBounds
<1>7. avail = IF cap > W THEN cap - W ELSE 0
  BY ViewFields
<1>8. m \in Nat \ {0} /\ x \in Nat
  <2>1. PRICE_SCALE * CentUnits \in Nat /\ PRICE_SCALE * CentUnits # 0
    BY <1>2, ProductNat, SMTT(30)
  <2>2. avail * TokenUnit \in Nat
    BY <1>1, <1>2, ProductNat
  <2> QED
    BY <1>1, <1>2, <2>1, <2>2
<1>9. n \in Nat /\ n * m <= x
  BY <1>8, DivBounds
<1> HIDE DEF view, p, d, cap, avail, W, max, S, n
<1>10. 2 * (max * p) <= 2 * (avail * TokenUnit) + CentUnits * p
  BY <1>1, <1>2, <1>3, <1>9, DollarsForTokens
<1>11. cap = W + avail
  <2>1. ASSUME avail = 0 PROVE FALSE
    <3>1. 2 * (max * p) <= CentUnits * p
      <4>1. avail * TokenUnit = 0
        BY <1>2, <2>1
      <4>2. CentUnits * p \in Nat
        BY <1>1, <1>2, ProductNat
      <4> QED
        BY <1>10, <4>1, <4>2
    <3>2. n # 0
      BY <1>2, <1>3
    <3>3. max >= CentUnits
      <4>1. n * CentUnits >= CentUnits
        <5>1. 1 <= n
          BY <1>9, <3>2
        <5>2. 1 * CentUnits <= n * CentUnits
          BY <1>2, <1>9, <5>1, Multiplied
        <5> QED
          BY <1>2, <5>2
      <4> QED
        BY <1>3, <4>1
    <3>4. CentUnits * p <= max * p
      BY <1>1, <1>2, <1>3, <3>3, Multiplied
    <3>5. max * p > 0 /\ max * p \in Int /\ CentUnits * p \in Int
      BY <1>1, <1>2, <1>3, SMTT(30)
    <3> QED
      BY <3>1, <3>4, <3>5
  <2> QED
    BY <1>1, <1>5, <1>7, <2>1
<1>12. 2 * ((S - (W + avail)) - 1) * TokenUnit < CentUnits * p
  BY <1>1, <1>2, <1>3, <1>5, <1>6, <1>10, MaxAboveCapacity
<1>13. 2 * ((S - cap) - 1) * TokenUnit < CentUnits * p
  BY <1>11, <1>12
<1> QED
  BY <1>13 DEF S, cap, p, max, view

LEMMA MaxReaches ==
    ASSUME TypeInv, MarketReadable, NEW user \in Users
    PROVE  LET view   == refresh(user)
               p      == view.position
               max    == MaxBorrow(view)
               beyond == simulatedDebtUsd(view, max) - p.borrowCapacityUsd
           IN  /\ PositionReadable(user) /\ max \in 1..availableLiquidity(view)
                  => /\ BorrowFormAccepts(view, max) \/ beyond > 0
                     /\ view.market.priceUsd <= PRICE_SCALE =>
                          2 * (beyond - 1) * TokenUnit
                            < CentUnits * view.market.priceUsd
               /\ p.suppliedAmount >= ExponentUnits
                    => SupplyFormAccepts(view, "withdraw",
                                         MaxOfBalance(p.suppliedAmount))
               /\ p.collateralAmount >= ExponentUnits
                    => SupplyFormAccepts(view, "withdraw_collat",
                                         MaxOfBalance(p.collateralAmount))
               /\ p.borrowedAmount >= ExponentUnits
                    => RepayFormAccepts(view, MaxOfBalance(p.borrowedAmount))
<1> DEFINE view == refresh(user)
           p == view.position
           max == MaxBorrow(view)
           S == simulatedDebtUsd(view, max)
<1>1. get_priceOK /\ ExponentUnits \in Nat \ {0}
  BY FormAssumption DEF MarketReadable
<1>2. \A n \in Int : n >= ExponentUnits =>
        MaxOfBalance(n) = n /\ validateAvailableAmount(n, n)
  BY <1>1 DEF MaxOfBalance, validateAvailableAmount
<1>3. /\ p.suppliedAmount \in Int /\ p.collateralAmount \in Int
      /\ p.borrowedAmount \in Int
  <2>1. SharesOf(user) \in Int /\ current_debt(user) \in Int /\ collateral[user] \in Int
    BY DEF TypeInv, PoolTypeInv, PoolTypeOK, VaultTypeOK, UserLendingPosition,
           current_debt, SharesOf
  <2> QED
    BY <2>1, ViewFields
<1>4. /\ p.suppliedAmount >= ExponentUnits
           => SupplyFormAccepts(view, "withdraw", MaxOfBalance(p.suppliedAmount))
      /\ p.collateralAmount >= ExponentUnits
           => SupplyFormAccepts(view, "withdraw_collat", MaxOfBalance(p.collateralAmount))
      /\ p.borrowedAmount >= ExponentUnits
           => RepayFormAccepts(view, MaxOfBalance(p.borrowedAmount))
  <2> HIDE DEF view
  <2> QED
    BY <1>2, <1>3 DEF SupplyFormAccepts, RepayFormAccepts
<1>5. ASSUME PositionReadable(user), max \in 1..availableLiquidity(view)
      PROVE  /\ BorrowFormAccepts(view, max) \/ S - p.borrowCapacityUsd > 0
             /\ view.market.priceUsd <= PRICE_SCALE =>
                  2 * ((S - p.borrowCapacityUsd) - 1) * TokenUnit
                    < CentUnits * view.market.priceUsd
  <2>1. max \in Nat \ {0} /\ max <= availableLiquidity(view)
    <3>1. availableLiquidity(view) \in Int
      <4>1. view.market.totalSupply = market.total_supplied
              /\ view.market.totalBorrowed = market.total_borrowed
        BY ViewFields
      <4>2. market.total_supplied \in Int /\ market.total_borrowed \in Int
        BY DEF MarketReadable, TypeInv, PoolTypeInv, PoolTypeOK, MarketState
      <4> HIDE DEF view
      <4> QED
        BY <4>1, <4>2 DEF availableLiquidity
    <3> HIDE DEF max, view
    <3> QED
      BY <1>5, <3>1
  <2>2. view.market.priceUsd <= PRICE_SCALE =>
          2 * ((S - p.borrowCapacityUsd) - 1) * TokenUnit
            < CentUnits * view.market.priceUsd
    BY <1>1, <1>5, <2>1, MaxWorth
  <2>3. S <= p.borrowCapacityUsd => BorrowFormAccepts(view, max)
    BY <1>1, <1>5, <2>1, AcceptedWithin
  <2>4. S \in Int /\ p.borrowCapacityUsd \in Int
    <3>1. /\ view.market.priceUsd \in Nat \ {0} /\ p.borrowedAmount \in Nat
          /\ p.borrowCapacityUsd \in Nat
      BY <1>1, <1>5, ViewNumbers
    <3>2. (p.borrowedAmount + max) * view.market.priceUsd \in Nat
      <4> HIDE DEF max, view
      <4> QED
        BY <2>1, <3>1, ProductNat
    <3>3. S = ((p.borrowedAmount + max) * view.market.priceUsd) \div TokenUnit
      BY DEF simulatedDebtUsd, tokenAmountToUsd, mulDivDown
    <3> HIDE DEF max, view, S
    <3> QED
      BY <3>1, <3>2, <3>3, Scales, DivBounds
  <2> HIDE DEF max, view, S
  <2> QED
    BY <2>2, <2>3, <2>4
<1> QED
  BY <1>4, <1>5

\* What Max fills in can be submitted, whatever the price, the limits and the
\* scales, except for the rounding to cents and balances written with an
\* exponent.
THEOREM MaxReached == Spec \/ DeployedSpec => []MaxIsWithinReach
<1>1. TypeInv => MaxIsWithinReach
  BY MaxReaches DEF MaxIsWithinReach
<1> QED
  BY <1>1, Invariant, PTL

----------------------------------------------------------------------------
(* A loan, as the form and as the pool with its vault see it.               *)

\* The capacity at a fine scale and at one k times coarser.
LEMMA CapacityFineAndCoarse ==
    ASSUME NEW V \in Nat, NEW v \in Nat, NEW k \in Nat \ {0}, NEW B \in Nat \ {0},
           NEW L \in 0..B, v * k <= V, V < (v + 1) * k,
           NEW cap \in Nat, cap * B <= V * L, V * L < (cap + 1) * B,
           NEW cc \in Nat, cc * B <= v * L, v * L < (cc + 1) * B
    PROVE  cc * k <= cap /\ cap < (cc + 2) * k
<1>1. L \in Nat /\ L <= B
  OBVIOUS
<1>2. /\ V * L \in Nat /\ v * L \in Nat /\ cap * B \in Nat /\ cc * B \in Nat
      /\ (cap + 1) * B \in Nat /\ (cc + 1) * B \in Nat /\ v * k \in Nat /\ cc * k \in Nat
      /\ (v + 1) * k \in Nat /\ (cc + 2) * k \in Nat /\ k * L \in Nat /\ k * B \in Nat
  BY <1>1, ProductNat
<1>3. /\ (cc * B) * k = (cc * k) * B
      /\ (v * k) * L = (v * L) * k
      /\ ((v + 1) * k) * L = (v * L) * k + k * L
      /\ ((cc + 1) * B) * k + k * B = ((cc + 2) * k) * B
  BY <1>1, SMTT(30)
<1>4. /\ (v * L) * k \in Nat /\ (cc * k) * B \in Nat /\ ((cc + 1) * B) * k \in Nat
      /\ ((cc + 2) * k) * B \in Nat /\ ((v + 1) * k) * L \in Nat
  BY <1>1, <1>2, ProductNat
<1>5. cc * k <= cap
  <2>1. (cc * B) * k <= (v * L) * k
    BY <1>2, Multiplied
  <2>2. (v * k) * L <= V * L
    BY <1>1, <1>2, Multiplied
  <2>3. (cc * k) * B < (cap + 1) * B
    BY <1>2, <1>3, <1>4, <2>1, <2>2
  <2>4. cc * k < cap + 1
    BY <1>2, <2>3, Cancelled
  <2> QED
    BY <1>2, <2>4
<1>6. cap < (cc + 2) * k
  <2>1. V * L <= ((v + 1) * k) * L
    BY <1>1, <1>2, Multiplied
  <2>2. (v * L) * k < ((cc + 1) * B) * k
    BY <1>2, MultipliedStrictly
  <2>3. k * L <= k * B
    <3>1. L * k <= B * k
      BY <1>1, Multiplied
    <3> QED
      BY <1>1, <3>1, SMTT(30)
  <2>4. cap * B < ((cc + 2) * k) * B
    BY <1>2, <1>3, <1>4, <2>1, <2>2, <2>3
  <2> QED
    BY <1>2, <2>4, Cancelled
<1> QED
  BY <1>5, <1>6

\* The vault's value of an amount as one quotient, and that it grows with it.
LEMMA ValueGrows ==
    ASSUME get_price \in Nat, NEW a \in Nat, NEW b \in Nat, a <= b
    PROVE  asset_value_usd(a) <= asset_value_usd(b)
<1>1. \A n \in Nat : asset_value_usd(n) = (n * get_price) \div PRICE_SCALE
  <2> SUFFICES ASSUME NEW n \in Nat
               PROVE  asset_value_usd(n) = (n * get_price) \div PRICE_SCALE
    OBVIOUS
  <2>1. n * get_price \in Nat /\ PRICE_SCALE \in Nat \ {0}
    BY Scales, ProductNat
  <2>2. CASE n = 0
    <3>1. n * get_price = 0
      BY <2>2
    <3>2. 0 \div PRICE_SCALE = 0
      BY <2>1, SMTT(30)
    <3> QED
      BY <2>2, <3>1, <3>2 DEF asset_value_usd
  <2>3. CASE n # 0
    BY <2>1, <2>3, QuotIsDiv DEF asset_value_usd
  <2> QED
    BY <2>2, <2>3
<1>2. a * get_price \in Nat /\ b * get_price \in Nat /\ a * get_price <= b * get_price
  BY ProductNat, Multiplied
<1>3. (a * get_price) \div PRICE_SCALE <= (b * get_price) \div PRICE_SCALE
  BY <1>2, Scales, DivMonotone
<1> QED
  BY <1>1, <1>3

\* The debt the pool asks the vault about.
LEMMA DebtAskedAbout ==
    ASSUME TypeInv, market # NoMarket, AccrualOK(market),
           NEW user \in Users, PositionReadable(user)
    PROVE  LET index == Accrued(market).borrow_index
               debt  == DebtBefore(PositionOr(user, index), index)
           IN  /\ index = AccruedIndex(market)
               /\ debt = IF current_debt(user) > 0 THEN AccruedDebt(user) ELSE 0
               /\ debt \in Int
               /\ PositionOr(user, index).principal_borrowed = current_debt(user)
<1> DEFINE index == Accrued(market).borrow_index
           p == PositionOr(user, index)
           d == current_debt(user)
<1>1. index = AccruedIndex(market)
  BY AccruedType DEF TypeInv
<1>2. d \in Nat /\ AccruedDebt(user) \in Int
  BY DebtReadable, AccruedDebtInt
<1>3. p.principal_borrowed = d
  BY DEF PositionOr, current_debt
<1>4. DebtBefore(p, index) = IF d > 0 THEN UserDebt(p, index) ELSE d
  BY <1>3 DEF DebtBefore
<1>5. d > 0 => UserDebt(p, index) = AccruedDebt(user)
  <2>1. d > 0 => position[user] # NoPosition
    BY <1>2 DEF current_debt
  <2> QED
    BY <1>1, <2>1 DEF PositionOr, AccruedDebt
<1> HIDE DEF index, p, d
<1>6. DebtBefore(p, index) = IF d > 0 THEN AccruedDebt(user) ELSE 0
  BY <1>2, <1>4, <1>5
<1>7. DebtBefore(p, index) \in Int
  BY <1>2, <1>6
<1> QED
  BY <1>1, <1>3, <1>6, <1>7 DEF index, p, d

\* The form's two values of a loan against the vault's two.
LEMMA LoanSeenTwice ==
    ASSUME TypeInv, MarketReadable, LimitsAgree, NEW user \in Users,
           PositionReadable(user), NEW amount \in Nat
    PROVE  LET k    == VaultUnitUsd
               sim  == simulatedDebtUsd(refresh(user), amount)
               cap  == refresh(user).position.borrowCapacityUsd
               w    == asset_value_usd(current_debt(user) + amount)
               cc   == Quot(asset_value_usd(collateral[user]) * vault_config.max_ltv_bps,
                            BPS_SCALE)
           IN  /\ k \in Nat \ {0} /\ sim \in Nat /\ cap \in Nat /\ w \in Nat /\ cc \in Nat
               /\ w <= cc => sim - cap < k
               /\ cc < w => cap - sim < k
<1> DEFINE k == VaultUnitUsd
           B == BPS_DIVISOR
           L == MarketConfig.maxLtvBps
           V == tokenAmountToUsd(collateral[user], get_price)
           v == asset_value_usd(collateral[user])
           n == current_debt(user) + amount
           sim == tokenAmountToUsd(n, get_price)
           w == asset_value_usd(n)
           cap == (V * L) \div B
           cc == (v * L) \div B
<1>1. get_priceOK /\ vault_config.max_ltv_bps = L
  BY DEF MarketReadable, LimitsAgree
<1>2. collateral[user] \in Nat /\ n \in Nat
  BY DebtReadable
<1>3. /\ V \in Nat /\ v \in Nat /\ v * k <= V /\ V < (v + 1) * k
      /\ sim \in Nat /\ w \in Nat /\ w * k <= sim /\ sim < (w + 1) * k
  <2> HIDE DEF n
  <2> QED
    BY <1>1, <1>2, ValuesShown
<1>4. k \in Nat \ {0} /\ B \in Nat \ {0} /\ L \in 0..B /\ L \in Nat /\ BPS_SCALE = B
  BY Scales
<1>5. V * L \in Nat /\ v * L \in Nat
  BY <1>3, <1>4, ProductNat
<1>6. /\ cap \in Nat /\ cap * B <= V * L /\ V * L < (cap + 1) * B
      /\ cc \in Nat /\ cc * B <= v * L /\ v * L < (cc + 1) * B
  BY <1>4, <1>5, DivBounds
<1>7. /\ simulatedDebtUsd(refresh(user), amount) = sim
      /\ refresh(user).position.borrowCapacityUsd = cap
  BY ViewFields DEF simulatedDebtUsd
<1>8. Quot(v * vault_config.max_ltv_bps, BPS_SCALE) = cc
  BY <1>1, <1>4, <1>5, QuotIsDiv
<1> HIDE DEF k, B, L, V, v, n, sim, w, cap, cc
<1>9. cc * k <= cap /\ cap < (cc + 2) * k
  BY <1>3, <1>4, <1>6, CapacityFineAndCoarse
<1>10. /\ (cc + 2) * k = cc * k + 2 * k /\ cc * k \in Nat
       /\ (w + 1) * k = w * k + k /\ w * k \in Nat
  BY <1>3, <1>4, <1>6, ProductNat, SMTT(30)
<1>11. ASSUME w <= cc PROVE sim - cap < k
  <2>1. w * k <= cc * k
    BY <1>3, <1>4, <1>6, <1>11, Multiplied
  <2> QED
    BY <1>3, <1>4, <1>6, <1>9, <1>10, <2>1
<1>12. ASSUME cc < w PROVE cap - sim < k
  <2>1. (cc + 1) * k <= w * k
    BY <1>3, <1>4, <1>6, <1>12, Multiplied
  <2>2. (cc + 1) * k = cc * k + k
    BY <1>4, <1>6, SMTT(30)
  <2> QED
    BY <1>3, <1>4, <1>6, <1>9, <1>10, <2>1, <2>2
<1> QED
  BY <1>3, <1>4, <1>6, <1>7, <1>8, <1>11, <1>12 DEF k, n, v, w

\* The liquidity the form goes by is the pool's.
LEMMA LiquidityShown ==
    ASSUME TypeInv, market # NoMarket, AccrualOK(market), NEW user \in Users,
           NEW amount \in Nat \ {0}
    PROVE  /\ AvailableLiquidity(Accrued(market))
                = market.total_supplied - market.total_borrowed
           /\ market.total_supplied \in Int /\ market.total_borrowed \in Int
           /\ amount <= availableLiquidity(refresh(user))
                <=> amount <= market.total_supplied - market.total_borrowed
<1>1. market.total_supplied \in Int /\ market.total_borrowed \in Int
  BY DEF TypeInv, PoolTypeInv, PoolTypeOK, MarketState
<1>2. AvailableLiquidity(Accrued(market)) = market.total_supplied - market.total_borrowed
  BY AccruedType DEF TypeInv, AvailableLiquidity
<1>3. availableLiquidity(refresh(user)) =
        IF market.total_supplied > market.total_borrowed
        THEN market.total_supplied - market.total_borrowed ELSE 0
  BY ViewFields DEF availableLiquidity
<1> QED
  BY <1>1, <1>2, <1>3

\* What the pool lends, the form offers, or it exceeds the limit by less than a
\* unit of the vault's.
LEMMA LentIsOffered ==
    ASSUME TypeInv, MarketReadable, LimitsAgree, NEW user \in Users,
           PositionReadable(user), NEW amount \in Nat \ {0},
           PoolWouldLend(user, amount), AccruedDebt(user) >= current_debt(user)
    PROVE  LET view   == refresh(user)
               beyond == simulatedDebtUsd(view, amount)
                           - view.position.borrowCapacityUsd
           IN  beyond < VaultUnitUsd /\ (BorrowFormAccepts(view, amount) \/ beyond > 0)
<1> DEFINE view == refresh(user)
           sim == simulatedDebtUsd(view, amount)
           cap == view.position.borrowCapacityUsd
           d == current_debt(user)
           index == Accrued(market).borrow_index
           debt == DebtBefore(PositionOr(user, index), index)
           w == asset_value_usd(d + amount)
           cc == Quot(asset_value_usd(collateral[user]) * vault_config.max_ltv_bps,
                      BPS_SCALE)
<1>1. /\ market # NoMarket /\ AccrualOK(market) /\ get_priceOK
      /\ amount <= AvailableLiquidity(Accrued(market))
      /\ can_borrow(user, DebtBefore(PositionOr(user, AccruedIndex(market)),
                                     AccruedIndex(market)), amount)
  BY DEF PoolWouldLend, BorrowOK, BorrowApproved, MarketReadable
<1>2. /\ index = AccruedIndex(market)
      /\ debt = IF d > 0 THEN AccruedDebt(user) ELSE 0
      /\ debt \in Int
  BY <1>1, DebtAskedAbout
<1>3. d \in Nat
  BY DebtReadable
<1>4. asset_value_usd(debt + amount) <= cc
  BY <1>1, <1>2 DEF can_borrow
<1>5. w <= asset_value_usd(debt + amount) /\ asset_value_usd(debt + amount) \in Nat
  <2>1. debt \in Nat /\ d <= debt
    BY <1>2, <1>3
  <2>2. get_price \in Nat
    BY <1>1, <1>3, ValuesShown
  <2> HIDE DEF debt, d
  <2>3. d + amount \in Nat /\ debt + amount \in Nat /\ d + amount <= debt + amount
    BY <1>3, <2>1
  <2>4. asset_value_usd(d + amount) <= asset_value_usd(debt + amount)
    BY <2>2, <2>3, ValueGrows
  <2>5. asset_value_usd(debt + amount) \in Nat
    BY <1>1, <2>3, ValuesShown
  <2> QED
    BY <2>4, <2>5
<1>6. /\ sim \in Nat /\ cap \in Nat /\ w \in Nat /\ cc \in Nat
      /\ w <= cc => sim - cap < VaultUnitUsd
  BY LoanSeenTwice
<1>7. amount <= availableLiquidity(view)
  BY <1>1, LiquidityShown
<1>8. sim <= cap => BorrowFormAccepts(view, amount)
  BY <1>1, <1>7, AcceptedWithin
<1> HIDE DEF sim, cap, w, cc, debt, view
<1>9. w <= cc
  BY <1>4, <1>5, <1>6
<1> QED
  BY <1>6, <1>8, <1>9 DEF view, sim, cap

\* What the form offers, the pool lends, or its debt is valued less than a unit
\* below the limit.
LEMMA OfferedIsLent ==
    ASSUME BooksInOrder, MarketReadable, market.is_active, LimitsAgree,
           NEW user \in Users, PositionReadable(user), NEW amount \in Nat \ {0},
           BorrowFormAccepts(refresh(user), amount),
           ~PoolWouldLend(user, amount), CanAccrue, LoanFits(user, amount),
           AccruedDebt(user) = current_debt(user)
    PROVE  refresh(user).position.borrowCapacityUsd
             - simulatedDebtUsd(refresh(user), amount) < VaultUnitUsd
<1> DEFINE d == current_debt(user)
           m == Accrued(market)
           index == m.borrow_index
           p == PositionOr(user, index)
           debt == DebtBefore(p, index)
           w == asset_value_usd(d + amount)
           cc == Quot(asset_value_usd(collateral[user]) * vault_config.max_ltv_bps,
                      BPS_SCALE)
<1>1. TypeInv /\ market # NoMarket /\ AccrualOK(market) /\ get_priceOK
  BY DEF BooksInOrder, CanAccrue, MarketReadable
<1>2. /\ index = AccruedIndex(market)
      /\ debt = IF d > 0 THEN AccruedDebt(user) ELSE 0
      /\ p.principal_borrowed = d
  BY <1>1, DebtAskedAbout
<1>3. d \in Nat /\ debt = d
  BY <1>1, <1>2, DebtReadable
<1>4. /\ AvailableLiquidity(m) = market.total_supplied - market.total_borrowed
      /\ market.total_supplied \in Int /\ market.total_borrowed \in Int
      /\ amount <= market.total_supplied - market.total_borrowed
  <2>1. amount <= availableLiquidity(refresh(user))
    BY DEF BorrowFormAccepts, validateAvailableAmount
  <2> QED
    BY <1>1, <2>1, LiquidityShown
<1>5. m.total_borrowed = market.total_borrowed /\ market.total_borrowed >= 0
  BY <1>1, AccruedType DEF TypeInv, MarketReadable
<1>6. /\ token[PoolAddr] \in Nat /\ token[user] \in Nat /\ I128Max \in Nat
      /\ token[user] + token[PoolAddr] <= I128Max
  BY AddressesApart, BalancesFit, HostAssumption DEF BooksInOrder
<1>7. market.total_supplied - market.total_borrowed <= token[PoolAddr]
  BY <1>1 DEF BooksInOrder, Solvency
<1>8. Fits(market.total_supplied)
  BY <1>1 DEF BooksInOrder, StoredFits, MarketFits
<1>9. get_price \in Nat \ {0}
  BY <1>1, <1>3, ValuesShown
<1>10. Fits(d + amount)
  <2>1. Fits((d + amount) * get_price)
    BY DEF LoanFits
  <2> HIDE DEF d
  <2>2. d + amount <= (d + amount) * get_price /\ (d + amount) * get_price \in Nat
    BY <1>3, <1>9, ProductNat, SMTT(30)
  <2> QED
    BY <1>3, <1>6, <2>1, <2>2 DEF Fits
<1> HIDE DEF m, index, p, debt, d
<1>11. /\ Fits(AvailableLiquidity(m)) /\ amount <= AvailableLiquidity(m)
       /\ Fits(m.total_borrowed + amount)
       /\ CanTransfer(PoolAddr, user, amount)
  <2>1. amount <= token[PoolAddr] /\ Fits(AvailableLiquidity(m))
    BY <1>4, <1>6, <1>7 DEF Fits
  <2>2. Fits(m.total_borrowed + amount)
    BY <1>4, <1>5, <1>6, <1>8 DEF Fits
  <2>3. Fits(token[user] + amount)
    BY <1>6, <2>1 DEF Fits
  <2> QED
    BY <1>4, <2>1, <2>2, <2>3 DEF CanTransfer
<1>12. p.principal_borrowed > 0 => UserDebtOK(p, index)
  <2>1. ASSUME p.principal_borrowed > 0 PROVE UserDebtOK(p, index)
    <3>1. position[user] # NoPosition
      BY <1>2, <2>1 DEF d, current_debt
    <3>2. p = position[user]
      BY <3>1 DEF p, PositionOr
    <3> QED
      BY <1>2, <3>1, <3>2 DEF LoanFits
  <2> QED
    BY <2>1
<1>13. BorrowOK(user, amount)
  <2>1. Fits(debt + amount)
    BY <1>3, <1>10
  <2> QED
    BY <1>1, <1>11, <1>12, <2>1 DEF BorrowOK, m, index, p, debt
<1>14. ~can_borrow(user, d, amount)
  BY <1>2, <1>3, <1>13 DEF PoolWouldLend, BorrowApproved, index, p, debt
<1>15. ~(w <= cc)
  <2>1. vault_config # NoVaultConfig
    BY DEF LimitsAgree
  <2>2. /\ asset_value_usdOK(collateral[user])
        /\ Fits(asset_value_usd(collateral[user]) * vault_config.max_ltv_bps)
        /\ asset_value_usdOK(d + amount)
    BY <1>1 DEF LoanFits, asset_value_usdOK, d
  <2> QED
    BY <1>10, <1>14, <2>1, <2>2 DEF can_borrow
<1>16. /\ w \in Nat /\ cc \in Nat
       /\ cc < w => refresh(user).position.borrowCapacityUsd
                      - simulatedDebtUsd(refresh(user), amount) < VaultUnitUsd
  BY <1>1, LoanSeenTwice DEF d
<1> HIDE DEF w, cc
<1> QED
  BY <1>15, <1>16

\* A market that is opened stays active: no call of the contract closes it.
MarketActive == market # NoMarket => market.is_active

LEMMA AccrualKeepsActive ==
    ASSUME market \in MarketState, market.is_active
    PROVE  \A x : /\ [Accrued(market) EXCEPT !.total_supplied = x].is_active
                  /\ [Accrued(market) EXCEPT !.total_borrowed = x].is_active
BY DEF Accrued, MarketState

LEMMA ActiveStays ==
    ASSUME TypeInv, MarketActive, [Next]_vars
    PROVE  MarketActive'
<1>1. market # NoMarket => market \in MarketState
  BY DEF TypeInv, PoolTypeInv, PoolTypeOK
<1>2. CASE UNCHANGED market
  BY <1>2 DEF MarketActive
<1>3. CASE InitMarket
  BY <1>3 DEF InitMarket, MarketActive
<1>4. CASE \E user \in Users, amount \in Amounts :
             Supply(user, amount) \/ Withdraw(user, amount) \/ Borrow(user, amount)
  <2>1. PICK user \in Users, amount \in Amounts :
           Supply(user, amount) \/ Withdraw(user, amount) \/ Borrow(user, amount)
    BY <1>4
  <2>2. /\ market # NoMarket
        /\ \E x : \/ market' = [Accrued(market) EXCEPT !.total_supplied = x]
                  \/ market' = [Accrued(market) EXCEPT !.total_borrowed = x]
    BY <2>1 DEF Supply, Withdraw, WithdrawOK, Borrow, BorrowOK
  <2> QED
    BY <1>1, <2>2, AccrualKeepsActive DEF MarketActive
<1>5. CASE \E payer, borrower, amount : RepayRecords(payer, borrower, amount)
  <2>1. PICK payer, borrower, amount : RepayRecords(payer, borrower, amount)
    BY <1>5
  <2>2. /\ market # NoMarket
        /\ \E x : market' = [Accrued(market) EXCEPT !.total_borrowed = x]
    BY <2>1 DEF RepayRecords, RepayOK
  <2> QED
    BY <1>1, <2>2, AccrualKeepsActive DEF MarketActive
<1>6. CASE PoolStep
  BY <1>2, <1>3, <1>4, <1>5, <1>6
  DEF PoolStep, PoolCalls, PoolInitialize, Repay, BorrowAgainstCollateral
<1>7. CASE \E liquidator, borrower \in Users, amount \in Amounts :
             Liquidate(liquidator, borrower, amount)
  BY <1>5, <1>7 DEF Liquidate
<1> QED
  BY <1>2, <1>6, <1>7
  DEF Next, vars, pool_vars, HostStep, RateStep, OracleStep, VaultStep, EngineStep

LEMMA AlwaysActive == Spec \/ DeployedSpec => []MarketActive
<1>1. Init \/ DeployedInit => MarketActive
  BY DEF Init, PoolInit, DeployedInit, MarketActive
<1> QED
  BY <1>1, ActiveStays, Invariant, PTL DEF Spec, DeployedSpec

\* The borrow form lets through what the pool lends and nothing else, for every
\* price, limit and scale, up to one unit of the vault's values around the
\* limit.
THEOREM BorrowFormAgrees == Spec \/ DeployedSpec => []BorrowFormAgreesWithPool
<1>1. ASSUME BooksInOrder, MarketActive
      PROVE  BorrowFormAgreesWithPool
  <2> SUFFICES ASSUME MarketReadable, LimitsAgree, NEW user \in Users,
                      NEW amount \in 1..collateral[user], PositionReadable(user)
               PROVE  LET view    == refresh(user)
                          beyond  == simulatedDebtUsd(view, amount)
                                       - view.position.borrowCapacityUsd
                          lent    == PoolWouldLend(user, amount)
                          offered == BorrowFormAccepts(view, amount)
                      IN  /\ lent /\ AccruedDebt(user) >= current_debt(user)
                               => beyond < VaultUnitUsd /\ (offered \/ beyond > 0)
                          /\ /\ offered /\ ~lent
                             /\ CanAccrue /\ LoanFits(user, amount)
                             /\ AccruedDebt(user) = current_debt(user)
                             => -beyond < VaultUnitUsd
    BY DEF BorrowFormAgreesWithPool
  <2> DEFINE view == refresh(user)
             sim == simulatedDebtUsd(view, amount)
             cap == view.position.borrowCapacityUsd
  <2>1. TypeInv /\ market.is_active
    BY <1>1 DEF BooksInOrder, MarketActive, MarketReadable
  <2>2. amount \in Nat \ {0}
    BY <2>1, DebtReadable
  <2>3. PoolWouldLend(user, amount) /\ AccruedDebt(user) >= current_debt(user)
          => sim - cap < VaultUnitUsd
               /\ (BorrowFormAccepts(view, amount) \/ sim - cap > 0)
    BY <2>1, <2>2, LentIsOffered
  <2>4. /\ BorrowFormAccepts(view, amount) /\ ~PoolWouldLend(user, amount)
        /\ CanAccrue /\ LoanFits(user, amount)
        /\ AccruedDebt(user) = current_debt(user)
        => cap - sim < VaultUnitUsd
    BY <1>1, <2>1, <2>2, OfferedIsLent
  <2>5. cap \in Nat /\ sim \in Nat
    BY <2>1, <2>2, LoanSeenTwice
  <2> HIDE DEF view, sim, cap
  <2>6. -(sim - cap) = cap - sim
    BY <2>5
  <2> QED
    BY <2>3, <2>4, <2>6 DEF view, sim, cap
<1> QED
  BY <1>1, BooksStayInOrder, AlwaysActive, PTL
=============================================================================
