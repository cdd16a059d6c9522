---------------------------- MODULE HealthProofs ----------------------------
(***************************************************************************)
(* Health and liquidation: the arithmetic of truncated quotients, each a   *)
(* fact about a product, and the products compared.  The price cancels out *)
(* of the health factor up to one unit of the vault's values; a fresh loan *)
(* is healthy; collateral leaves safely or paid for; a liquidation heals;  *)
(* and a repayment or a liquidation that is due cannot be refused.  The    *)
(* last part is about the debts, which back what the market has lent.      *)
(***************************************************************************)
EXTENDS BooksProofs

----------------------------------------------------------------------------
\* What a truncated quotient is: the whole number of times b goes into a.
LEMMA QuotBounds ==
    ASSUME NEW a \in Nat, NEW b \in Nat \ {0}
    PROVE  /\ Quot(a, b) \in Nat
           /\ Quot(a, b) * b <= a
           /\ a < (Quot(a, b) + 1) * b
<1>1. Quot(a, b) = a \div b
  BY DEF Quot, Abs
<1>2. a \div b \in Nat /\ (a \div b) * b <= a /\ a < (a \div b + 1) * b
  BY SMTT(30)
<1> QED
  BY <1>1, <1>2

LEMMA Multiplied ==
    ASSUME NEW a \in Int, NEW b \in Int, NEW c \in Nat, a <= b
    PROVE  a * c <= b * c
BY SMTT(30)

LEMMA MultipliedStrictly ==
    ASSUME NEW a \in Int, NEW b \in Int, NEW c \in Nat \ {0}, a < b
    PROVE  a * c < b * c
BY SMTT(30)

LEMMA Cancelled ==
    ASSUME NEW a \in Int, NEW b \in Int, NEW c \in Nat \ {0}, a * c < b * c
    PROVE  a < b
<1>1. ASSUME b <= a PROVE FALSE
  BY <1>1, Multiplied
<1> QED
  BY <1>1

----------------------------------------------------------------------------
(* The arithmetic: c units of collateral and d of debt at the price p; v and *)
(* w are their values in units of S, a is what counts of v under the         *)
(* threshold T of B.                                                         *)

\* If the tokens alone fall short by one unit of value, so do the values.
LEMMA ShortOfValue ==
    ASSUME NEW c \in Nat, NEW d \in Nat, NEW T \in Nat,
           NEW p \in Nat, NEW S \in Nat \ {0}, NEW B \in Nat \ {0},
           NEW v \in Nat, NEW w \in Nat, NEW a \in Nat,
           v * S <= c * p, d * p < (w + 1) * S, a * B <= v * T,
           (d * B - c * T) * p >= S * B
    PROVE  a < w
<1>1. (d * p) * B < ((w + 1) * S) * B
  BY MultipliedStrictly
<1>2. (v * S) * T <= (c * p) * T
  BY Multiplied
<1>3. (d * p) * B - (c * p) * T >= S * B
  <2>1. (d * B - c * T) * p = (d * p) * B - (c * p) * T
    BY SMTT(30)
  <2> QED
    BY <2>1
<1>4. ((w + 1) * S) * B = (w * B) * S + S * B
  BY SMTT(30)
<1>5. (v * S) * T = (v * T) * S
  BY SMTT(30)
<1>6. (v * T) * S < (w * B) * S
  <2> DEFINE x1 == (d * p) * B
             x2 == (c * p) * T
             x3 == S * B
             x4 == (w * B) * S
             x5 == (v * T) * S
  <2>1. x1 \in Int /\ x2 \in Int /\ x3 \in Int /\ x4 \in Int /\ x5 \in Int
    OBVIOUS
  <2>2. x1 < x4 + x3 /\ x5 <= x2 /\ x1 - x2 >= x3
    BY <1>1, <1>2, <1>3, <1>4, <1>5
  <2> HIDE DEF x1, x2, x3, x4, x5
  <2>3. x5 < x4
    BY <2>1, <2>2
  <2> QED
    BY <2>3 DEF x4, x5
<1>7. v * T < w * B
  <2>1. v * T \in Int /\ w * B \in Int
    OBVIOUS
  <2> QED
    BY <1>6, <2>1, Cancelled
<1>8. a * B < w * B
  <2>1. a * B \in Int /\ v * T \in Int /\ w * B \in Int
    OBVIOUS
  <2> QED
    BY <1>7, <2>1
<1> QED
  BY <1>8, Cancelled

\* If the values fall short, the tokens alone cover the debt by less than one
\* unit of value.
LEMMA ShortOfTokens ==
    ASSUME NEW c \in Nat, NEW d \in Nat, NEW T \in Nat,
           NEW p \in Nat, NEW S \in Nat \ {0}, NEW B \in Nat \ {0},
           NEW v \in Nat, NEW w \in Nat, NEW a \in Nat,
           c * p < (v + 1) * S, w * S <= d * p, v * T < (a + 1) * B,
           a < w
    PROVE  (c * T - d * B) * p < S * T
<1>1. (c * p) * T <= ((v + 1) * S) * T
  BY Multiplied
<1>2. (w * S) * B <= (d * p) * B
  BY Multiplied
<1>3. (a + 1) * B <= w * B
  BY Multiplied
<1>4. (v * T) * S < (w * B) * S
  <2>1. v * T \in Int /\ w * B \in Int /\ (a + 1) * B \in Int
    OBVIOUS
  <2>2. v * T < w * B
    BY <1>3, <2>1
  <2> QED
    BY <2>1, <2>2, MultipliedStrictly
<1>5. /\ ((v + 1) * S) * T = (v * T) * S + S * T
      /\ (w * S) * B = (w * B) * S
  BY SMTT(30)
<1>6. (c * T - d * B) * p = (c * p) * T - (d * p) * B
  BY SMTT(30)
<1> DEFINE x1 == (d * p) * B
           x2 == (c * p) * T
           x3 == S * T
           x4 == (w * B) * S
           x5 == (v * T) * S
<1>7. x1 \in Int /\ x2 \in Int /\ x3 \in Int /\ x4 \in Int /\ x5 \in Int
  OBVIOUS
<1>8. x2 <= x5 + x3 /\ x4 <= x1 /\ x5 < x4
  BY <1>1, <1>2, <1>4, <1>5
<1>9. (c * T - d * B) * p = x2 - x1
  BY <1>6
<1> HIDE DEF x1, x2, x3, x4, x5
<1>10. x2 - x1 < x3
  BY <1>7, <1>8
<1> QED
  BY <1>9, <1>10 DEF x3

----------------------------------------------------------------------------
(* The vault's values are such numbers.                                      *)

\* A value in units of PRICE_SCALE, also of nothing.
LEMMA ValueBounds ==
    ASSUME NEW n \in Nat, price \in PriceRecord
    PROVE  /\ asset_value_usd(n) \in Nat
           /\ asset_value_usd(n) * PRICE_SCALE <= n * get_price
           /\ n * get_price < (asset_value_usd(n) + 1) * PRICE_SCALE
<1>1. get_price \in Nat /\ PRICE_SCALE \in Nat \ {0} /\ n * get_price \in Nat
  BY VaultAssumption DEF get_price, PriceRecord
<1>2. CASE n = 0
  BY <1>1, <1>2 DEF asset_value_usd
<1>3. CASE n # 0
  <2>1. asset_value_usd(n) = Quot(n * get_price, PRICE_SCALE)
    BY <1>3 DEF asset_value_usd
  <2> QED
    BY <1>1, <2>1, QuotBounds
<1> QED
  BY <1>2, <1>3

\* What counts of the collateral.
LEMMA AdjustedBounds ==
    ASSUME NEW n \in Nat, price \in PriceRecord, vault_config \in CollateralConfig
    PROVE  /\ AdjustedCollateral(n) \in Nat
           /\ AdjustedCollateral(n) * BPS_SCALE
                <= asset_value_usd(n) * vault_config.liquidation_threshold_bps
           /\ asset_value_usd(n) * vault_config.liquidation_threshold_bps
                < (AdjustedCollateral(n) + 1) * BPS_SCALE
<1>1. /\ asset_value_usd(n) \in Nat
      /\ vault_config.liquidation_threshold_bps \in Nat
      /\ BPS_SCALE \in Nat \ {0}
  BY ValueBounds, RateAssumption DEF CollateralConfig
<1>2. asset_value_usd(n) * vault_config.liquidation_threshold_bps \in Nat
  BY <1>1, ProductNonNegative
<1> QED
  BY <1>1, <1>2, QuotBounds DEF AdjustedCollateral

\* The health factor is below one exactly when less counts than is owed.
LEMMA BelowOne ==
    ASSUME NEW n \in Nat, NEW debt \in Nat, price \in PriceRecord,
           vault_config \in CollateralConfig, asset_value_usd(debt) # 0
    PROVE  HealthFactor(n, debt) < BPS_SCALE
             <=> AdjustedCollateral(n) < asset_value_usd(debt)
<1> DEFINE a == AdjustedCollateral(n)
           w == asset_value_usd(debt)
           h == HealthFactor(n, debt)
           B == BPS_SCALE
<1>1. a \in Nat /\ w \in Nat \ {0} /\ B \in Nat \ {0}
  BY AdjustedBounds, ValueBounds, RateAssumption
<1>2. a * B \in Nat /\ h = Quot(a * B, w)
  BY <1>1, ProductNonNegative DEF HealthFactor
<1>3. h \in Nat /\ h * w <= a * B /\ a * B < (h + 1) * w
  BY <1>1, <1>2, QuotBounds
<1> HIDE DEF a, w, h, B
<1>4. w * B = B * w /\ w * B \in Int /\ h * w \in Int
  BY <1>1, <1>3
<1>5. ASSUME a < w PROVE h < B
  <2>1. a * B < w * B
    BY <1>1, <1>5, MultipliedStrictly
  <2>2. h * w < B * w
    BY <1>2, <1>3, <1>4, <2>1
  <2> QED
    BY <1>1, <1>3, <2>2, Cancelled
<1>6. ASSUME h < B PROVE a < w
  <2>1. (h + 1) * w <= B * w
    BY <1>1, <1>3, <1>6, Multiplied
  <2>2. (h + 1) * w \in Int
    BY <1>1, <1>3
  <2>3. a * B < w * B
    BY <1>2, <1>3, <1>4, <2>1, <2>2
  <2> QED
    BY <1>1, <2>3, Cancelled
<1>7. h < B <=> a < w
  BY <1>5, <1>6
<1> QED
  BY <1>7 DEF a, w, h, B

\* In a typed state the property holds; no step needs to be looked at.
LEMMA PriceCancels ==
    ASSUME TypeInv
    PROVE  PriceCancelsOut
<1> SUFFICES ASSUME vault_config # NoVaultConfig, get_priceOK,
                    NEW u \in Users, current_debt(u) > 0
             PROVE  LET T == vault_config.liquidation_threshold_bps
                        short == current_debt(u) * BPS_SCALE - collateral[u] * T
                    IN  /\ ValuesFit(u)
                             /\ short * get_price >= PRICE_SCALE * BPS_SCALE
                             => is_liquidatable(u)
                        /\ is_liquidatable(u) => -short * get_price < PRICE_SCALE * T
  BY DEF PriceCancelsOut
<1> DEFINE T == vault_config.liquidation_threshold_bps
           B == BPS_SCALE
           S == PRICE_SCALE
           p == get_price
           c == collateral[u]
           d == current_debt(u)
           v == asset_value_usd(c)
           w == asset_value_usd(d)
           a == AdjustedCollateral(c)
<1>1. price \in PriceRecord /\ vault_config \in CollateralConfig
  BY DEF TypeInv, OracleTypeOK, VaultTypeOK, get_priceOK
<1>2. d \in Nat \ {0} /\ c \in Nat
  BY DEF TypeInv, VaultTypeOK, PoolTypeInv, PoolTypeOK, current_debt,
     UserLendingPosition
<1>3. T \in Nat /\ p \in Nat /\ S \in Nat \ {0} /\ B \in Nat \ {0}
  BY <1>1, RateAssumption, VaultAssumption
  DEF CollateralConfig, PriceRecord, get_price
<1>4. v \in Nat /\ v * S <= c * p /\ c * p < (v + 1) * S
  BY <1>1, <1>2, ValueBounds
<1>5. w \in Nat /\ w * S <= d * p /\ d * p < (w + 1) * S
  BY <1>1, <1>2, ValueBounds
<1>6. a \in Nat /\ a * B <= v * T /\ v * T < (a + 1) * B
  BY <1>1, <1>2, AdjustedBounds
<1>7. is_liquidatable(u)
        <=> HealthFactorOK(c, d) /\ HealthFactor(c, d) < B
  BY <1>2 DEF is_liquidatable, get_health_factorOK, get_health_factor
<1>8. ASSUME ValuesFit(u), (d * B - c * T) * p >= S * B
      PROVE  is_liquidatable(u)
  <2>1. a < w
    BY <1>2, <1>3, <1>4, <1>5, <1>6, <1>8, ShortOfValue
  <2>2. w # 0
    BY <1>5, <1>6, <2>1
  <2>3. HealthFactorOK(c, d)
    BY <1>8, <2>2 DEF HealthFactorOK, asset_value_usdOK, ValuesFit
  <2> QED
    BY <1>1, <1>2, <1>7, <2>1, <2>2, <2>3, BelowOne
<1>9. ASSUME is_liquidatable(u)
      PROVE  (c * T - d * B) * p < S * T
  <2>1. w # 0
    BY <1>7, <1>9 DEF HealthFactorOK
  <2>2. a < w
    BY <1>1, <1>2, <1>7, <1>9, <2>1, BelowOne
  <2> QED
    BY <1>2, <1>3, <1>4, <1>5, <1>6, <2>2, ShortOfTokens
<1>10. -((d * B - c * T) * p) = (c * T - d * B) * p
  <2> HIDE DEF B, T, p, c, d
  <2> QED
    BY <1>2, <1>3, SMTT(30)
<1>11. /\ ValuesFit(u) /\ (d * B - c * T) * p >= S * B => is_liquidatable(u)
       /\ is_liquidatable(u) => -((d * B - c * T) * p) < S * T
  BY <1>8, <1>9, <1>10
<1> QED
  BY <1>11, Zenon

\* For every scale, price, threshold and width of the integers: the price
\* decides on a liquidation by less than one unit of the vault's values.
THEOREM PriceDoesNotLiquidate == Spec \/ DeployedSpec => []PriceCancelsOut
BY PriceCancels, Invariant, PTL

----------------------------------------------------------------------------
(* Fresh loans.                                                             *)

LEMMA QuotMonotone ==
    ASSUME NEW a \in Nat, NEW c \in Nat, NEW b \in Nat \ {0}, a <= c
    PROVE  Quot(a, b) <= Quot(c, b)
<1> DEFINE q == Quot(a, b)
           r == Quot(c, b)
<1>1. q \in Nat /\ q * b <= a /\ r \in Nat /\ c < (r + 1) * b
  BY QuotBounds
<1> HIDE DEF q, r
<1>2. q * b \in Int /\ (r + 1) * b \in Int
  BY <1>1
<1>3. q * b < (r + 1) * b
  BY <1>1, <1>2
<1>4. q < r + 1
  BY <1>1, <1>3, Cancelled
<1>5. q <= r
  BY <1>1, <1>4
<1> QED
  BY <1>5 DEF q, r

\* What the vault approves under its maximum LTV is healthy under a threshold
\* that is no lower: the two truncated bounds are of the same value.
LEMMA ApprovedIsHealthy ==
    ASSUME TypeInv, NEW user \in Users, NEW debt \in Int, NEW amount \in Int,
           can_borrow(user, debt, amount), debt + amount > 0,
           vault_config.max_ltv_bps <= vault_config.liquidation_threshold_bps,
           asset_value_usd(debt + amount) # 0
    PROVE  ~(HealthFactor(collateral[user], debt + amount) < BPS_SCALE)
<1> DEFINE c == collateral[user]
           v == asset_value_usd(c)
           L == vault_config.max_ltv_bps
           T == vault_config.liquidation_threshold_bps
           w == asset_value_usd(debt + amount)
<1>1. price \in PriceRecord /\ vault_config \in CollateralConfig
  BY DEF can_borrow, asset_value_usdOK, get_priceOK, TypeInv, OracleTypeOK,
     VaultTypeOK
<1>2. c \in Nat /\ debt + amount \in Nat
  BY DEF TypeInv, VaultTypeOK
<1>3. v \in Nat /\ L \in Nat /\ T \in Nat /\ BPS_SCALE \in Nat \ {0} /\ w \in Nat
  BY <1>1, <1>2, ValueBounds, RateAssumption DEF CollateralConfig
<1>4. w <= Quot(v * L, BPS_SCALE)
  BY DEF can_borrow
<1>5. AdjustedCollateral(c) = Quot(v * T, BPS_SCALE)
  BY DEF AdjustedCollateral
<1>6. v * L \in Nat /\ v * T \in Nat /\ v * L <= v * T
  <2>0. L <= T
    OBVIOUS
  <2> HIDE DEF v, L, T
  <2>1. L * v <= T * v
    BY <1>3, <2>0, Multiplied
  <2> QED
    BY <1>3, <2>1, ProductNonNegative
<1>7. /\ Quot(v * L, BPS_SCALE) <= Quot(v * T, BPS_SCALE)
      /\ Quot(v * L, BPS_SCALE) \in Nat /\ Quot(v * T, BPS_SCALE) \in Nat
  BY <1>3, <1>6, QuotMonotone, QuotBounds
<1>8. ~(AdjustedCollateral(c) < w)
  BY <1>3, <1>4, <1>5, <1>7
<1> QED
  BY <1>1, <1>2, <1>8, BelowOne

LEMMA BorrowHealthy ==
    ASSUME TypeInv, TypeInv', NEW user \in Users, NEW amount \in Int,
           BorrowAgainstCollateral(user, amount),
           UNCHANGED <<oracle_vars, vault_vars, engine_config>>,
           NEW u \in Users
    PROVE  LoanIsHealthy(u)
<1> SUFFICES ASSUME current_debt(u)' > current_debt(u), current_debt(u)' > 0,
                    vault_config.max_ltv_bps
                      <= vault_config.liquidation_threshold_bps,
                    is_liquidatable(u)'
             PROVE  FALSE
  BY DEF LoanIsHealthy
<1> DEFINE m    == Accrued(market)
           p    == PositionOr(user, m.borrow_index)
           debt == DebtBefore(p, m.borrow_index)
           new  == [p EXCEPT !.principal_borrowed = debt + amount,
                             !.borrow_index = m.borrow_index]
<1>1. /\ position' = [position EXCEPT ![user] = new]
      /\ UNCHANGED <<now, price, max_staleness, vault_config, collateral>>
  BY DEF BorrowAgainstCollateral, Borrow, oracle_vars, vault_vars
<1>2. /\ m \in MarketState
      /\ m.borrow_index = AccruedIndex(market)
  BY AccruedType DEF BorrowAgainstCollateral, Borrow, BorrowOK, TypeInv
<1>3. p \in UserLendingPosition /\ m.borrow_index \in Int
  <2>1. m.borrow_index \in Int
    BY <1>2 DEF MarketState
  <2> QED
    BY <2>1, PositionOrType DEF TypeInv, PoolTypeInv
<1>4. debt \in Int
  <2>1. UserDebt(p, m.borrow_index) \in Int
    BY <1>3, UserDebtInt
  <2> QED
    BY <1>3, <2>1 DEF DebtBefore, UserLendingPosition
<1>5. can_borrow(user, debt, amount)
  BY <1>2 DEF BorrowAgainstCollateral, BorrowApproved
<1> HIDE DEF debt
<1>6. new \in UserLendingPosition /\ new.principal_borrowed = debt + amount
  <2>1. debt + amount \in Int
    BY <1>4
  <2> QED
    BY <1>3, <2>1, RewrittenPosition DEF UserLendingPosition
<1> HIDE DEF new
<1>7. \A x \in Users : position'[x] = IF x = user THEN new ELSE position[x]
  BY <1>1 DEF TypeInv, PoolTypeInv, PoolTypeOK
<1>8. u = user
  <2>1. u # user => current_debt(u)' = current_debt(u)
    BY <1>7 DEF current_debt
  <2>2. current_debt(u) \in Int
    BY DEF current_debt, TypeInv, PoolTypeInv, PoolTypeOK, UserLendingPosition
  <2> QED
    BY <2>1, <2>2
<1>9. current_debt(u)' = debt + amount
  <2>1. position'[u] = new /\ new # NoPosition
    BY <1>6, <1>7, <1>8, PoolAssumption
  <2> QED
    BY <1>6, <2>1 DEF current_debt
<1>10. asset_value_usd(current_debt(u))' = asset_value_usd(debt + amount)
  BY <1>1, <1>9 DEF asset_value_usd, get_price
<1>11. HealthFactor(collateral[u], current_debt(u))'
         = HealthFactor(collateral[user], debt + amount)
  <2>1. asset_value_usd(collateral[u])' = asset_value_usd(collateral[user])
    BY <1>1, <1>8 DEF asset_value_usd, get_price
  <2>2. asset_value_usd(current_debt(u))' = asset_value_usd(debt + amount)
    BY <1>1, <1>9 DEF asset_value_usd, get_price
  <2> QED
    BY <1>1, <2>1, <2>2 DEF HealthFactor, AdjustedCollateral
<1>12. /\ asset_value_usd(current_debt(u))' # 0
       /\ HealthFactor(collateral[u], current_debt(u))' < BPS_SCALE
  BY DEF is_liquidatable, get_health_factorOK, get_health_factor, HealthFactorOK
<1> QED
  BY <1>4, <1>5, <1>9, <1>10, <1>11, <1>12, ApprovedIsHealthy

\* A step that lends no more, or writes no position, is not a fresh loan.
LEMMA NoFreshLoan ==
    ASSUME TypeInv, NEW u \in Users,
           \/ UNCHANGED position
           \/ /\ market # NoMarket
              /\ market'.total_borrowed <= market.total_borrowed
              /\ market'.total_borrowed \in Int
    PROVE  LoanIsHealthy(u)
<1>1. CASE UNCHANGED position
  <2>1. current_debt(u)' = current_debt(u)
    BY <1>1 DEF current_debt
  <2>2. current_debt(u) \in Int
    BY DEF current_debt, TypeInv, PoolTypeInv, PoolTypeOK, UserLendingPosition
  <2> QED
    BY <2>1, <2>2 DEF LoanIsHealthy
<1>2. CASE /\ market # NoMarket
           /\ market'.total_borrowed <= market.total_borrowed
           /\ market'.total_borrowed \in Int
  <2>1. market.total_borrowed \in Int
    BY <1>2 DEF TypeInv, PoolTypeInv, PoolTypeOK, MarketState
  <2> QED
    BY <1>2, <2>1 DEF LoanIsHealthy
<1> QED
  BY <1>1, <1>2

\* The calls of the pool that lend nothing.
LEMMA LendsNoMore ==
    ASSUME TypeInv, NEW user \in Users, NEW payer \in Users, NEW amount \in Int,
           \/ Supply(user, amount)
           \/ Withdraw(user, amount)
           \/ RepayRecords(payer, user, amount)
    PROVE  /\ market # NoMarket
           /\ market'.total_borrowed <= market.total_borrowed
           /\ market'.total_borrowed \in Int
<1> DEFINE m == Accrued(market)
<1>1. market # NoMarket /\ AccrualOK(market)
  BY DEF Supply, Withdraw, WithdrawOK, RepayRecords, RepayOK
<1>2. m \in MarketState /\ m.total_borrowed = market.total_borrowed
  BY <1>1, AccruedType DEF TypeInv
<1>3. m.total_borrowed \in Int
  BY <1>2 DEF MarketState
<1>4. CASE Supply(user, amount) \/ Withdraw(user, amount)
  <2>1. market'.total_borrowed = m.total_borrowed
    BY <1>2, <1>4 DEF Supply, Withdraw, MarketState
  <2> QED
    BY <1>1, <1>2, <1>3, <2>1
<1>5. CASE RepayRecords(payer, user, amount)
  <2> DEFINE paid == Repaid(user, amount)
  <2>1. paid \in Int /\ CanTransfer(payer, PoolAddr, paid)
          /\ market'.total_borrowed = market.total_borrowed - paid
    BY <1>5, RepayRecordsStep DEF TypeInv
  <2>2. paid >= 0
    BY <2>1 DEF CanTransfer
  <2> QED
    BY <1>1, <1>2, <1>3, <2>1, <2>2
<1> QED
  BY <1>4, <1>5

\* However the LTV, the threshold, the price and the debt are rounded: the loan
\* the vault has just approved is not liquidatable.
THEOREM FreshLoans == Spec \/ DeployedSpec => FreshLoanIsHealthy
<1>1. ASSUME TypeInv, TypeInv', [Next]_vars, NEW u \in Users
      PROVE  LoanIsHealthy(u)
  <2>1. CASE UNCHANGED position
    BY <1>1, <2>1, NoFreshLoan
  <2>2. CASE PoolStep
    <3>1. CASE \E user \in Users, amount \in Amounts :
                 \/ Supply(user, amount)
                 \/ Withdraw(user, amount)
      BY <1>1, <3>1, HostAssumption, LendsNoMore, NoFreshLoan
    <3>2. CASE \E payer, borrower \in Users, amount \in Amounts :
                 Repay(payer, borrower, amount)
      BY <1>1, <3>2, HostAssumption, LendsNoMore, NoFreshLoan DEF Repay
    <3>3. CASE \E user \in Users, amount \in Amounts :
                 BorrowAgainstCollateral(user, amount)
      <4>1. PICK user \in Users, amount \in Amounts :
               BorrowAgainstCollateral(user, amount)
        BY <3>3
      <4>2. amount \in Int
        BY HostAssumption
      <4>3. UNCHANGED <<oracle_vars, vault_vars, engine_config>>
        BY <2>2 DEF PoolStep
      <4> QED
        BY <1>1, <4>1, <4>2, <4>3, BorrowHealthy
    <3> QED
      BY <2>1, <2>2, <3>1, <3>2, <3>3
      DEF PoolStep, PoolCalls, PoolInitialize, InitMarket
  <2>3. CASE \E liquidator, borrower \in Users, amount \in Amounts :
               Liquidate(liquidator, borrower, amount)
    <3>1. PICK liquidator \in Users, borrower \in Users, amount \in Amounts :
             Liquidate(liquidator, borrower, amount)
      BY <2>3
    <3>2. amount \in Int
      BY HostAssumption
    <3>3. /\ RepayAsked(borrower, amount) \in Int
          /\ RepayRecords(liquidator, borrower, RepayAsked(borrower, amount))
      BY <1>1, <3>1, <3>2, LiquidateMoves
    <3> QED
      BY <1>1, <3>3, LendsNoMore, NoFreshLoan
  <2> QED
    BY <1>1, <2>1, <2>2, <2>3
    DEF Next, vars, pool_vars, HostStep, RateStep, OracleStep, VaultStep, EngineStep
<1>2. TypeInv /\ TypeInv' /\ [Next]_vars
        => [\A u \in Users : LoanIsHealthy(u)]_vars
  BY <1>1
<1> QED
  BY <1>2, Invariant, PTL DEF Spec, DeployedSpec, FreshLoanIsHealthy

----------------------------------------------------------------------------
(* What a liquidation takes and what it leaves.                             *)

\* A quotient above zero is of a number above zero, so its bounds hold.
LEMMA PositiveQuot ==
    ASSUME NEW a \in Int, NEW b \in Nat \ {0}, Quot(a, b) > 0
    PROVE  a \in Nat /\ Quot(a, b) \in Nat /\ Quot(a, b) * b <= a
<1>1. a >= 0
  <2> SUFFICES ASSUME a < 0 PROVE FALSE
    OBVIOUS
  <2>1. Abs(a) = -a /\ Abs(b) = b /\ -a \in Nat
    BY DEF Abs
  <2>2. (-a) \div b \in Nat
    BY <2>1
  <2>3. Quot(a, b) = -((-a) \div b)
    BY <2>1 DEF Quot
  <2> QED
    BY <2>2, <2>3
<1> QED
  BY <1>1, QuotBounds

\* Scaling a number and dividing by the scale again changes nothing.
LEMMA QuotOfProduct ==
    ASSUME NEW n \in Nat, NEW i \in Int, i # 0
    PROVE  Quot(n * i, i) = n
<1> DEFINE k == Abs(i)
<1>1. k \in Nat \ {0}
  BY DEF Abs
<1>2. Abs(n * i) = n * k
  <2>1. CASE i > 0
    <3>1. n * i >= 0
      BY <2>1, ProductNonNegative
    <3> QED
      BY <2>1, <3>1 DEF Abs
  <2>2. CASE i < 0
    <3>1. n * (-i) \in Nat /\ n * (-i) = -(n * i)
      <4>1. -i \in Nat
        BY <2>2
      <4> QED
        BY <4>1, ProductNonNegative
    <3> QED
      BY <2>2, <3>1 DEF Abs
  <2> QED
    BY <2>1, <2>2
<1>3. (n * k) \div k = n
  <2> HIDE DEF k
  <2>1. n * k \in Nat
    BY <1>1, ProductNonNegative
  <2>2. Quot(n * k, k) = (n * k) \div k
    BY <1>1, <2>1 DEF Quot, Abs
  <2>3. Quot(n * k, k) * k <= n * k /\ n * k < (Quot(n * k, k) + 1) * k
          /\ Quot(n * k, k) \in Nat
    BY <1>1, <2>1, QuotBounds
  <2> DEFINE q == Quot(n * k, k)
  <2>4. q \in Nat /\ q * k < (n + 1) * k /\ n * k < (q + 1) * k
    <3>1. (n + 1) * k = n * k + k
      BY <1>1
    <3>2. q * k \in Int
      BY <1>1, <2>3
    <3> QED
      BY <1>1, <2>1, <2>3, <3>1, <3>2
  <2> HIDE DEF q
  <2>5. q < n + 1 /\ n < q + 1
    BY <1>1, <2>4, Cancelled
  <2>6. q = n
    BY <2>4, <2>5
  <2> QED
    BY <2>2, <2>6 DEF q
<1>4. n # 0 => (n * i < 0) = (i < 0)
  <2>1. CASE i < 0
    <3>1. n # 0 => n * (-i) > 0
      BY <2>1, MultipliedStrictly
    <3>2. n * (-i) = -(n * i) /\ n * i \in Int
      OBVIOUS
    <3> QED
      BY <2>1, <3>1, <3>2
  <2>2. CASE i > 0
    BY <2>2, ProductNonNegative
  <2> QED
    BY <2>1, <2>2
<1>5. n = 0 => n * i = 0
  OBVIOUS
<1> HIDE DEF k
<1>6. CASE n # 0
  <2>1. Quot(n * i, i) = (n * k) \div k
    BY <1>2, <1>4, <1>6 DEF Quot, k
  <2> QED
    BY <1>3, <2>1
<1>7. CASE n = 0
  <2>1. Abs(0) \div k = 0
    BY <1>1 DEF Abs
  <2> QED
    BY <1>1, <1>5, <1>7, <2>1 DEF Quot, k
<1> QED
  BY <1>6, <1>7

\* The engine's numbers in a liquidation: what it asks the pool for is within
\* the close factor, what the pool takes is that or the whole debt, if less,
\* and what it seizes is within the bonus of what it asked for.
LEMMA LiquidationAmounts ==
    ASSUME TypeInv, NEW liquidator \in Users, NEW borrower \in Users,
           NEW repay_amount \in Int, Liquidate(liquidator, borrower, repay_amount)
    PROVE  LET asked  == RepayAsked(borrower, repay_amount)
               paid   == Repaid(borrower, asked)
               seized == CollateralSeized(asked)
               debt   == AccruedDebt(borrower)
           IN  /\ is_liquidatable(borrower)
               /\ asked \in Nat \ {0} /\ debt \in Int
               /\ asked * BPS_SCALE
                    <= current_debt(borrower) * engine_config.close_factor_bps
               /\ paid = IF asked > debt THEN debt ELSE asked
               /\ seized * BPS_SCALE
                    <= asked * (BPS_SCALE + engine_config.liquidation_bonus_bps)
<1> DEFINE asked  == RepayAsked(borrower, repay_amount)
           cd     == current_debt(borrower)
           cf     == engine_config.close_factor_bps
           bonus  == engine_config.liquidation_bonus_bps
           index  == AccruedIndex(market)
<1>1. /\ engine_config # NoEngineConfig
      /\ is_liquidatable(borrower)
      /\ RepayOK(liquidator, borrower, asked)
  BY DEF Liquidate, LiquidateOK
<1>2. asked \in Int /\ asked > 0 /\ CollateralSeized(asked) \in Nat
  BY <1>1, LiquidateMoves DEF RepayOK
<1>3. cf \in Nat /\ bonus \in Nat /\ BPS_SCALE \in Nat \ {0}
  BY <1>1, RateAssumption DEF TypeInv, EngineTypeOK, LiquidationConfig
<1>4. cd \in Int
  BY DEF current_debt, TypeInv, PoolTypeInv, PoolTypeOK, UserLendingPosition
<1>5. asked * BPS_SCALE <= cd * cf
  <2> DEFINE max == Quot(cd * cf, BPS_SCALE)
  <2>1. cd * cf \in Int
    BY <1>3, <1>4
  <2>2. max \in Int
    BY <1>3, <2>1, QuotInt
  <2>3. asked <= max
    <3> HIDE DEF max
    <3> QED
      BY <1>2, <2>2 DEF RepayAsked, max
  <2>4. max > 0
    <3> HIDE DEF max, asked
    <3> QED
      BY <1>2, <2>2, <2>3
  <2>5. max * BPS_SCALE <= cd * cf
    BY <1>3, <2>1, <2>4, PositiveQuot
  <2> HIDE DEF max, asked, cd, cf
  <2>6. asked * BPS_SCALE <= max * BPS_SCALE
    BY <1>2, <1>3, <2>2, <2>3, Multiplied
  <2>7. asked * BPS_SCALE \in Int /\ max * BPS_SCALE \in Int
    BY <1>2, <1>3, <2>2
  <2> QED
    BY <2>1, <2>5, <2>6, <2>7
<1>6. position[borrower] # NoPosition /\ AccrualOK(market) /\ market # NoMarket
  BY <1>1 DEF RepayOK
<1>7. AccruedDebt(borrower) = UserDebt(position[borrower], index)
  BY <1>6 DEF AccruedDebt
<1>8. AccruedDebt(borrower) \in Int
  <2>1. position[borrower] \in UserLendingPosition
    BY <1>6 DEF TypeInv, PoolTypeInv, PoolTypeOK
  <2>2. index \in Int
    BY <1>6, AccruedIndexInt DEF TypeInv
  <2> QED
    BY <1>7, <2>1, <2>2, UserDebtInt
<1>9. CollateralSeized(asked) * BPS_SCALE <= asked * (BPS_SCALE + bonus)
  <2>1. asked * (BPS_SCALE + bonus) \in Nat
    <3> HIDE DEF asked, bonus
    <3>1. asked \in Nat /\ BPS_SCALE + bonus \in Nat
      BY <1>2, <1>3
    <3> QED
      BY <3>1, ProductNonNegative
  <2> QED
    BY <1>3, <2>1, QuotBounds DEF CollateralSeized
<1> QED
  BY <1>1, <1>2, <1>5, <1>7, <1>8, <1>9 DEF Repaid, RepayActual

\* The debt a liquidation leaves, at the index it leaves.
LEMMA DebtLeft ==
    ASSUME TypeInv, NEW payer \in Users, NEW borrower \in Users,
           NEW amount \in Int, RepayRecords(payer, borrower, amount),
           Repaid(borrower, amount) <= AccruedDebt(borrower)
    PROVE  \/ DebtOf(borrower)' = 0
           \/ DebtOf(borrower)' = AccruedDebt(borrower) - Repaid(borrower, amount)
<1> DEFINE m      == Accrued(market)
           p      == position[borrower]
           paid   == Repaid(borrower, amount)
           left   == AccruedDebt(borrower) - paid
           new    == [p EXCEPT !.principal_borrowed = left,
                               !.borrow_index = m.borrow_index]
<1>1. /\ p # NoPosition
      /\ market # NoMarket /\ AccrualOK(market)
  BY DEF RepayRecords, RepayOK
<1>2. /\ m \in MarketState /\ m.borrow_index = AccruedIndex(market)
      /\ m.borrow_index \in Int
  <2>1. m \in MarketState /\ m.borrow_index = AccruedIndex(market)
    BY <1>1, AccruedType DEF TypeInv
  <2> QED
    BY <2>1 DEF MarketState
<1>3. AccruedDebt(borrower) = UserDebt(p, m.borrow_index)
  BY <1>1, <1>2 DEF AccruedDebt
<1>4. paid = RepayActual(p, m.borrow_index, amount)
  BY <1>2 DEF Repaid
<1>5. position' = [position EXCEPT ![borrower] = new]
  BY <1>3, <1>4 DEF RepayRecords
<1>6. market'.borrow_index = m.borrow_index
  BY <1>2 DEF RepayRecords, MarketState
<1>7. p \in UserLendingPosition
  BY <1>1 DEF TypeInv, PoolTypeInv, PoolTypeOK
<1>8. paid \in Int /\ AccruedDebt(borrower) \in Int
  BY <1>2, <1>3, <1>7, UserDebtInt, RepayRecordsStep DEF TypeInv
<1>9. left \in Nat
  BY <1>8
<1> HIDE DEF left, m
<1>10. /\ new \in UserLendingPosition
       /\ new.principal_borrowed = left /\ new.borrow_index = m.borrow_index
  <2>1. left \in Int /\ m.borrow_index \in Int
    BY <1>2, <1>9
  <2>2. new \in UserLendingPosition
    BY <1>7, <2>1, RewrittenPosition
  <2> QED
    BY <1>7, <2>2 DEF UserLendingPosition
<1> HIDE DEF new
<1>11. position'[borrower] = new /\ new # NoPosition
  BY <1>5, <1>10, PoolAssumption DEF TypeInv, PoolTypeInv, PoolTypeOK
<1>12. DebtOf(borrower)' = UserDebt(new, m.borrow_index)
  BY <1>6, <1>11 DEF DebtOf
<1>13. CASE left = 0 \/ m.borrow_index = 0
  BY <1>10, <1>12, <1>13 DEF UserDebt
<1>14. CASE left # 0 /\ m.borrow_index # 0
  <2>1. UserDebt(new, m.borrow_index) = left
    BY <1>2, <1>9, <1>10, <1>14, QuotOfProduct DEF UserDebt
  <2> QED
    BY <1>12, <2>1 DEF left
<1> QED
  BY <1>13, <1>14

\* Seizing s of c for the payment of a out of a debt of d, when the seizure is
\* within the bonus b of the payment and c covers the debt and its bonus.
LEMMA RatioKept ==
    ASSUME NEW c \in Nat, NEW d \in Nat, NEW s \in Nat, NEW a \in Nat,
           NEW K \in Nat, NEW B \in Nat \ {0},
           s * B <= a * K, d * K <= c * B
    PROVE  c * (d - a) <= (c - s) * d
<1>1. (s * B) * d <= (a * K) * d
  <2>1. s * B \in Int /\ a * K \in Int
    OBVIOUS
  <2> QED
    BY <2>1, Multiplied
<1>2. (d * K) * a <= (c * B) * a
  <2>1. d * K \in Int /\ c * B \in Int
    OBVIOUS
  <2> QED
    BY <2>1, Multiplied
<1>3. /\ (s * B) * d = (s * d) * B
      /\ (a * K) * d = (d * K) * a
      /\ (c * B) * a = (c * a) * B
  BY SMTT(30)
<1>4. s * d \in Int /\ c * a \in Int /\ (s * d) * B \in Int
        /\ (c * a) * B \in Int /\ (d * K) * a \in Int
  OBVIOUS
<1>5. (s * d) * B <= (c * a) * B
  BY <1>1, <1>2, <1>3, <1>4
<1>6. s * d <= c * a
  <2>1. ~(c * a < s * d)
    <3> SUFFICES ASSUME c * a < s * d PROVE FALSE
      OBVIOUS
    <3>1. (c * a) * B < (s * d) * B
      BY <1>4, MultipliedStrictly
    <3> QED
      BY <1>4, <1>5, <3>1
  <2> QED
    BY <1>4, <2>1
<1>7. c * (d - a) = c * d - c * a /\ (c - s) * d = c * d - s * d
        /\ c * d \in Int
  BY SMTT(30)
<1> QED
  BY <1>4, <1>6, <1>7

\* The step that takes collateral from a user: the user's own withdrawal, or a
\* liquidation of the user.
LEMMA CollateralFalls ==
    ASSUME TypeInv, [Next]_vars, NEW u \in Users, collateral'[u] < collateral[u]
    PROVE  \/ \E amount \in Amounts : WithdrawCollateral(u, amount)
           \/ \E liquidator \in Users, amount \in Amounts :
                 Liquidate(liquidator, u, amount)
<1>1. collateral \in [Users -> Nat]
  BY DEF TypeInv, VaultTypeOK
<1>2. collateral' # collateral
  BY <1>1
<1>3. CASE \E user \in Users, amount \in Amounts : DepositCollateral(user, amount)
  <2>1. PICK user \in Users, amount \in Amounts : DepositCollateral(user, amount)
    BY <1>3
  <2>2. amount \in Int
    BY HostAssumption
  <2>3. amount > 0 /\ collateral' = [collateral EXCEPT ![user] = @ + amount]
    BY <2>1, <2>2, DepositMoves
  <2> QED
    BY <1>1, <2>2, <2>3
<1>4. CASE \E user \in Users, amount \in Amounts : WithdrawCollateral(user, amount)
  <2>1. PICK user \in Users, amount \in Amounts : WithdrawCollateral(user, amount)
    BY <1>4
  <2>2. amount \in Int
    BY HostAssumption
  <2>3. collateral' = [collateral EXCEPT ![user] = @ - amount]
    BY <2>1, <2>2, WithdrawCollateralMoves
  <2>4. u = user
    BY <1>1, <2>3
  <2> QED
    BY <2>1, <2>4
<1>5. CASE \E liquidator, borrower \in Users, amount \in Amounts :
             Liquidate(liquidator, borrower, amount)
  <2>1. PICK liquidator \in Users, borrower \in Users, amount \in Amounts :
           Liquidate(liquidator, borrower, amount)
    BY <1>5
  <2>2. amount \in Int
    BY HostAssumption
  <2> DEFINE seized == CollateralSeized(RepayAsked(borrower, amount))
  <2>3. collateral' = [collateral EXCEPT ![borrower] = @ - seized]
    BY <2>1, <2>2, LiquidateMoves
  <2> HIDE DEF seized
  <2>4. u = borrower
    BY <1>1, <2>3
  <2> QED
    BY <2>1, <2>4
<1> QED
  BY <1>2, <1>3, <1>4, <1>5
  DEF Next, vars, vault_vars, HostStep, RateStep, PoolStep, OracleStep,
      VaultStep, VaultInitialize, SetLiquidationThreshold, EngineStep

\* A liquidation in the terms of the properties.
LEMMA LiquidationObserved ==
    ASSUME TypeInv, NEW liquidator \in Users, NEW u \in Users, NEW amount \in Int,
           Liquidate(liquidator, u, amount)
    PROVE  LET asked == RepayAsked(u, amount)
               debt  == AccruedDebt(u)
           IN  /\ PaidToPool = IF asked > debt THEN debt ELSE asked
               /\ PaidToPool = Repaid(u, asked)
               /\ PaidToPool \in Nat
               /\ asked \in Nat \ {0} /\ debt \in Int
               /\ Gone(u) = CollateralSeized(asked)
               /\ Gone(u) \in Nat
               /\ collateral[u] \in Nat /\ collateral'[u] \in Nat
               /\ Gone(u) * BPS_SCALE
                    <= asked * (BPS_SCALE + engine_config.liquidation_bonus_bps)
<1> DEFINE asked  == RepayAsked(u, amount)
           paid   == Repaid(u, asked)
           seized == CollateralSeized(asked)
<1>1. /\ paid \in Nat /\ seized \in Nat \ {0} /\ seized <= collateral[u]
      /\ collateral' = [collateral EXCEPT ![u] = @ - seized]
      /\ token'[PoolAddr] = token[PoolAddr] + paid
  BY LiquidateMoves
<1>2. /\ asked \in Nat \ {0} /\ AccruedDebt(u) \in Int
      /\ paid = IF asked > AccruedDebt(u) THEN AccruedDebt(u) ELSE asked
      /\ seized * BPS_SCALE
           <= asked * (BPS_SCALE + engine_config.liquidation_bonus_bps)
  BY LiquidationAmounts
<1> HIDE DEF paid, seized
<1>3. PaidToPool = paid
  <2>1. token[PoolAddr] \in Nat
    BY AddressesApart DEF TypeInv, PoolTypeInv, HostTypeOK
  <2> QED
    BY <1>1, <2>1 DEF PaidToPool
<1>4. /\ Gone(u) = seized /\ collateral[u] \in Nat /\ collateral'[u] \in Nat
  <2>1. collateral[u] \in Nat /\ collateral \in [Users -> Nat]
    BY DEF TypeInv, VaultTypeOK
  <2>2. collateral'[u] = collateral[u] - seized
    BY <1>1, <2>1
  <2> QED
    BY <1>1, <2>1, <2>2 DEF Gone
<1> QED
  BY <1>1, <1>2, <1>3, <1>4 DEF paid, seized

LEMMA LiquidationHealsOne ==
    ASSUME TypeInv, NEW liquidator \in Users, NEW u \in Users, NEW amount \in Int,
           Liquidate(liquidator, u, amount)
    PROVE  SeizureHeals(u)
<1> DEFINE asked == RepayAsked(u, amount)
           d     == AccruedDebt(u)
           c     == collateral[u]
           s     == Gone(u)
           a     == PaidToPool
           K     == BPS_SCALE + engine_config.liquidation_bonus_bps
<1> SUFFICES ASSUME a > 0, d * K <= c * BPS_SCALE
             PROVE  c * DebtOf(u)' <= collateral'[u] * d
  BY DEF SeizureHeals
<1>1. /\ a = IF asked > d THEN d ELSE asked
      /\ a \in Nat /\ asked \in Nat \ {0} /\ d \in Int
      /\ s \in Nat /\ c \in Nat /\ collateral'[u] \in Nat
      /\ s * BPS_SCALE <= asked * K
      /\ a = Repaid(u, asked)
  BY LiquidationObserved
<1>2. collateral'[u] = c - s
  BY <1>1 DEF Gone
<1>3. d \in Nat /\ a <= d
  BY <1>1
<1>4. DebtOf(u)' = 0 \/ DebtOf(u)' = d - a
  <2>1. asked \in Int /\ RepayRecords(liquidator, u, asked)
    BY LiquidateMoves
  <2> QED
    BY <1>1, <1>3, <2>1, DebtLeft
<1>5. CASE DebtOf(u)' = 0 \/ a = d
  <2>1. DebtOf(u)' = 0
    BY <1>1, <1>3, <1>4, <1>5
  <2>2. collateral'[u] * d \in Nat
    BY <1>1, <1>3, ProductNonNegative
  <2> QED
    BY <1>1, <2>1, <2>2
<1>6. CASE DebtOf(u)' = d - a /\ a # d
  <2>1. a = asked
    BY <1>1, <1>6
  <2>2. K \in Nat /\ BPS_SCALE \in Nat \ {0}
    BY RateAssumption DEF Liquidate, LiquidateOK, TypeInv, EngineTypeOK,
       LiquidationConfig
  <2> HIDE DEF a, c, d, s, K
  <2>3. c * (d - a) <= (c - s) * d
    BY <1>1, <1>3, <2>1, <2>2, RatioKept
  <2> QED
    BY <1>2, <1>6, <2>3
<1> QED
  BY <1>4, <1>5, <1>6

\* No liquidation of a position that can pay the bonus lowers its collateral
\* per unit of debt, for any close factor, bonus, index and price.
THEOREM LiquidationsHeal == Spec \/ DeployedSpec => LiquidationHeals
<1>1. ASSUME TypeInv, [Next]_vars, NEW u \in Users
      PROVE  SeizureHeals(u)
  <2> SUFFICES ASSUME collateral'[u] < collateral[u], PaidToPool > 0
               PROVE  SeizureHeals(u)
    BY DEF SeizureHeals
  <2>1. CASE \E amount \in Amounts : WithdrawCollateral(u, amount)
    <3>1. token'[PoolAddr] = token[PoolAddr]
      BY <1>1, <2>1, HostAssumption, WithdrawCollateralMoves
    <3>2. token[PoolAddr] \in Nat
      BY <1>1, AddressesApart DEF TypeInv, PoolTypeInv, HostTypeOK
    <3> QED
      BY <3>1, <3>2 DEF PaidToPool
  <2>2. CASE \E liquidator \in Users, amount \in Amounts :
               Liquidate(liquidator, u, amount)
    BY <1>1, <2>2, HostAssumption, LiquidationHealsOne
  <2> QED
    BY <1>1, <2>1, <2>2, CollateralFalls
<1>2. TypeInv /\ [Next]_vars => [\A u \in Users : SeizureHeals(u)]_vars
  BY <1>1
<1> QED
  BY <1>2, Invariant, PTL DEF Spec, DeployedSpec, LiquidationHeals

----------------------------------------------------------------------------
(* Collateral leaves safely or paid for.                                    *)

\* At an index that has not fallen since, a debt is no less than the principal.
LEMMA DebtCoversPrincipal ==
    ASSUME NEW p \in UserLendingPosition, NEW index \in Int,
           p.principal_borrowed > 0, p.borrow_index \in 1..index
    PROVE  p.principal_borrowed <= UserDebt(p, index)
<1> DEFINE n == p.principal_borrowed
           i == p.borrow_index
<1>1. n \in Nat \ {0} /\ i \in Nat \ {0} /\ index \in Nat /\ i <= index
  BY DEF UserLendingPosition
<1>2. UserDebt(p, index) = Quot(n * index, i)
  BY <1>1 DEF UserDebt
<1> HIDE DEF n, i
<1>3. n * i \in Nat /\ n * index \in Nat /\ n * i <= n * index
  <2>1. i * n <= index * n
    BY <1>1, Multiplied
  <2> QED
    BY <1>1, <2>1, ProductNonNegative
<1>4. Quot(n * i, i) <= Quot(n * index, i)
  BY <1>1, <1>3, QuotMonotone
<1>5. Quot(n * i, i) = n
  BY <1>1, QuotOfProduct
<1> QED
  BY <1>2, <1>4, <1>5 DEF n

\* Asking for no more than the close factor of the principal, when that is no
\* more than the whole, is asking for no more than the debt.
LEMMA AskedIsOwed ==
    ASSUME NEW asked \in Nat, NEW n \in Int, NEW d \in Int, NEW f \in Nat,
           NEW B \in Nat \ {0},
           asked * B <= n * f, f <= B, 0 < n => n <= d, asked > 0
    PROVE  asked <= d
<1>1. n > 0
  <2> SUFFICES ASSUME n <= 0 PROVE FALSE
    OBVIOUS
  <2>1. n * f <= 0 * f
    BY Multiplied
  <2>2. 0 * B < asked * B
    BY MultipliedStrictly
  <2>3. asked * B \in Int /\ n * f \in Int /\ 0 * f = 0 /\ 0 * B = 0
    OBVIOUS
  <2> QED
    BY <2>1, <2>2, <2>3
<1>2. f * n <= B * n
  BY <1>1, Multiplied
<1>3. asked * B \in Int /\ f * n = n * f /\ f * n \in Int
        /\ B * n = n * B /\ n * B \in Int
  OBVIOUS
<1>4. asked * B <= n * B
  BY <1>2, <1>3
<1>5. ~(n < asked)
  <2> SUFFICES ASSUME n < asked PROVE FALSE
    OBVIOUS
  <2>1. n * B < asked * B
    BY MultipliedStrictly
  <2> QED
    BY <1>3, <1>4, <2>1
<1> QED
  BY <1>1, <1>5

LEMMA LiquidationPaysFor ==
    ASSUME TypeInv, NEW liquidator \in Users, NEW u \in Users, NEW amount \in Int,
           Liquidate(liquidator, u, amount)
    PROVE  SeizedAndPaidFor(u)
<1> DEFINE asked == RepayAsked(u, amount)
           d     == AccruedDebt(u)
           s     == Gone(u)
           a     == PaidToPool
           cd    == current_debt(u)
           cf    == engine_config.close_factor_bps
           K     == BPS_SCALE + engine_config.liquidation_bonus_bps
<1>1. /\ a = IF asked > d THEN d ELSE asked
      /\ a \in Nat /\ asked \in Nat \ {0} /\ d \in Int
      /\ s * BPS_SCALE <= asked * K
  BY LiquidationObserved
<1>2. is_liquidatable(u) /\ asked * BPS_SCALE <= cd * cf
  BY LiquidationAmounts
<1>3. /\ engine_config # NoEngineConfig
      /\ position[u] # NoPosition
      /\ AccrualOK(market) /\ market # NoMarket
  BY DEF Liquidate, LiquidateOK, RepayOK
<1>4. cf \in Nat /\ K \in Nat /\ BPS_SCALE \in Nat \ {0}
  BY <1>3, RateAssumption DEF TypeInv, EngineTypeOK, LiquidationConfig
<1>5. cd \in Int /\ position[u] \in UserLendingPosition
        /\ cd = position[u].principal_borrowed
  BY <1>3 DEF current_debt, TypeInv, PoolTypeInv, PoolTypeOK, UserLendingPosition
<1>6. a * BPS_SCALE <= cd * cf
  <2> HIDE DEF a, asked, cd, cf, d, K, s
  <2>1. a <= asked
    BY <1>1
  <2>2. a * BPS_SCALE <= asked * BPS_SCALE
    BY <1>1, <1>4, <2>1, Multiplied
  <2>3. a * BPS_SCALE \in Int /\ asked * BPS_SCALE \in Int /\ cd * cf \in Int
    BY <1>1, <1>4, <1>5
  <2> QED
    BY <1>2, <2>2, <2>3
<1>7. ASSUME position[u].borrow_index \in 1..AccruedIndex(market),
             cf <= BPS_SCALE
      PROVE  s * BPS_SCALE <= a * K
  <2>1. 0 < cd => cd <= d
    <3>1. AccruedIndex(market) \in Int
      BY <1>3, AccruedIndexInt DEF TypeInv
    <3> QED
      BY <1>3, <1>5, <1>7, <3>1, DebtCoversPrincipal DEF AccruedDebt
  <2> HIDE DEF a, asked, cd, cf, d, K, s
  <2>2. asked <= d
    BY <1>1, <1>2, <1>4, <1>5, <1>7, <2>1, AskedIsOwed
  <2>3. a = asked
    BY <1>1, <2>2
  <2> QED
    BY <1>1, <2>3
<1>8. a >= 0
  BY <1>1
<1> QED
  BY <1>2, <1>6, <1>7, <1>8 DEF SeizedAndPaidFor

LEMMA WithdrawnHealthy ==
    ASSUME TypeInv, NEW u \in Users, NEW amount \in Int,
           WithdrawCollateral(u, amount)
    PROVE  WithdrawnSafely(u)
<1>1. /\ collateral' = [collateral EXCEPT ![u] = @ - amount]
      /\ token'[PoolAddr] = token[PoolAddr]
      /\ token'[u] = token[u] + amount
  BY WithdrawCollateralMoves
<1>2. check_safety(u, collateral[u] - amount)
  BY DEF WithdrawCollateral, WithdrawCollateralOK
<1>3. collateral'[u] = collateral[u] - amount /\ collateral[u] \in Nat
  BY <1>1 DEF TypeInv, VaultTypeOK
<1>4. Gone(u) = amount
  BY <1>3 DEF Gone
<1>5. PaidToPool = 0
  <2>1. token[PoolAddr] \in Nat
    BY AddressesApart DEF TypeInv, PoolTypeInv, HostTypeOK
  <2> QED
    BY <1>1, <2>1 DEF PaidToPool
<1> QED
  BY <1>1, <1>2, <1>3, <1>4, <1>5 DEF WithdrawnSafely

\* Collateral leaves the vault in no other way than to its owner, in a state
\* that stays healthy, or from a liquidatable owner, paid for within the close
\* factor and the bonus.
THEOREM CollateralLeaves ==
    Spec \/ DeployedSpec => CollateralLeavesSafelyOrPaidFor
<1>1. ASSUME TypeInv, [Next]_vars, NEW u \in Users, collateral'[u] < collateral[u]
      PROVE  WithdrawnSafely(u) \/ SeizedAndPaidFor(u)
  BY <1>1, HostAssumption, CollateralFalls, WithdrawnHealthy, LiquidationPaysFor
<1>2. TypeInv /\ [Next]_vars
        => [\A u \in Users : collateral'[u] < collateral[u] =>
              WithdrawnSafely(u) \/ SeizedAndPaidFor(u)]_vars
  BY <1>1
<1> QED
  BY <1>2, Invariant, PTL DEF Spec, DeployedSpec, CollateralLeavesSafelyOrPaidFor

----------------------------------------------------------------------------
(* What is due cannot be refused.                                           *)

\* All that the two properties need of the calls that came before.
BooksInOrder ==
    /\ TypeInv
    /\ Solvency
    /\ BooksAddUp
    /\ Conserved
    /\ VaultCustody
    /\ StoredFits

LEMMA BooksStayInOrder == Spec \/ DeployedSpec => []BooksInOrder
BY Invariant, BooksAlwaysAddUp, TokensConserved, Custody, AlwaysFits, PTL
DEF BooksInOrder

\* The pool can take what a payer holds and take it off its total: the balances
\* never overflow together, and the total falls no lower than the pool's tokens
\* rise.
LEMMA PaymentFits ==
    ASSUME BooksInOrder, market # NoMarket, AccrualOK(market),
           NEW payer \in Users, NEW n \in Nat, n <= token[payer]
    PROVE  /\ CanTransfer(payer, PoolAddr, n)
           /\ Fits(Accrued(market).total_borrowed - n)
<1>1. /\ token[payer] \in Nat /\ token[PoolAddr] \in Nat
      /\ token[payer] + token[PoolAddr] <= I128Max /\ I128Max \in Nat
  BY AddressesApart, BalancesFit, HostAssumption DEF BooksInOrder
<1>2. /\ market.total_borrowed \in Int /\ market.total_supplied \in Int
      /\ Accrued(market).total_borrowed = market.total_borrowed
  BY AccruedType DEF BooksInOrder, TypeInv, PoolTypeInv, PoolTypeOK, MarketState
<1>3. market.total_supplied >= 0
  <2>1. Shares \in [Users -> Nat] /\ Supplied = market.total_supplied
    BY BooksType DEF BooksInOrder, TypeInv, Supplied
  <2>2. SumFunction(Shares) \in Nat
    BY <2>1, SumCovers, HostAssumption
  <2> QED
    BY <2>1, <2>2 DEF BooksInOrder, BooksAddUp
<1>4. market.total_supplied - market.total_borrowed <= token[PoolAddr]
  BY DEF BooksInOrder, Solvency
<1>5. Fits(market.total_borrowed)
  BY DEF BooksInOrder, StoredFits, MarketFits
<1>6. Fits(market.total_borrowed - n)
  BY <1>1, <1>2, <1>3, <1>4, <1>5 DEF Fits
<1>7. Fits(token[PoolAddr] + n)
  BY <1>1 DEF Fits
<1> QED
  BY <1>2, <1>6, <1>7 DEF CanTransfer

LEMMA RepaymentAccepted ==
    ASSUME BooksInOrder, CanAccrue, NEW payer \in Users, NEW u \in Users,
           NEW amount \in Int, amount > 0, AccruedDebt(u) > 0,
           UserDebtOK(position[u], AccruedIndex(market)),
           token[payer] >= AccruedDebt(u)
    PROVE  RepayOK(payer, u, amount)
<1> DEFINE m      == Accrued(market)
           p      == position[u]
           debt   == UserDebt(p, m.borrow_index)
           actual == RepayActual(p, m.borrow_index, amount)
<1>1. market # NoMarket /\ AccrualOK(market)
  BY DEF CanAccrue
<1>2. m.borrow_index = AccruedIndex(market)
  BY <1>1, AccruedType DEF BooksInOrder, TypeInv
<1>3. p # NoPosition /\ AccruedDebt(u) = debt
  BY <1>2 DEF AccruedDebt
<1>4. debt \in Int
  <2>1. p \in UserLendingPosition
    BY <1>3 DEF BooksInOrder, TypeInv, PoolTypeInv, PoolTypeOK
  <2>2. m.borrow_index \in Int
    BY <1>1, <1>2, AccruedIndexInt DEF BooksInOrder, TypeInv
  <2> QED
    BY <2>1, <2>2, UserDebtInt
<1>5. actual = IF amount > debt THEN debt ELSE amount
  BY DEF RepayActual
<1>6. /\ token[payer] \in Nat /\ token[payer] <= I128Max /\ I128Max \in Nat
  <2>1. /\ token[payer] \in Nat /\ token[PoolAddr] \in Nat
        /\ token[payer] + token[PoolAddr] <= I128Max
    BY AddressesApart, BalancesFit DEF BooksInOrder
  <2> QED
    BY <2>1, HostAssumption
<1> HIDE DEF debt, actual
<1>7. actual \in Nat /\ actual <= debt /\ debt <= token[payer]
  BY <1>3, <1>4, <1>5
<1>8. Fits(debt - actual)
  BY <1>4, <1>6, <1>7 DEF Fits
<1>9. CanTransfer(payer, PoolAddr, actual) /\ Fits(m.total_borrowed - actual)
  <2>1. actual <= token[payer]
    BY <1>4, <1>6, <1>7
  <2> HIDE DEF m
  <2> QED
    BY <1>1, <1>7, <2>1, PaymentFits DEF m
<1> QED
  BY <1>1, <1>2, <1>3, <1>8, <1>9 DEF RepayOK, debt, actual

\* Nothing the contracts remember refuses a repayment by someone who holds what
\* is owed: neither the books, nor the balances, nor the width of the integers
\* but for the one product the debt is computed from.
THEOREM RepaymentAvailable == Spec \/ DeployedSpec => []RepayAvailable
<1>1. ASSUME BooksInOrder PROVE RepayAvailable
  BY <1>1, HostAssumption, RepaymentAccepted DEF RepayAvailable
<1> QED
  BY <1>1, BooksStayInOrder, PTL

----------------------------------------------------------------------------
\* A quotient is no larger than what is divided.
LEMMA QuotSmaller ==
    ASSUME NEW a \in Int, NEW b \in Int, b # 0, Fits(a)
    PROVE  Quot(a, b) <= I128Max + 1
<1> DEFINE x == Abs(a)
           y == Abs(b)
           q == x \div y
<1>1. x \in Nat /\ x <= I128Max + 1 /\ y \in Nat \ {0} /\ I128Max \in Nat
  BY HostAssumption DEF Abs, Fits
<1>2. q \in Nat /\ q <= x
  <2> HIDE DEF x, y
  <2>1. q \in Nat /\ q * y <= x
    <3>1. Quot(x, y) = q
      BY <1>1 DEF Quot, Abs
    <3> QED
      BY <1>1, <3>1, QuotBounds
  <2> HIDE DEF q
  <2>2. 1 * q <= y * q
    BY <1>1, <2>1, Multiplied
  <2>3. 1 * q = q /\ y * q = q * y /\ q * y \in Int
    BY <1>1, <2>1
  <2> QED
    BY <1>1, <2>1, <2>2, <2>3
<1>3. Quot(a, b) = q \/ Quot(a, b) = -q
  BY DEF Quot
<1> HIDE DEF x, y, q
<1> QED
  BY <1>1, <1>2, <1>3

LEMMA OneWhole == Quot(BPS_SCALE, BPS_SCALE) = 1
<1>1. BPS_SCALE \in Int /\ BPS_SCALE # 0 /\ 1 \in Nat
  BY RateAssumption
<1>2. 1 * BPS_SCALE = BPS_SCALE
  BY <1>1
<1>3. Quot(1 * BPS_SCALE, BPS_SCALE) = 1
  BY <1>1, QuotOfProduct, Zenon
<1> QED
  BY <1>2, <1>3

LEMMA LiquidationAccepted ==
    ASSUME BooksInOrder, CanAccrue, NEW liquidator \in Users, NEW u \in Users,
           engine_config # NoEngineConfig, engine_config.is_enabled,
           is_liquidatable(u), AccruedDebt(u) >= 0, LiquidationFits(u),
           current_debt(u) * engine_config.close_factor_bps >= BPS_SCALE,
           CollateralSeized(1) <= collateral[u],
           token[liquidator] >= 1
    PROVE  LiquidateOK(liquidator, u, 1)
<1> DEFINE m      == Accrued(market)
           p      == position[u]
           debt   == UserDebt(p, m.borrow_index)
           actual == RepayActual(p, m.borrow_index, 1)
           cd     == current_debt(u)
           cf     == engine_config.close_factor_bps
           K      == BPS_SCALE + engine_config.liquidation_bonus_bps
           seized == CollateralSeized(1)
<1>0. TypeInv
  BY DEF BooksInOrder
<1>1. market # NoMarket /\ AccrualOK(market)
  BY DEF CanAccrue
<1>2. m.borrow_index = AccruedIndex(market) /\ m.borrow_index \in Int
  BY <1>0, <1>1, AccruedType, AccruedIndexInt DEF TypeInv
<1>3. /\ cf \in Nat /\ K \in Nat /\ K >= BPS_SCALE
      /\ BPS_SCALE \in Nat \ {0} /\ BPS_SCALE <= I128Max /\ I128Max \in Nat
  BY <1>0, RateAssumption, HostAssumption
  DEF TypeInv, EngineTypeOK, LiquidationConfig
<1>4. cd \in Int
  BY <1>0 DEF current_debt, TypeInv, PoolTypeInv, PoolTypeOK, UserLendingPosition
<1>5. p # NoPosition
  <2> SUFFICES ASSUME p = NoPosition PROVE FALSE
    OBVIOUS
  <2>1. cd = 0
    BY DEF current_debt
  <2>2. 0 * cf = 0
    BY <1>3
  <2> QED
    BY <1>3, <2>1, <2>2
<1>6. p \in UserLendingPosition
  BY <1>0, <1>5 DEF TypeInv, PoolTypeInv, PoolTypeOK
<1>7. RepayAsked(u, 1) = 1
  <2> DEFINE max == Quot(cd * cf, BPS_SCALE)
  <2>1. cd * cf \in Nat /\ BPS_SCALE <= cd * cf
    <3>1. cd * cf \in Int
      BY <1>3, <1>4
    <3> HIDE DEF cd, cf
    <3> QED
      BY <1>3, <3>1 DEF cd, cf
  <2>2. Quot(BPS_SCALE, BPS_SCALE) <= max
    BY <1>3, <2>1, QuotMonotone
  <2>3. max \in Nat
    BY <1>3, <2>1, QuotBounds
  <2>4. ~(1 > max)
    BY <2>2, <2>3, OneWhole
  <2> QED
    BY <2>4 DEF RepayAsked
<1>8. debt \in Int /\ debt >= 0 /\ debt <= I128Max + 1
  <2>1. AccruedDebt(u) = debt
    BY <1>2, <1>5 DEF AccruedDebt
  <2>2. debt \in Int
    BY <1>2, <1>6, UserDebtInt
  <2>3. debt <= I128Max + 1
    <3>1. CASE p.principal_borrowed = 0 \/ p.borrow_index = 0
      BY <1>3, <3>1 DEF UserDebt
    <3>2. CASE ~(p.principal_borrowed = 0 \/ p.borrow_index = 0)
      <4>1. debt = Quot(p.principal_borrowed * m.borrow_index, p.borrow_index)
        BY <3>2 DEF UserDebt
      <4>2. Fits(p.principal_borrowed * m.borrow_index)
        BY <1>2, <3>2 DEF LiquidationFits, UserDebtOK
      <4>3. p.principal_borrowed * m.borrow_index \in Int /\ p.borrow_index \in Int
        BY <1>2, <1>6 DEF UserLendingPosition
      <4> QED
        BY <3>2, <4>1, <4>2, <4>3, QuotSmaller
    <3> QED
      BY <3>1, <3>2
  <2> QED
    BY <2>1, <2>2, <2>3
<1>9. actual = IF 1 > debt THEN debt ELSE 1
  BY DEF RepayActual
<1> HIDE DEF debt, actual
<1>10. /\ token[liquidator] \in Nat
       /\ token[VaultAddr] \in Nat
       /\ token[liquidator] + token[VaultAddr] <= I128Max
  BY AddressesApart, BalancesFit DEF BooksInOrder
<1>11. actual \in 0..1 /\ Fits(debt - actual)
  <2>1. actual \in 0..1 /\ (debt > 0 => actual = 1) /\ (debt = 0 => actual = 0)
    BY <1>8, <1>9
  <2> QED
    BY <1>3, <1>8, <2>1 DEF Fits
<1>12. RepayOK(liquidator, u, 1)
  <2>1. actual \in Nat /\ actual <= token[liquidator]
    BY <1>10, <1>11
  <2>2. CanTransfer(liquidator, PoolAddr, actual)
          /\ Fits(m.total_borrowed - actual)
    <3> HIDE DEF m
    <3> QED
      BY <1>1, <2>1, PaymentFits DEF m
  <2>3. UserDebtOK(p, m.borrow_index)
    BY <1>2 DEF LiquidationFits
  <2> QED
    BY <1>1, <1>5, <1>11, <2>2, <2>3 DEF RepayOK, debt, actual
<1>13. seized \in Nat /\ seized > 0
  <2>1. 1 * K = K /\ 1 * BPS_SCALE = BPS_SCALE
    BY <1>3
  <2>2. seized = Quot(K, BPS_SCALE)
    BY <2>1 DEF CollateralSeized
  <2>3. Quot(BPS_SCALE, BPS_SCALE) <= Quot(K, BPS_SCALE) /\ Quot(K, BPS_SCALE) \in Nat
    BY <1>3, QuotMonotone, QuotBounds
  <2> QED
    BY <2>2, <2>3, OneWhole
<1>14. SeizeOK(u, seized)
  BY <1>13 DEF SeizeOK, is_liquidatable, get_health_factorOK
<1>15. seized <= token[VaultAddr]
  <2>1. collateral \in [Users -> Nat]
    BY <1>0 DEF TypeInv, VaultTypeOK
  <2>2. collateral[u] <= SumFunction(collateral) /\ SumFunction(collateral) \in Nat
          /\ collateral[u] \in Nat
    BY <2>1, SumCovers, HostAssumption
  <2>3. SumFunction(collateral) <= token[VaultAddr]
    BY DEF BooksInOrder, VaultCustody
  <2> HIDE DEF seized
  <2>4. seized <= collateral[u]
    BY DEF seized
  <2> QED
    BY <1>10, <1>13, <2>2, <2>3, <2>4
<1>16. Repaid(u, 1) = actual
  BY <1>2 DEF Repaid, actual
<1>17. Fits(token[liquidator] - Repaid(u, 1) + seized)
  <2> HIDE DEF seized
  <2> QED
    BY <1>3, <1>10, <1>11, <1>13, <1>15, <1>16 DEF Fits
<1>18. Fits(1 * K)
  BY <1>3 DEF LiquidationFits
<1>19. Fits(cd * cf)
  BY DEF LiquidationFits
<1> QED
  BY <1>7, <1>12, <1>14, <1>15, <1>17, <1>18, <1>19 DEF LiquidateOK

\* Nothing five contracts remember of earlier calls stands in the way of a
\* liquidation that is due: not the pool's totals, not the vault's tokens, not
\* the balances.
THEOREM LiquidationIsAvailable == Spec \/ DeployedSpec => []LiquidationAvailable
<1>1. ASSUME BooksInOrder PROVE LiquidationAvailable
  BY <1>1, LiquidationAccepted DEF LiquidationAvailable
<1> QED
  BY <1>1, BooksStayInOrder, PTL

----------------------------------------------------------------------------
(***************************************************************************)
(* Debts back the loans, and fall only by payment.  A debt is computed     *)
(* from the position's own index and truncated, so what the market lent    *)
(* and what its users owe are compared through the index.  Both properties *)
(* need an index above zero.  It starts at SCALE and does not fall while   *)
(* the total lent is not negative; but a repayment takes its interest off  *)
(* that total too, a negative total makes the rate negative, and a rate of *)
(* -100% or below between two calls takes the index to zero.  The theorems *)
(* are about the behaviours whose index stays positive, and say so.        *)
(***************************************************************************)
IndexPositive == market # NoMarket => market.borrow_index > 0

\* No position owes less than nothing, and each was written at a real index.
PositionsInOrder ==
    \A u \in Users : position[u] # NoPosition =>
        /\ position[u].principal_borrowed >= 0
        /\ position[u].borrow_index > 0

DebtAt(user, index) ==
    IF position[user] = NoPosition THEN 0 ELSE UserDebt(position[user], index)

Debts(index) == [u \in Users |-> DebtAt(u, index)]

\* A call that accrues and changes the debt of one user and the total alike.
DebtChange(user, n) ==
    /\ market # NoMarket /\ AccrualOK(market)
    /\ market' # NoMarket
    /\ market'.borrow_index = AccruedIndex(market)
    /\ market'.total_borrowed = market.total_borrowed + n
    /\ DebtOf(user)' = DebtAt(user, AccruedIndex(market)) + n
    /\ \A u \in Users \ {user} : DebtOf(u)' = DebtAt(u, AccruedIndex(market))

----------------------------------------------------------------------------
(* The debt of one position.                                                *)

\* A debt is not negative and does not fall with the index.
LEMMA DebtMonotone ==
    ASSUME PoolTypeOK, PositionsInOrder, NEW u \in Users,
           NEW i \in Nat, NEW j \in Nat, i <= j
    PROVE  DebtAt(u, i) \in Nat /\ DebtAt(u, j) \in Nat /\ DebtAt(u, i) <= DebtAt(u, j)
<1>1. CASE position[u] = NoPosition
  BY <1>1 DEF DebtAt
<1>2. CASE position[u] # NoPosition
  <2> DEFINE n == position[u].principal_borrowed
             b == position[u].borrow_index
  <2>1. n \in Nat /\ b \in Nat \ {0}
    BY <1>2 DEF PoolTypeOK, UserLendingPosition, PositionsInOrder
  <2>2. CASE n = 0
    BY <1>2, <2>2 DEF DebtAt, UserDebt
  <2>3. CASE n # 0
    <3>1. DebtAt(u, i) = Quot(n * i, b) /\ DebtAt(u, j) = Quot(n * j, b)
      BY <1>2, <2>1, <2>3 DEF DebtAt, UserDebt
    <3> HIDE DEF n, b
    <3>2. n * i \in Nat /\ n * j \in Nat /\ n * i <= n * j
      <4>1. i * n <= j * n
        BY <2>1, Multiplied
      <4> QED
        BY <2>1, <4>1, ProductNonNegative
    <3> QED
      BY <2>1, <3>1, <3>2, QuotMonotone, QuotBounds
  <2> QED
    BY <2>2, <2>3
<1> QED
  BY <1>1, <1>2

\* A debt at the index it was written at is the principal written.
LEMMA DebtAsWritten ==
    ASSUME NEW new \in UserLendingPosition, new.principal_borrowed >= 0,
           new.borrow_index > 0
    PROVE  UserDebt(new, new.borrow_index) = new.principal_borrowed
<1>1. new.principal_borrowed \in Nat /\ new.borrow_index \in Int
        /\ new.borrow_index # 0
  BY DEF UserLendingPosition
<1>2. Quot(new.principal_borrowed * new.borrow_index, new.borrow_index)
        = new.principal_borrowed
  BY <1>1, QuotOfProduct
<1> QED
  BY <1>2 DEF UserDebt

\* Writing one position changes one debt; the market's index changes all.
LEMMA DebtsWritten ==
    ASSUME PoolTypeOK, PositionsInOrder, NEW user \in Users,
           NEW new \in UserLendingPosition,
           new.principal_borrowed >= 0, new.borrow_index > 0,
           position' = [position EXCEPT ![user] = new]
    PROVE  /\ PositionsInOrder'
           /\ DebtOf(user)' = UserDebt(new, market'.borrow_index)
           /\ \A u \in Users \ {user} :
                 DebtOf(u)' = DebtAt(u, market'.borrow_index)
<1>1. \A u \in Users : position'[u] = IF u = user THEN new ELSE position[u]
  BY DEF PoolTypeOK
<1>2. new # NoPosition
  BY PoolAssumption
<1> QED
  BY <1>1, <1>2 DEF PositionsInOrder, DebtOf, DebtAt

----------------------------------------------------------------------------
(* One lemma per call.                                                      *)

LEMMA SupplyDebts ==
    ASSUME PoolTypeInv, PositionsInOrder, IndexPositive', NEW user \in Users,
           NEW amount \in Int, Supply(user, amount)
    PROVE  DebtChange(user, 0) /\ PositionsInOrder'
<1> DEFINE m   == Accrued(market)
           p   == PositionOr(user, m.borrow_index)
           new == [p EXCEPT !.supplied_shares = @ + amount]
<1>1. /\ amount > 0
      /\ market # NoMarket /\ AccrualOK(market)
      /\ market' = [m EXCEPT !.total_supplied = @ + amount]
      /\ position' = [position EXCEPT ![user] = new]
  BY DEF Supply
<1>2. /\ m \in MarketState
      /\ m.borrow_index = AccruedIndex(market)
      /\ m.total_borrowed = market.total_borrowed
  BY <1>1, AccruedType
<1>3. /\ market' \in MarketState /\ market' # NoMarket
      /\ market'.borrow_index = m.borrow_index
      /\ market'.total_borrowed = m.total_borrowed
      /\ m.borrow_index \in Int
  BY <1>1, <1>2, PoolAssumption DEF MarketState
<1>4. m.borrow_index > 0
  BY <1>3 DEF IndexPositive
<1>5. p \in UserLendingPosition /\ p.principal_borrowed >= 0 /\ p.borrow_index > 0
  BY <1>3, <1>4, PositionOrType DEF PoolTypeInv, PositionsInOrder, PositionOr
<1>6. /\ new \in UserLendingPosition
      /\ new.principal_borrowed = p.principal_borrowed
      /\ new.borrow_index = p.borrow_index
  BY <1>1, <1>5 DEF UserLendingPosition
<1>7. UserDebt(new, m.borrow_index) = DebtAt(user, m.borrow_index)
  BY <1>6 DEF UserDebt, DebtAt, PositionOr
<1> HIDE DEF new
<1>8. /\ PositionsInOrder'
      /\ DebtOf(user)' = UserDebt(new, market'.borrow_index)
      /\ \A u \in Users \ {user} : DebtOf(u)' = DebtAt(u, market'.borrow_index)
  BY <1>1, <1>5, <1>6, DebtsWritten DEF PoolTypeInv
<1>9. /\ market.total_borrowed \in Int
      /\ DebtAt(user, m.borrow_index) \in Int
  BY <1>2, <1>3, <1>6, <1>7, UserDebtInt DEF MarketState
<1>10. /\ market'.total_borrowed = market.total_borrowed + 0
       /\ DebtOf(user)' = DebtAt(user, AccruedIndex(market)) + 0
  BY <1>2, <1>3, <1>7, <1>8, <1>9
<1> QED
  BY <1>1, <1>2, <1>3, <1>8, <1>10 DEF DebtChange

LEMMA WithdrawDebts ==
    ASSUME PoolTypeInv, PositionsInOrder, IndexPositive', NEW user \in Users,
           NEW amount \in Int, Withdraw(user, amount)
    PROVE  DebtChange(user, 0) /\ PositionsInOrder'
<1> DEFINE m   == Accrued(market)
           p   == position[user]
           new == [p EXCEPT !.supplied_shares = @ - amount]
<1>1. /\ amount > 0
      /\ market # NoMarket /\ AccrualOK(market)
      /\ Redeemable(user, amount)
      /\ market' = [m EXCEPT !.total_supplied = @ - amount]
      /\ position' = [position EXCEPT ![user] = new]
  BY DEF Withdraw, WithdrawOK
<1>2. /\ m \in MarketState
      /\ m.borrow_index = AccruedIndex(market)
      /\ m.total_borrowed = market.total_borrowed
  BY <1>1, AccruedType
<1>3. /\ market' \in MarketState /\ market' # NoMarket
      /\ market'.borrow_index = m.borrow_index
      /\ market'.total_borrowed = m.total_borrowed
      /\ m.borrow_index \in Int
  BY <1>1, <1>2, PoolAssumption DEF MarketState
<1>4. /\ p \in UserLendingPosition /\ p # NoPosition
      /\ amount <= p.supplied_shares
      /\ p.principal_borrowed >= 0 /\ p.borrow_index > 0
  BY <1>1 DEF Redeemable, PoolTypeInv, PoolTypeOK, PositionsInOrder
<1>5. /\ new \in UserLendingPosition
      /\ new.principal_borrowed = p.principal_borrowed
      /\ new.borrow_index = p.borrow_index
  BY <1>1, <1>4 DEF UserLendingPosition
<1>6. UserDebt(new, m.borrow_index) = DebtAt(user, m.borrow_index)
  BY <1>4, <1>5 DEF UserDebt, DebtAt
<1> HIDE DEF new
<1>7. /\ PositionsInOrder'
      /\ DebtOf(user)' = UserDebt(new, market'.borrow_index)
      /\ \A u \in Users \ {user} : DebtOf(u)' = DebtAt(u, market'.borrow_index)
  BY <1>1, <1>4, <1>5, DebtsWritten DEF PoolTypeInv
<1>8. /\ market.total_borrowed \in Int
      /\ DebtAt(user, m.borrow_index) \in Int
  BY <1>2, <1>3, <1>5, <1>6, UserDebtInt DEF MarketState
<1>9. /\ market'.total_borrowed = market.total_borrowed + 0
      /\ DebtOf(user)' = DebtAt(user, AccruedIndex(market)) + 0
  BY <1>2, <1>3, <1>6, <1>7, <1>8
<1> QED
  BY <1>1, <1>2, <1>3, <1>7, <1>9 DEF DebtChange

\* A borrow takes the accrued debt over into the new principal.
LEMMA BorrowDebts ==
    ASSUME PoolTypeInv, PositionsInOrder, IndexPositive', NEW user \in Users,
           NEW amount \in Int, Borrow(user, amount)
    PROVE  DebtChange(user, amount) /\ PositionsInOrder' /\ amount > 0
<1> DEFINE m    == Accrued(market)
           p    == PositionOr(user, m.borrow_index)
           debt == DebtBefore(p, m.borrow_index)
           new  == [p EXCEPT !.principal_borrowed = debt + amount,
                             !.borrow_index = m.borrow_index]
<1>1. /\ amount > 0
      /\ market # NoMarket /\ AccrualOK(market)
      /\ market' = [m EXCEPT !.total_borrowed = @ + amount]
      /\ position' = [position EXCEPT ![user] = new]
  BY DEF Borrow, BorrowOK
<1>2. /\ m \in MarketState
      /\ m.borrow_index = AccruedIndex(market)
      /\ m.total_borrowed = market.total_borrowed
  BY <1>1, AccruedType
<1>3. /\ market' \in MarketState /\ market' # NoMarket
      /\ market'.borrow_index = m.borrow_index
      /\ market'.total_borrowed = market.total_borrowed + amount
      /\ m.borrow_index \in Int
  BY <1>1, <1>2, PoolAssumption DEF MarketState
<1>4. m.borrow_index > 0
  BY <1>3 DEF IndexPositive
<1>5. p \in UserLendingPosition /\ p.principal_borrowed >= 0
  BY <1>3, PositionOrType DEF PoolTypeInv, PositionsInOrder, PositionOr
<1>6. DebtAt(user, m.borrow_index) \in Nat
  BY <1>3, <1>4, DebtMonotone DEF PoolTypeInv
<1>7. debt = DebtAt(user, m.borrow_index)
  BY <1>5 DEF DebtBefore, DebtAt, PositionOr, UserDebt, UserLendingPosition
<1> HIDE DEF debt
<1>8. /\ new \in UserLendingPosition
      /\ new.principal_borrowed = debt + amount
      /\ new.borrow_index = m.borrow_index
  <2>1. debt + amount \in Int
    BY <1>6, <1>7
  <2> QED
    BY <1>3, <1>5, <2>1, RewrittenPosition DEF UserLendingPosition
<1>9. new.principal_borrowed >= 0
  BY <1>1, <1>6, <1>7, <1>8
<1> HIDE DEF new
<1>10. /\ PositionsInOrder'
       /\ DebtOf(user)' = UserDebt(new, market'.borrow_index)
       /\ \A u \in Users \ {user} : DebtOf(u)' = DebtAt(u, market'.borrow_index)
  BY <1>1, <1>4, <1>8, <1>9, DebtsWritten DEF PoolTypeInv
<1>11. DebtOf(user)' = DebtAt(user, m.borrow_index) + amount
  BY <1>3, <1>4, <1>7, <1>8, <1>9, <1>10, DebtAsWritten
<1> QED
  BY <1>1, <1>2, <1>3, <1>10, <1>11 DEF DebtChange

\* A repayment takes what it transfers off the accrued debt.
LEMMA RepayDebts ==
    ASSUME PoolTypeInv, PositionsInOrder, IndexPositive', NEW payer \in Users,
           NEW borrower \in Users, NEW amount \in Int,
           RepayRecords(payer, borrower, amount)
    PROVE  /\ DebtChange(borrower, -Repaid(borrower, amount))
           /\ PositionsInOrder'
           /\ Repaid(borrower, amount) \in Nat
<1> DEFINE m    == Accrued(market)
           p    == position[borrower]
           paid == Repaid(borrower, amount)
           left == UserDebt(p, m.borrow_index) - paid
           new  == [p EXCEPT !.principal_borrowed = left,
                             !.borrow_index = m.borrow_index]
<1>1. /\ market # NoMarket /\ AccrualOK(market)
      /\ p # NoPosition
  BY DEF RepayRecords, RepayOK
<1>2. /\ m \in MarketState
      /\ m.borrow_index = AccruedIndex(market)
      /\ m.total_borrowed = market.total_borrowed
  BY <1>1, AccruedType
<1>3. paid = RepayActual(p, m.borrow_index, amount)
  BY <1>2 DEF Repaid
<1>4. /\ market' = [m EXCEPT !.total_borrowed = @ - paid]
      /\ position' = [position EXCEPT ![borrower] = new]
  BY <1>3 DEF RepayRecords
<1>5. paid \in Nat
  <2>1. paid \in Int /\ CanTransfer(payer, PoolAddr, paid)
    BY RepayRecordsStep
  <2> QED
    BY <2>1 DEF CanTransfer
<1>6. UserDebt(p, m.borrow_index) = DebtAt(borrower, m.borrow_index)
  BY <1>1 DEF DebtAt
<1>7. /\ market' \in MarketState /\ market' # NoMarket
      /\ market'.borrow_index = m.borrow_index
      /\ market'.total_borrowed = market.total_borrowed - paid
      /\ m.borrow_index \in Int /\ market.total_borrowed \in Int
  <2> HIDE DEF paid
  <2> QED
    BY <1>2, <1>4, <1>5, PoolAssumption DEF MarketState
<1>8. m.borrow_index > 0
  BY <1>7 DEF IndexPositive
<1>9. DebtAt(borrower, m.borrow_index) \in Nat
  BY <1>7, <1>8, DebtMonotone DEF PoolTypeInv
<1>10. left \in Nat /\ left = DebtAt(borrower, m.borrow_index) - paid
  <2>1. paid <= UserDebt(p, m.borrow_index)
    <3>1. amount > 0
      BY DEF RepayRecords, RepayOK
    <3> HIDE DEF paid
    <3> QED
      BY <1>3, <1>6, <1>9, <3>1 DEF RepayActual
  <2> HIDE DEF paid
  <2> QED
    BY <1>5, <1>6, <1>9, <2>1
<1> HIDE DEF left, paid, m
<1>11. p \in UserLendingPosition
  BY <1>1 DEF PoolTypeInv, PoolTypeOK
<1>12. new \in UserLendingPosition
  <2>1. left \in Int
    BY <1>10
  <2> QED
    BY <1>7, <1>11, <2>1, RewrittenPosition
<1>13. new.principal_borrowed = left /\ new.borrow_index = m.borrow_index
  BY <1>11 DEF UserLendingPosition
<1>14. new.principal_borrowed >= 0
  BY <1>10, <1>13
<1> HIDE DEF new
<1>15. /\ PositionsInOrder'
       /\ DebtOf(borrower)' = UserDebt(new, market'.borrow_index)
       /\ \A u \in Users \ {borrower} : DebtOf(u)' = DebtAt(u, market'.borrow_index)
  BY <1>4, <1>8, <1>12, <1>13, <1>14, DebtsWritten DEF PoolTypeInv
<1>16. DebtOf(borrower)' = left
  BY <1>7, <1>8, <1>12, <1>13, <1>14, <1>15, DebtAsWritten
<1>17. /\ DebtOf(borrower)' = DebtAt(borrower, m.borrow_index) + (-paid)
       /\ market'.total_borrowed = market.total_borrowed + (-paid)
  BY <1>5, <1>7, <1>9, <1>10, <1>16
<1>18. DebtChange(borrower, -paid)
  BY <1>1, <1>2, <1>7, <1>15, <1>17 DEF DebtChange
<1> QED
  BY <1>5, <1>15, <1>18 DEF paid

----------------------------------------------------------------------------
(* The sum.                                                                 *)

\* The property alone is not inductive: what a debt is worth at another index
\* depends on the principal and the index its position was written with.
DebtInv == PositionsInOrder /\ LoansBackedByDebts

\* While the total is not negative, accrual lets every debt grow; when it is,
\* any debts cover it.  Either way the change keeps up with the total.
LEMMA ChangeKeepsBacking ==
    ASSUME PoolTypeInv, PoolTypeInv', PositionsInOrder, PositionsInOrder',
           LoansBackedByDebts, IndexPositive, IndexPositive',
           NEW user \in Users, NEW n \in Int, DebtChange(user, n)
    PROVE  LoansBackedByDebts'
<1> DEFINE i == AccruedIndex(market)
           f == Debts(market.borrow_index)
           g == Debts(i)
           h == [u \in Users |-> DebtOf(u)']
           T == market.total_borrowed
<1>1. market \in MarketState /\ market' \in MarketState
        /\ market # NoMarket /\ market' # NoMarket /\ AccrualOK(market)
        /\ market'.borrow_index = i /\ market'.total_borrowed = T + n
  BY DEF DebtChange, PoolTypeInv, PoolTypeOK
<1>2. i \in Nat \ {0} /\ market.borrow_index \in Nat \ {0} /\ T \in Int
  BY <1>1 DEF IndexPositive, MarketState
<1>3. f \in [Users -> Nat] /\ g \in [Users -> Nat]
  BY <1>2, DebtMonotone DEF PoolTypeInv, Debts
<1>4. /\ \A u \in Users \ {user} : h[u] = g[u]
      /\ h[user] = g[user] + n
  BY DEF DebtChange, Debts
<1>5. h \in [Users -> Int]
  <2>1. \A u \in Users : h[u] \in Int
    BY <1>3, <1>4
  <2> QED
    BY <2>1
<1>6. SumFunction(h) = SumFunction(g) + n
  <2>1. g \in [Users -> Int]
    BY <1>3
  <2> HIDE DEF g, h
  <2>2. SumFunction(h) = SumFunction(g) + (h[user] - g[user])
    BY <1>4, <1>5, <2>1, SumChange, HostAssumption
  <2>3. SumFunction(g) \in Int /\ g[user] \in Int
    BY <2>1, SumInt, HostAssumption
  <2> QED
    BY <1>4, <2>2, <2>3
<1>7. T <= SumFunction(g) /\ SumFunction(g) \in Nat
  <2>1. SumFunction(g) \in Nat
    BY <1>3, SumCovers, HostAssumption
  <2>2. CASE T < 0
    BY <1>2, <2>1, <2>2
  <2>3. CASE T >= 0
    <3>1. InOrder
      BY <1>1, <1>2, <2>3 DEF InOrder
    <3>2. market.borrow_index <= i
      BY <1>1, <1>2, <3>1, AccrualNeverLowers
    <3>3. \A u \in Users : f[u] <= g[u]
      BY <1>2, <3>2, DebtMonotone DEF PoolTypeInv, Debts
    <3>4. SumFunction(f) <= SumFunction(g) /\ SumFunction(f) \in Int
      <4>1. f \in [Users -> Int] /\ g \in [Users -> Int]
        BY <1>3
      <4> HIDE DEF f, g
      <4> QED
        BY <3>3, <4>1, SumMonotone, SumInt, HostAssumption
    <3>5. T <= SumFunction(f)
      <4>1. f = [u \in Users |-> DebtOf(u)]
        BY DEF Debts, DebtAt, DebtOf
      <4> QED
        BY <1>1, <1>2, <4>1 DEF LoansBackedByDebts
    <3> HIDE DEF f, g
    <3> QED
      BY <1>2, <2>1, <3>4, <3>5
  <2> QED
    BY <1>2, <2>2, <2>3
<1>8. T + n <= SumFunction(h)
  <2> HIDE DEF f, g, h
  <2> QED
    BY <1>2, <1>6, <1>7
<1> QED
  BY <1>1, <1>8 DEF LoansBackedByDebts

\* A step that writes neither.
LEMMA BackingUntouched ==
    ASSUME DebtInv, UNCHANGED <<market, position>>
    PROVE  DebtInv'
<1>1. [u \in Users |-> DebtOf(u)]' = [u \in Users |-> DebtOf(u)]
  BY DEF DebtOf
<1> QED
  BY <1>1 DEF DebtInv, PositionsInOrder, LoansBackedByDebts

\* The market opens with nothing lent, whatever positions there are.
LEMMA BackingOpens ==
    ASSUME PoolTypeInv, PositionsInOrder, InitMarket
    PROVE  DebtInv'
<1>1. /\ market'.total_borrowed = 0 /\ market'.borrow_index = SCALE
      /\ position' = position
  BY DEF InitMarket
<1>2. SCALE \in Nat
  BY PoolAssumption, HostAssumption
<1> DEFINE h == [u \in Users |-> DebtOf(u)']
<1>3. h = Debts(SCALE)
  BY <1>1 DEF DebtOf, Debts, DebtAt
<1>4. h \in [Users -> Nat]
  <2>1. \A u \in Users : DebtAt(u, SCALE) \in Nat
    BY <1>2, DebtMonotone DEF PoolTypeInv
  <2> QED
    BY <1>3, <2>1 DEF Debts
<1> HIDE DEF h
<1>5. SumFunction(h) \in Nat
  BY <1>4, SumCovers, HostAssumption
<1>6. 0 <= SumFunction(h)
  BY <1>5
<1> QED
  BY <1>1, <1>6 DEF DebtInv, PositionsInOrder, LoansBackedByDebts, h

LEMMA PoolCallsBacked ==
    ASSUME PoolTypeInv, PoolTypeInv', DebtInv, IndexPositive, IndexPositive',
           \/ PoolCalls
           \/ \E user \in Users, amount \in Amounts : Borrow(user, amount)
           \/ UNCHANGED <<market, position>>
    PROVE  DebtInv'
<1>1. ASSUME NEW user \in Users, NEW n \in Int, DebtChange(user, n),
             PositionsInOrder'
      PROVE  DebtInv'
  BY <1>1, ChangeKeepsBacking DEF DebtInv
<1>2. CASE UNCHANGED <<market, position>>
  BY <1>2, BackingUntouched
<1>3. CASE InitMarket
  BY <1>3, BackingOpens DEF DebtInv
<1>4. CASE \E user \in Users, amount \in Amounts :
             Supply(user, amount) \/ Withdraw(user, amount)
  <2>1. PICK user \in Users, amount \in Amounts :
           Supply(user, amount) \/ Withdraw(user, amount)
    BY <1>4
  <2>2. amount \in Int
    BY HostAssumption
  <2>3. DebtChange(user, 0) /\ PositionsInOrder'
    BY <2>1, <2>2, SupplyDebts, WithdrawDebts DEF DebtInv
  <2> QED
    BY <1>1, <2>3
<1>5. CASE \E user \in Users, amount \in Amounts : Borrow(user, amount)
  <2>1. PICK user \in Users, amount \in Amounts : Borrow(user, amount)
    BY <1>5
  <2>2. amount \in Int
    BY HostAssumption
  <2>3. DebtChange(user, amount) /\ PositionsInOrder'
    BY <2>1, <2>2, BorrowDebts DEF DebtInv
  <2> QED
    BY <1>1, <2>2, <2>3
<1>6. CASE \E payer, borrower \in Users, amount \in Amounts :
             Repay(payer, borrower, amount)
  <2>1. PICK payer \in Users, borrower \in Users, amount \in Amounts :
           RepayRecords(payer, borrower, amount)
    BY <1>6 DEF Repay
  <2>2. amount \in Int
    BY HostAssumption
  <2> DEFINE n == -Repaid(borrower, amount)
  <2>3. DebtChange(borrower, n) /\ PositionsInOrder' /\ n \in Int
    BY <2>1, <2>2, RepayDebts DEF DebtInv
  <2> HIDE DEF n
  <2> QED
    BY <1>1, <2>3
<1> QED
  BY <1>2, <1>3, <1>4, <1>5, <1>6 DEF PoolCalls, PoolInitialize

\* What is lent is owed: while the index stays positive, the truncated debts
\* never fall short of the total, whatever interest, overflow and repayments
\* beyond what was lent do to either.
THEOREM LoansBacked == PoolSpec /\ []IndexPositive => []LoansBackedByDebts
<1>1. PoolOnlyInit => DebtInv
  BY DEF PoolOnlyInit, PoolInit, DebtInv, PositionsInOrder, LoansBackedByDebts
<1>2. PoolTypeInv /\ PoolTypeInv' /\ IndexPositive /\ IndexPositive' /\ DebtInv
        /\ [PoolOnlyNext]_pool_only_vars => DebtInv'
  BY PoolCallsBacked
  DEF PoolOnlyNext, MockApprovedBorrow, pool_only_vars, pool_vars
<1>3. DebtInv => LoansBackedByDebts
  BY DEF DebtInv
<1> QED
  BY <1>1, <1>2, <1>3, PoolInvariant, PTL DEF PoolSpec

\* The same of the protocol, where the vault and the engine call the pool.
LEMMA NextBacked ==
    ASSUME TypeInv, TypeInv', DebtInv, IndexPositive, IndexPositive', [Next]_vars
    PROVE  DebtInv'
<1>1. PoolTypeInv /\ PoolTypeInv'
  BY DEF TypeInv
<1>2. CASE PoolCalls \/ UNCHANGED <<market, position>>
  BY <1>1, <1>2, PoolCallsBacked
<1>3. CASE \E user \in Users, amount \in Amounts :
             BorrowAgainstCollateral(user, amount)
  <2>1. \E user \in Users, amount \in Amounts : Borrow(user, amount)
    BY <1>3 DEF BorrowAgainstCollateral
  <2> QED
    BY <1>1, <2>1, PoolCallsBacked
<1>4. CASE \E liquidator, borrower \in Users, amount \in Amounts :
             Liquidate(liquidator, borrower, amount)
  <2>1. PICK liquidator \in Users, borrower \in Users, amount \in Amounts :
           Liquidate(liquidator, borrower, amount)
    BY <1>4
  <2>2. amount \in Int
    BY HostAssumption
  <2> DEFINE asked == RepayAsked(borrower, amount)
             n     == -Repaid(borrower, asked)
  <2>3. asked \in Int /\ RepayRecords(liquidator, borrower, asked)
    BY <2>1, <2>2, LiquidateMoves
  <2>4. DebtChange(borrower, n) /\ PositionsInOrder' /\ n \in Int
    <3> HIDE DEF asked
    <3> QED
      BY <1>1, <2>3, RepayDebts DEF DebtInv
  <2> HIDE DEF n
  <2> QED
    BY <1>1, <2>4, ChangeKeepsBacking DEF DebtInv
<1> QED
  BY <1>2, <1>3, <1>4
  DEF Next, vars, pool_vars, HostStep, RateStep, PoolStep, OracleStep, VaultStep,
      EngineStep

LEMMA InitBacked == Init \/ DeployedInit => DebtInv
<1>1. Init => DebtInv
  BY DEF Init, PoolInit, DebtInv, PositionsInOrder, LoansBackedByDebts
<1>2. DeployedInit => DebtInv
  <2> SUFFICES ASSUME DeployedInit PROVE DebtInv
    OBVIOUS
  <2>1. \A u \in Users : position[u] = NoPosition
    BY DEF DeployedInit
  <2> DEFINE h == [u \in Users |-> DebtOf(u)]
  <2>2. h \in [Users -> Int] /\ \A u \in Users : h[u] = 0
    BY <2>1 DEF DebtOf
  <2>3. SumFunction(h) = 0
    <3> HIDE DEF h
    <3> QED
      BY <2>2, SumZero, HostAssumption
  <2>4. market.total_borrowed = 0
    BY DEF DeployedInit
  <2> QED
    BY <2>1, <2>3, <2>4 DEF DebtInv, PositionsInOrder, LoansBackedByDebts
<1> QED
  BY <1>1, <1>2

\* What the market has lent the users owe, in the protocol as in the pool.
THEOREM ProtocolLoansBacked ==
    (Spec \/ DeployedSpec) /\ []IndexPositive => []LoansBackedByDebts
<1>1. TypeInv /\ TypeInv' /\ IndexPositive /\ IndexPositive' /\ DebtInv
        /\ [Next]_vars => DebtInv'
  BY NextBacked
<1>2. DebtInv => LoansBackedByDebts
  BY DEF DebtInv
<1> QED
  BY <1>1, <1>2, InitBacked, Invariant, PTL DEF Spec, DeployedSpec

----------------------------------------------------------------------------
(* Debts fall only by payment.                                              *)

\* A change that takes off no more than the step brings.
LEMMA ChangePaidFor ==
    ASSUME PoolTypeInv, PositionsInOrder, InOrder,
           NEW user \in Users, NEW n \in Int, DebtChange(user, n),
           Received \in Nat, n >= -Received
    PROVE  \A u \in Users : DebtOf(u)' >= DebtOf(u) - Received
<1> DEFINE i == AccruedIndex(market)
<1>1. /\ market.borrow_index \in Nat /\ i \in Int
      /\ market # NoMarket /\ AccrualOK(market)
  BY AccruedIndexInt DEF InOrder, DebtChange, PoolTypeInv, PoolTypeOK, MarketState
<1>2. market.borrow_index <= i
  BY <1>1, AccrualNeverLowers
<1>3. i \in Nat
  BY <1>1, <1>2
<1> SUFFICES ASSUME NEW u \in Users PROVE DebtOf(u)' >= DebtOf(u) - Received
  OBVIOUS
<1>4. /\ DebtOf(u) = DebtAt(u, market.borrow_index)
      /\ DebtOf(u) \in Nat /\ DebtAt(u, i) \in Nat /\ DebtOf(u) <= DebtAt(u, i)
  <2>1. DebtOf(u) = DebtAt(u, market.borrow_index)
    BY DEF DebtOf, DebtAt
  <2> QED
    BY <1>1, <1>2, <1>3, <2>1, DebtMonotone DEF PoolTypeInv
<1>5. CASE u = user
  <2>1. DebtOf(u)' = DebtAt(u, i) + n
    BY <1>5 DEF DebtChange
  <2> HIDE DEF i
  <2> QED
    BY <1>4, <2>1
<1>6. CASE u # user
  <2>1. DebtOf(u)' = DebtAt(u, i)
    BY <1>6 DEF DebtChange
  <2> HIDE DEF i
  <2> QED
    BY <1>4, <2>1
<1> QED
  BY <1>5, <1>6

LEMMA StepPaidFor ==
    ASSUME PoolTypeInv, PoolTypeInv', PositionsInOrder, InOrder, IndexPositive',
           \/ PoolCalls
           \/ \E user \in Users, amount \in Amounts : Borrow(user, amount)
           \/ UNCHANGED <<market, position>>
    PROVE  \A u \in Users : DebtOf(u)' >= DebtOf(u) - Received
<1>1. token[PoolAddr] \in Nat /\ token'[PoolAddr] \in Nat
  BY AddressesApart DEF PoolTypeInv, HostTypeOK
<1>2. Received \in Nat
  BY <1>1 DEF Received
<1>3. CASE UNCHANGED <<market, position>>
  <2>1. \A u \in Users : DebtOf(u)' = DebtOf(u)
    BY <1>3 DEF DebtOf
  <2>2. \A u \in Users : DebtOf(u) \in Nat
    <3>1. market.borrow_index \in Nat
      BY DEF InOrder, PoolTypeInv, PoolTypeOK, MarketState
    <3>2. \A u \in Users : DebtOf(u) = DebtAt(u, market.borrow_index)
      BY DEF DebtOf, DebtAt
    <3> QED
      BY <3>1, <3>2, DebtMonotone DEF PoolTypeInv
  <2> QED
    BY <1>2, <2>1, <2>2
<1>4. ~InitMarket
  BY DEF InitMarket, InOrder
<1>5. CASE \E user \in Users, amount \in Amounts :
             Supply(user, amount) \/ Withdraw(user, amount)
  <2>1. PICK user \in Users, amount \in Amounts :
           Supply(user, amount) \/ Withdraw(user, amount)
    BY <1>5
  <2>2. amount \in Int
    BY HostAssumption
  <2>3. DebtChange(user, 0)
    BY <2>1, <2>2, SupplyDebts, WithdrawDebts
  <2>4. 0 >= -Received
    BY <1>2
  <2> QED
    BY <1>2, <2>3, <2>4, ChangePaidFor
<1>6. CASE \E user \in Users, amount \in Amounts : Borrow(user, amount)
  <2>1. PICK user \in Users, amount \in Amounts : Borrow(user, amount)
    BY <1>6
  <2>2. amount \in Int
    BY HostAssumption
  <2>3. DebtChange(user, amount) /\ amount > 0
    BY <2>1, <2>2, BorrowDebts
  <2>4. amount >= -Received
    BY <1>2, <2>2, <2>3
  <2> QED
    BY <1>2, <2>2, <2>3, <2>4, ChangePaidFor
<1>7. CASE \E payer, borrower \in Users, amount \in Amounts :
             Repay(payer, borrower, amount)
  <2>1. PICK payer \in Users, borrower \in Users, amount \in Amounts :
           Repay(payer, borrower, amount)
    BY <1>7
  <2>2. amount \in Int
    BY HostAssumption
  <2> DEFINE paid == Repaid(borrower, amount)
  <2>3. DebtChange(borrower, -paid) /\ paid \in Nat
    BY <2>1, <2>2, RepayDebts DEF Repay
  <2>4. token'[PoolAddr] = token[PoolAddr] + paid
    <3>1. token' = Transferred(token, payer, PoolAddr, paid)
      BY <2>1 DEF Repay
    <3>2. token \in [Addresses -> Nat] /\ paid \in Int
      BY <2>3 DEF PoolTypeInv, HostTypeOK
    <3> HIDE DEF paid
    <3> QED
      BY <3>1, <3>2, AddressesApart, TransferBalances
  <2> HIDE DEF paid
  <2>5. -paid \in Int /\ -paid >= -Received
    BY <1>1, <2>3, <2>4 DEF Received
  <2> QED
    BY <1>2, <2>3, <2>5, ChangePaidFor
<1> QED
  BY <1>3, <1>4, <1>5, <1>6, <1>7 DEF PoolCalls, PoolInitialize

\* No call makes a debt disappear: from a market in order, what a step takes off
\* any user's debt it brings to the pool.
THEOREM DebtsPaidFor == PoolSpec /\ []IndexPositive => DebtFallsOnlyByPayment
<1>1. PoolOnlyInit => DebtInv
  BY DEF PoolOnlyInit, PoolInit, DebtInv, PositionsInOrder, LoansBackedByDebts
<1>2. PoolTypeInv /\ PoolTypeInv' /\ IndexPositive /\ IndexPositive' /\ DebtInv
        /\ [PoolOnlyNext]_pool_only_vars => DebtInv'
  BY PoolCallsBacked
  DEF PoolOnlyNext, MockApprovedBorrow, pool_only_vars, pool_vars
<1>3. PoolTypeInv /\ PoolTypeInv' /\ DebtInv /\ IndexPositive'
        /\ [PoolOnlyNext]_pool_only_vars
        => [InOrder => \A u \in Users : DebtOf(u)' >= DebtOf(u) - Received
             ]_pool_only_vars
  BY StepPaidFor
  DEF DebtInv, PoolOnlyNext, MockApprovedBorrow, pool_only_vars, pool_vars
<1> QED
  BY <1>1, <1>2, <1>3, PoolInvariant, PTL DEF PoolSpec, DebtFallsOnlyByPayment

\* What a liquidation takes off the borrower's debt the liquidator pays.
LEMMA LiquidationPaidFor ==
    ASSUME TypeInv, PositionsInOrder, InOrder, IndexPositive',
           NEW liquidator \in Users, NEW borrower \in Users, NEW amount \in Int,
           Liquidate(liquidator, borrower, amount)
    PROVE  \A u \in Users : DebtOf(u)' >= DebtOf(u) - Received
<1> DEFINE asked == RepayAsked(borrower, amount)
           paid  == Repaid(borrower, asked)
<1>1. PoolTypeInv
  BY DEF TypeInv
<1>2. /\ asked \in Int /\ RepayRecords(liquidator, borrower, asked)
      /\ token'[PoolAddr] = token[PoolAddr] + paid
  BY LiquidateMoves
<1>3. DebtChange(borrower, -paid) /\ paid \in Nat
  <2> HIDE DEF asked
  <2> QED
    BY <1>1, <1>2, RepayDebts
<1> HIDE DEF paid
<1>4. token[PoolAddr] \in Nat
  BY <1>1, AddressesApart DEF PoolTypeInv, HostTypeOK
<1>5. Received \in Nat /\ -paid \in Int /\ -paid >= -Received
  BY <1>2, <1>3, <1>4 DEF Received
<1> QED
  BY <1>1, <1>3, <1>5, ChangePaidFor

LEMMA NextPaidFor ==
    ASSUME TypeInv, TypeInv', PositionsInOrder, InOrder, IndexPositive', [Next]_vars
    PROVE  \A u \in Users : DebtOf(u)' >= DebtOf(u) - Received
<1>1. PoolTypeInv /\ PoolTypeInv'
  BY DEF TypeInv
<1>2. CASE PoolCalls \/ UNCHANGED <<market, position>>
  BY <1>1, <1>2, StepPaidFor
<1>3. CASE \E user \in Users, amount \in Amounts :
             BorrowAgainstCollateral(user, amount)
  <2>1. \E user \in Users, amount \in Amounts : Borrow(user, amount)
    BY <1>3 DEF BorrowAgainstCollateral
  <2> QED
    BY <1>1, <2>1, StepPaidFor
<1>4. CASE \E liquidator, borrower \in Users, amount \in Amounts :
             Liquidate(liquidator, borrower, amount)
  BY <1>4, LiquidationPaidFor, HostAssumption
<1> QED
  BY <1>2, <1>3, <1>4
  DEF Next, vars, pool_vars, HostStep, RateStep, PoolStep, OracleStep, VaultStep,
      EngineStep

\* The same in the protocol: a seizure of collateral takes nothing off a debt
\* but what its liquidator pays.
THEOREM ProtocolDebtsPaidFor ==
    (Spec \/ DeployedSpec) /\ []IndexPositive => DebtFallsOnlyByPayment
<1>1. TypeInv /\ TypeInv' /\ IndexPositive /\ IndexPositive' /\ DebtInv
        /\ [Next]_vars => DebtInv'
  BY NextBacked
<1>2. TypeInv /\ TypeInv' /\ DebtInv /\ IndexPositive' /\ [Next]_vars
        => [InOrder => \A u \in Users : DebtOf(u)' >= DebtOf(u) - Received
             ]_pool_only_vars
  BY NextPaidFor DEF DebtInv
<1> QED
  BY <1>1, <1>2, InitBacked, Invariant, PTL
  DEF Spec, DeployedSpec, DebtFallsOnlyByPayment

----------------------------------------------------------------------------
(* When the index stays positive.                                           *)

\* The users have not repaid more, interest included, than the market lent.
NothingOverpaid == market # NoMarket => market.total_borrowed >= 0

LEMMA NextIndexPositive ==
    ASSUME TypeInv, TypeInv', NothingOverpaid, IndexPositive, [Next]_vars
    PROVE  IndexPositive'
<1>1. CASE market = NoMarket
  <2>1. CASE InitMarket
    <3>1. market'.borrow_index = SCALE
      BY <2>1 DEF InitMarket
    <3> QED
      BY <3>1, PoolAssumption DEF IndexPositive
  <2>2. CASE UNCHANGED market
    BY <1>1, <2>2 DEF IndexPositive
  <2>3. InitMarket \/ UNCHANGED market
    BY <1>1, HostAssumption, LiquidateMoves
    DEF Next, vars, pool_vars, HostStep, RateStep, PoolStep, OracleStep, VaultStep,
        EngineStep, PoolCalls, PoolInitialize, Supply, Withdraw, WithdrawOK,
        Repay, RepayRecords, RepayOK, BorrowAgainstCollateral, Borrow, BorrowOK
  <2> QED
    BY <2>1, <2>2, <2>3
<1>2. CASE market # NoMarket
  <2>1. InOrder
    BY <1>2 DEF NothingOverpaid, IndexPositive, InOrder
  <2>2. market'.borrow_index >= market.borrow_index
    BY <2>1, NextIndex
  <2>3. market.borrow_index \in Int /\ market.borrow_index > 0
    BY <2>1 DEF InOrder, TypeInv, PoolTypeInv, PoolTypeOK, MarketState
  <2>4. market' # NoMarket => market'.borrow_index \in Int
    BY DEF TypeInv, PoolTypeInv, PoolTypeOK, MarketState
  <2> QED
    BY <2>2, <2>3, <2>4 DEF IndexPositive
<1> QED
  BY <1>1, <1>2

\* What the theorems above suppose holds as long as no more has been repaid
\* than was lent: then interest is never negative, whatever overflows.
THEOREM IndexStaysPositive ==
    (Spec \/ DeployedSpec) /\ []NothingOverpaid => []IndexPositive
<1>1. Init \/ DeployedInit => IndexPositive
  BY PoolAssumption DEF Init, PoolInit, DeployedInit, IndexPositive
<1>2. TypeInv /\ TypeInv' /\ NothingOverpaid /\ IndexPositive /\ [Next]_vars
        => IndexPositive'
  BY NextIndexPositive
<1> QED
  BY <1>1, <1>2, Invariant, PTL DEF Spec, DeployedSpec
=============================================================================
