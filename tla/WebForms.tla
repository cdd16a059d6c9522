------------------------------ MODULE WebForms ------------------------------
(***************************************************************************)
(* The forms of the web application: which amounts they let through, what  *)
(* their Max buttons and the liquidation table fill in, and how that       *)
(* compares with what the contracts would do at the moment the view was    *)
(* read.  An amount is a number of base units; the text a field holds      *)
(* matters only where a number cannot be read back from it.  Every form     *)
(* refuses while no position is shown; `view` is what a refresh of this     *)
(* moment shows to the account.                                            *)
(***************************************************************************)
EXTENDS MarketView

CONSTANTS CentUnits,       \* 100_000 in the code, base units of 0.01 tokens
          ExponentUnits    \* 10 in the code, the first amount of at least 1e-6

ASSUME FormAssumption ==
    /\ CentUnits \in Nat \ {0}
    /\ ExponentUnits \in Nat \ {0}

\* No form submits zero, and none lets through more than it is told to be
\* available.
validateAvailableAmount(amount, available) == amount > 0 /\ amount <= available

----------------------------------------------------------------------------
\* Mutant of SupplyFormAccepts: the two balances are taken for each other.
SupplyFormAcceptsSwapped(view, tab, amount) ==
    validateAvailableAmount(amount,
        IF tab = "withdraw" THEN view.position.collateralAmount
        ELSE view.position.suppliedAmount)

\* The tabs withdraw and withdraw_collat; the other two accept any amount.
SupplyFormAccepts(view, tab, amount) ==
    validateAvailableAmount(amount,
        IF tab = "withdraw" THEN view.position.suppliedAmount
        ELSE view.position.collateralAmount)

availableLiquidity(view) ==
    IF view.market.totalSupply > view.market.totalBorrowed
    THEN view.market.totalSupply - view.market.totalBorrowed ELSE 0

simulatedDebtUsd(view, amount) ==
    tokenAmountToUsd(view.position.borrowedAmount + amount, view.market.priceUsd)

\* The borrow tab: within the market's liquidity and the position's capacity,
\* and the button is off while the debt it leads to would be liquidatable.
BorrowFormAccepts(view, amount) ==
    /\ validateAvailableAmount(amount, availableLiquidity(view))
    /\ simulatedDebtUsd(view, amount) <= view.position.borrowCapacityUsd
    /\ calculateHealthFactor(view.position.collateralValueUsd,
                             simulatedDebtUsd(view, amount),
                             MarketConfig.liquidationThresholdBps).status
         # "liquidatable"

\* The repay tab: at most the debt shown, which is the stored principal.
RepayFormAccepts(view, amount) ==
    validateAvailableAmount(amount, view.position.borrowedAmount)

----------------------------------------------------------------------------
\* Mutant of MaxBorrow: the whole capacity is offered again.
MaxBorrowOfCapacity(view) ==
    LET cents == (2 * view.position.borrowCapacityUsd * TokenUnit
                    + PRICE_SCALE * CentUnits) \div (2 * PRICE_SCALE * CentUnits)
    IN  cents * CentUnits

\* Max of the borrow tab: the value in dollars that may still be borrowed,
\* rounded to cents and taken for a number of tokens.
MaxBorrow(view) ==
    LET cents == (2 * view.position.availableToBorrowUsd * TokenUnit
                    + PRICE_SCALE * CentUnits) \div (2 * PRICE_SCALE * CentUnits)
    IN  cents * CentUnits

\* Max of the other tabs: a balance divided by the token's unit and written as
\* text.  Below one millionth of a token the text has an exponent, which the
\* field's own check refuses; 0 stands for what is refused.
MaxOfBalance(balance) == IF balance < ExponentUnits THEN 0 ELSE balance

\* What the page reads of a borrower; one request fails with the vault's
\* valuation, and with it the whole lookup.
checkLiquidatable(borrower) ==
    LET score == get_health_factor(borrower)
    IN  [isLiquidatable  |-> is_liquidatable(borrower),
         healthFactorBps |-> IF score > InfiniteBps THEN InfiniteBps ELSE score,
         debt            |-> current_debt(borrower),
         collateral      |-> collateral[borrower]]

\* Mutant of RepayFilledIn: the whole debt is filled in.
RepayFilledInWhole(debt) == {debt}

\* What the liquidation table fills in for a borrower it looked up, as the
\* engine is asked for it: half of the debt, which became a text in tokens
\* and from there a number of base units, rounded down.  The two conversions
\* go through binary fractions and may lose one unit of an even debt.
RepayFilledIn(debt) ==
    {debt \div 2} \cup (IF debt % 2 = 0 /\ debt > 0 THEN {debt \div 2 - 1} ELSE {})

----------------------------------------------------------------------------
\* The contracts would carry the call out, signed at this moment, for exactly
\* the amount.
PoolWouldLend(user, amount) ==
    BorrowOK(user, amount) /\ BorrowApproved(user, amount)

PoolWouldTake(user, amount) ==
    RepayOK(user, user, amount) /\ Repaid(user, amount) = amount

\* The products on the way of a loan fit.
LoanFits(user, amount) ==
    /\ position[user] # NoPosition => UserDebtOK(position[user], AccruedIndex(market))
    /\ Fits((current_debt(user) + amount) * get_price)
    /\ Fits(collateral[user] * get_price)
    /\ Fits(asset_value_usd(collateral[user]) * vault_config.max_ltv_bps)

\* The form and the pool with its vault agree on every loan, except where the
\* debt it leads to is valued within a unit of the vault's of the limit: the
\* form compares one truncated value at a fine scale, the vault another at a
\* coarse one.  Nothing but that limit makes the form refuse what the pool
\* lends.  As the form reckons with the stored principal, it may let through
\* more than the pool lends once interest has accrued, or less once the index
\* has fallen; nor does it know whether the pool can accrue, its rate model may
\* not be initialised.
BorrowFormAgreesWithPool ==
    MarketReadable /\ LimitsAgree =>
        \A user \in Users : \A amount \in 1..collateral[user] :
            LET view    == refresh(user)
                beyond  == simulatedDebtUsd(view, amount)
                             - view.position.borrowCapacityUsd
                lent    == PoolWouldLend(user, amount)
                offered == BorrowFormAccepts(view, amount)
            IN  PositionReadable(user) =>
                  /\ lent /\ AccruedDebt(user) >= current_debt(user)
                       => beyond < VaultUnitUsd /\ (offered \/ beyond > 0)
                  /\ /\ offered /\ ~lent
                     /\ CanAccrue /\ LoanFits(user, amount)
                     /\ AccruedDebt(user) = current_debt(user)
                     => -beyond < VaultUnitUsd

\* The forms stand in nobody's way: an amount the contracts would pay out or
\* take in full is let through, but for a repayment of interest the stored
\* principal does not include.
FormsRefuseOnlyTheImpossible ==
    MarketReadable =>
        \A user \in Users, amount \in Amounts :
            LET view == refresh(user)
            IN  /\ WithdrawOK(user, amount)
                     => SupplyFormAccepts(view, "withdraw", amount)
                /\ WithdrawCollateralOK(user, amount)
                     => SupplyFormAccepts(view, "withdraw_collat", amount)
                /\ PoolWouldTake(user, amount)
                     => \/ RepayFormAccepts(view, amount)
                        \/ AccruedDebt(user) > current_debt(user)

\* What Max fills in can be submitted.  A loan is refused for exceeding the
\* capacity alone, not by the health check behind it; and with a token worth a
\* dollar or less, as dollars are taken for tokens, it exceeds the capacity by
\* less than half a cent's worth and the unit lost in valuing the debt.  The
\* other forms need a balance that is written without an exponent.
MaxIsWithinReach ==
    MarketReadable => \A user \in Users :
        LET view   == refresh(user)
            p      == view.position
            max    == MaxBorrow(view)
            beyond == simulatedDebtUsd(view, max) - p.borrowCapacityUsd
        IN  /\ PositionReadable(user) /\ max \in 1..availableLiquidity(view)
               => /\ BorrowFormAccepts(view, max) \/ beyond > 0
                  /\ view.market.priceUsd <= PRICE_SCALE =>
                       2 * (beyond - 1) * TokenUnit
                         < CentUnits * view.market.priceUsd
            /\ p.suppliedAmount >= ExponentUnits
                 => SupplyFormAccepts(view, "withdraw", MaxOfBalance(p.suppliedAmount))
            /\ p.collateralAmount >= ExponentUnits
                 => SupplyFormAccepts(view, "withdraw_collat",
                                      MaxOfBalance(p.collateralAmount))
            /\ p.borrowedAmount >= ExponentUnits
                 => RepayFormAccepts(view, MaxOfBalance(p.borrowedAmount))

\* For a borrower shown as liquidatable the table fills in what the engine
\* takes as it is: the close factor does not cut it, and would allow at most
\* one unit more, while it is the one half the page assumes.
LookupFillsIn ==
    \A user \in Users :
        /\ engine_config # NoEngineConfig
        /\ 2 * engine_config.close_factor_bps = BPS_SCALE
        /\ get_health_factorOK(user)
        => LET found == checkLiquidatable(user)
           IN  found.isLiquidatable /\ found.debt >= 0 =>
                 \A amount \in RepayFilledIn(found.debt) :
                    /\ RepayAsked(user, amount) = amount
                    /\ RepayAsked(user, found.debt) - amount \in 0..1

\* The shared estimate of a seizure never promises more than the engine
\* seizes, and falls short by less than one unit and the tokens lost in
\* rounding the repayment's value twice: the engine multiplies tokens, the
\* estimate goes through the price and back.
SeizureEstimateAgrees ==
    /\ MarketReadable
    /\ engine_config # NoEngineConfig
    /\ engine_config.liquidation_bonus_bps = MarketConfig.liquidationBonusBps
    => \A amount \in {a \in Amounts : a > 0} :
          LET bonus == MarketConfig.liquidationBonusBps
              short == CollateralSeized(amount)
                         - seizedCollateralAmount(amount, MarketShown.priceUsd, bonus)
          IN  /\ short >= 0
              /\ (short - 1) * MarketShown.priceUsd * BPS_DIVISOR
                   < (2 * BPS_DIVISOR + bonus) * TokenUnit
============================================================================
