----------------------------- MODULE LumenLend -----------------------------
(***************************************************************************)
(* The protocol: the five contracts on one ledger, with one token that is  *)
(* both lent and pledged.  Users and admins call them in any order.        *)
(***************************************************************************)
EXTENDS LiquidationEngine

vars == <<host_vars, rate_config, pool_vars, oracle_vars, vault_vars,
          engine_config>>

TypeOK ==
    /\ HostTypeOK
    /\ RateTypeOK
    /\ PoolTypeOK
    /\ OracleTypeOK
    /\ VaultTypeOK
    /\ EngineTypeOK

Init ==
    /\ HostInit
    /\ RateInit
    /\ PoolInit
    /\ OracleInit
    /\ VaultInit
    /\ EngineInit

\* The ledger scripts/init-testnet.sh leaves behind: every contract is
\* initialised, the market is open and the asset has its first price.
DeployedInit ==
    /\ HostInit
    /\ rate_config \in {c \in RateConfigs : RateConfigOK(c)}
    /\ pool_admin \in Admins
    /\ market = [total_supplied |-> 0, total_borrowed |-> 0,
                 total_reserves |-> 0, borrow_index |-> SCALE,
                 last_accrual_time |-> now, is_active |-> TRUE]
    /\ position = [u \in Users |-> NoPosition]
    /\ oracle_admin \in Admins
    /\ max_staleness \in Stalenesses
    /\ price \in [price : {p \in Prices : p > 0}, timestamp : {now}]
    /\ vault_admin \in Admins
    /\ vault_config \in VaultConfigs
    /\ collateral = [u \in Users |-> 0]
    /\ engine_config \in EngineConfigs

----------------------------------------------------------------------------
HostStep ==
    /\ \/ Tick
       \/ \E from \in Users, to \in Addresses, amount \in Gifts :
             TokenTransfer(from, to, amount)
    /\ UNCHANGED <<rate_config, pool_vars, oracle_vars, vault_vars,
                   engine_config>>

RateStep ==
    /\ \E config \in RateConfigs : RateInitialize(config)
    /\ UNCHANGED <<pool_vars, oracle_vars, vault_vars, engine_config>>

PoolStep ==
    /\ \/ PoolCalls
       \/ \E user \in Users, amount \in Amounts :
             BorrowAgainstCollateral(user, amount)
    /\ UNCHANGED <<oracle_vars, vault_vars, engine_config>>

OracleStep ==
    /\ \/ \E admin \in Admins, s \in Stalenesses :
             OracleInitialize(admin, s)
       \/ \E p \in Prices : SetPrice(p)
    /\ UNCHANGED <<rate_config, pool_vars, vault_vars, engine_config>>

VaultStep ==
    /\ \/ \E admin \in Admins, config \in VaultConfigs :
             VaultInitialize(admin, config)
       \/ \E admin \in Users, bps \in Thresholds :
             SetLiquidationThreshold(admin, bps)
       \/ \E user \in Users, amount \in Amounts :
             \/ DepositCollateral(user, amount)
             \/ WithdrawCollateral(user, amount)
    /\ UNCHANGED <<rate_config, pool_vars, oracle_vars, engine_config>>

EngineStep ==
    \/ /\ \E config \in EngineConfigs : EngineInitialize(config)
       /\ UNCHANGED <<rate_config, pool_vars, oracle_vars, vault_vars>>
    \/ \E liquidator, borrower \in Users, amount \in Amounts :
          Liquidate(liquidator, borrower, amount)

Next ==
    \/ HostStep
    \/ RateStep
    \/ PoolStep
    \/ OracleStep
    \/ VaultStep
    \/ EngineStep

Spec == Init /\ [][Next]_vars

DeployedSpec == DeployedInit /\ [][Next]_vars

----------------------------------------------------------------------------
\* The vault holds every user's collateral at all times: deposits, withdrawals
\* and seizures write the balance before or after the token moves, and two
\* transfers of the same token happen inside one liquidation.
VaultCustody == SumFunction(collateral) <= token[VaultAddr]

\* What the borrower owes at this instant, as the next accrual will have it.
AccruedDebt(user) ==
    IF position[user] = NoPosition THEN 0
    ELSE UserDebt(position[user], AccruedIndex(market))

PaidToPool == token'[PoolAddr] - token[PoolAddr]

Gone(user) == collateral[user] - collateral'[user]

WithdrawnSafely(user) ==
    /\ PaidToPool = 0
    /\ token'[user] = token[user] + Gone(user)
    /\ check_safety(user, collateral'[user])

SeizedAndPaidFor(user) ==
    /\ is_liquidatable(user)
    /\ PaidToPool >= 0
    /\ PaidToPool * BPS_SCALE
         <= current_debt(user) * engine_config.close_factor_bps
    /\ /\ position[user].borrow_index \in 1..AccruedIndex(market)
       /\ engine_config.close_factor_bps <= BPS_SCALE
       => Gone(user) * BPS_SCALE <= PaidToPool
            * (BPS_SCALE + engine_config.liquidation_bonus_bps)

\* Collateral leaves in two ways.  Either nothing is paid to the pool, it goes
\* to its owner, and the position the vault sees is still healthy at the price
\* of that moment; or its owner was liquidatable, the payment is within the
\* close factor, and no more is seized than the payment and the bonus: the
\* engine computes the seizure from the amount it asked for and the pool takes
\* an amount of its own, so the two contracts must agree (they do while the
\* index has not fallen since the position was written and the close factor is
\* no more than the whole).
CollateralLeavesSafelyOrPaidFor ==
    [][\A u \in Users : collateral'[u] < collateral[u] =>
         WithdrawnSafely(u) \/ SeizedAndPaidFor(u)]_vars

SeizureHeals(user) ==
    /\ collateral'[user] < collateral[user]
    /\ PaidToPool > 0
    /\ AccruedDebt(user) * (BPS_SCALE + engine_config.liquidation_bonus_bps)
         <= collateral[user] * BPS_SCALE
    => collateral[user] * DebtOf(user)' <= collateral'[user] * AccruedDebt(user)

\* A liquidation does not make a position that can pay the bonus worse: if the
\* collateral covers the accrued debt and the bonus on it, the collateral per
\* unit of debt is no lower afterwards, although the close factor is taken of
\* the stored principal and the repayment of the accrued debt.
LiquidationHeals == [][\A u \in Users : SeizureHeals(u)]_vars

LoanIsHealthy(user) ==
    /\ current_debt(user)' > current_debt(user) /\ current_debt(user)' > 0
    /\ market'.total_borrowed > market.total_borrowed
    /\ vault_config.max_ltv_bps <= vault_config.liquidation_threshold_bps
    => ~is_liquidatable(user)'

\* A loan is not liquidatable at the moment it is taken: can_borrow compares
\* truncated values under the maximum LTV in the pool's call, the health
\* factor compares other truncated values under the threshold, and as long as
\* the LTV does not exceed the threshold the two never contradict each other.
FreshLoanIsHealthy == [][\A u \in Users : LoanIsHealthy(u)]_vars

\* The pool's books and its tokens as the ledger of claims.
Claims == INSTANCE ClaimsLedger
            WITH shares <- [u \in Users |-> SharesOf(u)],
                 lent   <- IF market = NoMarket THEN 0 ELSE market.total_borrowed,
                 cash   <- token[PoolAddr],
                 Moves  <- 1..SumFunction(Endowment)

\* The protocol implements the ledger of claims: every call, liquidations over
\* three contracts included, moves the pool's tokens, its totals and the users'
\* shares together, or none of them, and changes nobody else's claim.
ImplementsClaimsLedger == Claims!ClaimsSpec

\* No product on the way to a user's health factor overflows.
ValuesFit(u) ==
    /\ Fits(collateral[u] * get_price)
    /\ Fits(current_debt(u) * get_price)
    /\ Fits(asset_value_usd(collateral[u]) * vault_config.liquidation_threshold_bps)
    /\ Fits(AdjustedCollateral(collateral[u]) * BPS_SCALE)

\* One asset is pledged and lent, so its price is meant to cancel out of the
\* health factor.  It does up to one unit of the vault's values, which truncates
\* the collateral's value and the debt's before it compares them: beyond that,
\* at every price that is not stale, the engine judges a position as its tokens
\* and the threshold alone do, dust included.
PriceCancelsOut ==
    vault_config # NoVaultConfig /\ get_priceOK =>
        \A u \in Users : current_debt(u) > 0 =>
            LET T == vault_config.liquidation_threshold_bps
                short == current_debt(u) * BPS_SCALE - collateral[u] * T
            IN  /\ ValuesFit(u) /\ short * get_price >= PRICE_SCALE * BPS_SCALE
                     => is_liquidatable(u)
                /\ is_liquidatable(u) => -short * get_price < PRICE_SCALE * T

\* The contracts as one can repay: the market accrues.
CanAccrue == market # NoMarket /\ AccrualOK(market)

\* The products on the way to a liquidation's amounts fit.
LiquidationFits(user) ==
    /\ UserDebtOK(position[user], AccruedIndex(market))
    /\ Fits(current_debt(user) * engine_config.close_factor_bps)
    /\ Fits(BPS_SCALE + engine_config.liquidation_bonus_bps)

\* A liquidatable position can be liquidated, by one unit at least, by anyone
\* who holds a unit: nothing that five contracts remember of earlier calls
\* stands in the way, but for a debt so small that the close factor leaves
\* nothing of it, a collateral below one unit with its bonus, and an overflow.
LiquidationAvailable ==
    /\ CanAccrue
    /\ engine_config # NoEngineConfig /\ engine_config.is_enabled
    => \A liquidator, u \in Users :
         /\ is_liquidatable(u)
         /\ AccruedDebt(u) >= 0 /\ LiquidationFits(u)
         /\ current_debt(u) * engine_config.close_factor_bps >= BPS_SCALE
         /\ CollateralSeized(1) <= collateral[u]
         /\ token[liquidator] >= 1
         => LiquidateOK(liquidator, u, 1)

\* Whoever holds what someone owes can repay it, asking for less or for more:
\* with no price, with one too old for every other call on the debt, and
\* after any liquidation; only the product the debt is computed from must fit.
RepayAvailable ==
    CanAccrue =>
        \A payer, u \in Users, amount \in Amounts :
            /\ amount > 0
            /\ AccruedDebt(u) > 0
            /\ UserDebtOK(position[u], AccruedIndex(market))
            /\ token[payer] >= AccruedDebt(u)
            => RepayOK(payer, u, amount)

\* However the contracts are initialised, and in whatever order: nothing is
\* lent before there is a vault to judge the collateral and a price to value
\* it at, though the pool opens its market without asking for either.
LendsOnlyWhenPriced ==
    market # NoMarket /\ market.total_borrowed # 0 =>
        vault_config # NoVaultConfig /\ price # NoPrice
============================================================================
