-------------------------- MODULE DocumentedClaims --------------------------
(***************************************************************************)
(* What documents, comments and assertions of the repository say of the    *)
(* protocol and the contracts do not do.  Each claim is checked by a run   *)
(* of its own, which ends in a counterexample.                             *)
(***************************************************************************)
EXTENDS LumenLend

\* packages/shared rejects a market with negative totals (calculateUtilization
\* throws on one): every market get_market_state returns should pass.  A
\* repayment takes interest that borrow never added to total_borrowed.
TotalsNeverNegative ==
    market # NoMarket => market.total_borrowed >= 0 /\ market.total_supplied >= 0

\* The index formula of docs/contracts/lending-pool.md: over a positive time,
\* at a positive rate, with tokens lent, the index grows.  The code truncates
\* the annual rate to a number of units per second first.
InterestAccrues ==
    [][/\ market # NoMarket
       /\ market.total_borrowed > 0
       /\ BorrowRate(market) > 0
       /\ market'.last_accrual_time > market.last_accrual_time
       => market'.borrow_index > market.borrow_index]_vars

\* The interest borrowers have paid belongs to the suppliers and the reserves
\* (docs/protocol/interest-rate-model.md): once nobody owes anything, and no
\* token was donated, what the pool holds is what it owes them.
InterestIsDistributed ==
    market # NoMarket /\ (\A u \in Users : AccruedDebt(u) = 0) =>
        token[PoolAddr] = market.total_supplied + market.total_reserves

\* A position is liquidatable when its debt has compounded until the health
\* factor is below 1.0 (docs/architecture/data-flow.md).  The vault takes the
\* principal stored at the borrower's last call for the debt.
CompoundedDebtIsLiquidatable ==
    \A u \in Users :
        /\ vault_config # NoVaultConfig
        /\ AccruedDebt(u) # 0
        /\ HealthFactorOK(collateral[u], AccruedDebt(u))
        /\ HealthFactor(collateral[u], AccruedDebt(u)) < BPS_SCALE
        => is_liquidatable(u)
=============================================================================
