---------------------------- MODULE LendingPool ----------------------------
(***************************************************************************)
(* contracts/lending-pool, for the one asset the protocol has a market     *)
(* for.  The pool keeps the market's totals and borrow index and one       *)
(* position per user; a position's debt is its principal times the growth  *)
(* of the index since the position was last written.                       *)
(***************************************************************************)
EXTENDS InterestRateModel

CONSTANTS SCALE,             \* 1e9 in the code
          SECONDS_PER_YEAR,  \* 31_536_000 in the code
          CreditLimit,       \* largest debt the mock vault approves
          NoMarket, NoPosition

VARIABLES pool_admin,  \* DataKey::Admin
          market,      \* DataKey::Market of the asset
          position     \* DataKey::UserPosition of each user

pool_vars == <<pool_admin, market, position>>

MarketState == [total_supplied : Int, total_borrowed : Int,
                total_reserves : Int, borrow_index : Int,
                last_accrual_time : Nat, is_active : BOOLEAN]

UserLendingPosition == [supplied_shares : Nat, principal_borrowed : Int,
                        borrow_index : Int]

ASSUME PoolAssumption ==
    /\ SCALE \in 1..I128Max
    /\ SECONDS_PER_YEAR \in Nat \ {0}
    /\ CreditLimit \in Nat
    /\ NoMarket \notin MarketState
    /\ NoPosition \notin UserLendingPosition

PoolTypeOK ==
    /\ pool_admin \in Admins \cup {NoAdmin}
    /\ market \in MarketState \cup {NoMarket}
    /\ position \in [Users -> UserLendingPosition \cup {NoPosition}]

----------------------------------------------------------------------------
\* accrue_interest_internal skips the rate model when this is false.
Accrues(m) == now > m.last_accrual_time /\ m.total_borrowed # 0

BorrowRate(m) == get_borrow_rate(m.total_borrowed, m.total_supplied)

\* The call of the rate model and its one checked multiplication succeed.
AccrualOK(m) ==
    Accrues(m) => /\ get_borrow_rateOK(m.total_borrowed, m.total_supplied)
                  /\ Fits(BorrowRate(m) * SCALE)

RatePerSecond(m) ==
    Quot(Quot(BorrowRate(m) * SCALE, BPS_SCALE), SECONDS_PER_YEAR)

InterestFactor(m) ==
    OrElse(RatePerSecond(m) * (now - m.last_accrual_time), 0)

\* Mutant of AccruedIndex: any overflow on the way resets the index.
AccruedIndexReset(m) ==
    LET interest == m.borrow_index * InterestFactor(m)
    IN  IF ~Accrues(m) THEN m.borrow_index
        ELSE IF Fits(interest) THEN OrElse(m.borrow_index + Quot(interest, SCALE), 0)
        ELSE 0

AccruedIndex(m) ==
    IF Accrues(m)
    THEN OrElse(m.borrow_index
                  + Quot(OrElse(m.borrow_index * InterestFactor(m), 0), SCALE),
                m.borrow_index)
    ELSE m.borrow_index

\* The market after accrue_interest_internal.
Accrued(m) == [m EXCEPT !.borrow_index = AccruedIndex(m),
                        !.last_accrual_time = now]

----------------------------------------------------------------------------
UserDebt(p, index) ==
    IF p.principal_borrowed = 0 \/ p.borrow_index = 0 THEN 0
    ELSE Quot(p.principal_borrowed * index, p.borrow_index)

UserDebtOK(p, index) ==
    p.principal_borrowed # 0 /\ p.borrow_index # 0
        => Fits(p.principal_borrowed * index)

\* Mutant of AvailableLiquidity: what is lent counts as available.
AvailableIgnoringLoans(m) == m.total_supplied

AvailableLiquidity(m) == m.total_supplied - m.total_borrowed

\* Mutant of PositionOr: the stored position is never loaded.
PositionNeverLoaded(user, index) ==
    [supplied_shares |-> 0, principal_borrowed |-> 0, borrow_index |-> index]

\* The stored position, or the empty one a first supply or borrow starts from.
PositionOr(user, index) ==
    IF position[user] = NoPosition
    THEN [supplied_shares |-> 0, principal_borrowed |-> 0,
          borrow_index |-> index]
    ELSE position[user]

\* Mutants of DebtBefore: the new loan replaces the old debt; the old debt is
\* carried over without the interest since.
DebtForgotten(p, index) == 0
DebtNotCapitalised(p, index) == p.principal_borrowed

\* What borrow takes for the debt so far: the accrued debt of a position that
\* has one.
DebtBefore(p, index) ==
    IF p.principal_borrowed > 0 THEN UserDebt(p, index)
    ELSE p.principal_borrowed

\* Mutant of RepayActual: the whole amount is taken.
RepayUncapped(p, index, amount) == amount

\* repay_internal never takes more than is owed.
RepayActual(p, index, amount) ==
    IF amount > UserDebt(p, index) THEN UserDebt(p, index) ELSE amount

----------------------------------------------------------------------------
PoolInit ==
    /\ pool_admin = NoAdmin
    /\ market = NoMarket
    /\ position = [u \in Users |-> NoPosition]

PoolInitialize(admin) ==
    /\ pool_admin = NoAdmin
    /\ pool_admin' = admin
    /\ UNCHANGED <<host_vars, rate_config, market, position>>

\* The admin signs the call.
InitMarket ==
    /\ pool_admin # NoAdmin
    /\ market = NoMarket
    /\ market' = [total_supplied |-> 0, total_borrowed |-> 0,
                  total_reserves |-> 0, borrow_index |-> SCALE,
                  last_accrual_time |-> now, is_active |-> TRUE]
    /\ UNCHANGED <<host_vars, rate_config, pool_admin, position>>

Supply(user, amount) ==
    /\ amount > 0
    /\ market # NoMarket
    /\ market.is_active
    /\ AccrualOK(market)
    /\ CanTransfer(user, PoolAddr, amount)
    /\ LET m == Accrued(market)
           p == PositionOr(user, m.borrow_index)
       IN  /\ Fits(p.supplied_shares + amount)
           /\ Fits(m.total_supplied + amount)
           /\ position' = [position EXCEPT ![user] =
                             [p EXCEPT !.supplied_shares = @ + amount]]
           /\ market' = [m EXCEPT !.total_supplied = @ + amount]
    /\ token' = Transferred(token, user, PoolAddr, amount)
    /\ UNCHANGED <<now, rate_config, pool_admin>>

\* Mutant of Redeemable: the user's shares are not compared with the amount.
RedeemableByAnyone(user, amount) == position[user] # NoPosition

\* A user without a position, or with fewer shares, is refused.
Redeemable(user, amount) ==
    /\ position[user] # NoPosition
    /\ amount <= position[user].supplied_shares

\* As in InterestRateModel, fOK says that no error or panic lies on the path
\* of f, the transfer included: the call is carried out.
WithdrawOK(user, amount) ==
    /\ amount > 0
    /\ market # NoMarket
    /\ AccrualOK(market)
    /\ Redeemable(user, amount)
    /\ LET m == Accrued(market)
       IN  /\ Fits(AvailableLiquidity(m))
           /\ amount <= AvailableLiquidity(m)
           /\ Fits(m.total_supplied - amount)
    /\ CanTransfer(PoolAddr, user, amount)

Withdraw(user, amount) ==
    /\ WithdrawOK(user, amount)
    /\ position' = [position EXCEPT ![user].supplied_shares = @ - amount]
    /\ market' = [Accrued(market) EXCEPT !.total_supplied = @ - amount]
    /\ token' = Transferred(token, PoolAddr, user, amount)
    /\ UNCHANGED <<now, rate_config, pool_admin>>

\* The vault's approval, can_borrow, is a conjunct of CollateralVault.tla: by
\* itself the pool works with whatever its vault answers.
BorrowOK(user, amount) ==
    /\ amount > 0
    /\ market # NoMarket
    /\ market.is_active
    /\ AccrualOK(market)
    /\ LET m == Accrued(market)
           p == PositionOr(user, m.borrow_index)
       IN  /\ Fits(AvailableLiquidity(m))
           /\ amount <= AvailableLiquidity(m)
           /\ p.principal_borrowed > 0 => UserDebtOK(p, m.borrow_index)
           /\ Fits(DebtBefore(p, m.borrow_index) + amount)
           /\ Fits(m.total_borrowed + amount)
    /\ CanTransfer(PoolAddr, user, amount)

Borrow(user, amount) ==
    /\ BorrowOK(user, amount)
    /\ LET m    == Accrued(market)
           p    == PositionOr(user, m.borrow_index)
           debt == DebtBefore(p, m.borrow_index)
       IN  /\ position' = [position EXCEPT ![user] =
                             [p EXCEPT !.principal_borrowed = debt + amount,
                                       !.borrow_index = m.borrow_index]]
           /\ market' = [m EXCEPT !.total_borrowed = @ + amount]
    /\ token' = Transferred(token, PoolAddr, user, amount)
    /\ UNCHANGED <<now, rate_config, pool_admin>>

RepayOK(payer, borrower, amount) ==
    /\ amount > 0
    /\ market # NoMarket
    /\ AccrualOK(market)
    /\ position[borrower] # NoPosition
    /\ LET m      == Accrued(market)
           p      == position[borrower]
           actual == RepayActual(p, m.borrow_index, amount)
       IN  /\ UserDebtOK(p, m.borrow_index)
           /\ CanTransfer(payer, PoolAddr, actual)
           /\ Fits(UserDebt(p, m.borrow_index) - actual)
           /\ Fits(m.total_borrowed - actual)

\* What repay_internal checks and stores; the transfer is the caller's part,
\* since a liquidation moves tokens twice.
RepayRecords(payer, borrower, amount) ==
    /\ RepayOK(payer, borrower, amount)
    /\ LET m      == Accrued(market)
           p      == position[borrower]
           actual == RepayActual(p, m.borrow_index, amount)
           left   == UserDebt(p, m.borrow_index) - actual
       IN  /\ position' = [position EXCEPT ![borrower] =
                             [p EXCEPT !.principal_borrowed = left,
                                       !.borrow_index = m.borrow_index]]
           /\ market' = [m EXCEPT !.total_borrowed = @ - actual]
    /\ UNCHANGED <<now, rate_config, pool_admin>>

\* Mutant of Repaid: the amount asked for is transferred.
RepaidAsAsked(borrower, amount) == amount

\* The amount repay_internal transfers.
Repaid(borrower, amount) ==
    RepayActual(position[borrower], AccruedIndex(market), amount)

\* repay when the payer is the borrower, liquidation_repay otherwise: anyone
\* may pay anyone's debt.
Repay(payer, borrower, amount) ==
    /\ RepayRecords(payer, borrower, amount)
    /\ token' = Transferred(token, payer, PoolAddr, Repaid(borrower, amount))

----------------------------------------------------------------------------
PoolCalls ==
    \/ \E admin \in Admins : PoolInitialize(admin)
    \/ InitMarket
    \/ \E user \in Users, amount \in Amounts :
          \/ Supply(user, amount)
          \/ Withdraw(user, amount)
    \/ \E payer, borrower \in Users, amount \in Amounts :
          Repay(payer, borrower, amount)

\* The pool by itself, as its tests run it: with a vault that approves every
\* borrow (up to CreditLimit, the bound that keeps the states finite).
MockApprovedBorrow(user, amount) ==
    /\ Borrow(user, amount)
    /\ position'[user].principal_borrowed <= CreditLimit

PoolOnlyInit == HostInit /\ RateInit /\ PoolInit

PoolOnlyNext ==
    \/ PoolCalls
    \/ \E user \in Users, amount \in Amounts :
          MockApprovedBorrow(user, amount)
    \/ /\ \E config \in RateConfigs : RateInitialize(config)
       /\ UNCHANGED pool_vars
    \/ /\ \/ Tick
          \/ \E from \in Users, to \in Users \cup {PoolAddr},
                amount \in Gifts : TokenTransfer(from, to, amount)
       /\ UNCHANGED <<rate_config, pool_vars>>

pool_only_vars == <<host_vars, rate_config, pool_vars>>

PoolSpec == PoolOnlyInit /\ [][PoolOnlyNext]_pool_only_vars

----------------------------------------------------------------------------
\* What a user is owed and owes; a user without a position neither.
SharesOf(user) ==
    IF position[user] = NoPosition THEN 0 ELSE position[user].supplied_shares

DebtOf(user) ==
    IF position[user] = NoPosition THEN 0
    ELSE UserDebt(position[user], market.borrow_index)

\* The pool can pay out what its books call available: total_borrowed never
\* exceeds total_supplied, and the tokens it holds cover the difference that
\* withdraw and borrow check amounts against (they never look at the balance).
\* Donations only add to it.
Solvency ==
    market # NoMarket =>
        /\ market.total_borrowed <= market.total_supplied
        /\ market.total_supplied - market.total_borrowed <= token[PoolAddr]

\* The total of the market is the sum of the users' shares: supply and
\* withdraw write both, each from a copy read before the token's transfer.
SharesAddUp ==
    market # NoMarket =>
        market.total_supplied = SumFunction([u \in Users |-> SharesOf(u)])

\* Every token lent is owed by someone: the debts, each computed from its own
\* position's index and truncated, never fall short of total_borrowed, which
\* grows and shrinks by the amounts transferred.
LoansBackedByDebts ==
    market # NoMarket /\ market.borrow_index > 0 =>
        market.total_borrowed <= SumFunction([u \in Users |-> DebtOf(u)])

\* The market has a positive index and no more repaid than lent.
InOrder == market # NoMarket /\ market.total_borrowed >= 0 /\ market.borrow_index > 0

\* The tokens a step brings to the pool.
Received ==
    IF token'[PoolAddr] > token[PoolAddr] THEN token'[PoolAddr] - token[PoolAddr]
    ELSE 0

\* No call makes a debt disappear.  While the market is in order, a step lowers
\* a user's debt by no more than the tokens it brings to the pool: what supply,
\* borrow and a repayment by another user do to the stored principal and index
\* keeps the interest that had accrued.
DebtFallsOnlyByPayment ==
    [][InOrder => \A u \in Users : DebtOf(u)' >= DebtOf(u) - Received
      ]_pool_only_vars

\* Interest never runs backward: while the market is in order no step lowers
\* the borrow index, whatever multiplication overflows on the way
\* (accrue_interest_internal falls back on 0, or on the old index).
IndexNeverFalls ==
    [][InOrder => market'.borrow_index >= market.borrow_index]_pool_only_vars
============================================================================
