------------------------- MODULE LendingPoolProofs -------------------------
(***************************************************************************)
(* Type correctness and solvency of the pool, for every value of the       *)
(* constants.  The lemmas about the pool's actions do not mention PoolSpec *)
(* and are used again for the whole protocol in LumenLendProofs.           *)
(***************************************************************************)
EXTENDS LendingPool, TLAPS

\* initialize accepts a configuration only if no denominator of the curve is 0.
RateValid == rate_config # NoConfig => RateConfigOK(rate_config)

\* What every action of the pool needs to know of the state before it.
PoolTypeInv ==
    /\ HostTypeOK
    /\ RateTypeOK
    /\ RateValid
    /\ PoolTypeOK

----------------------------------------------------------------------------
\* Truncated division yields an integer whenever the divisor is not 0.
LEMMA QuotInt ==
    ASSUME NEW a \in Int, NEW b \in Int, b # 0
    PROVE  Quot(a, b) \in Int
<1>1. Abs(a) \in Int /\ Abs(b) \in Nat \ {0}
  BY DEF Abs
<1>2. Abs(a) \div Abs(b) \in Int
  BY <1>1
<1> QED
  BY <1>2 DEF Quot

\* A transfer of an amount the sender has keeps balances balances.
LEMMA TransferredType ==
    ASSUME NEW bal \in [Addresses -> Nat],
           NEW from \in Addresses, NEW to \in Addresses,
           NEW amount \in Nat, amount <= bal[from]
    PROVE  Transferred(bal, from, to, amount) \in [Addresses -> Nat]
BY DEF Transferred

\* The effect of a transfer on the two balances it concerns.
LEMMA TransferBalances ==
    ASSUME NEW bal \in [Addresses -> Nat],
           NEW from \in Addresses, NEW to \in Addresses, from # to,
           NEW amount \in Int
    PROVE  /\ Transferred(bal, from, to, amount)[from] = bal[from] - amount
           /\ Transferred(bal, from, to, amount)[to] = bal[to] + amount
BY DEF Transferred

\* A transfer leaves the other balances alone.
LEMMA TransferElsewhere ==
    ASSUME NEW bal \in [Addresses -> Nat],
           NEW from \in Addresses, NEW to \in Addresses,
           NEW amount \in Int, NEW a \in Addresses, a # from, a # to
    PROVE  Transferred(bal, from, to, amount)[a] = bal[a]
BY DEF Transferred

\* The token's own checks are enough for the types.
LEMMA TransferType ==
    ASSUME token \in [Addresses -> Nat],
           NEW from \in Addresses, NEW to \in Addresses, NEW amount \in Int,
           CanTransfer(from, to, amount)
    PROVE  Transferred(token, from, to, amount) \in [Addresses -> Nat]
<1>1. amount \in Nat /\ amount <= token[from]
  BY DEF CanTransfer
<1> QED
  BY <1>1, TransferredType

\* The borrow rate of a configured model is an integer.
LEMMA BorrowRateInt ==
    ASSUME RateTypeOK, RateValid, rate_config # NoConfig,
           NEW borrowed \in Int, NEW supplied \in Int
    PROVE  get_borrow_rate(borrowed, supplied) \in Int
<1> DEFINE u == get_utilization(borrowed, supplied)
           c == rate_config
<1>1. /\ c.base_rate_bps \in Nat
      /\ c.optimal_utilization_bps \in Nat \ {0}
      /\ c.slope_1_bps \in Nat
      /\ c.slope_2_bps \in Nat
      /\ BPS_SCALE \in Nat \ {0}
      /\ BPS_SCALE - c.optimal_utilization_bps \in Nat \ {0}
  BY RateAssumption DEF RateTypeOK, RateValid, RateConfigOK, RateModelConfig
<1>2. u \in Int
  <2>1. CASE supplied = 0
    BY <2>1 DEF get_utilization
  <2>2. CASE supplied # 0
    <3>1. Quot(borrowed * BPS_SCALE, supplied) \in Int
      BY <1>1, <2>2, QuotInt
    <3> QED
      BY <1>1, <2>2, <3>1 DEF get_utilization
  <2> QED
    BY <2>1, <2>2
<1>3. RateBelowKink(c, u) \in Int
  <2>1. Quot(u * c.slope_1_bps, c.optimal_utilization_bps) \in Int
    BY <1>1, <1>2, QuotInt
  <2> QED
    BY <1>1, <2>1 DEF RateBelowKink
<1>4. RateAboveKink(c, u) \in Int
  <2>1. Quot((u - c.optimal_utilization_bps) * c.slope_2_bps,
             BPS_SCALE - c.optimal_utilization_bps) \in Int
    BY <1>1, <1>2, QuotInt
  <2> QED
    BY <1>1, <2>1 DEF RateAboveKink
<1> QED
  BY <1>3, <1>4 DEF get_borrow_rate

\* Accrual writes an integer index and nothing else but the time.
LEMMA AccruedIndexInt ==
    ASSUME PoolTypeInv, market # NoMarket, AccrualOK(market)
    PROVE  AccruedIndex(market) \in Int
<1> DEFINE m == market
<1>1. m \in MarketState
  BY DEF PoolTypeInv, PoolTypeOK
<1>2. m.borrow_index \in Int /\ m.total_borrowed \in Int
        /\ m.total_supplied \in Int /\ m.last_accrual_time \in Nat
  BY <1>1 DEF MarketState
<1>3. now \in Nat
  BY HostAssumption DEF PoolTypeInv, HostTypeOK
<1>4. CASE ~Accrues(m)
  BY <1>2, <1>4 DEF AccruedIndex
<1>5. CASE Accrues(m)
  <2>1. rate_config # NoConfig
    BY <1>5 DEF AccrualOK, get_borrow_rateOK
  <2>2. BorrowRate(m) \in Int
    BY <1>2, <2>1, BorrowRateInt DEF BorrowRate, PoolTypeInv
  <2>3. SCALE \in Int \ {0} /\ BPS_SCALE \in Int \ {0}
          /\ SECONDS_PER_YEAR \in Int \ {0}
    BY PoolAssumption, RateAssumption
  <2>4. BorrowRate(m) * SCALE \in Int
    BY <2>2, <2>3
  <2>5. Quot(BorrowRate(m) * SCALE, BPS_SCALE) \in Int
    BY <2>3, <2>4, QuotInt
  <2>6. RatePerSecond(m) \in Int
    BY <2>3, <2>5, QuotInt DEF RatePerSecond
  <2>7. RatePerSecond(m) * (now - m.last_accrual_time) \in Int
    BY <1>2, <1>3, <2>6
  <2>8. InterestFactor(m) \in Int
    BY <2>7 DEF InterestFactor, OrElse
  <2>9. OrElse(m.borrow_index * InterestFactor(m), 0) \in Int
    <3>1. m.borrow_index * InterestFactor(m) \in Int
      BY <1>2, <2>8
    <3> QED
      BY <3>1 DEF OrElse
  <2>10. Quot(OrElse(m.borrow_index * InterestFactor(m), 0), SCALE) \in Int
    BY <2>3, <2>9, QuotInt
  <2>11. m.borrow_index
           + Quot(OrElse(m.borrow_index * InterestFactor(m), 0), SCALE) \in Int
    BY <1>2, <2>10
  <2> QED
    BY <1>2, <1>5, <2>11 DEF AccruedIndex, OrElse
<1> QED
  BY <1>4, <1>5

LEMMA AccruedType ==
    ASSUME PoolTypeInv, market # NoMarket, AccrualOK(market)
    PROVE  /\ Accrued(market) \in MarketState
           /\ Accrued(market).total_supplied = market.total_supplied
           /\ Accrued(market).total_borrowed = market.total_borrowed
           /\ Accrued(market).borrow_index = AccruedIndex(market)
<1>1. market \in MarketState /\ now \in Nat
  BY HostAssumption DEF PoolTypeInv, PoolTypeOK, HostTypeOK
<1> QED
  BY <1>1, AccruedIndexInt DEF Accrued, MarketState

\* A debt is an integer.
LEMMA UserDebtInt ==
    ASSUME NEW p \in UserLendingPosition, NEW index \in Int
    PROVE  UserDebt(p, index) \in Int
<1>1. p.principal_borrowed \in Int /\ p.borrow_index \in Int
  BY DEF UserLendingPosition
<1>2. CASE p.principal_borrowed = 0 \/ p.borrow_index = 0
  BY <1>2 DEF UserDebt
<1>3. CASE ~(p.principal_borrowed = 0 \/ p.borrow_index = 0)
  <2>1. p.principal_borrowed * index \in Int
    BY <1>1
  <2> QED
    BY <1>1, <1>3, <2>1, QuotInt DEF UserDebt
<1> QED
  BY <1>2, <1>3

\* The position a supply or a borrow starts from.
LEMMA PositionOrType ==
    ASSUME PoolTypeOK, NEW user \in Users, NEW index \in Int
    PROVE  PositionOr(user, index) \in UserLendingPosition
BY DEF PoolTypeOK, PositionOr, UserLendingPosition

----------------------------------------------------------------------------
(* One lemma per action of the pool: it keeps the types and, if the pool    *)
(* was solvent before it, leaves it solvent.                                *)

\* The names of the ledger's addresses are the pool's, the vault's and the
\* users', all different.
LEMMA AddressesApart ==
    /\ PoolAddr \in Addresses
    /\ VaultAddr \in Addresses
    /\ PoolAddr # VaultAddr
    /\ \A u \in Users : u \in Addresses /\ u # PoolAddr /\ u # VaultAddr
BY HostAssumption DEF Addresses

\* What a borrow or a repayment writes is a position.
LEMMA RewrittenPosition ==
    ASSUME NEW p \in UserLendingPosition, NEW debt \in Int, NEW index \in Int
    PROVE  [p EXCEPT !.principal_borrowed = debt, !.borrow_index = index]
             \in UserLendingPosition
BY DEF UserLendingPosition

LEMMA SupplyStep ==
    ASSUME PoolTypeInv, NEW user \in Users, NEW amount \in Int,
           Supply(user, amount)
    PROVE  PoolTypeInv' /\ (Solvency => Solvency')
<1> DEFINE m == Accrued(market)
           p == PositionOr(user, m.borrow_index)
<1>1. /\ amount > 0
      /\ market # NoMarket
      /\ CanTransfer(user, PoolAddr, amount)
      /\ token' = Transferred(token, user, PoolAddr, amount)
      /\ market' = [m EXCEPT !.total_supplied = @ + amount]
      /\ position' = [position EXCEPT ![user] =
                        [p EXCEPT !.supplied_shares = @ + amount]]
      /\ UNCHANGED <<now, rate_config, pool_admin>>
  BY DEF Supply
<1>2. /\ m \in MarketState
      /\ m.total_supplied = market.total_supplied
      /\ m.total_borrowed = market.total_borrowed
  BY AccruedType DEF Supply
<1>3. p \in UserLendingPosition
  <2>1. m.borrow_index \in Int
    BY <1>2 DEF MarketState
  <2> QED
    BY <2>1, PositionOrType DEF PoolTypeInv
<1>4. token \in [Addresses -> Nat]
  BY DEF PoolTypeInv, HostTypeOK
<1>5. HostTypeOK'
  BY <1>1, <1>4, AddressesApart, TransferType DEF HostTypeOK, PoolTypeInv
<1>6. market' \in MarketState
  BY <1>1, <1>2 DEF MarketState
<1>7. [p EXCEPT !.supplied_shares = @ + amount] \in UserLendingPosition
  BY <1>1, <1>3 DEF UserLendingPosition
<1>8. PoolTypeOK'
  BY <1>1, <1>6, <1>7 DEF PoolTypeOK, PoolTypeInv
<1>9. RateTypeOK' /\ RateValid'
  BY <1>1 DEF RateTypeOK, RateValid, PoolTypeInv
<1>10. ASSUME Solvency PROVE Solvency'
  <2>1. token'[PoolAddr] = token[PoolAddr] + amount
    BY <1>1, <1>4, AddressesApart, TransferBalances
  <2>2. /\ market'.total_supplied = market.total_supplied + amount
        /\ market'.total_borrowed = market.total_borrowed
    BY <1>1, <1>2 DEF MarketState
  <2>3. /\ market.total_supplied \in Int /\ market.total_borrowed \in Int
        /\ token[PoolAddr] \in Nat
    BY <1>2, <1>4, AddressesApart DEF MarketState
  <2> QED
    BY <1>1, <1>10, <2>1, <2>2, <2>3 DEF Solvency
<1> QED
  BY <1>5, <1>8, <1>9, <1>10 DEF PoolTypeInv

LEMMA WithdrawStep ==
    ASSUME PoolTypeInv, NEW user \in Users, NEW amount \in Int,
           Withdraw(user, amount)
    PROVE  PoolTypeInv' /\ (Solvency => Solvency')
<1> DEFINE m == Accrued(market)
           p == position[user]
<1>1. /\ amount > 0
      /\ market # NoMarket
      /\ Redeemable(user, amount)
      /\ amount <= AvailableLiquidity(m)
      /\ CanTransfer(PoolAddr, user, amount)
      /\ token' = Transferred(token, PoolAddr, user, amount)
      /\ market' = [m EXCEPT !.total_supplied = @ - amount]
      /\ position' = [position EXCEPT ![user].supplied_shares = @ - amount]
      /\ UNCHANGED <<now, rate_config, pool_admin>>
  BY DEF Withdraw, WithdrawOK
<1>2. /\ m \in MarketState
      /\ m.total_supplied = market.total_supplied
      /\ m.total_borrowed = market.total_borrowed
  BY AccruedType DEF Withdraw, WithdrawOK
<1>3. p \in UserLendingPosition /\ amount <= p.supplied_shares
  BY <1>1 DEF Redeemable, PoolTypeInv, PoolTypeOK
<1>4. token \in [Addresses -> Nat]
  BY DEF PoolTypeInv, HostTypeOK
<1>5. HostTypeOK'
  BY <1>1, <1>4, AddressesApart, TransferType DEF HostTypeOK, PoolTypeInv
<1>6. market' \in MarketState
  BY <1>1, <1>2 DEF MarketState
<1>7. [p EXCEPT !.supplied_shares = @ - amount] \in UserLendingPosition
  BY <1>1, <1>3 DEF UserLendingPosition
<1>8. PoolTypeOK'
  <2>1. position' = [position EXCEPT ![user] =
                       [p EXCEPT !.supplied_shares = @ - amount]]
    BY <1>1
  <2> QED
    BY <1>1, <1>6, <1>7, <2>1 DEF PoolTypeOK, PoolTypeInv
<1>9. RateTypeOK' /\ RateValid'
  BY <1>1 DEF RateTypeOK, RateValid, PoolTypeInv
<1>10. ASSUME Solvency PROVE Solvency'
  <2>1. token'[PoolAddr] = token[PoolAddr] - amount
    BY <1>1, <1>4, AddressesApart, TransferBalances
  <2>2. /\ market'.total_supplied = market.total_supplied - amount
        /\ market'.total_borrowed = market.total_borrowed
    BY <1>1, <1>2 DEF MarketState
  <2>3. /\ market.total_supplied \in Int /\ market.total_borrowed \in Int
        /\ token[PoolAddr] \in Nat
    BY <1>2, <1>4, AddressesApart DEF MarketState
  <2>4. amount <= market.total_supplied - market.total_borrowed
    BY <1>1, <1>2 DEF AvailableLiquidity
  <2> QED
    BY <1>1, <1>10, <2>1, <2>2, <2>3, <2>4 DEF Solvency
<1> QED
  BY <1>5, <1>8, <1>9, <1>10 DEF PoolTypeInv

LEMMA BorrowStep ==
    ASSUME PoolTypeInv, NEW user \in Users, NEW amount \in Int,
           Borrow(user, amount)
    PROVE  PoolTypeInv' /\ (Solvency => Solvency')
<1> DEFINE m    == Accrued(market)
           p    == PositionOr(user, m.borrow_index)
           debt == DebtBefore(p, m.borrow_index)
           new  == [p EXCEPT !.principal_borrowed = debt + amount,
                             !.borrow_index = m.borrow_index]
<1>1. /\ amount > 0
      /\ market # NoMarket
      /\ amount <= AvailableLiquidity(m)
      /\ CanTransfer(PoolAddr, user, amount)
      /\ token' = Transferred(token, PoolAddr, user, amount)
      /\ market' = [m EXCEPT !.total_borrowed = @ + amount]
      /\ position' = [position EXCEPT ![user] = new]
      /\ UNCHANGED <<now, rate_config, pool_admin>>
  BY DEF Borrow, BorrowOK
<1>2. /\ m \in MarketState
      /\ m.total_supplied = market.total_supplied
      /\ m.total_borrowed = market.total_borrowed
  BY AccruedType DEF Borrow, BorrowOK
<1>3. p \in UserLendingPosition /\ m.borrow_index \in Int
  <2>1. m.borrow_index \in Int
    BY <1>2 DEF MarketState
  <2> QED
    BY <2>1, PositionOrType DEF PoolTypeInv
<1>4. token \in [Addresses -> Nat]
  BY DEF PoolTypeInv, HostTypeOK
<1>5. HostTypeOK'
  BY <1>1, <1>4, AddressesApart, TransferType DEF HostTypeOK, PoolTypeInv
<1>6. market' \in MarketState
  BY <1>1, <1>2 DEF MarketState
<1>7. new \in UserLendingPosition
  <2>1. UserDebt(p, m.borrow_index) \in Int
    BY <1>3, UserDebtInt
  <2>2. debt \in Int
    BY <1>3, <2>1 DEF DebtBefore, UserLendingPosition
  <2>3. debt + amount \in Int
    BY <2>2
  <2> QED
    BY <1>3, <2>3, RewrittenPosition
<1>8. PoolTypeOK'
  BY <1>1, <1>6, <1>7 DEF PoolTypeOK, PoolTypeInv
<1>9. RateTypeOK' /\ RateValid'
  BY <1>1 DEF RateTypeOK, RateValid, PoolTypeInv
<1>10. ASSUME Solvency PROVE Solvency'
  <2>1. token'[PoolAddr] = token[PoolAddr] - amount
    BY <1>1, <1>4, AddressesApart, TransferBalances
  <2>2. /\ market'.total_supplied = market.total_supplied
        /\ market'.total_borrowed = market.total_borrowed + amount
    BY <1>1, <1>2 DEF MarketState
  <2>3. /\ market.total_supplied \in Int /\ market.total_borrowed \in Int
        /\ token[PoolAddr] \in Nat
    BY <1>2, <1>4, AddressesApart DEF MarketState
  <2>4. amount <= market.total_supplied - market.total_borrowed
    BY <1>1, <1>2 DEF AvailableLiquidity
  <2> QED
    BY <1>1, <1>10, <2>1, <2>2, <2>3, <2>4 DEF Solvency
<1> QED
  BY <1>5, <1>8, <1>9, <1>10 DEF PoolTypeInv

\* RepayRecords leaves the transfer to its caller; what it stores is typed and
\* its total falls by the amount the caller must transfer.
LEMMA RepayRecordsStep ==
    ASSUME PoolTypeInv, NEW payer \in Users, NEW borrower \in Users,
           NEW amount \in Int, RepayRecords(payer, borrower, amount)
    PROVE  /\ PoolTypeOK'
           /\ RateTypeOK' /\ RateValid'
           /\ now' = now
           /\ market # NoMarket
           /\ Repaid(borrower, amount) \in Int
           /\ CanTransfer(payer, PoolAddr, Repaid(borrower, amount))
           /\ market'.total_supplied = market.total_supplied
           /\ market'.total_borrowed
                = market.total_borrowed - Repaid(borrower, amount)
<1> DEFINE m      == Accrued(market)
           p      == position[borrower]
           actual == RepayActual(p, m.borrow_index, amount)
           left   == UserDebt(p, m.borrow_index) - actual
           new    == [p EXCEPT !.principal_borrowed = left,
                               !.borrow_index = m.borrow_index]
<1>1. /\ market # NoMarket
      /\ position[borrower] # NoPosition
      /\ CanTransfer(payer, PoolAddr, actual)
      /\ market' = [m EXCEPT !.total_borrowed = @ - actual]
      /\ position' = [position EXCEPT ![borrower] = new]
      /\ UNCHANGED <<now, rate_config, pool_admin>>
  BY DEF RepayRecords, RepayOK
<1>2. /\ m \in MarketState
      /\ m.total_supplied = market.total_supplied
      /\ m.total_borrowed = market.total_borrowed
      /\ m.borrow_index = AccruedIndex(market)
  BY AccruedType DEF RepayRecords, RepayOK
<1>3. p \in UserLendingPosition /\ m.borrow_index \in Int
  BY <1>1, <1>2 DEF PoolTypeInv, PoolTypeOK, MarketState
<1>4. UserDebt(p, m.borrow_index) \in Int
  BY <1>3, UserDebtInt
<1>5. actual \in Int
  BY <1>4 DEF RepayActual
<1>6. actual = Repaid(borrower, amount)
  BY <1>2 DEF Repaid
<1>7. left \in Int
  BY <1>4, <1>5
<1>8. new \in UserLendingPosition
  BY <1>3, <1>7, RewrittenPosition
<1>9. market' \in MarketState
  BY <1>1, <1>2, <1>5 DEF MarketState
<1>10. PoolTypeOK'
  BY <1>1, <1>8, <1>9 DEF PoolTypeOK, PoolTypeInv
<1>11. RateTypeOK' /\ RateValid'
  BY <1>1 DEF RateTypeOK, RateValid, PoolTypeInv
<1>12. /\ market'.total_supplied = market.total_supplied
       /\ market'.total_borrowed = market.total_borrowed - actual
  BY <1>1, <1>2 DEF MarketState
<1> QED
  BY <1>1, <1>5, <1>6, <1>10, <1>11, <1>12

LEMMA RepayStep ==
    ASSUME PoolTypeInv, NEW payer \in Users, NEW borrower \in Users,
           NEW amount \in Int, Repay(payer, borrower, amount)
    PROVE  PoolTypeInv' /\ (Solvency => Solvency')
<1> DEFINE paid == Repaid(borrower, amount)
<1>1. /\ PoolTypeOK' /\ RateTypeOK' /\ RateValid'
      /\ now' = now
      /\ market # NoMarket
      /\ paid \in Int
      /\ CanTransfer(payer, PoolAddr, paid)
      /\ market'.total_supplied = market.total_supplied
      /\ market'.total_borrowed = market.total_borrowed - paid
      /\ token' = Transferred(token, payer, PoolAddr, paid)
  BY RepayRecordsStep DEF Repay
<1>2. token \in [Addresses -> Nat]
  BY DEF PoolTypeInv, HostTypeOK
<1>3. HostTypeOK'
  BY <1>1, <1>2, AddressesApart, TransferType DEF HostTypeOK, PoolTypeInv
<1>4. ASSUME Solvency PROVE Solvency'
  <2>1. token'[PoolAddr] = token[PoolAddr] + paid
    BY <1>1, <1>2, AddressesApart, TransferBalances
  <2>2. paid >= 0
    BY <1>1 DEF CanTransfer
  <2>3. market \in MarketState
    BY <1>1 DEF PoolTypeInv, PoolTypeOK
  <2>4. /\ market.total_supplied \in Int /\ market.total_borrowed \in Int
        /\ token[PoolAddr] \in Nat
    BY <1>2, <2>3, AddressesApart DEF MarketState
  <2> QED
    BY <1>1, <1>4, <2>1, <2>2, <2>4 DEF Solvency
<1> QED
  BY <1>1, <1>3, <1>4 DEF PoolTypeInv

----------------------------------------------------------------------------
\* The steps that do not touch the pool's books: the clock, transfers outside
\* the contracts and the two initialisations.
LEMMA HostTransferStep ==
    ASSUME PoolTypeInv, NEW from \in Users, NEW to \in Addresses,
           NEW amount \in Int, TokenTransfer(from, to, amount),
           UNCHANGED <<rate_config, pool_vars>>
    PROVE  PoolTypeInv' /\ (Solvency => Solvency')
<1>1. token \in [Addresses -> Nat] /\ from \in Addresses
  BY AddressesApart DEF PoolTypeInv, HostTypeOK
<1>2. token' \in [Addresses -> Nat]
  BY <1>1, TransferType DEF TokenTransfer
<1>3. PoolTypeInv'
  BY <1>2 DEF PoolTypeInv, HostTypeOK, RateTypeOK, RateValid, PoolTypeOK,
              pool_vars, TokenTransfer
<1>4. token[PoolAddr] <= token'[PoolAddr]
  BY <1>1, AddressesApart DEF TokenTransfer, Transferred, CanTransfer
<1>5. ASSUME Solvency PROVE Solvency'
  <2>1. CASE market = NoMarket
    BY <2>1 DEF Solvency, pool_vars
  <2>2. CASE market # NoMarket
    <3>1. market \in MarketState
      BY <2>2 DEF PoolTypeInv, PoolTypeOK
    <3>2. /\ market.total_supplied \in Int /\ market.total_borrowed \in Int
          /\ token[PoolAddr] \in Nat /\ token'[PoolAddr] \in Nat
      BY <1>1, <1>2, <3>1, AddressesApart DEF MarketState
    <3> QED
      BY <1>4, <1>5, <2>2, <3>2 DEF Solvency, pool_vars
  <2> QED
    BY <2>1, <2>2
<1> QED
  BY <1>3, <1>5

LEMMA TickStep ==
    ASSUME PoolTypeInv, Tick, UNCHANGED <<rate_config, pool_vars>>
    PROVE  PoolTypeInv' /\ (Solvency => Solvency')
BY HostAssumption DEF PoolTypeInv, HostTypeOK, RateTypeOK, RateValid,
   PoolTypeOK, Solvency, Tick, pool_vars

LEMMA RateInitializeStep ==
    ASSUME PoolTypeInv, NEW config \in RateConfigs, RateInitialize(config),
           UNCHANGED pool_vars
    PROVE  PoolTypeInv' /\ (Solvency => Solvency')
BY RateAssumption DEF PoolTypeInv, HostTypeOK, RateTypeOK, RateValid, RateConfigOK,
   PoolTypeOK, Solvency, RateInitialize, pool_vars, host_vars

LEMMA PoolInitializeStep ==
    ASSUME PoolTypeInv, NEW admin \in Admins, PoolInitialize(admin)
    PROVE  PoolTypeInv' /\ (Solvency => Solvency')
BY DEF PoolTypeInv, HostTypeOK, RateTypeOK, RateValid, PoolTypeOK, Solvency,
   PoolInitialize, host_vars

LEMMA InitMarketStep ==
    ASSUME PoolTypeInv, InitMarket
    PROVE  PoolTypeInv' /\ (Solvency => Solvency')
<1>1. now \in Nat /\ token[PoolAddr] \in Nat
  BY HostAssumption, AddressesApart DEF PoolTypeInv, HostTypeOK
<1>2. market' \in MarketState
  BY <1>1, PoolAssumption DEF InitMarket, MarketState
<1> QED
  BY <1>1, <1>2 DEF PoolTypeInv, HostTypeOK, RateTypeOK, RateValid, PoolTypeOK,
     Solvency, InitMarket, host_vars

\* The pool's calls other than borrow, which the protocol guards further.
LEMMA PoolCallsStep ==
    ASSUME PoolTypeInv, PoolCalls
    PROVE  PoolTypeInv' /\ (Solvency => Solvency')
<1> USE HostAssumption
<1>1. CASE \E admin \in Admins : PoolInitialize(admin)
  BY <1>1, PoolInitializeStep
<1>2. CASE InitMarket
  BY <1>2, InitMarketStep
<1>3. CASE \E user \in Users, amount \in Amounts : Supply(user, amount)
  BY <1>3, SupplyStep
<1>4. CASE \E user \in Users, amount \in Amounts : Withdraw(user, amount)
  BY <1>4, WithdrawStep
<1>5. CASE \E payer, borrower \in Users, amount \in Amounts :
             Repay(payer, borrower, amount)
  BY <1>5, RepayStep
<1> QED
  BY <1>1, <1>2, <1>3, <1>4, <1>5 DEF PoolCalls

LEMMA PoolInitStep ==
    ASSUME HostInit, RateInit, PoolInit
    PROVE  PoolTypeInv /\ Solvency
<1>1. HostTypeOK
  BY HostAssumption DEF HostInit, HostTypeOK, Addresses
<1> QED
  BY <1>1 DEF PoolTypeInv, RateTypeOK, RateValid, PoolTypeOK, Solvency,
     RateInit, PoolInit

\* Every step of the pool by itself, whatever credit its mock vault allows.
LEMMA PoolOnlyStep ==
    ASSUME PoolTypeInv, [PoolOnlyNext]_pool_only_vars
    PROVE  PoolTypeInv' /\ (Solvency => Solvency')
<1> USE HostAssumption
<1>1. CASE PoolCalls
  BY <1>1, PoolCallsStep
<1>2. CASE \E user \in Users, amount \in Amounts :
             MockApprovedBorrow(user, amount)
  BY <1>2, BorrowStep DEF MockApprovedBorrow
<1>3. CASE /\ \E config \in RateConfigs : RateInitialize(config)
           /\ UNCHANGED pool_vars
  BY <1>3, RateInitializeStep
<1>4. CASE Tick /\ UNCHANGED <<rate_config, pool_vars>>
  BY <1>4, TickStep
<1>5. CASE /\ \E from \in Users, to \in Users \cup {PoolAddr}, amount \in Gifts :
                TokenTransfer(from, to, amount)
           /\ UNCHANGED <<rate_config, pool_vars>>
  <2>1. PICK from \in Users, to \in Users \cup {PoolAddr}, amount \in Gifts :
           TokenTransfer(from, to, amount)
    BY <1>5
  <2>2. to \in Addresses /\ amount \in Int
    BY DEF Addresses
  <2> QED
    BY <1>5, <2>1, <2>2, HostTransferStep
<1>6. CASE UNCHANGED pool_only_vars
  BY <1>6 DEF pool_only_vars, host_vars, pool_vars, PoolTypeInv, HostTypeOK,
     RateTypeOK, RateValid, PoolTypeOK, Solvency
<1> QED
  BY <1>1, <1>2, <1>3, <1>4, <1>5, <1>6 DEF PoolOnlyNext

\* Every state of the pool is typed and solvent.
THEOREM PoolInvariant == PoolSpec => [](PoolTypeInv /\ Solvency)
<1>1. PoolOnlyInit => PoolTypeInv /\ Solvency
  BY PoolInitStep DEF PoolOnlyInit
<1>2. PoolTypeInv /\ Solvency /\ [PoolOnlyNext]_pool_only_vars
        => (PoolTypeInv /\ Solvency)'
  BY PoolOnlyStep
<1> QED
  BY <1>1, <1>2, PTL DEF PoolSpec

\* The pool's storage always has the types its code declares: shares never go
\* negative and no accrual stores anything but a number.
THEOREM PoolTypeCorrect == PoolSpec => []PoolTypeOK
<1>1. PoolTypeInv => PoolTypeOK
  BY DEF PoolTypeInv
<1> QED
  BY <1>1, PoolInvariant, PTL

\* The pool never lends more than it was supplied, and its balance covers what
\* it calls available, for any users, amounts, rates and donations.
THEOREM PoolSolvent == PoolSpec => []Solvency
BY PoolInvariant, PTL

----------------------------------------------------------------------------
(* The borrow index never falls while the market is in order.               *)

\* A quotient of numbers that are not negative is not negative.
LEMMA QuotNonNegative ==
    ASSUME NEW a \in Nat, NEW b \in Nat \ {0}
    PROVE  Quot(a, b) \in Nat
<1>1. Abs(a) = a /\ Abs(b) = b
  BY DEF Abs
<1>2. a \div b \in Nat
  OBVIOUS
<1> QED
  BY <1>1, <1>2 DEF Quot

\* A product of numbers that are not negative is not negative.
LEMMA ProductNonNegative ==
    ASSUME NEW a \in Nat, NEW b \in Nat
    PROVE  a * b \in Nat
OBVIOUS

\* The curve is not negative as long as total_borrowed is not.
LEMMA BorrowRateNonNegative ==
    ASSUME RateTypeOK, RateValid, rate_config # NoConfig,
           NEW borrowed \in Nat, NEW supplied \in Int
    PROVE  get_borrow_rate(borrowed, supplied) \in Nat
<1> DEFINE u == get_utilization(borrowed, supplied)
           c == rate_config
<1>1. /\ c.base_rate_bps \in Nat
      /\ c.optimal_utilization_bps \in Nat \ {0}
      /\ c.slope_1_bps \in Nat
      /\ c.slope_2_bps \in Nat
      /\ BPS_SCALE \in Nat \ {0}
      /\ BPS_SCALE - c.optimal_utilization_bps \in Nat \ {0}
  BY RateAssumption DEF RateTypeOK, RateValid, RateConfigOK, RateModelConfig
<1>2. u \in Nat
  <2>1. CASE supplied = 0 \/ borrowed >= supplied
    BY <1>1, <2>1 DEF get_utilization
  <2>2. CASE supplied # 0 /\ ~(borrowed >= supplied)
    <3>1. supplied \in Nat \ {0}
      BY <2>2
    <3>2. borrowed * BPS_SCALE \in Nat
      BY <1>1, ProductNonNegative
    <3>3. Quot(borrowed * BPS_SCALE, supplied) \in Nat
      BY <3>1, <3>2, QuotNonNegative
    <3> QED
      BY <2>2, <3>3 DEF get_utilization
  <2> QED
    BY <2>1, <2>2
<1>3. RateBelowKink(c, u) \in Nat
  <2>1. u * c.slope_1_bps \in Nat
    BY <1>1, <1>2, ProductNonNegative
  <2>2. Quot(u * c.slope_1_bps, c.optimal_utilization_bps) \in Nat
    BY <1>1, <2>1, QuotNonNegative
  <2> QED
    BY <1>1, <2>2 DEF RateBelowKink
<1>4. CASE u <= c.optimal_utilization_bps
  BY <1>3, <1>4 DEF get_borrow_rate
<1>5. CASE ~(u <= c.optimal_utilization_bps)
  <2>1. u - c.optimal_utilization_bps \in Nat
    BY <1>1, <1>2, <1>5
  <2>2. (u - c.optimal_utilization_bps) * c.slope_2_bps \in Nat
    BY <1>1, <2>1, ProductNonNegative
  <2>3. Quot((u - c.optimal_utilization_bps) * c.slope_2_bps,
             BPS_SCALE - c.optimal_utilization_bps) \in Nat
    BY <1>1, <2>2, QuotNonNegative
  <2> QED
    BY <1>1, <1>5, <2>3 DEF get_borrow_rate, RateAboveKink
<1> QED
  BY <1>4, <1>5

\* Accrual of a market in order does not lower the index, overflow or not.
LEMMA AccrualNeverLowers ==
    ASSUME PoolTypeInv, InOrder, AccrualOK(market)
    PROVE  AccruedIndex(market) >= market.borrow_index
<1> DEFINE m == market
<1>1. m \in MarketState /\ now \in Nat
  BY HostAssumption DEF InOrder, PoolTypeInv, PoolTypeOK, HostTypeOK
<1>2. /\ m.borrow_index \in Nat /\ m.total_borrowed \in Nat
      /\ m.total_supplied \in Int /\ m.last_accrual_time \in Nat
  BY <1>1 DEF MarketState, InOrder
<1>3. CASE ~Accrues(m)
  BY <1>2, <1>3 DEF AccruedIndex
<1>4. CASE Accrues(m)
  <2>1. rate_config # NoConfig
    BY <1>4 DEF AccrualOK, get_borrow_rateOK
  <2>2. BorrowRate(m) \in Nat
    BY <1>2, <2>1, BorrowRateNonNegative DEF BorrowRate, PoolTypeInv
  <2>3. SCALE \in Nat \ {0} /\ BPS_SCALE \in Nat \ {0}
          /\ SECONDS_PER_YEAR \in Nat \ {0}
    BY PoolAssumption, RateAssumption
  <2>4. BorrowRate(m) * SCALE \in Nat
    BY <2>2, <2>3, ProductNonNegative
  <2>5. Quot(BorrowRate(m) * SCALE, BPS_SCALE) \in Nat
    BY <2>3, <2>4, QuotNonNegative
  <2>6. RatePerSecond(m) \in Nat
    BY <2>3, <2>5, QuotNonNegative DEF RatePerSecond
  <2>7. now - m.last_accrual_time \in Nat
    BY <1>1, <1>2, <1>4 DEF Accrues
  <2>8. RatePerSecond(m) * (now - m.last_accrual_time) \in Nat
    BY <2>6, <2>7, ProductNonNegative
  <2>9. InterestFactor(m) \in Nat
    BY <2>8 DEF InterestFactor, OrElse
  <2>10. m.borrow_index * InterestFactor(m) \in Nat
    BY <1>2, <2>9, ProductNonNegative
  <2>11. OrElse(m.borrow_index * InterestFactor(m), 0) \in Nat
    BY <2>10 DEF OrElse
  <2>12. Quot(OrElse(m.borrow_index * InterestFactor(m), 0), SCALE) \in Nat
    BY <2>3, <2>11, QuotNonNegative
  <2> QED
    BY <1>2, <1>4, <2>12 DEF AccruedIndex, OrElse
<1> QED
  BY <1>3, <1>4

\* A step leaves the index alone or sets it to the accrued one.
LEMMA IndexStep ==
    ASSUME PoolTypeInv, InOrder,
           \/ PoolCalls
           \/ \E user \in Users, amount \in Amounts : Borrow(user, amount)
           \/ \E payer, borrower \in Users, amount \in Int :
                 RepayRecords(payer, borrower, amount)
           \/ UNCHANGED market
    PROVE  market'.borrow_index >= market.borrow_index
<1> DEFINE m == Accrued(market)
<1>1. market.borrow_index \in Int
  BY DEF InOrder, PoolTypeInv, PoolTypeOK, MarketState
<1>2. ASSUME AccrualOK(market),
             market'.borrow_index = m.borrow_index
      PROVE  market'.borrow_index >= market.borrow_index
  BY <1>2, AccrualNeverLowers, AccruedType DEF InOrder
<1>3. ASSUME market' = market
      PROVE  market'.borrow_index >= market.borrow_index
  BY <1>1, <1>3
<1>4. ASSUME AccrualOK(market) PROVE m \in MarketState
  BY <1>4, AccruedType DEF InOrder
<1>5. CASE \E user \in Users, amount \in Amounts : Supply(user, amount)
  BY <1>2, <1>4, <1>5 DEF Supply, MarketState
<1>6. CASE \E user \in Users, amount \in Amounts : Withdraw(user, amount)
  BY <1>2, <1>4, <1>6 DEF Withdraw, WithdrawOK, MarketState
<1>7. CASE \E user \in Users, amount \in Amounts : Borrow(user, amount)
  BY <1>2, <1>4, <1>7 DEF Borrow, BorrowOK, MarketState
<1>8. CASE \E payer, borrower \in Users, amount \in Int :
             RepayRecords(payer, borrower, amount)
  BY <1>2, <1>4, <1>8 DEF RepayRecords, RepayOK, MarketState
<1>9. CASE InitMarket
  BY <1>9 DEF InitMarket, InOrder
<1>10. CASE market' = market
  BY <1>3, <1>10
<1> QED
  BY <1>5, <1>6, <1>7, <1>8, <1>9, <1>10, HostAssumption
  DEF PoolCalls, PoolInitialize, Repay

\* Interest never runs backward: no step of the pool lowers the index of a
\* market in order, for any curve, any rate and any width of the integers.
THEOREM PoolIndexNeverFalls == PoolSpec => IndexNeverFalls
<1>1. PoolTypeInv /\ [PoolOnlyNext]_pool_only_vars
        => [InOrder => market'.borrow_index >= market.borrow_index]_pool_only_vars
  BY IndexStep
  DEF PoolOnlyNext, MockApprovedBorrow, pool_only_vars, pool_vars
<1> QED
  BY <1>1, PoolInvariant, PTL DEF PoolSpec, IndexNeverFalls

----------------------------------------------------------------------------
(* What is stored fits: so it does in an i128, and the model's integers     *)
(* have to keep to it for the operations on them to be available when they  *)
(* are in the code.                                                         *)

MarketFits ==
    market # NoMarket =>
        /\ Fits(market.total_supplied)
        /\ Fits(market.total_borrowed)
        /\ Fits(market.borrow_index)

PositionsFit ==
    \A u \in Users : position[u] # NoPosition =>
        /\ Fits(position[u].supplied_shares)
        /\ Fits(position[u].principal_borrowed)

\* Also the positions an initialisation of the market finds must fit.
StoredFits == MarketFits /\ PositionsFit

\* An index that does not fit is not stored: the old one is, which did.
LEMMA AccruedIndexFits ==
    ASSUME market # NoMarket, MarketFits
    PROVE  Fits(AccruedIndex(market))
BY DEF MarketFits, AccruedIndex, OrElse

\* Writing one position that fits.
LEMMA PositionFits ==
    ASSUME PoolTypeOK, PositionsFit, NEW user \in Users,
           NEW new, Fits(new.supplied_shares), Fits(new.principal_borrowed),
           position' = [position EXCEPT ![user] = new]
    PROVE  PositionsFit'
<1>1. position \in [Users -> UserLendingPosition \cup {NoPosition}]
  BY DEF PoolTypeOK
<1>2. \A u \in Users : position'[u] = IF u = user THEN new ELSE position[u]
  BY <1>1
<1> QED
  BY <1>2 DEF PositionsFit, Fits

LEMMA SupplyFits ==
    ASSUME PoolTypeInv, StoredFits, NEW user \in Users, NEW amount \in Int,
           Supply(user, amount)
    PROVE  StoredFits'
<1> DEFINE m   == Accrued(market)
           p   == PositionOr(user, m.borrow_index)
           new == [p EXCEPT !.supplied_shares = @ + amount]
<1>1. /\ market # NoMarket
      /\ Fits(p.supplied_shares + amount)
      /\ Fits(m.total_supplied + amount)
      /\ position' = [position EXCEPT ![user] = new]
      /\ market' = [m EXCEPT !.total_supplied = @ + amount]
  BY DEF Supply
<1>2. /\ m \in MarketState
      /\ m.total_borrowed = market.total_borrowed
      /\ m.borrow_index = AccruedIndex(market)
  BY AccruedType DEF Supply
<1>3. MarketFits'
  BY <1>1, <1>2, AccruedIndexFits DEF MarketFits, StoredFits, MarketState, Fits
<1>4. p \in UserLendingPosition /\ Fits(p.principal_borrowed)
  <2>1. p \in UserLendingPosition
    BY <1>2, PositionOrType DEF PoolTypeInv, MarketState
  <2> QED
    BY <2>1, HostAssumption DEF StoredFits, PositionsFit, PositionOr, Fits
<1>5. /\ new.supplied_shares = p.supplied_shares + amount
      /\ new.principal_borrowed = p.principal_borrowed
  BY <1>4 DEF UserLendingPosition
<1>6. PositionsFit'
  <2> HIDE DEF new
  <2> QED
    BY <1>1, <1>4, <1>5, PositionFits DEF PoolTypeInv, StoredFits
<1> QED
  BY <1>3, <1>6 DEF StoredFits

LEMMA WithdrawFits ==
    ASSUME PoolTypeInv, StoredFits, NEW user \in Users, NEW amount \in Int,
           Withdraw(user, amount)
    PROVE  StoredFits'
<1> DEFINE m   == Accrued(market)
           p   == position[user]
           new == [p EXCEPT !.supplied_shares = @ - amount]
<1>1. /\ amount > 0
      /\ market # NoMarket
      /\ Redeemable(user, amount)
      /\ Fits(m.total_supplied - amount)
      /\ market' = [m EXCEPT !.total_supplied = @ - amount]
      /\ position' = [position EXCEPT ![user].supplied_shares = @ - amount]
  BY DEF Withdraw, WithdrawOK
<1>2. /\ m \in MarketState
      /\ m.total_borrowed = market.total_borrowed
      /\ m.borrow_index = AccruedIndex(market)
  BY AccruedType DEF Withdraw, WithdrawOK
<1>3. MarketFits'
  BY <1>1, <1>2, AccruedIndexFits DEF MarketFits, StoredFits, MarketState, Fits
<1>4. /\ p \in UserLendingPosition
      /\ amount <= p.supplied_shares
      /\ Fits(p.supplied_shares) /\ Fits(p.principal_borrowed)
  BY <1>1 DEF Redeemable, PoolTypeInv, PoolTypeOK, StoredFits, PositionsFit
<1>5. /\ new.supplied_shares = p.supplied_shares - amount
      /\ new.principal_borrowed = p.principal_borrowed
  BY <1>4 DEF UserLendingPosition
<1>6. Fits(p.supplied_shares - amount)
  <2>1. p.supplied_shares \in Nat /\ I128Max \in Nat
    BY <1>4, HostAssumption DEF UserLendingPosition
  <2> QED
    BY <1>1, <1>4, <2>1 DEF Fits
<1>7. PositionsFit'
  <2>1. position' = [position EXCEPT ![user] = new]
    BY <1>1
  <2> HIDE DEF new
  <2> QED
    BY <1>4, <1>5, <1>6, <2>1, PositionFits DEF PoolTypeInv, StoredFits
<1> QED
  BY <1>3, <1>7 DEF StoredFits

LEMMA BorrowFits ==
    ASSUME PoolTypeInv, StoredFits, NEW user \in Users, NEW amount \in Int,
           Borrow(user, amount)
    PROVE  StoredFits'
<1> DEFINE m    == Accrued(market)
           p    == PositionOr(user, m.borrow_index)
           debt == DebtBefore(p, m.borrow_index)
           new  == [p EXCEPT !.principal_borrowed = debt + amount,
                             !.borrow_index = m.borrow_index]
<1>1. /\ market # NoMarket
      /\ Fits(debt + amount)
      /\ Fits(m.total_borrowed + amount)
      /\ market' = [m EXCEPT !.total_borrowed = @ + amount]
      /\ position' = [position EXCEPT ![user] = new]
  BY DEF Borrow, BorrowOK
<1>2. /\ m \in MarketState
      /\ m.total_supplied = market.total_supplied
      /\ m.borrow_index = AccruedIndex(market)
  BY AccruedType DEF Borrow, BorrowOK
<1>3. MarketFits'
  BY <1>1, <1>2, AccruedIndexFits DEF MarketFits, StoredFits, MarketState, Fits
<1>4. p \in UserLendingPosition /\ Fits(p.supplied_shares)
  <2>1. p \in UserLendingPosition
    BY <1>2, PositionOrType DEF PoolTypeInv, MarketState
  <2> QED
    BY <2>1, HostAssumption DEF StoredFits, PositionsFit, PositionOr, Fits
<1>5. /\ new.supplied_shares = p.supplied_shares
      /\ new.principal_borrowed = debt + amount
  <2> HIDE DEF debt
  <2> QED
    BY <1>4 DEF UserLendingPosition
<1>6. PositionsFit'
  <2> HIDE DEF new
  <2> QED
    BY <1>1, <1>4, <1>5, PositionFits DEF PoolTypeInv, StoredFits
<1> QED
  BY <1>3, <1>6 DEF StoredFits

LEMMA RepayRecordsFits ==
    ASSUME PoolTypeInv, StoredFits, NEW payer \in Users, NEW borrower \in Users,
           NEW amount \in Int, RepayRecords(payer, borrower, amount)
    PROVE  StoredFits'
<1> DEFINE m      == Accrued(market)
           p      == position[borrower]
           actual == RepayActual(p, m.borrow_index, amount)
           left   == UserDebt(p, m.borrow_index) - actual
           new    == [p EXCEPT !.principal_borrowed = left,
                               !.borrow_index = m.borrow_index]
<1>1. /\ market # NoMarket
      /\ p # NoPosition
      /\ Fits(left)
      /\ Fits(m.total_borrowed - actual)
      /\ market' = [m EXCEPT !.total_borrowed = @ - actual]
      /\ position' = [position EXCEPT ![borrower] = new]
  BY DEF RepayRecords, RepayOK
<1>2. /\ m \in MarketState
      /\ m.total_supplied = market.total_supplied
      /\ m.borrow_index = AccruedIndex(market)
  BY AccruedType DEF RepayRecords, RepayOK
<1>3. MarketFits'
  <2> HIDE DEF actual
  <2> QED
    BY <1>1, <1>2, AccruedIndexFits DEF MarketFits, StoredFits, MarketState, Fits
<1>4. p \in UserLendingPosition /\ Fits(p.supplied_shares)
  BY <1>1 DEF PoolTypeInv, PoolTypeOK, StoredFits, PositionsFit
<1>5. /\ new.supplied_shares = p.supplied_shares
      /\ new.principal_borrowed = left
  <2> HIDE DEF left
  <2> QED
    BY <1>4 DEF UserLendingPosition
<1>6. PositionsFit'
  <2> HIDE DEF new, left
  <2> QED
    BY <1>1, <1>4, <1>5, PositionFits DEF PoolTypeInv, StoredFits
<1> QED
  BY <1>3, <1>6 DEF StoredFits

\* The calls that write neither a market with totals nor a position.
LEMMA InitFits ==
    ASSUME StoredFits, InitMarket
    PROVE  StoredFits'
<1>1. Fits(0) /\ Fits(SCALE)
  BY HostAssumption, PoolAssumption DEF Fits
<1> QED
  BY <1>1 DEF InitMarket, StoredFits, MarketFits, PositionsFit, Fits

LEMMA PoolCallsFit ==
    ASSUME PoolTypeInv, StoredFits,
           \/ PoolCalls
           \/ \E user \in Users, amount \in Amounts : Borrow(user, amount)
           \/ UNCHANGED pool_vars
    PROVE  StoredFits'
<1> USE HostAssumption
<1>1. CASE UNCHANGED <<market, position>>
  BY <1>1 DEF StoredFits, MarketFits, PositionsFit, Fits
<1> QED
  BY <1>1, InitFits, SupplyFits, WithdrawFits, BorrowFits, RepayRecordsFits
  DEF PoolCalls, PoolInitialize, Repay, pool_vars
============================================================================
