-------------------------- MODULE LumenLendProofs --------------------------
(***************************************************************************)
(* Type correctness and solvency of the whole protocol: the pool's lemmas  *)
(* carry over to the actions that combine the pool with the vault and the  *)
(* engine.                                                                 *)
(***************************************************************************)
EXTENDS LumenLend, LendingPoolProofs

TypeInv ==
    /\ PoolTypeInv
    /\ OracleTypeOK
    /\ VaultTypeOK
    /\ EngineTypeOK

----------------------------------------------------------------------------
LEMMA HostStepSafe ==
    ASSUME TypeInv, HostStep
    PROVE  TypeInv' /\ (Solvency => Solvency')
<1>1. OracleTypeOK' /\ VaultTypeOK' /\ EngineTypeOK'
  BY DEF TypeInv, HostStep, OracleTypeOK, VaultTypeOK, EngineTypeOK,
     oracle_vars, vault_vars
<1>2. UNCHANGED <<rate_config, pool_vars>>
  BY DEF HostStep
<1>3. CASE Tick
  BY <1>1, <1>2, <1>3, TickStep DEF TypeInv
<1>4. CASE \E from \in Users, to \in Addresses, amount \in Gifts :
             TokenTransfer(from, to, amount)
  <2>1. PICK from \in Users, to \in Addresses, amount \in Gifts :
           TokenTransfer(from, to, amount)
    BY <1>4
  <2>2. amount \in Int
    BY HostAssumption
  <2>3. PoolTypeInv' /\ (Solvency => Solvency')
    BY <1>2, <2>1, <2>2, HostTransferStep DEF TypeInv
  <2> QED
    BY <1>1, <2>3 DEF TypeInv
<1> QED
  BY <1>3, <1>4 DEF HostStep

LEMMA RateStepSafe ==
    ASSUME TypeInv, RateStep
    PROVE  TypeInv' /\ (Solvency => Solvency')
<1>1. OracleTypeOK' /\ VaultTypeOK' /\ EngineTypeOK'
  BY DEF TypeInv, RateStep, OracleTypeOK, VaultTypeOK, EngineTypeOK,
     oracle_vars, vault_vars
<1> QED
  BY <1>1, RateInitializeStep DEF TypeInv, RateStep

LEMMA PoolStepSafe ==
    ASSUME TypeInv, PoolStep
    PROVE  TypeInv' /\ (Solvency => Solvency')
<1>1. OracleTypeOK' /\ VaultTypeOK' /\ EngineTypeOK'
  BY DEF TypeInv, PoolStep, OracleTypeOK, VaultTypeOK, EngineTypeOK,
     oracle_vars, vault_vars
<1>2. CASE PoolCalls
  BY <1>1, <1>2, PoolCallsStep DEF TypeInv
<1>3. CASE \E user \in Users, amount \in Amounts :
             BorrowAgainstCollateral(user, amount)
  <2>1. PICK user \in Users, amount \in Amounts : Borrow(user, amount)
    BY <1>3 DEF BorrowAgainstCollateral
  <2>2. amount \in Int
    BY HostAssumption
  <2>3. PoolTypeInv' /\ (Solvency => Solvency')
    BY <2>1, <2>2, BorrowStep DEF TypeInv
  <2> QED
    BY <1>1, <2>3 DEF TypeInv
<1> QED
  BY <1>2, <1>3 DEF PoolStep

\* A step that leaves the pool and the host alone.
LEMMA PoolUntouched ==
    ASSUME PoolTypeInv, UNCHANGED <<host_vars, rate_config, pool_vars>>
    PROVE  PoolTypeInv' /\ (Solvency => Solvency')
BY DEF PoolTypeInv, HostTypeOK, RateTypeOK, RateValid, PoolTypeOK, Solvency,
   host_vars, pool_vars

\* A step that moves tokens and leaves the pool's share of them alone.
LEMMA PoolShareUntouched ==
    ASSUME PoolTypeInv, UNCHANGED <<now, rate_config, pool_vars>>,
           token' \in [Addresses -> Nat], token'[PoolAddr] = token[PoolAddr]
    PROVE  PoolTypeInv' /\ (Solvency => Solvency')
BY DEF PoolTypeInv, HostTypeOK, RateTypeOK, RateValid, PoolTypeOK, Solvency,
   pool_vars

LEMMA OracleStepSafe ==
    ASSUME TypeInv, OracleStep
    PROVE  TypeInv' /\ (Solvency => Solvency')
<1>1. VaultTypeOK' /\ EngineTypeOK'
  BY DEF TypeInv, OracleStep, VaultTypeOK, EngineTypeOK, vault_vars
<1>2. now \in Nat
  BY HostAssumption DEF TypeInv, PoolTypeInv, HostTypeOK
<1>3. OracleTypeOK' /\ UNCHANGED host_vars
  BY <1>2, OracleAssumption DEF TypeInv, OracleStep, OracleInitialize, SetPrice,
     OracleTypeOK, PriceRecord
<1>4. PoolTypeInv' /\ (Solvency => Solvency')
  BY <1>3, PoolUntouched DEF TypeInv, OracleStep
<1> QED
  BY <1>1, <1>3, <1>4 DEF TypeInv

\* A deposit brings the tokens it records to the vault, and the pool none.
LEMMA DepositMoves ==
    ASSUME TypeInv, NEW user \in Users, NEW amount \in Int,
           DepositCollateral(user, amount)
    PROVE  /\ amount > 0
           /\ collateral' = [collateral EXCEPT ![user] = @ + amount]
           /\ token' = Transferred(token, user, VaultAddr, amount)
           /\ token' \in [Addresses -> Nat]
           /\ token'[PoolAddr] = token[PoolAddr]
           /\ token'[VaultAddr] = token[VaultAddr] + amount
           /\ UNCHANGED <<now, vault_admin, vault_config>>
<1>1. /\ amount > 0
      /\ CanTransfer(user, VaultAddr, amount)
      /\ token' = Transferred(token, user, VaultAddr, amount)
      /\ collateral' = [collateral EXCEPT ![user] = @ + amount]
      /\ UNCHANGED <<now, vault_admin, vault_config>>
  BY DEF DepositCollateral
<1>2. token \in [Addresses -> Nat]
  BY DEF TypeInv, PoolTypeInv, HostTypeOK
<1>3. token' \in [Addresses -> Nat]
  BY <1>1, <1>2, AddressesApart, TransferType
<1>4. token'[PoolAddr] = token[PoolAddr]
  BY <1>1, <1>2, AddressesApart, TransferElsewhere
<1>5. token'[VaultAddr] = token[VaultAddr] + amount
  BY <1>1, <1>2, AddressesApart, TransferBalances
<1> QED
  BY <1>1, <1>3, <1>4, <1>5

\* A withdrawal takes the tokens it records from the vault, to their owner.
LEMMA WithdrawCollateralMoves ==
    ASSUME TypeInv, NEW user \in Users, NEW amount \in Int,
           WithdrawCollateral(user, amount)
    PROVE  /\ amount > 0
           /\ amount <= collateral[user]
           /\ collateral' = [collateral EXCEPT ![user] = @ - amount]
           /\ token' = Transferred(token, VaultAddr, user, amount)
           /\ token' \in [Addresses -> Nat]
           /\ token'[PoolAddr] = token[PoolAddr]
           /\ token'[VaultAddr] = token[VaultAddr] - amount
           /\ token'[user] = token[user] + amount
           /\ UNCHANGED <<now, vault_admin, vault_config>>
<1>1. /\ amount > 0
      /\ amount <= collateral[user]
      /\ CanTransfer(VaultAddr, user, amount)
      /\ token' = Transferred(token, VaultAddr, user, amount)
      /\ collateral' = [collateral EXCEPT ![user] = @ - amount]
      /\ UNCHANGED <<now, vault_admin, vault_config>>
  BY DEF WithdrawCollateral, WithdrawCollateralOK
<1>2. token \in [Addresses -> Nat]
  BY DEF TypeInv, PoolTypeInv, HostTypeOK
<1>3. token' \in [Addresses -> Nat]
  BY <1>1, <1>2, AddressesApart, TransferType
<1>4. token'[PoolAddr] = token[PoolAddr]
  BY <1>1, <1>2, AddressesApart, TransferElsewhere
<1>5. /\ token'[VaultAddr] = token[VaultAddr] - amount
      /\ token'[user] = token[user] + amount
  BY <1>1, <1>2, AddressesApart, TransferBalances
<1> QED
  BY <1>1, <1>3, <1>4, <1>5

LEMMA VaultStepSafe ==
    ASSUME TypeInv, VaultStep
    PROVE  TypeInv' /\ (Solvency => Solvency')
<1>1. OracleTypeOK' /\ EngineTypeOK'
  BY DEF TypeInv, VaultStep, OracleTypeOK, EngineTypeOK, oracle_vars
<1>2. UNCHANGED <<rate_config, pool_vars>>
  BY DEF VaultStep
<1>3. token \in [Addresses -> Nat] /\ collateral \in [Users -> Nat]
  BY DEF TypeInv, PoolTypeInv, HostTypeOK, VaultTypeOK
<1>4. CASE \E admin \in Admins, config \in VaultConfigs :
             VaultInitialize(admin, config)
  <2>1. VaultTypeOK' /\ UNCHANGED host_vars
    BY <1>4, HostAssumption, VaultAssumption
    DEF TypeInv, VaultInitialize, VaultTypeOK
  <2> QED
    BY <1>1, <1>2, <2>1, PoolUntouched DEF TypeInv
<1>5. CASE \E admin \in Users, bps \in Thresholds :
             SetLiquidationThreshold(admin, bps)
  <2>1. PICK bps \in Thresholds : \E admin \in Users :
           SetLiquidationThreshold(admin, bps)
    BY <1>5
  <2>2. vault_config \in CollateralConfig
    BY <2>1 DEF SetLiquidationThreshold, TypeInv, VaultTypeOK
  <2>3. vault_config' \in CollateralConfig
    BY <2>1, <2>2, VaultAssumption DEF SetLiquidationThreshold, CollateralConfig
  <2>4. VaultTypeOK' /\ UNCHANGED host_vars
    BY <2>1, <2>3, VaultAssumption DEF SetLiquidationThreshold, TypeInv, VaultTypeOK
  <2> QED
    BY <1>1, <1>2, <2>4, PoolUntouched DEF TypeInv
<1>6. CASE \E user \in Users, amount \in Amounts : DepositCollateral(user, amount)
  <2>1. PICK user \in Users, amount \in Amounts : DepositCollateral(user, amount)
    BY <1>6
  <2>2. amount \in Int
    BY HostAssumption
  <2>3. /\ amount > 0
        /\ collateral' = [collateral EXCEPT ![user] = @ + amount]
        /\ token' \in [Addresses -> Nat] /\ token'[PoolAddr] = token[PoolAddr]
        /\ UNCHANGED <<now, vault_admin, vault_config>>
    BY <2>1, <2>2, DepositMoves
  <2>4. VaultTypeOK'
    BY <1>3, <2>2, <2>3 DEF TypeInv, VaultTypeOK
  <2> QED
    BY <1>1, <1>2, <2>3, <2>4, PoolShareUntouched DEF TypeInv
<1>7. CASE \E user \in Users, amount \in Amounts : WithdrawCollateral(user, amount)
  <2>1. PICK user \in Users, amount \in Amounts : WithdrawCollateral(user, amount)
    BY <1>7
  <2>2. amount \in Int
    BY HostAssumption
  <2>3. /\ amount > 0 /\ amount <= collateral[user]
        /\ collateral' = [collateral EXCEPT ![user] = @ - amount]
        /\ token' \in [Addresses -> Nat] /\ token'[PoolAddr] = token[PoolAddr]
        /\ UNCHANGED <<now, vault_admin, vault_config>>
    BY <2>1, <2>2, WithdrawCollateralMoves
  <2>4. VaultTypeOK'
    BY <1>3, <2>2, <2>3 DEF TypeInv, VaultTypeOK
  <2> QED
    BY <1>1, <1>2, <2>3, <2>4, PoolShareUntouched DEF TypeInv
<1> QED
  BY <1>4, <1>5, <1>6, <1>7 DEF VaultStep

\* A liquidation moves tokens to the pool, which records them, and from the
\* vault, which takes them off the borrower's collateral.
LEMMA LiquidateMoves ==
    ASSUME TypeInv, NEW liquidator \in Users, NEW borrower \in Users,
           NEW repay_amount \in Int, Liquidate(liquidator, borrower, repay_amount)
    PROVE  LET asked  == RepayAsked(borrower, repay_amount)
               paid   == Repaid(borrower, asked)
               seized == CollateralSeized(asked)
           IN  /\ asked \in Int /\ paid \in Nat /\ seized \in Nat \ {0}
               /\ seized <= collateral[borrower]
               /\ RepayRecords(liquidator, borrower, asked)
               /\ collateral' = [collateral EXCEPT ![borrower] = @ - seized]
               /\ token' \in [Addresses -> Nat]
               /\ token'[PoolAddr] = token[PoolAddr] + paid
               /\ token'[VaultAddr] = token[VaultAddr] - seized
               /\ UNCHANGED <<vault_admin, vault_config, engine_config,
                              oracle_vars>>
<1> DEFINE asked  == RepayAsked(borrower, repay_amount)
           paid   == Repaid(borrower, asked)
           seized == CollateralSeized(asked)
           first  == Transferred(token, liquidator, PoolAddr, paid)
<1>0. /\ PoolAddr \in Addresses /\ VaultAddr \in Addresses
      /\ liquidator \in Addresses
      /\ PoolAddr # VaultAddr /\ PoolAddr # liquidator /\ VaultAddr # liquidator
  BY AddressesApart
<1>1. /\ RepayRecords(liquidator, borrower, asked)
      /\ SeizeRecords(borrower, seized)
      /\ seized <= token[VaultAddr]
      /\ token' = Transferred(first, VaultAddr, liquidator, seized)
      /\ engine_config # NoEngineConfig
      /\ UNCHANGED <<engine_config, oracle_vars>>
  BY DEF Liquidate, LiquidateOK
<1>2. asked \in Int /\ seized \in Int
  <2>1. current_debt(borrower) \in Int
    BY DEF current_debt, TypeInv, PoolTypeInv, PoolTypeOK, UserLendingPosition
  <2>2. /\ engine_config.close_factor_bps \in Nat
        /\ engine_config.liquidation_bonus_bps \in Nat
        /\ BPS_SCALE \in Int /\ BPS_SCALE # 0
    BY <1>1, RateAssumption DEF TypeInv, EngineTypeOK, LiquidationConfig
  <2>3. Quot(current_debt(borrower) * engine_config.close_factor_bps, BPS_SCALE)
          \in Int
    <3>1. current_debt(borrower) * engine_config.close_factor_bps \in Int
      BY <2>1, <2>2
    <3> QED
      BY <2>2, <3>1, QuotInt
  <2>4. asked \in Int
    BY <2>3 DEF RepayAsked
  <2>5. asked * (BPS_SCALE + engine_config.liquidation_bonus_bps) \in Int
    BY <2>2, <2>4
  <2>6. seized \in Int
    BY <2>2, <2>5, QuotInt DEF CollateralSeized
  <2> QED
    BY <2>4, <2>6
<1>3. /\ PoolTypeOK' /\ RateTypeOK' /\ RateValid'
      /\ now' = now
      /\ market # NoMarket
      /\ paid \in Int
      /\ CanTransfer(liquidator, PoolAddr, paid)
      /\ market'.total_supplied = market.total_supplied
      /\ market'.total_borrowed = market.total_borrowed - paid
  BY <1>1, <1>2, RepayRecordsStep DEF TypeInv
<1>4. token \in [Addresses -> Nat] /\ collateral \in [Users -> Nat]
  BY DEF TypeInv, PoolTypeInv, HostTypeOK, VaultTypeOK
<1>5. seized \in Nat \ {0} /\ seized <= collateral[borrower] /\ paid \in Nat
  BY <1>1, <1>2, <1>3 DEF SeizeRecords, SeizeOK, CanTransfer
<1>6. first \in [Addresses -> Nat] /\ first[VaultAddr] = token[VaultAddr]
        /\ first[PoolAddr] = token[PoolAddr] + paid
  <2>1. first \in [Addresses -> Nat]
    BY <1>0, <1>3, <1>4, TransferType
  <2>2. first[VaultAddr] = token[VaultAddr]
    BY <1>0, <1>3, <1>4, TransferElsewhere
  <2>3. first[PoolAddr] = token[PoolAddr] + paid
    BY <1>0, <1>3, <1>4, TransferBalances
  <2> QED
    BY <2>1, <2>2, <2>3
<1>7. /\ token' \in [Addresses -> Nat]
      /\ token'[PoolAddr] = token[PoolAddr] + paid
      /\ token'[VaultAddr] = token[VaultAddr] - seized
  <2>1. token' \in [Addresses -> Nat]
    BY <1>0, <1>1, <1>5, <1>6, TransferredType
  <2>2. token'[PoolAddr] = first[PoolAddr]
    BY <1>0, <1>1, <1>2, <1>6, TransferElsewhere
  <2>3. token'[VaultAddr] = first[VaultAddr] - seized
    BY <1>0, <1>1, <1>2, <1>6, TransferBalances
  <2> QED
    BY <1>6, <2>1, <2>2, <2>3
<1> QED
  BY <1>1, <1>2, <1>5, <1>7 DEF SeizeRecords

LEMMA LiquidateSafe ==
    ASSUME TypeInv, NEW liquidator \in Users, NEW borrower \in Users,
           NEW repay_amount \in Int, Liquidate(liquidator, borrower, repay_amount)
    PROVE  TypeInv' /\ (Solvency => Solvency')
<1> DEFINE asked  == RepayAsked(borrower, repay_amount)
           paid   == Repaid(borrower, asked)
           seized == CollateralSeized(asked)
<1>1. /\ asked \in Int /\ paid \in Nat /\ seized \in Nat
      /\ seized <= collateral[borrower]
      /\ RepayRecords(liquidator, borrower, asked)
      /\ collateral' = [collateral EXCEPT ![borrower] = @ - seized]
      /\ token' \in [Addresses -> Nat]
      /\ token'[PoolAddr] = token[PoolAddr] + paid
      /\ UNCHANGED <<vault_admin, vault_config, engine_config, oracle_vars>>
  BY LiquidateMoves
<1>2. /\ PoolTypeOK' /\ RateTypeOK' /\ RateValid'
      /\ now' = now
      /\ market # NoMarket
      /\ market'.total_supplied = market.total_supplied
      /\ market'.total_borrowed = market.total_borrowed - paid
  BY <1>1, RepayRecordsStep DEF TypeInv
<1>3. VaultTypeOK'
  BY <1>1 DEF TypeInv, VaultTypeOK
<1>4. OracleTypeOK' /\ EngineTypeOK'
  BY <1>1 DEF TypeInv, OracleTypeOK, EngineTypeOK, oracle_vars
<1>5. HostTypeOK'
  BY <1>1, <1>2 DEF HostTypeOK, TypeInv, PoolTypeInv
<1>6. ASSUME Solvency PROVE Solvency'
  <2>1. market \in MarketState /\ token \in [Addresses -> Nat]
    BY <1>2 DEF TypeInv, PoolTypeInv, PoolTypeOK, HostTypeOK
  <2>2. /\ market.total_supplied \in Int /\ market.total_borrowed \in Int
        /\ token[PoolAddr] \in Nat
    BY <2>1, AddressesApart DEF MarketState
  <2> QED
    BY <1>1, <1>2, <1>6, <2>2 DEF Solvency
<1> QED
  BY <1>2, <1>3, <1>4, <1>5, <1>6 DEF TypeInv, PoolTypeInv

LEMMA EngineStepSafe ==
    ASSUME TypeInv, EngineStep
    PROVE  TypeInv' /\ (Solvency => Solvency')
<1>1. CASE /\ \E config \in EngineConfigs : EngineInitialize(config)
           /\ UNCHANGED <<rate_config, pool_vars, oracle_vars, vault_vars>>
  <2>1. OracleTypeOK' /\ VaultTypeOK' /\ EngineTypeOK' /\ UNCHANGED host_vars
    BY <1>1, EngineAssumption DEF TypeInv, EngineInitialize, OracleTypeOK,
       VaultTypeOK, EngineTypeOK, oracle_vars, vault_vars
  <2> QED
    BY <1>1, <2>1, PoolUntouched DEF TypeInv
<1>2. CASE \E liquidator, borrower \in Users, amount \in Amounts :
             Liquidate(liquidator, borrower, amount)
  BY <1>2, HostAssumption, LiquidateSafe
<1> QED
  BY <1>1, <1>2 DEF EngineStep

----------------------------------------------------------------------------
LEMMA NextSafe ==
    ASSUME TypeInv, [Next]_vars
    PROVE  TypeInv' /\ (Solvency => Solvency')
<1>1. CASE UNCHANGED vars
  <2>1. OracleTypeOK' /\ VaultTypeOK' /\ EngineTypeOK'
    BY <1>1 DEF vars, TypeInv, OracleTypeOK, VaultTypeOK, EngineTypeOK,
       oracle_vars, vault_vars
  <2> QED
    BY <1>1, <2>1, PoolUntouched DEF vars, TypeInv
<1> QED
  BY <1>1, HostStepSafe, RateStepSafe, PoolStepSafe, OracleStepSafe,
     VaultStepSafe, EngineStepSafe DEF Next

LEMMA InitSafe ==
    ASSUME Init
    PROVE  TypeInv /\ Solvency
<1>1. OracleTypeOK /\ VaultTypeOK /\ EngineTypeOK
  BY OracleAssumption DEF Init, OracleInit, VaultInit, EngineInit,
     OracleTypeOK, VaultTypeOK, EngineTypeOK
<1> QED
  BY <1>1, PoolInitStep DEF Init, TypeInv

\* The ledger the deployment script leaves behind.
LEMMA DeployedSafe ==
    ASSUME DeployedInit
    PROVE  TypeInv /\ Solvency
<1>1. HostTypeOK
  BY HostAssumption DEF DeployedInit, HostInit, HostTypeOK, Addresses
<1>2. now = 0 /\ token[PoolAddr] \in Nat
  BY <1>1, AddressesApart DEF DeployedInit, HostInit, HostTypeOK
<1>3. RateTypeOK /\ RateValid
  BY RateAssumption DEF DeployedInit, RateTypeOK, RateValid
<1>4. market \in MarketState
  BY <1>2, PoolAssumption DEF DeployedInit, MarketState
<1>5. PoolTypeOK
  BY <1>4 DEF DeployedInit, PoolTypeOK
<1>6. OracleTypeOK
  <2>1. price \in [price : {p \in Prices : p > 0}, timestamp : {now}]
    BY DEF DeployedInit
  <2>2. {p \in Prices : p > 0} \subseteq Nat \ {0} /\ now \in Nat
    <3>1. \A p \in Prices : p \in Int
      BY OracleAssumption
    <3>2. now \in Nat
      BY <1>2
    <3> QED
      BY <3>1, <3>2
  <2>3. price \in PriceRecord
    BY <2>1, <2>2 DEF PriceRecord
  <2> QED
    BY <2>3 DEF DeployedInit, OracleTypeOK
<1>7. vault_admin # NoAdmin /\ vault_config # NoVaultConfig
  BY HostAssumption, VaultAssumption DEF DeployedInit
<1>8. VaultTypeOK /\ EngineTypeOK
  BY <1>7, VaultAssumption, EngineAssumption
  DEF DeployedInit, VaultTypeOK, EngineTypeOK
<1>9. Solvency
  BY <1>2 DEF DeployedInit, Solvency
<1> QED
  BY <1>1, <1>3, <1>5, <1>6, <1>8, <1>9 DEF TypeInv, PoolTypeInv

\* Every state of the protocol is typed and its pool solvent, from contracts
\* nobody initialised and from the deployed ones alike.
THEOREM Invariant == Spec \/ DeployedSpec => [](TypeInv /\ Solvency)
<1>1. Init \/ DeployedInit => TypeInv /\ Solvency
  BY InitSafe, DeployedSafe
<1>2. TypeInv /\ Solvency /\ [Next]_vars => (TypeInv /\ Solvency)'
  BY NextSafe
<1> QED
  BY <1>1, <1>2, PTL DEF Spec, DeployedSpec

\* No call, liquidations included, leaves a negative balance of collateral,
\* shares or tokens behind.
THEOREM TypeCorrect == Spec \/ DeployedSpec => []TypeOK
<1>1. TypeInv => TypeOK
  BY DEF TypeInv, PoolTypeInv, TypeOK
<1> QED
  BY <1>1, Invariant, PTL

\* The pool stays solvent in the whole protocol: neither a borrow the vault
\* approved nor a liquidation, which moves tokens of two contracts, leaves it
\* with less than its books call available.
THEOREM Solvent == Spec \/ DeployedSpec => []Solvency
BY Invariant, PTL

----------------------------------------------------------------------------
(* The borrow index.                                                        *)

LEMMA NextIndex ==
    ASSUME TypeInv, InOrder, [Next]_vars
    PROVE  market'.borrow_index >= market.borrow_index
<1>1. PoolTypeInv
  BY DEF TypeInv
<1>2. CASE PoolCalls \/ UNCHANGED market
  BY <1>1, <1>2, IndexStep
<1>3. CASE \E user \in Users, amount \in Amounts :
             BorrowAgainstCollateral(user, amount)
  <2>1. \E user \in Users, amount \in Amounts : Borrow(user, amount)
    BY <1>3 DEF BorrowAgainstCollateral
  <2> QED
    BY <1>1, <2>1, IndexStep
<1>4. CASE \E liquidator, borrower \in Users, amount \in Amounts :
             Liquidate(liquidator, borrower, amount)
  <2>1. \E payer, borrower \in Users, asked \in Int :
           RepayRecords(payer, borrower, asked)
    BY <1>4, LiquidateMoves, HostAssumption
  <2> QED
    BY <1>1, <2>1, IndexStep
<1> QED
  BY <1>2, <1>3, <1>4
  DEF Next, vars, pool_vars, HostStep, RateStep, PoolStep, OracleStep, VaultStep,
      EngineStep

\* Interest does not run backward in the protocol either: no liquidation and no
\* call on another contract lowers the index of a market in order.
THEOREM ProtocolIndexNeverFalls == Spec \/ DeployedSpec => IndexNeverFalls
<1>1. TypeInv /\ [Next]_vars
        => [InOrder => market'.borrow_index >= market.borrow_index]_pool_only_vars
  BY NextIndex
<1> QED
  BY <1>1, Invariant, PTL DEF Spec, DeployedSpec, IndexNeverFalls

----------------------------------------------------------------------------
(* Nothing is lent before there is a vault and a price.                     *)

Unpriced == vault_config = NoVaultConfig \/ price = NoPrice

NothingOwed ==
    /\ market # NoMarket => market.total_borrowed = 0
    /\ \A u \in Users : position[u] # NoPosition =>
          position[u].principal_borrowed = 0

\* The total alone is not inductive: a repayment lowers it by what a position
\* owes, so no position owes anything either.
NothingLentUnpriced == Unpriced => NothingOwed

\* What was there once stays: no call takes a price or a configuration away.
LEMMA PricedStays ==
    ASSUME TypeInv, TypeInv', [Next]_vars, Unpriced'
    PROVE  Unpriced
<1>1. (vault_config = NoVaultConfig) = (vault_admin = NoAdmin)
        /\ (vault_config = NoVaultConfig)' = (vault_admin = NoAdmin)'
  BY DEF TypeInv, VaultTypeOK
<1>2. vault_admin' = NoAdmin => vault_admin = NoAdmin
  <2>1. CASE UNCHANGED vault_admin
    BY <2>1
  <2>2. CASE \E admin \in Admins, config \in VaultConfigs :
               VaultInitialize(admin, config)
    BY <2>2, HostAssumption DEF VaultInitialize
  <2> QED
    BY <2>1, <2>2
    DEF Next, vars, vault_vars, HostStep, RateStep, PoolStep, OracleStep,
        VaultStep, EngineStep, SetLiquidationThreshold, DepositCollateral,
        WithdrawCollateral, Liquidate, SeizeRecords
<1>3. price' = NoPrice => price = NoPrice
  <2>1. CASE UNCHANGED price
    BY <2>1
  <2>2. CASE \E p \in Prices : SetPrice(p)
    <3>1. PICK p \in Prices : SetPrice(p)
      BY <2>2
    <3>2. price' \in PriceRecord
      <4>1. p \in Nat \ {0}
        BY <3>1, OracleAssumption DEF SetPrice
      <4>2. now \in Nat
        BY HostAssumption DEF TypeInv, PoolTypeInv, HostTypeOK
      <4> QED
        BY <3>1, <4>1, <4>2 DEF SetPrice, PriceRecord
    <3> QED
      BY <3>2, OracleAssumption
  <2> QED
    BY <2>1, <2>2
    DEF Next, vars, oracle_vars, HostStep, RateStep, PoolStep, OracleStep,
        OracleInitialize, VaultStep, EngineStep, Liquidate
<1> QED
  BY <1>1, <1>2, <1>3 DEF Unpriced

LEMMA SupplyOwesNothing ==
    ASSUME TypeInv, NothingOwed, NEW user \in Users, NEW amount \in Int,
           Supply(user, amount)
    PROVE  NothingOwed'
<1> DEFINE m   == Accrued(market)
           p   == PositionOr(user, m.borrow_index)
           new == [p EXCEPT !.supplied_shares = @ + amount]
<1>1. /\ market # NoMarket
      /\ market' = [m EXCEPT !.total_supplied = @ + amount]
      /\ position' = [position EXCEPT ![user] = new]
  BY DEF Supply
<1>2. m \in MarketState /\ m.total_borrowed = 0
  BY AccruedType DEF Supply, NothingOwed, TypeInv
<1>3. p \in UserLendingPosition /\ p.principal_borrowed = 0
  <2>1. m.borrow_index \in Int
    BY <1>2 DEF MarketState
  <2> QED
    BY <2>1, PositionOrType DEF PositionOr, NothingOwed, TypeInv, PoolTypeInv
<1>4. new.principal_borrowed = 0
  BY <1>3 DEF UserLendingPosition
<1>5. market'.total_borrowed = 0
  BY <1>1, <1>2 DEF MarketState
<1>6. \A u \in Users : position'[u] = IF u = user THEN new ELSE position[u]
  BY <1>1 DEF TypeInv, PoolTypeInv, PoolTypeOK
<1> QED
  BY <1>4, <1>5, <1>6 DEF NothingOwed

LEMMA WithdrawOwesNothing ==
    ASSUME TypeInv, NothingOwed, NEW user \in Users, NEW amount \in Int,
           Withdraw(user, amount)
    PROVE  NothingOwed'
<1> DEFINE m   == Accrued(market)
           p   == position[user]
           new == [p EXCEPT !.supplied_shares = @ - amount]
<1>1. /\ p # NoPosition
      /\ market' = [m EXCEPT !.total_supplied = @ - amount]
      /\ position' = [position EXCEPT ![user].supplied_shares = @ - amount]
  BY DEF Withdraw, WithdrawOK, Redeemable
<1>2. m \in MarketState /\ m.total_borrowed = 0
  BY AccruedType DEF Withdraw, WithdrawOK, NothingOwed, TypeInv
<1>3. p \in UserLendingPosition /\ p.principal_borrowed = 0
  BY <1>1 DEF NothingOwed, TypeInv, PoolTypeInv, PoolTypeOK
<1>4. new.principal_borrowed = 0
  BY <1>3 DEF UserLendingPosition
<1>5. market'.total_borrowed = 0
  BY <1>1, <1>2 DEF MarketState
<1>6. \A u \in Users : position'[u] = IF u = user THEN new ELSE position[u]
  BY <1>1 DEF TypeInv, PoolTypeInv, PoolTypeOK
<1> QED
  BY <1>4, <1>5, <1>6 DEF NothingOwed

\* A repayment of nothing: no more is taken than is owed.
LEMMA RepayOwesNothing ==
    ASSUME TypeInv, NothingOwed, NEW payer \in Users, NEW borrower \in Users,
           NEW amount \in Int, RepayRecords(payer, borrower, amount)
    PROVE  NothingOwed'
<1> DEFINE m      == Accrued(market)
           p      == position[borrower]
           actual == RepayActual(p, m.borrow_index, amount)
           left   == UserDebt(p, m.borrow_index) - actual
           new    == [p EXCEPT !.principal_borrowed = left,
                               !.borrow_index = m.borrow_index]
<1>1. /\ amount > 0
      /\ p # NoPosition
      /\ market' = [m EXCEPT !.total_borrowed = @ - actual]
      /\ position' = [position EXCEPT ![borrower] = new]
  BY DEF RepayRecords, RepayOK
<1>2. m \in MarketState /\ m.total_borrowed = 0
  BY AccruedType DEF RepayRecords, RepayOK, NothingOwed, TypeInv
<1>3. p \in UserLendingPosition /\ p.principal_borrowed = 0
  BY <1>1 DEF NothingOwed, TypeInv, PoolTypeInv, PoolTypeOK
<1>4. actual = 0 /\ left = 0
  BY <1>1, <1>3 DEF RepayActual, UserDebt
<1>5. new.principal_borrowed = 0
  <2> HIDE DEF left
  <2> QED
    BY <1>3, <1>4 DEF UserLendingPosition
<1>6. market'.total_borrowed = 0
  <2> HIDE DEF actual
  <2> QED
    BY <1>1, <1>2, <1>4 DEF MarketState
<1>7. \A u \in Users : position'[u] = IF u = borrower THEN new ELSE position[u]
  BY <1>1 DEF TypeInv, PoolTypeInv, PoolTypeOK
<1> HIDE DEF new
<1> QED
  BY <1>5, <1>6, <1>7 DEF NothingOwed

\* The vault approves of nothing without a configuration or, since a debt that
\* starts from nothing is the amount itself, without a price.
LEMMA NoUnpricedBorrow ==
    ASSUME TypeInv, Unpriced, NothingOwed, NEW user \in Users,
           NEW amount \in Int
    PROVE  ~BorrowAgainstCollateral(user, amount)
<1> SUFFICES ASSUME Borrow(user, amount), BorrowApproved(user, amount)
             PROVE  FALSE
  BY DEF BorrowAgainstCollateral
<1> DEFINE index == AccruedIndex(market)
           debt  == DebtBefore(PositionOr(user, index), index)
<1>1. can_borrow(user, debt, amount) /\ amount > 0
  BY DEF BorrowApproved, Borrow, BorrowOK
<1>2. debt = 0
  BY DEF DebtBefore, PositionOr, NothingOwed
<1>3. debt + amount # 0
  BY <1>1, <1>2
<1>4. vault_config # NoVaultConfig /\ price # NoPrice
  BY <1>1, <1>3 DEF can_borrow, asset_value_usdOK, get_priceOK
<1> QED
  BY <1>4 DEF Unpriced

LEMMA NextOwesNothing ==
    ASSUME TypeInv, Unpriced, NothingOwed, [Next]_vars
    PROVE  NothingOwed'
<1>1. CASE UNCHANGED <<market, position>>
  BY <1>1 DEF NothingOwed
<1>2. CASE PoolStep
  <2>1. CASE InitMarket
    BY <2>1 DEF InitMarket, NothingOwed
  <2>2. CASE \E admin \in Admins : PoolInitialize(admin)
    BY <1>1, <2>2 DEF PoolInitialize
  <2>3. CASE \E user \in Users, amount \in Amounts :
               \/ Supply(user, amount)
               \/ Withdraw(user, amount)
    BY <2>3, HostAssumption, SupplyOwesNothing, WithdrawOwesNothing
  <2>4. CASE \E payer, borrower \in Users, amount \in Amounts :
               Repay(payer, borrower, amount)
    <3>1. PICK payer \in Users, borrower \in Users, amount \in Amounts :
             RepayRecords(payer, borrower, amount)
      BY <2>4 DEF Repay
    <3> QED
      BY <3>1, HostAssumption, RepayOwesNothing
  <2>5. ~\E user \in Users, amount \in Amounts :
            BorrowAgainstCollateral(user, amount)
    BY HostAssumption, NoUnpricedBorrow
  <2> QED
    BY <1>2, <2>1, <2>2, <2>3, <2>4, <2>5 DEF PoolStep, PoolCalls
<1>3. CASE \E liquidator, borrower \in Users, amount \in Amounts :
             Liquidate(liquidator, borrower, amount)
  <2>1. PICK liquidator \in Users, borrower \in Users, amount \in Amounts :
           Liquidate(liquidator, borrower, amount)
    BY <1>3
  <2>2. amount \in Int
    BY HostAssumption
  <2>3. /\ RepayAsked(borrower, amount) \in Int
        /\ RepayRecords(liquidator, borrower, RepayAsked(borrower, amount))
    BY <2>1, <2>2, LiquidateMoves
  <2> QED
    BY <2>3, RepayOwesNothing
<1> QED
  BY <1>1, <1>2, <1>3
  DEF Next, vars, pool_vars, HostStep, RateStep, OracleStep, VaultStep, EngineStep

\* Whatever the order the contracts are initialised in, and whatever the market
\* is opened with: nothing is lent before the vault and the price are there.
THEOREM LentWhenPriced == Spec \/ DeployedSpec => []LendsOnlyWhenPriced
<1>1. Init \/ DeployedInit => NothingLentUnpriced
  BY DEF Init, PoolInit, DeployedInit, NothingLentUnpriced, NothingOwed
<1>2. TypeInv /\ TypeInv' /\ NothingLentUnpriced /\ [Next]_vars
        => NothingLentUnpriced'
  BY PricedStays, NextOwesNothing DEF NothingLentUnpriced
<1>3. NothingLentUnpriced => LendsOnlyWhenPriced
  BY DEF NothingLentUnpriced, NothingOwed, Unpriced, LendsOnlyWhenPriced
<1> QED
  BY <1>1, <1>2, <1>3, Invariant, PTL DEF Spec, DeployedSpec

----------------------------------------------------------------------------
(* What is stored fits, liquidations included.                              *)

LEMMA NextFits ==
    ASSUME TypeInv, StoredFits, [Next]_vars
    PROVE  StoredFits'
<1>1. CASE PoolCalls \/ UNCHANGED pool_vars
  BY <1>1, PoolCallsFit DEF TypeInv
<1>2. CASE \E user \in Users, amount \in Amounts :
             BorrowAgainstCollateral(user, amount)
  <2>1. \E user \in Users, amount \in Amounts : Borrow(user, amount)
    BY <1>2 DEF BorrowAgainstCollateral
  <2> QED
    BY <2>1, PoolCallsFit DEF TypeInv
<1>3. CASE \E liquidator, borrower \in Users, amount \in Amounts :
             Liquidate(liquidator, borrower, amount)
  <2>1. PICK liquidator \in Users, borrower \in Users, amount \in Amounts :
           Liquidate(liquidator, borrower, amount)
    BY <1>3
  <2>2. amount \in Int
    BY HostAssumption
  <2>3. /\ RepayAsked(borrower, amount) \in Int
        /\ RepayRecords(liquidator, borrower, RepayAsked(borrower, amount))
    BY <2>1, <2>2, LiquidateMoves
  <2> QED
    BY <2>3, RepayRecordsFits DEF TypeInv
<1> QED
  BY <1>1, <1>2, <1>3
  DEF Next, vars, HostStep, RateStep, PoolStep, OracleStep, VaultStep, EngineStep

LEMMA AlwaysFits == Spec \/ DeployedSpec => []StoredFits
<1>1. Init \/ DeployedInit => StoredFits
  <2>1. Fits(0) /\ Fits(SCALE)
    BY HostAssumption, PoolAssumption DEF Fits
  <2> QED
    BY <2>1 DEF Init, PoolInit, DeployedInit, StoredFits, MarketFits, PositionsFit
<1> QED
  BY <1>1, NextFits, Invariant, PTL DEF Spec, DeployedSpec
=============================================================================
