-------------------------- MODULE CollateralVault --------------------------
(***************************************************************************)
(* contracts/collateral-vault: the users' collateral, valued at the        *)
(* oracle's price, and the health of a position, which relates it to the   *)
(* principal stored in the pool.  As in InterestRateModel, fOK says that   *)
(* no error or panic lies on the path of f.                                *)
(***************************************************************************)
EXTENDS LendingPool, OracleManager

CONSTANTS PRICE_SCALE,     \* 1e9 in the code
          VaultConfigs,    \* configurations initialize may be called with
          Thresholds,      \* values of new_bps
          NoVaultConfig

VARIABLES vault_admin,     \* DataKey::Admin
          vault_config,    \* DataKey::Config
          collateral       \* DataKey::CollateralBalance of each user

vault_vars == <<vault_admin, vault_config, collateral>>

CollateralConfig == [max_ltv_bps : Nat, liquidation_threshold_bps : Nat,
                     is_enabled : BOOLEAN]

ASSUME VaultAssumption ==
    /\ PRICE_SCALE \in Nat \ {0}
    /\ VaultConfigs \subseteq CollateralConfig
    /\ Thresholds \subseteq Nat
    /\ NoVaultConfig \notin CollateralConfig

VaultTypeOK ==
    /\ vault_admin \in Admins \cup {NoAdmin}
    /\ vault_config \in CollateralConfig \cup {NoVaultConfig}
    /\ (vault_admin = NoAdmin) = (vault_config = NoVaultConfig)
    /\ collateral \in [Users -> Nat]

----------------------------------------------------------------------------
asset_value_usdOK(amount) ==
    amount # 0 => get_priceOK /\ Fits(amount * get_price)

asset_value_usd(amount) ==
    IF amount = 0 THEN 0 ELSE Quot(amount * get_price, PRICE_SCALE)

\* The principal the pool has stored: interest since the position was last
\* written is not part of it.
current_debt(user) ==
    IF position[user] = NoPosition THEN 0
    ELSE position[user].principal_borrowed

\* Mutant of AdjustedCollateral: the division comes first.
AdjustedDividedFirst(units) ==
    Quot(asset_value_usd(units), BPS_SCALE) * vault_config.liquidation_threshold_bps

AdjustedCollateral(units) ==
    Quot(asset_value_usd(units) * vault_config.liquidation_threshold_bps,
         BPS_SCALE)

HealthFactor(units, debt) ==
    Quot(AdjustedCollateral(units) * BPS_SCALE, asset_value_usd(debt))

HealthFactorOK(units, debt) ==
    /\ asset_value_usdOK(units)
    /\ asset_value_usdOK(debt)
    /\ Fits(asset_value_usd(units) * vault_config.liquidation_threshold_bps)
    /\ Fits(AdjustedCollateral(units) * BPS_SCALE)
    /\ asset_value_usd(debt) # 0

get_health_factorOK(user) ==
    /\ vault_config # NoVaultConfig
    /\ current_debt(user) # 0
         => HealthFactorOK(collateral[user], current_debt(user))

get_health_factor(user) ==
    IF current_debt(user) = 0 THEN I128Max
    ELSE HealthFactor(collateral[user], current_debt(user))

\* check_safety_internal, at the balance a withdrawal would leave.
check_safety(user, units) ==
    current_debt(user) # 0 =>
        /\ HealthFactorOK(units, current_debt(user))
        /\ HealthFactor(units, current_debt(user)) >= BPS_SCALE

\* Mutants of can_borrow: the debt so far is left out; a vault without a
\* configuration approves.
can_borrow_new_only(user, debt, amount) ==
    /\ vault_config # NoVaultConfig
    /\ asset_value_usdOK(collateral[user])
    /\ asset_value_usdOK(amount)
    /\ asset_value_usd(amount)
         <= Quot(asset_value_usd(collateral[user]) * vault_config.max_ltv_bps,
                 BPS_SCALE)
can_borrow_unless_configured(user, debt, amount) ==
    vault_config # NoVaultConfig => can_borrow_new_only(user, debt, amount)

\* The value of the debt a borrow leads to is within the LTV of the collateral.
can_borrow(user, debt, amount) ==
    /\ vault_config # NoVaultConfig
    /\ asset_value_usdOK(collateral[user])
    /\ Fits(asset_value_usd(collateral[user]) * vault_config.max_ltv_bps)
    /\ Fits(debt + amount)
    /\ asset_value_usdOK(debt + amount)
    /\ asset_value_usd(debt + amount)
         <= Quot(asset_value_usd(collateral[user]) * vault_config.max_ltv_bps,
                 BPS_SCALE)

----------------------------------------------------------------------------
VaultInit ==
    /\ vault_admin = NoAdmin
    /\ vault_config = NoVaultConfig
    /\ collateral = [u \in Users |-> 0]

VaultInitialize(admin, config) ==
    /\ vault_admin = NoAdmin
    /\ vault_admin' = admin
    /\ vault_config' = config
    /\ UNCHANGED <<host_vars, collateral>>

SetLiquidationThreshold(admin, new_bps) ==
    /\ vault_admin # NoAdmin
    /\ admin = vault_admin
    /\ vault_config' = [vault_config EXCEPT
                          !.liquidation_threshold_bps = new_bps]
    /\ UNCHANGED <<host_vars, vault_admin, collateral>>

DepositCollateral(user, amount) ==
    /\ amount > 0
    /\ vault_config # NoVaultConfig
    /\ vault_config.is_enabled
    /\ CanTransfer(user, VaultAddr, amount)
    /\ token' = Transferred(token, user, VaultAddr, amount)
    /\ Fits(collateral[user] + amount)
    /\ collateral' = [collateral EXCEPT ![user] = @ + amount]
    /\ UNCHANGED <<now, vault_admin, vault_config>>

WithdrawCollateralOK(user, amount) ==
    /\ amount > 0
    /\ vault_config # NoVaultConfig
    /\ amount <= collateral[user]
    /\ check_safety(user, collateral[user] - amount)
    /\ CanTransfer(VaultAddr, user, amount)

WithdrawCollateral(user, amount) ==
    /\ WithdrawCollateralOK(user, amount)
    /\ collateral' = [collateral EXCEPT ![user] = @ - amount]
    /\ token' = Transferred(token, VaultAddr, user, amount)
    /\ UNCHANGED <<now, vault_admin, vault_config>>

\* Mutant of SeizeOK: the balance is not compared with the amount.
SeizeUnchecked(borrower, amount) == amount > 0 /\ vault_config # NoVaultConfig

SeizeOK(borrower, amount) ==
    /\ amount > 0
    /\ vault_config # NoVaultConfig
    /\ amount <= collateral[borrower]

\* Mutant of SeizeRecords: the new balance is not stored.
SeizeNotStored(borrower, amount) == SeizeOK(borrower, amount) /\ UNCHANGED vault_vars

\* What seize_collateral stores when the liquidation engine calls it; the
\* transfer is part of the liquidation.
SeizeRecords(borrower, amount) ==
    /\ SeizeOK(borrower, amount)
    /\ collateral' = [collateral EXCEPT ![borrower] = @ - amount]
    /\ UNCHANGED <<vault_admin, vault_config>>

\* The pool's borrow with the vault's answer: the debt passed to can_borrow is
\* the accrued one.
BorrowApproved(user, amount) ==
    LET index == AccruedIndex(market)
    IN  can_borrow(user, DebtBefore(PositionOr(user, index), index), amount)

BorrowAgainstCollateral(user, amount) ==
    /\ Borrow(user, amount)
    /\ BorrowApproved(user, amount)
============================================================================
