------------------------- MODULE LiquidationEngine -------------------------
(***************************************************************************)
(* contracts/liquidation-engine.  liquidate is one transaction over three  *)
(* contracts: it reads the vault's health factor and the pool's position,  *)
(* repays in the pool with the liquidator's tokens and seizes in the       *)
(* vault; if any of these fails, none of them happened.                    *)
(***************************************************************************)
EXTENDS CollateralVault

CONSTANTS EngineConfigs,   \* configurations initialize may be called with
          NoEngineConfig

VARIABLE engine_config     \* DataKey::Config; the admin is never read

LiquidationConfig == [liquidation_bonus_bps : Nat, close_factor_bps : Nat,
                      is_enabled : BOOLEAN]

ASSUME EngineAssumption ==
    /\ EngineConfigs \subseteq LiquidationConfig
    /\ NoEngineConfig \notin LiquidationConfig

EngineTypeOK == engine_config \in LiquidationConfig \cup {NoEngineConfig}

EngineInit == engine_config = NoEngineConfig

EngineInitialize(config) ==
    /\ engine_config = NoEngineConfig
    /\ engine_config' = config
    /\ UNCHANGED host_vars

----------------------------------------------------------------------------
is_liquidatable(borrower) ==
    /\ get_health_factorOK(borrower)
    /\ get_health_factor(borrower) < BPS_SCALE

\* Mutants of RepayAsked: the close factor is not applied; it is applied to
\* what the division leaves.
RepayAskedInFull(borrower, repay_amount) == repay_amount
RepayAskedDividedFirst(borrower, repay_amount) ==
    LET max_repayable ==
          Quot(current_debt(borrower), BPS_SCALE) * engine_config.close_factor_bps
    IN  IF repay_amount > max_repayable THEN max_repayable ELSE repay_amount

\* The amount the engine asks the pool to repay: within the close factor.
RepayAsked(borrower, repay_amount) ==
    LET max_repayable ==
          Quot(current_debt(borrower) * engine_config.close_factor_bps,
               BPS_SCALE)
    IN  IF repay_amount > max_repayable THEN max_repayable ELSE repay_amount

\* Mutant of CollateralSeized: the bonus is applied twice.
CollateralSeizedTwice(asked) ==
    Quot(asked * (BPS_SCALE + 2 * engine_config.liquidation_bonus_bps), BPS_SCALE)

\* The repaid amount and the bonus, in units of the one asset.
CollateralSeized(asked) ==
    Quot(asked * (BPS_SCALE + engine_config.liquidation_bonus_bps), BPS_SCALE)

LiquidateOK(liquidator, borrower, repay_amount) ==
    /\ repay_amount > 0
    /\ engine_config # NoEngineConfig
    /\ engine_config.is_enabled
    /\ is_liquidatable(borrower)
    /\ Fits(current_debt(borrower) * engine_config.close_factor_bps)
    /\ LET asked  == RepayAsked(borrower, repay_amount)
           seized == CollateralSeized(asked)
       IN  /\ RepayOK(liquidator, borrower, asked)
           /\ Fits(asked * (BPS_SCALE + engine_config.liquidation_bonus_bps))
           /\ SeizeOK(borrower, seized)
           /\ seized <= token[VaultAddr]
           /\ Fits(token[liquidator] - Repaid(borrower, asked) + seized)

Liquidate(liquidator, borrower, repay_amount) ==
    /\ LiquidateOK(liquidator, borrower, repay_amount)
    /\ LET asked  == RepayAsked(borrower, repay_amount)
           paid   == Repaid(borrower, asked)
           seized == CollateralSeized(asked)
       IN  /\ RepayRecords(liquidator, borrower, asked)
           /\ SeizeRecords(borrower, seized)
           /\ token' = Transferred(Transferred(token, liquidator, PoolAddr, paid),
                                   VaultAddr, liquidator, seized)
    /\ UNCHANGED <<engine_config, oracle_vars>>
============================================================================
