SPECIFICATION DeployedSpec
CONSTANTS
  u1 = u1
  u2 = u2
  Users = {u1, u2}
  PoolAddr = pool
  VaultAddr = vault
  Admins = {u1}
  NoAdmin = NoAdmin
  Endowment <- MCEndowment
  Amounts = {1, 2}
  Gifts = {}
  I128Max = 2000000000
  MaxTime = 1
  BPS_SCALE = 100
  RateConfigs <- MCRates
  NoConfig = NoConfig
  SCALE = 2
  SECONDS_PER_YEAR = 1
  CreditLimit = 0
  NoMarket = NoMarket
  NoPosition = NoPosition
  Prices = {1, 2}
  Stalenesses = {0}
  NoPrice = NoPrice
  PRICE_SCALE = 2
  VaultConfigs <- MCVaultConfigs
  Thresholds = {40}
  NoVaultConfig = NoVaultConfig
  EngineConfigs <- MCEngineConfigs
  NoEngineConfig = NoEngineConfig
INVARIANTS TypeOK VaultCustody PriceCancelsOut LiquidationAvailable RepayAvailable
PROPERTIES CollateralLeavesSafelyOrPaidFor LiquidationHeals FreshLoanIsHealthy ImplementsClaimsLedger
CHECK_DEADLOCK FALSE
