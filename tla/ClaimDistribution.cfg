SPECIFICATION DeployedSpec
CONSTANTS
  u1 = u1
  u2 = u2
  Users = {u1, u2}
  PoolAddr = pool
  VaultAddr = vault
  Admins = {u1}
  NoAdmin = NoAdmin
  Endowment <- MCEndowment
  Amounts = {1, 2, 3}
  Gifts = {}
  I128Max = 2000000000
  MaxTime = 2
  BPS_SCALE = 10000
  RateConfigs <- MCSteepRates
  NoConfig = NoConfig
  SCALE = 10
  SECONDS_PER_YEAR = 1
  CreditLimit = 0
  NoMarket = NoMarket
  NoPosition = NoPosition
  Prices = {1}
  Stalenesses = {2}
  NoPrice = NoPrice
  PRICE_SCALE = 1
  VaultConfigs <- MCVaultConfigs
  Thresholds = {}
  NoVaultConfig = NoVaultConfig
  EngineConfigs <- MCEngineConfigs
  NoEngineConfig = NoEngineConfig
INVARIANT InterestIsDistributed
CHECK_DEADLOCK FALSE
