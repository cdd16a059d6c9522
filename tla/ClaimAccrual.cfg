SPECIFICATION DeployedSpec
CONSTANTS
  u1 = u1
  u2 = u2
  Users = {u1, u2}
  PoolAddr = pool
  VaultAddr = vault
  Admins = {u1}
  NoAdmin = NoAdmin
  Endowment <- MCDeepEndowment
  Amounts = {1, 2, 10}
  Gifts = {}
  I128Max = 2000000000
  MaxTime = 2
  BPS_SCALE = 10000
  RateConfigs <- MCScriptRates
  NoConfig = NoConfig
  SCALE = 100000
  SECONDS_PER_YEAR = 3154
  CreditLimit = 0
  NoMarket = NoMarket
  NoPosition = NoPosition
  Prices = {1}
  Stalenesses = {2}
  NoPrice = NoPrice
  PRICE_SCALE = 1
  VaultConfigs <- MCVaultConfigs
  Thresholds = {}
  NoVaultConfig = NoVaultConfig
  EngineConfigs <- MCEngineConfigs
  NoEngineConfig = NoEngineConfig
PROPERTY InterestAccrues
CHECK_DEADLOCK FALSE
