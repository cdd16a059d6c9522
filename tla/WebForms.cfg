SPECIFICATION Spec
CONSTANTS
  u1 = u1
  Users = {u1}
  PoolAddr = pool
  VaultAddr = vault
  Admins = {u1}
  NoAdmin = NoAdmin
  Endowment <- MCEndowment
  Amounts = {1, 3, 5}
  Gifts = {}
  I128Max = 2000000000
  MaxTime = 1
  BPS_SCALE = 100
  RateConfigs <- MCRates
  NoConfig = NoConfig
  SCALE = 20
  SECONDS_PER_YEAR = 1
  CreditLimit = 0
  NoMarket = NoMarket
  NoPosition = NoPosition
  Prices = {3, 7}
  Stalenesses = {0}
  NoPrice = NoPrice
  PRICE_SCALE = 4
  VaultConfigs <- MCVaultConfigs
  Thresholds = {40}
  NoVaultConfig = NoVaultConfig
  EngineConfigs <- MCEngineConfigs
  NoEngineConfig = NoEngineConfig
  BPS_DIVISOR = 100
  TokenUnit = 2
  MarketConfig <- MCMarketConfig
  CentUnits = 1
  ExponentUnits = 2
INVARIANTS ShownRatesAreTheContracts ShownHealthAgrees BorrowFormAgreesWithPool FormsRefuseOnlyTheImpossible MaxIsWithinReach LookupFillsIn SeizureEstimateAgrees LendsOnlyWhenPriced
CHECK_DEADLOCK FALSE
