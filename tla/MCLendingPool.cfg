SPECIFICATION PoolSpec
CONSTANTS
  u1 = u1
  u2 = u2
  Users = {u1, u2}
  PoolAddr = pool
  VaultAddr = vault
  Endowment <- MCEndowment
  Amounts <- MCAmounts
  Gifts = {1}
  I128Max = 600
  MaxTime = 2
  BPS_SCALE = 10
  RateConfigs <- MCRates
  NoConfig = NoConfig
  SCALE = 16
  SECONDS_PER_YEAR = 1
  CreditLimit = 2
  Admins = {u1}
  NoAdmin = NoAdmin
  NoMarket = NoMarket
  NoPosition = NoPosition
INVARIANTS PoolTypeOK Solvency SharesAddUp LoansBackedByDebts
PROPERTIES DebtFallsOnlyByPayment IndexNeverFalls
CHECK_DEADLOCK FALSE
