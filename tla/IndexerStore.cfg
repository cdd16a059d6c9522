SPECIFICATION StoreSpec
CONSTANTS
  Accounts = {a1, a2}
  KnownUsers = {a1}
  Handlers = {h1, h2}
  Deltas = {5}
  Totals = {0, 3}
  SeedTotal = 8
  DefaultTotal = 9
  Events = {e1, e2, e3}
  Limits = {1, 2, 3}
  MemoryLimit = 2
  Outages = TRUE
  MaxCalls = 3
  MaxCrashes = 1
  BPS_DIVISOR = 100
  TokenUnit = 2
  CollateralPrice = 7
  BorrowPrice = 3
  MaxLtvBps = 75
  ThresholdBps = 80
  NoRow = NoRow
INVARIANTS StoreTypeOK PositionIsSumOfItsEvents MarketServedIsLastSaved ServedOfferIsHealthy FeedSourcesAgree
CHECK_DEADLOCK FALSE
