SPECIFICATION FairIndexerSpec
CONSTANTS
  Lookback = 1
  PageLimit = 2
  MaxLedger = 4
  MaxEvents = 2
  MaxFaults = 2
INVARIANTS IndexerTypeOK CursorPassesNoEvent HandledOnceInOrder
PROPERTIES EventuallyHandled
CHECK_DEADLOCK FALSE
