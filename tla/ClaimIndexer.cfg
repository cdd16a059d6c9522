SPECIFICATION IndexerSpec
CONSTANTS
  Lookback = 4
  PageLimit = 2
  MaxLedger = 4
  MaxEvents = 2
  MaxFaults = 0
INVARIANTS EmittedEventsAreRecorded
CHECK_DEADLOCK FALSE
