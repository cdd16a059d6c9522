SPECIFICATION WebSpec
CONSTANTS
  c1 = c1
  c2 = c2
  Calls = {c1}
  Method <- MCMethod
  Loads = {l1, l2}
  Accounts = {a1, a2}
  NoAccount = NoAccount
  NoCall = NoCall
  NoPosition = NoPosition
  AdminAddresses = {NoAccount, a1}
  ChangeLimit = 3
  MaxSequence = 1
INVARIANTS
  ShownIsOfTheConnected
  NothingShownWithoutAccount
CHECK_DEADLOCK FALSE
