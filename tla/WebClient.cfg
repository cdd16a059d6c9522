SPECIFICATION WebSpec
CONSTANTS
  c1 = c1
  c2 = c2
  Calls = {c1, c2}
  Method <- MCMethod
  Loads = {l1, l2}
  Accounts = {a1}
  NoAccount = NoAccount
  NoCall = NoCall
  NoPosition = NoPosition
  AdminAddresses = {NoAccount}
  ChangeLimit = 4
  MaxSequence = 2
INVARIANTS
  WebTypeOK
  NoBlindDoubleApply
  StatusIsTrue
  ShownIncludesSuccess
  OneCallAtATime
PROPERTY NeverLeftLoading
CHECK_DEADLOCK FALSE
