SPECIFICATION Spec
CONSTANTS
  ann = ann
  bob = bob
  k1 = k1
  k2 = k2
  l1 = l1
  l2 = l2
  acc1 = acc1
  acc2 = acc2
  None = None
  Users <- TwoUsers
  Accounts <- TwoAccounts
  Keys <- TwoKeys
  Links <- TwoLinks
  Codes <- TwoCodes
  MaxVisits = 2
  MaxRestarts = 1
  Faults <- AllFaults
SYMMETRY Alike
CHECK_DEADLOCK FALSE
INVARIANTS ConnectTypeOK TokenIsOfItsAccount SuccessIsReal FriendsAreOwn
PROPERTIES StaysConnected
