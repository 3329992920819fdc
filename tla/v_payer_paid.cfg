SPECIFICATION Spec
CONSTANTS
  lea = lea
  ann = ann
  bob = bob
  cy = cy
  none = none
  nobody = nobody
  Users <- MCUsers
  Friends <- MCFriends
  Spoken <- MCSpoken
  Norm <- MCNorm
  Longer <- MCLonger
  Blank = ""
  Self = "self"
  NoName = none
  NoOne = nobody
  Scale = 50
  NoId = 0
  Cases <- MCCases
  Accounts <- MCAccounts
  FriendId <- MCFriendId
  FriendsOf <- MCFriendsOf
CHECK_DEADLOCK FALSE
INVARIANTS PayerPaidItAll
