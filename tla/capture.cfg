SPECIFICATION FairSpec
CONSTANTS
  ann = ann
  bob = bob
  eve = eve
  proxy = proxy
  k1 = k1
  k2 = k2
  acc = acc
  nobody = nobody
  None = nobody
  Users <- People
  Invited <- Ours
  Proxies <- Hidden
  Accounts <- Only
  Keys <- TwoKeys
  Messages <- MCMessages
  MaxMessages = 1
  MaxDeliveries = 2
  MaxRestarts = 1
  Faults <- AllFaults
CHECK_DEADLOCK FALSE
INVARIANTS CaptureTypeOK SenderIsKnown DraftsArePaid SilentForCause KeptOutLeavesNoTrace
PROPERTIES EveryMessageIsHandled
