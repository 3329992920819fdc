SPECIFICATION Spec
CONSTANTS
  d1 = d1
  hana = hana
  raj = raj
  zoe = zoe
  m1 = m1
  m2 = m2
  Drafts <- OneDraft
  Users <- People
  Copies <- OneCopy
  Payer <- MCPayer
  Sender <- MCSender
  Fit <- AnyFit
  Taps <- Trio
  MaxDeliveries = 1
  MaxAttempts = 2
  MaxCrashes = 1
  Faults <- AllFaults
CHECK_DEADLOCK FALSE
INVARIANTS TypeOK AddedIsReal
PROPERTIES Contract RowLeavesForCause LastButtonsForCause
