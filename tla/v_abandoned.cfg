SPECIFICATION Spec
CONSTANTS
  d1 = d1
  hana = hana
  raj = raj
  zoe = zoe
  m1 = m1
  m2 = m2
  Drafts <- OneDraft
  Users <- People
  Copies <- OneCopy
  Payer <- MCPayer
  Sender <- MCSender
  Fit <- AllFit
  Taps <- Duel
  MaxDeliveries = 1
  MaxAttempts = 1
  MaxCrashes = 0
  Faults <- NoFaults
CHECK_DEADLOCK FALSE
INVARIANTS GenuinelyAbandoned
