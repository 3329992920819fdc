SPECIFICATION HistorySpec
CONSTANTS
  d1 = d1
  hana = hana
  raj = raj
  zoe = zoe
  m1 = m1
  m2 = m2
  Drafts <- OneDraft
  Users <- People
  Copies <- TwoCopies
  Payer <- MCPayer
  Sender <- MCSender
  Fit <- AllFit
  Taps <- Across
  MaxDeliveries = 2
  MaxAttempts = 1
  MaxCrashes = 1
  Faults <- Repeats
CHECK_DEADLOCK FALSE
INVARIANTS DuplicatesHaveCause CancelledPostsHaveCause AddedIsSettled
