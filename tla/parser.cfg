SPECIFICATION FairSpec
CONSTANTS
  NoDate = NoDate
  Messages <- AllMessages
  Days <- AwkwardDays
  Dates <- AwkwardDates
  MaxAttempts = 3
  MaxMidnights = 2
CHECK_DEADLOCK FALSE
INVARIANTS ReadingTypeOK EachAskHasItsRetries LatestOfItsName TodayIsKept VoiceFailsSoftly
PROPERTIES ReadingEnds KeepsReadingContract
