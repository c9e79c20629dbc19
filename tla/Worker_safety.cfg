\* One slot and one place in the channel: pushers wait for the channel, and the
\* executor for the slot.
CONSTANTS
  Jobs = {1, 2, 3}
  BuffSize = 2
  Capacity = 1
  Threads = 1
  MaxRetries = 3
  DbFaults = TRUE
  Tracked = 2
SPECIFICATION FairSpec
INVARIANTS
  TypeOK
  HeldInOnePlace
  BatchOrder
  DrainedBeforeReturn
  RecordedTogether
  CallsWithinBudget
  SuccessIffAnswered
  UnrecordedByFaultOnly
PROPERTY SelectedIsDelivered
CHECK_DEADLOCK FALSE
