\* One worker and one call; a client that gives up while it waits for the lock.
CONSTANTS
  Names = {n1}
  NoName = NoName
  Calls = {c1}
  MaxPnum = 2
  Cancels = TRUE
SPECIFICATION FairSpec
PROPERTY RegisteredIsRebalanced
CHECK_DEADLOCK FALSE
