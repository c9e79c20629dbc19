\* The worker of Worker_safety, against the example's account of Retries.
CONSTANTS
  Jobs = {1, 2, 3}
  BuffSize = 2
  Capacity = 1
  Threads = 1
  MaxRetries = 3
  DbFaults = TRUE
  Tracked = 2
SPECIFICATION Spec
INVARIANT RetriesComeOnTop
CHECK_DEADLOCK FALSE
