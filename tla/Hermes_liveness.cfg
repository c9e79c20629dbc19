\* One worker, which may crash or be evicted, and a server that may restart.  It
\* registers once: when its jobs are put back there is no active worker.
CONSTANTS
  Names = {n1}
  Calls = {c1}
  MaxPnum = 2
  Jobs = {j1, j2}
  BuffSize = 2
  MaxOut = 2
  MaxRestarts = 1
  Faults = TRUE
  DbFaults = FALSE
SPECIFICATION FairSpec
PROPERTIES
  ScheduledIsExecutedOrWorkerEnds
  AbandonedIsPutBack
CHECK_DEADLOCK FALSE
