\* Two workers that never fail.
CONSTANTS
  Names = {n1, n2}
  Calls = {c1}
  MaxPnum = 2
  Jobs = {j1}
  BuffSize = 2
  MaxOut = 2
  MaxRestarts = 0
  Faults = FALSE
  DbFaults = FALSE
SPECIFICATION FairSpec
PROPERTY ScheduledIsExecuted
CHECK_DEADLOCK FALSE
