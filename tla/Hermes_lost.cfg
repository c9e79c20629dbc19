\* Workers crash; no other fault.
CONSTANTS
  Names = {n1, n2}
  Calls = {c1}
  MaxPnum = 2
  Jobs = {j1, j2}
  BuffSize = 2
  MaxOut = 2
  MaxRestarts = 0
  Faults = TRUE
  DbFaults = FALSE
SPECIFICATION Spec
INVARIANT PendingIsHeld
CHECK_DEADLOCK FALSE
