\* No fault at all: a worker joins while the server starts.
CONSTANTS
  Names = {n1}
  Calls = {c1}
  MaxPnum = 2
  Jobs = {j1}
  BuffSize = 2
  MaxOut = 2
  MaxRestarts = 0
  Faults = FALSE
  DbFaults = FALSE
SPECIFICATION Spec
PROPERTY OnlyOrphansArePutBack
CHECK_DEADLOCK FALSE
