\* Two workers and two jobs, with crashes, evictions and failed updates.
CONSTANTS
  Names = {n1, n2}
  Calls = {c1}
  MaxPnum = 2
  Jobs = {j1, j2}
  BuffSize = 2
  MaxOut = 2
  MaxRestarts = 1
  Faults = TRUE
  DbFaults = TRUE
SPECIFICATION Spec
SYMMETRY Symmetry
INVARIANTS
  TypeOK
  NoOrphanAtRest
  StrandedFewerThanWorkers
  SharedOnlyAfterRequeue
CHECK_DEADLOCK FALSE
