\* Three jobs on two partitions; a select takes at most two of them.
CONSTANTS
  Jobs = {j1, j2, j3}
  MaxPart = 2
  BuffSize = 2
  MaxOut = 2
SPECIFICATION Spec
SYMMETRY Symmetry
INVARIANTS
  TypeOK
  ExecutedIffFinished
  SingleDelivery
  StrandedFewerThanActive
PROPERTIES
  FinishedNeverReopened
  ImplementsJobTable
CHECK_DEADLOCK FALSE
