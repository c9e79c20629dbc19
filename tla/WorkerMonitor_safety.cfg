\* Waits in the order of the code's; two jobs that may run at the same time, of
\* which a select takes one.
CONSTANTS
  Jobs = {j1, j2}
  BuffSize = 1
  DefaultWait = 3
  MinLead = 1
  MaxLead = 4
  MaxTime = 6
SPECIFICATION Spec
SYMMETRY Symmetry
INVARIANTS
  TypeOK
  LatenessBounded
  OnTimeWhenHeard
CHECK_DEADLOCK FALSE
