\* One user of each sort; the second request leaves no connection to spare.
CONSTANTS
  Requests = {r1, r2}
  RapidUsers = {u}
  LocalUsers = {v}
  MaxConns = 2
  Jobs = {b}
SPECIFICATION FairSpec
INVARIANTS
  TypeOK
  ConnectionsAccounted
  ErrorsExplained
  ServedAsDue
PROPERTIES
  EveryRequestIsAnswered
  HealthConverges
