\* Two worker names that may register, leave and return, two registrations in
\* a server's life, two concurrent scheduling calls, abandoned requests.
CONSTANTS
  Names = {n1, n2}
  NoName = NoName
  Calls = {c1, c2}
  MaxPnum = 2
  Cancels = TRUE
SPECIFICATION FairSpec
INVARIANTS
  TypeOK
  UniquePartitions
  EntryGuarded
  NoLostRebalance
  PickStaysRegistered
PROPERTIES
  PartitionStable
  ImplementsMembership
  UnregisteredIsRebalanced
  SilentIsEvicted
  RegisteredIsRebalancedOrLeaked
CHECK_DEADLOCK FALSE
