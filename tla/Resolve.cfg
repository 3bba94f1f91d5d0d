\* Two concurrent calls on each platform, a pool of one thread.
\* The system stops once every call has ended and every request is over.
SPECIFICATION FairSpec
CONSTANTS
  c1 = c1  c2 = c2
  Calls = {c1, c2}
  None = None
  PoolSize = 1
  MaxChurn = 2
  MaxFaults = 1
INVARIANTS
  ReclaimedOnce
PROPERTIES
  ProbeRefinement
  CallsEnd
  WorkEnds
CHECK_DEADLOCK FALSE
