\* Two types, fair threads and consumer, a pool of one thread.
SPECIFICATION FairSpec
CONSTANTS
  t1 = t1  t2 = t2
  i1 = i1  i2 = i2  i3 = i3
  Types = {t1, t2}
  Instances = {i1, i3}
  TypeOf <- MCTypeOf
  Pump = pump
  Resolvers = {r1, r2, r3}
  AllTypes = AllTypes
  None = None
  PoolSize = 1
  MaxChurn = 3
  MaxFaults = 1
INVARIANTS
  TypeOK
  CallbacksSafe
  OneBrowsePerType
  NoTypeForgotten
  ErrorBeforeEnd
PROPERTIES
  StreamRefinement
  PresentEndsFound
  DropReleasesAll
  StreamEnds
