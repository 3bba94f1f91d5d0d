\* A resolve that answers after the service left.
SPECIFICATION Spec
CONSTANTS
  t1 = t1  t2 = t2
  i1 = i1  i2 = i2  i3 = i3
  Types = {t1, t2}
  Instances = {i1, i2, i3}
  TypeOf <- MCTypeOf
  Pump = pump
  Resolvers = {r1, r2}
  AllTypes = AllTypes
  None = None
  PoolSize = 1
  MaxChurn = 2
  MaxFaults = 0
INVARIANTS
  NoGhost
