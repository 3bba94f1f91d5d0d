\* A service that reappears is not reported again.
SPECIFICATION Spec
CONSTANTS
  t1 = t1  t2 = t2
  i1 = i1  i2 = i2  i3 = i3
  Local = local  remote = remote
  Types = {t1, t2}
  Instances = {i1, i2, i3}
  Domains = {local}
  TypeOf <- MCTypeOf
  DomainOf <- AllLocal
  Root = root
  Children = {c1, c2}
  Resolves = {r1, r2, r3}
  Guard = guard
  AllTypes = AllTypes
  None = None
  MaxChurn = 3
  MaxFaults = 0
INVARIANTS
  AppearancesReported
