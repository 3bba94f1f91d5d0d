\* A service announced over both IP protocols.
SPECIFICATION Spec
CONSTANTS
  t1 = t1  t2 = t2
  i1 = i1  i2 = i2  i3 = i3
  s1 = s1  s2 = s2  s3 = s3
  Types = {t1, t2}
  Instances = {i1, i2, i3}
  Identities = {s1, s2}
  TypeOf <- MCTypeOf
  Identity <- DualStackIdentity
  Root = root
  Children = {c1, c2}
  Resolvers = {r1, r2, r3}
  AllTypes = AllTypes
  None = None
  MaxChurn = 3
  MaxFaults = 0
INVARIANTS
  NoLostService
