SPECIFICATION Spec
CONSTANTS
  i1 = i1
  i2 = i2
  s1 = s1
  s2 = s2
  None = None
  Absent = Absent
  Ingresses = {i1, i2}
  Secrets = {s1, s2}
  Specs <- SecretSpecs
  Stores <- SharedStores
  Limit <- CalmLimit
  Total = 2
INVARIANTS
  SecretIsFollowed
CHECK_DEADLOCK FALSE
