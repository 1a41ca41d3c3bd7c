SPECIFICATION OneSpec
CONSTANTS
  i1 = i1
  i2 = i2
  web8 = web8
  web80 = web80
  n1 = n1
  n2 = n2
  None = None
  Absent = Absent
  Ingresses = {i1, i2}
  Backends = {web8, web80}
  Specs = {web8, web80}
  Prefixes <- NamePrefixes
  Nodes = {n1, n2}
  NodeSets <- Replaced
  Stores <- SharedStores
  Limit <- PoolLimit
INVARIANTS
  TypeOK
  OneMemberPerAddress
  DefaultsServed
  NoStrays
PROPERTIES
  PassesEnd
CHECK_DEADLOCK FALSE
