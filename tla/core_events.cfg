SPECIFICATION Spec
CONSTANTS
  i1 = i1
  i2 = i2
  A = A
  B = B
  web = web
  api = api
  s1 = s1
  s2 = s2
  r1 = r1
  r2 = r2
  n1 = n1
  n2 = n2
  p1 = p1
  p2 = p2
  vngcloud = vngcloud
  nginx = nginx
  None = None
  Ingresses = {i1, i2}
  LBs = {A}
  Services = {web, api}
  Slots = {s1, s2}
  Rules = {r1, r2}
  Specs <- EventSpecs
  IngressClass = vngcloud
  Nodes = {n1}
  Ports = {p1}
  Limit <- EventLimit
INVARIANTS
  AppliedExactly
  AppliedIsCurrent
  EventsChain
  KeepsServing
  DropsUnusedPools
PROPERTIES
  DeliverySpec
CHECK_DEADLOCK FALSE
