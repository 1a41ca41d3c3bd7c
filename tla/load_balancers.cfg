SPECIFICATION FairSpec
CONSTANTS
  i1 = i1
  i2 = i2
  g = g
  None = None
  Absent = Absent
  Ingresses = {i1, i2}
  Given = {g}
  Specs <- Annotations
  Stores <- OwnAndGiven
  Limit <- BalancerLimit
  Total = 3
INVARIANTS
  TypeOK
  OneBalancerPerName
  ServedWhereAsked
  NothingElsewhere
PROPERTIES
  Settles
CHECK_DEADLOCK FALSE
