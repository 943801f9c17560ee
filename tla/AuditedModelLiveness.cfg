SPECIFICATION FairSpec
CONSTANTS
  w1 = w1
  w2 = w2
  o1 = o1
  o2 = o2
  active = active
  inactive = inactive
  Absent = Absent
  Worker = {w1, w2}
  Obj = {o1, o2}
  Value = {inactive}
  Matching = {inactive}
  Registered = TRUE
  OuterModes = {TRUE}
  Kinds = {"save", "bulk"}
  MaxOps = 3
PROPERTY OpsEnd
CHECK_DEADLOCK FALSE
