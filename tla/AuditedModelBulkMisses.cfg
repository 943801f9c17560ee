SPECIFICATION Spec
CONSTANTS
  w1 = w1
  w2 = w2
  o1 = o1
  o2 = o2
  active = active
  inactive = inactive
  Absent = Absent
  Worker = {w1, w2}
  Obj = {o1, o2}
  Value = {active, inactive}
  Matching = {inactive}
  Registered = FALSE
  OuterModes = {FALSE}
  Kinds = {"save", "bulk"}
  MaxOps = 2
SYMMETRY Symmetry
INVARIANTS DeletedInstancesLogged
CHECK_DEADLOCK FALSE
