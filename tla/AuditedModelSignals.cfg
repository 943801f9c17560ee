SPECIFICATION Spec
CONSTANTS
  w1 = w1
  w2 = w2
  o1 = o1
  o2 = o2
  active = active
  inactive = inactive
  Absent = Absent
  Worker = {w1, w2}
  Obj = {o1}
  Value = {active, inactive}
  Matching = {inactive}
  Registered = TRUE
  OuterModes = {TRUE, FALSE}
  Kinds = {"create", "save", "delete"}
  MaxOps = 3
SYMMETRY Symmetry
INVARIANTS TypeOK CentralFollowsDedicated ChangesLogged NoInventedEntries LogTellsHistory
CHECK_DEADLOCK FALSE
