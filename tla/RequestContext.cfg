SPECIFICATION Spec
CONSTANTS
  th1 = th1
  th2 = th2
  j1 = j1
  j2 = j2
  alice = alice
  red = red
  None = None
  NoJob = NoJob
  Anonymous = Anonymous
  System = System
  DefaultTenant = DefaultTenant
  Thread = {th1, th2}
  Job = {j1, j2}
  Name = {alice}
  Tenant = {red}
SYMMETRY Symmetry
INVARIANTS TypeOK NothingLeaks RequestsAreNamed
CHECK_DEADLOCK FALSE
