SPECIFICATION AllSpec
CONSTANTS
  Req = {r1, r2}
  User = {u1, u2}
  Creator = u1
  None = None
  MaxCalls = 4
  MaxRows = 3
  MaxFaults = 1
  Sprint = {s1, s2}
  Now = 1
  Last = 1
  Project = {p1, p2}
  Key = {"K"}
  Worker = {w1, w2}
  Interval = 2
  MaxJobs = 1
  MaxAdditions = 2
  PoolCalls = 2
  Account = {a1, a2}
  Email = {e1, e2}
  Admin = e1
  Password = {p, q}
  AccountCalls = 3
  Document = {x1, x2, x3}
  Name = {n1, n2}
  NameCalls = 4
SYMMETRY Symmetric
INVARIANTS PeopleRules SprintRules ProjectRules PoolsExact
PROPERTIES AllowedSteps
CHECK_DEADLOCK FALSE
