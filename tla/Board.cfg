SPECIFICATION Spec
CONSTANTS
  t1 = t1
  s1 = s1
  u1 = u1
  Req = {r1, r2}
  MaxCalls = 3
  Task = {t1, t2}
  Sprint = {s1}
  User = {u1}
  None = None
  Null = Null
  Keep = Keep
  Boards <- MCBoards
  MaxFaults = 1
  Posts <- MCPosts
  Puts <- MCPuts
SYMMETRY Symmetric
INVARIANTS ProjectListsRecover KeysDistinct AwardsMatchCompletions
PROPERTIES StaleListsAreDeleted
CHECK_DEADLOCK FALSE
