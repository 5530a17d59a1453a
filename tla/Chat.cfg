SPECIFICATION AllSpec
CONSTANTS
  Users = {u1, u2}
  Requests = {r1, r2}
  MaxMessages = 1
  MaxFaults = 1
  Option = {o1, o2}
  None = None
  MaxStored = 3
  MaxCalls = 3
  MaxConversations = 3
SYMMETRY Symm
INVARIANTS CountsUnseen MembersListed AdminsAppointed PollsAndPinsHold NewestIsPreviewed OnePrivateChat
PROPERTIES RemovedIsLeftAlone
CHECK_DEADLOCK FALSE
