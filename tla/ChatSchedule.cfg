SPECIFICATION FairSpec
CONSTANTS
  Items = {r1, s1}
  Reminders = {r1}
  Cancels = {c1, c2}
  MaxFaults = 2
INVARIANTS DeliveredOnce RemovedInTime
PROPERTIES PendingEnds
CHECK_DEADLOCK FALSE
