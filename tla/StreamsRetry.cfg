SPECIFICATION FairSpec
CONSTANTS
  Loop = {l1, l2}
  None = None
  BatchSize = 2
  MaxEntries = 2
  MaxFaults = 1
PROPERTY FailedIsRetried
CHECK_DEADLOCK FALSE
