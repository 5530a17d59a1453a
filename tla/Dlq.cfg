SPECIFICATION FairSpec
CONSTANTS
  Msg = {m1, m2}
  Configs <- TwoConfigs
  FailCount = 1
  MostRetries = 3
  RowCap = 1
  Slots = 2
  MaxFaults = 2
INVARIANTS DlqPromises RowsTellTruth
PROPERTIES EveryMessageSettles
CHECK_DEADLOCK FALSE
