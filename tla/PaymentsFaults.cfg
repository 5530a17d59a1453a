CONSTANTS
  Req = {r1, r2}
  q1 = q1
  q2 = q2
  o1 = o1
  Order = {o1}
  Qr = {q1}
  OrderOf <- MCOrderOf
  Nonce = {n1, n2}
  None = None
  MaxFaults = 1
SPECIFICATION FairSpec
INVARIANT LateVerificationRejected
PROPERTIES ScheduledQrResolves PaidReachesPayer
CHECK_DEADLOCK FALSE
