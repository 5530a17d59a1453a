CONSTANTS
  Req = {r1, r2}
  q1 = q1
  q2 = q2
  o1 = o1
  Order = {o1}
  Qr = {q1, q2}
  OrderOf <- MCOrderOf
  Nonce = {n1}
  None = None
  MaxFaults = 1
SYMMETRY Symm
SPECIFICATION Spec
PROPERTIES LedgerSpec 
CHECK_DEADLOCK FALSE
