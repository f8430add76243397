SPECIFICATION Spec
CONSTANTS
  Conn = {c1, c2}
  Client = {k1, k2}
  Flow = {f1, f2}
  Pair = {t1, t2, t3}
  Proc = {p1, p2}
  NoConn = NoConn
  NoFlow = NoFlow
  NoPair = NoPair
  NoRow = NoRow
  MaxRequests = 3
  MaxFaults = 1
SYMMETRY Symmetry
INVARIANTS TypeOK OwnTokens RenewableUnlessLost
CHECK_DEADLOCK FALSE
