SPECIFICATION Spec
CONSTANTS
  Token = {t1, t2, t3, t4}
  Session = {s1, s2}
  Proc = {p1, p2}
  NoToken = NoToken
  NoSession = NoSession
  Grace = 0
  TTL = 1
  MaxTime = 2
  MaxFaults = 1
SYMMETRY Symmetry
INVARIANTS TypeOK OneTip SameAnswer QuietLogoutIsFinal
PROPERTIES LiveTokenNotRefused ImplementsLedger
