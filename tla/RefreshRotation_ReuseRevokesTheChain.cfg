SPECIFICATION Spec
CONSTANTS
  Token = {t1, t2, t3, t4}
  Session = {s1}
  Proc = {p1, p2}
  NoToken = NoToken
  NoSession = NoSession
  Grace = 1
  TTL = 2
  MaxTime = 3
  MaxFaults = 1
SYMMETRY Symmetry
INVARIANT ReuseRevokesTheChain
