SPECIFICATION FairSpec
CONSTANTS
  Token = {t1, t2, t3}
  Session = {s1}
  Proc = {p1, p2}
  NoToken = NoToken
  NoSession = NoSession
  Grace = 0
  TTL = 1
  MaxTime = 2
  MaxFaults = 1
PROPERTIES EveryRequestAnswered HandedGetsARow
