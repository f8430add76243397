SPECIFICATION Spec
CONSTANTS
  Req = {r1, r2}
  User = {u1, u2}
  Scope = {s1}
  Code = {c1}
  Proc = {p1, p2}
  NoReq = NoReq
  NoUser = NoUser
  MaxRequests = 5
  MaxFaults = 1
SYMMETRY Symmetry
INVARIANTS TypeOK SubjectProved ScopesAgreed PasskeyShown GrantedOnce
CHECK_DEADLOCK FALSE
