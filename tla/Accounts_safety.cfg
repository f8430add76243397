SPECIFICATION Spec
CONSTANTS
  User = {u1, u2}
  Email = {e1, e2}
  Code = {c1}
  Proc = {p1, p2}
  AdminEmail = e1
  AnyEmail = AnyEmail
  NoUser = NoUser
  NoEmail = NoEmail
  NoCode = NoCode
  MaxFaults = 1
SYMMETRY Symmetry
INVARIANTS TypeOK VerifiedWasApproved OneAccountPerInvite EmptiedOnlyByARace
