SPECIFICATION Spec
CONSTANTS
  Media = {e1}
  Url = {u1, u2, u3}
  Image = {u1, u2}
  Proc = {p1, p2}
  Msg = {m1, m2}
  Worker = {w1, w2}
  NoMsg = NoMsg
  NoWorker = NoWorker
  NoCover = NoCover
  Key = Key
  Signed = Signed
  NoRow = NoRow
  NoJob = NoJob
  NoMedia = NoMedia
  BatchSize = 2
  MaxRequests = 3
  MaxFaults = 1
SYMMETRY Symmetry
INVARIANTS TypeOK CoverHasObject ShowsWanted DeletedLeavesNothing
