SPECIFICATION Spec
CONSTANTS
  Chapter = {c1, c2}
  Key = {k1, k2}
  Bundle = {k2}
  Idx = {0}
  ForeignKeys = FALSE
  Proc = {p1, p2}
  Msg = {m1, m2}
  Worker = {w1, w2}
  NoMsg = NoMsg
  NoWorker = NoWorker
  NoChapter = NoChapter
  BatchSize = 2
  MaxRequests = 3
  MaxFaults = 1
SYMMETRY Symmetry
INVARIANTS TypeOK LivePagesKeepObjects NothingLeaks
PROPERTIES AckedMeansDeleted
