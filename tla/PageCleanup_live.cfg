SPECIFICATION FairSpec
CONSTANTS
  Chapter = {c1}
  Key = {k1, k2}
  Bundle = {k2}
  Idx = {0, 1}
  ForeignKeys = TRUE
  Proc = {p1, p2}
  Msg = {m1, m2}
  Worker = {w1, w2}
  NoMsg = NoMsg
  NoWorker = NoWorker
  NoChapter = NoChapter
  BatchSize = 1
  MaxRequests = 2
  MaxFaults = 1
PROPERTIES ScheduledIsDeleted
