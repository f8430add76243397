SPECIFICATION BrowseSpec
CONSTANTS
  manga = manga
  video = video
  manhwa = manhwa
  q1 = q1
  Junk = Junk
  Id = {e1, e2, e3}
  Content <- Entries
  NoSubType = NoSubType
  Writer = {p1, p2}
  Search <- Searches
  Blank = Blank
  Absent = Absent
  Requests <- SomeRequests
  Given <- SomeRows
  NoTime = NoTime
  NoMedia = NoMedia
  NoWrite = NoWrite
  CatalogPageSize = 2
  MaxCatalogPageSize = 3
  MaxClock = 3
  MaxWrites = 2
  MaxWalks = 2
  MaxBefore = 0
SYMMETRY Symmetry
INVARIANTS BrowseTypeOK WalkIsExact NothingOlderIsMissed
CHECK_DEADLOCK FALSE
