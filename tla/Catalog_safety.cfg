SPECIFICATION Spec
CONSTANTS
  n1 = n1
  n2 = n2
  g1 = g1
  g2 = g2
  Kinds <- OneKind
  Slugged = {"genre"}
  Slug <- Slugs
  Name = {n1, n2}
  TagId = {i1, i2}
  Entry = {e1, e2}
  Source = {s1}
  Sub = {u1}
  Type = {t1, t2}
  Proc = {p1, p2}
  NoName = NoName
  NoTag = NoTag
  NoEntry = NoEntry
  NoSource = NoSource
  NoSub = NoSub
  NoType = NoType
  NoRow = NoRow
  ForeignKeys = FALSE
  MaxRequests = 3
  MaxFaults = 1
SYMMETRY Symmetry
INVARIANTS TypeOK NamesAsAsked OrphanOnlyByRace SubTypesKnown
CHECK_DEADLOCK FALSE
