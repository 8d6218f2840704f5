CONSTANTS
  t1 = t1  t2 = t2  d1 = d1  d2 = d2  o1 = o1  r1 = r1  g1 = g1  m1 = m1  x1 = x1
  i1 = i1  i2 = i2
  Table = {t1, t2}
  Definition = {d1, d2}
  Absent = Absent
  Catalog <- MCCatalog
  Object = {}
  Owner <- MCNone
  Exposing <- MCNone
  Relation = {}
  Ends <- MCNone
  Joins <- MCNone
  Scope <- MCScope
  Group = {}
  Meaning = {m1}
  RelationshipStatus = {"Disabled"}
  Text = {x1}
  NoText = NoText
  Identity = {NoProfile, i1, i2}
  NoProfile = NoProfile
  Unbound = NoProfile
  FileBased = FALSE
  Bundle = {}
  Id = {}
  None = None
  MaxDrafts = 0
  MaxClock = 4
  KeepsStale = FALSE
  MaxEvents = 4
SPECIFICATION MCSpec
CHECK_DEADLOCK FALSE
PROPERTIES BaselineOfItsConnection
