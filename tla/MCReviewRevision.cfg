CONSTANTS
  t1 = t1  t2 = t2  d1 = d1  d2 = d2  o1 = o1  r1 = r1  g1 = g1  m1 = m1  x1 = x1
  i1 = i1  i2 = i2
  Table = {t1, t2}
  Definition = {d1, d2}
  Absent = Absent
  Catalog <- MCOneCatalog
  Object = {o1}
  Owner <- MCOwner
  Exposing <- MCExposing
  Relation = {r1}
  Ends <- MCEnds
  Joins <- MCJoins
  Scope <- MCScope
  Group = {}
  Meaning = {m1}
  RelationshipStatus = {"SupersededByPhysical", "Disabled"}
  Text = {x1}
  NoText = NoText
  Identity = {NoProfile, i1}
  NoProfile = NoProfile
  Unbound = i1
  FileBased = FALSE
  Bundle = {}
  Id = {1}
  None = None
  MaxDrafts = 0
  MaxClock = 5
  KeepsStale = FALSE
  MaxEvents = 5
SPECIFICATION MCSpec
CHECK_DEADLOCK FALSE
PROPERTIES RevisionFixesProjection
