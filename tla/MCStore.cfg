CONSTANTS
  t1 = t1  t2 = t2  d1 = d1  d2 = d2  o1 = o1  o2 = o2  r1 = r1  m1 = m1
  x1 = x1  x2 = x2
  Table = {t1, t2}
  Definition = {d1, d2}
  Absent = Absent
  Catalog <- MCCatalog
  Object = {o1, o2}
  Owner <- MCOwner
  Exposing <- MCExposing
  Relation = {r1}
  Ends <- MCEnds
  Meaning = {m1}
  RelationshipStatus = {"Active"}
  Text = {x1}
  NoText = NoText
  Identity = {NoProfile, Unbound, i1}
  NoProfile = NoProfile
  Unbound = Unbound
  i1 = i1
  FileBased = FALSE
  Bundle <- MCBundle
  Id = {n1, n2, n3}
  None = None
  MaxDrafts = 1
  MaxClock = 4
  c1 = c1  c2 = c2  k1 = k1  f1 = f1  l1 = l1  s1 = s1  s2 = s2  p1 = p1
  Candidate = {c1, c2}
  Rule = {k1}
  FieldOf <- MCFieldOf
  RuleOf <- MCRuleOf
  Link = {l1, l2, l3}
  Batch = {b1}
  Structure = {s1, s2}
  Fits <- MCFits
  StatusIn <- MCStatusIn
  Profile = {p1}
  Backup <- MCBackup
  Nothing = Nothing
  Other = Other
  MaxWrites = 3
SPECIFICATION PartsSpec
SYMMETRY Alike
CHECK_DEADLOCK FALSE
INVARIANTS TypeOK DowngradesAreDurable EvidenceRetained BatchTypeOK
PROPERTIES AcceptedIsInForce NoRevival UnrelatedStayConfirmed UndoKeepsLaterWork LinkedOnce
