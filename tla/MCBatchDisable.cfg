CONSTANTS
  c1 = c1  c2 = c2  k1 = k1  f1 = f1  l1 = l1  s1 = s1  s2 = s2  p1 = p1
  Candidate = {c1, c2}
  Rule = {k1}
  FieldOf <- MCFieldOf
  RuleOf <- MCRuleOf
  Link = {l1, l2}
  Batch = {}
  Structure = {s1, s2}
  Fits <- MCFits
  StatusIn <- MCStatusIn
  Profile = {p1}
  Backup <- MCBackup
  Nothing = Nothing
  Other = Other
  MaxWrites = 4
SPECIFICATION MCBatchSpec
CHECK_DEADLOCK FALSE
PROPERTIES DisabledIsKept
