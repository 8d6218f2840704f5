CONSTANTS
  Source = {"s"}
  Table = {"t", "u"}
  Group = {"g", "h"}
  View = {}
  None = None
  Made <- EmptyDomain
  MaxActs = 3
  MaxCalls = 2
SPECIFICATION MCSpec
CHECK_DEADLOCK FALSE
PROPERTIES MembersArePreserved
