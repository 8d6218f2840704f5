\* A conversation whose draft of one relationship note cannot be bound.
CONSTANTS
  None = None  Blank = Blank 
  Model = {m1}
  Note = {n1, n2}
  Broken = {n2}
  MaxRequests = 2
  MaxPrepared = 2
  MaxRetries = 0
  MaxChanges = 2
  MaxTurns = 2
  MaxActs = 2
SPECIFICATION Spec
CHECK_DEADLOCK FALSE
INVARIANT NeverReplayed
