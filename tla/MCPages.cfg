\* The pages beside the diagram: queries, assistants, SQL files, preflight and change review.
CONSTANTS
  None = None  Malformed = Malformed  Blank = Blank
  s1 = s1  s2 = s2  q1 = q1  m1 = m1  m2 = m2  n1 = n1  n2 = n2
  \* The assistant of one table: its settings change once, a request may be tried again.
  Model = {m1, m2}  Note = {n1}  Question = {q1}
  MaxRequests = 2  MaxPrepared = 1  MaxRetries = 1  MaxChanges = 1  MaxActs = 1
  \* The parts of Pages.
  Nothing = None
  QuerySource = {s1, s2}  QuerySql = {q1}  QueryMaxRuns = 2  QueryMaxMoves = 1  QueryMaxEdits = 1
  StorageFails = TRUE
  ConverseModel = {m1}  ConverseNote = {n1, n2}  ConverseBroken = {}  ConverseMaxRequests = 2
  ConverseMaxPrepared = 1  ConverseMaxRetries = 0  ConverseMaxChanges = 1  ConverseMaxTurns = 2
  ConverseMaxActs = 2
  DeskPage = {"impact", "structure", "more", "events"}  DeskHome <- Homes  DeskBatched = {"structure", "more"}
  DeskOpenItems <- Listed  DeskArchived <- Restored  DeskMaxRevision = 3  DeskMaxSteps = 4  DeskMaxCalls = 2
  DomainSource = {"s1", "s2"}  DomainTable = {"t", "u", "w"}  DomainGroup = {"g", "h"}
  DomainView = {"v"}  DomainMade <- FirstDomain  DomainMaxActs = 3  DomainMaxCalls = 2
  PlaceSource = {"s1", "s2"}  PlaceSnapshot = {"a1", "a2", "b1"}  PlaceTable = {"t", "u"}
  PlaceHome <- SourceOf  PlaceTables <- TablesThen  PlaceMaxActs = 4
  BesideSnapshot = {"a", "b"}  BesideTable = {"t", "u"}  BesideTables <- TablesBeside
  BesidePolicy = {1, 2}  BesideRemote = {2}  BesideQuestion = {"q", "r"}
  BesideMaxActs = 5  BesideMaxRequests = 2
  TreeSnapshot = {"a1", "a2", "b1"}  TreeObject = {"t", "v", "e"}  TreeBranch = {"x"}
  TreeFilter = {"f", "g"}  TreeHome <- SourceOf  TreeObjects <- ObjectsThen  TreeKind <- KindOf
  TreeHits <- Found  TreeDefaults <- Unfolded  TreeMaxActs = 5
SPECIFICATION MCSpec
CHECK_DEADLOCK FALSE
INVARIANTS PagesTypeOK NoneForgotten
PROPERTIES AnswersInOrder DraftSurvives AnswerArrives AnswerIsCurrent StructureIsTold DeskIsCurrent DomainsAreCurrent PlacesAreCurrent
