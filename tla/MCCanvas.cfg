\* The diagram page: the canvas, its graph, its relationships and their suggestions.
CONSTANTS
  \* Two tables, one saved view, one of the tables in focus.
  Table = {ta, tb}  View = {v}  Focus = {ta}  All = All  None = None
  HistoryLimit = 1  MaxEdits = 2  MaxMoves = 1  SavesFail = TRUE
  s1 = s1  s2 = s2  f = f  g = g
  c1 = c1  c2 = c2  users = users  shop = shop  orders = orders  Missing = None
  \* Two sources with two fields, and two candidates of one mapping group.
  RelateSource = {s1, s2}  RelateField = {f, g}  RelateMaxRels = 2  RelateMaxForms = 1
  RelateMaxMoves = 1  RelateMaxEdits = 1  RelateMaxCalls = 1
  SuggestCandidate = {c1, c2}  SuggestTwins = {c1, c2}  SuggestMaxBatches = 2
  SuggestMaxSteps = 4  SuggestMaxOthers = 1
  \* Two models, two tables and two relations; two exports at once.
  FilesTable = {users, shop}  FilesRel = {f, g}  FilesModel = {s1, s2}  FilesEnds <- EndsOf
  FilesStateable = {{f, g}, {g}}  FilesHas <- TablesOf  FilesFound = {shop}  FilesFocus = users
  FilesDenseAt = 2  FilesEdgeBatch = 1  FilesTableBatch = 1
  FilesViewerTables = 1  FilesViewerRels = 1  FilesMaxJobs = 2  FilesMaxMoves = 2
SPECIFICATION MCSpec
CHECK_DEADLOCK FALSE
INVARIANTS CanvasTypeOK EditsAreSaved GraphIsWhole DeliveredIsWhole
PROPERTIES ArrangementStays EditsAreReviewed
