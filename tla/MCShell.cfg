\* The shell of the application: workspace, settings, connections and updates.
CONSTANTS
  s1 = s1  s2 = s2  p1 = p1  p2 = p2  d1 = d1  d2 = d2  f1 = f1  f2 = f2
  Broken = Broken
  Source = {s1, s2}
  View = {v1}
  None = None
  Domain = Domain
  MaxCaptures = 2
  MaxSessions = 2
  MaxWrites = 1
  MaxReads = 3
  MaxFetches = 1
  Reload = TRUE
  Patch = FALSE
  \* The parts of Shell: two calls of the settings under way at once; two profiles; one feed of three
  \* versions; two tabs of a browser.
  Absent = None
  SettingsSource = {s1, s2}  SettingsMaxEdits = 2  SettingsMaxCalls = 2
  SettingsLegacy = FALSE  SettingsReliable = FALSE
  ConnectProfile = {p1, p2}  ConnectDetails = {d1, d2}
  ConnectMaxForms = 1  ConnectMaxOps = 3  ConnectMaxLists = 1
  UpgradeFeed = {f1}  UpgradeMaxVersion = 2  UpgradeMaxRuns = 4  UpgradeMaxChanges = 0
  ViewerTab = {"t1", "t2"}  ViewerSource = {}  ViewerField = {"old", "new"}  ViewerValue = {0, 1}
  ViewerDefault = 0  ViewerFirst <- StoredFirst  ViewerShared <- SharedModels
  ViewerOperation = {"execute", "list", "export"}  ViewerRefused = {"execute"}  ViewerEmpty = {"list"}
  ViewerLayout = {"l"}  ViewerBroken = Broken  ViewerMaxActs = 4
SPECIFICATION MCSpec
CHECK_DEADLOCK FALSE
INVARIANTS ShellTypeOK ShownBelongs AnswersConverge
PROPERTIES DraftKept SavedIsVerified UpdateIsSafe GateHolds
