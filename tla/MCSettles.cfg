\* Every page comes to rest.
CONSTANTS
  s1 = s1  s2 = s2  d1 = d1  d2 = d2  f1 = f1  All = All  ta = ta  tb = tb  v = v  v1 = v1
  Blank = Blank  q1 = q1  m1 = m1  n1 = n1
  None = None
  Domain = Domain
  \* The parts of Shell: calls that are answered, one feed of two versions, and no tab of a browser.
  Absent = None
  SettingsSource = {s1, s2}  SettingsMaxEdits = 2  SettingsMaxCalls = 2
  SettingsLegacy = FALSE  SettingsReliable = TRUE
  ConnectProfile = {p1, p2}  ConnectDetails = {d1, d2}
  ConnectMaxForms = 1  ConnectMaxOps = 2  ConnectMaxLists = 0
  UpgradeFeed = {f1}  UpgradeMaxVersion = 1  UpgradeMaxRuns = 2  UpgradeMaxChanges = 0
  ViewerTab = {}  ViewerSource = {}  ViewerField = {"f"}  ViewerValue = {0}  ViewerDefault = 0
  ViewerFirst <- NothingStored  ViewerShared = {}  ViewerOperation = {}  ViewerRefused = {}  ViewerEmpty = {}
  ViewerLayout = {}  ViewerBroken = Broken  ViewerMaxActs = 0
SPECIFICATION FairSpec
CHECK_DEADLOCK FALSE
PROPERTIES PagesSettle
