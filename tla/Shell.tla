-------------------------------- MODULE Shell --------------------------------
(***************************************************************************)
(* The parts of the application's shell beside the workspace page: its     *)
(* settings, its connections and updates, and the viewer of a shared model *)
(* in a browser.  Each has variables of its own, and what it promises is   *)
(* named here for any sources, feeds, tabs and limits.  The module gives   *)
(* the parts their names; it adds no steps.                                *)
(***************************************************************************)
EXTENDS Naturals

CONSTANTS Absent,  \* what the parts call None
  SettingsSource, SettingsMaxEdits, SettingsMaxCalls, SettingsLegacy, SettingsReliable,
  ConnectProfile, ConnectDetails, ConnectMaxForms, ConnectMaxOps, ConnectMaxLists,
  UpgradeFeed, UpgradeMaxVersion, UpgradeMaxRuns, UpgradeMaxChanges,
  ViewerTab, ViewerSource, ViewerField, ViewerValue, ViewerDefault, ViewerFirst, ViewerShared,
  ViewerOperation, ViewerRefused, ViewerEmpty, ViewerLayout, ViewerBroken, ViewerMaxActs

VARIABLES
  sStore, sLegacy, sPage, sDue, sDraft, sCalls, sSpent,
  cStore, cPage, cPanel, cOp, cListing, cChooser, cSpent,
  uCall, uInstalling, uUnsaved, uSession, uOperation, uRefusing, uChosen, uOffline,
  uPublished, uData, uBackup, uDisk, uKept, uExited, uPage, uPoll, uStartup, uRuns, uChanges,
  zCurrent, zLegacy, zLayouts, zServer, zTabs, zActs

-----------------------------------------------------------------------------
Settings == INSTANCE AppSettings WITH
  Source <- SettingsSource, None <- Absent, MaxEdits <- SettingsMaxEdits,
  MaxCalls <- SettingsMaxCalls, Legacy <- SettingsLegacy, Reliable <- SettingsReliable,
  store <- sStore, legacy <- sLegacy, page <- sPage, due <- sDue, draft <- sDraft,
  calls <- sCalls, spent <- sSpent

Connect == INSTANCE Connections WITH
  Profile <- ConnectProfile, Details <- ConnectDetails, None <- Absent,
  MaxForms <- ConnectMaxForms, MaxOps <- ConnectMaxOps, MaxLists <- ConnectMaxLists,
  store <- cStore, page <- cPage, panel <- cPanel, op <- cOp, listing <- cListing,
  chooser <- cChooser, spent <- cSpent

Upgrade == INSTANCE Updates WITH
  Feed <- UpgradeFeed, None <- Absent, MaxVersion <- UpgradeMaxVersion,
  MaxRuns <- UpgradeMaxRuns, MaxChanges <- UpgradeMaxChanges,
  call <- uCall, installing <- uInstalling, unsaved <- uUnsaved, session <- uSession,
  operation <- uOperation, refusing <- uRefusing, chosen <- uChosen, offline <- uOffline,
  published <- uPublished, data <- uData, backup <- uBackup, disk <- uDisk, kept <- uKept,
  exited <- uExited, page <- uPage, poll <- uPoll, startup <- uStartup, runs <- uRuns,
  changes <- uChanges

Viewer == INSTANCE WebViewer WITH
  Tab <- ViewerTab, Source <- ViewerSource, Field <- ViewerField, Value <- ViewerValue,
  Default <- ViewerDefault, First <- ViewerFirst, Shared <- ViewerShared,
  Operation <- ViewerOperation, Refused <- ViewerRefused, Empty <- ViewerEmpty,
  Layout <- ViewerLayout, None <- Absent, Broken <- ViewerBroken, MaxActs <- ViewerMaxActs,
  current <- zCurrent, legacy <- zLegacy, layouts <- zLayouts, server <- zServer,
  tabs <- zTabs, acts <- zActs

-----------------------------------------------------------------------------
(* What the parts are given: there is a feed to look at, settings have     *)
(* their defaults among their values, and Absent is none of the things    *)
(* that may be there instead.                                              *)

SettingsSuitable ==
  /\ SettingsMaxEdits \in Nat /\ SettingsMaxCalls \in Nat
  /\ SettingsLegacy \in BOOLEAN /\ SettingsReliable \in BOOLEAN
  /\ Absent \notin SettingsSource \cup Settings!OfSource
  /\ Absent \notin [app : Settings!App, source : Settings!OfSource \cup {Absent}]
ConnectSuitable == Absent \notin ConnectProfile \cup ConnectDetails

UpgradeFeeds == UpgradeFeed \cup {Absent}
UpgradeHolder == [by : Upgrade!Command \ {"save"}, feed : UpgradeFeeds]
UpgradeSuitable ==
  /\ UpgradeFeed # {} /\ UpgradeMaxVersion \in Nat
  /\ Absent \notin Nat \cup Upgrade!Command \cup UpgradeHolder \cup Upgrade!Answer

\* What the storage gives for a field it has is one of the values.
ViewerReadable(text) ==
  text \notin {Absent, ViewerBroken} => \A f \in ViewerField : f \in DOMAIN text => text[f] \in ViewerValue
ViewerSuitable ==
  /\ ViewerDefault \in ViewerValue
  /\ Absent \notin Viewer!Place \cup Viewer!Full \cup ViewerShared /\ ViewerBroken \notin Viewer!Full
  /\ \A s \in ViewerFirst : ViewerReadable(s.current) /\ ViewerReadable(s.legacy)

ASSUME ShellIsSuited == SettingsSuitable /\ ConnectSuitable /\ UpgradeSuitable /\ ViewerSuitable

-----------------------------------------------------------------------------
(* What the parts promise                                                  *)

\* AppSettings: a draft of the AI settings is replaced only by a change of what it was made from.
\* WebViewer: the settings of the version before are lost neither by a storage that refuses nor by a
\* tab that is closed, and what a tab shows is one shared model.
DraftKept == Settings!DraftKept /\ Viewer!SettingsAreKept /\ [](\A t \in ViewerTab : Viewer!ShowsShared(t))

\* Connections: what is saved was tested, the page shows something saved, and a test does not take
\* back what it has shown as passed.
SavedIsVerified == [](Connect!SavedIsVerified /\ Connect!PageIsSaved) /\ Connect!PassedIsKept

\* Updates: what replaces the application is what the user agreed to; backup and application survive
\* every failure of an installation.
UpdateIsSafe == [](Upgrade!BackupIsWhole /\ Upgrade!AppSurvives) /\ Upgrade!InstalledAsShown

\* Updates: the bridge and the native handlers implement UpdateGate.
GateHolds == Upgrade!GateHolds
=============================================================================
