------------------------------ MODULE MCShell ------------------------------
(* Small instances of the modules that make up the application's shell: the  *)
(* workspace page, and the parts of Shell: its settings, connections and      *)
(* updates, and the viewer of a shared model in a browser.  They run one      *)
(* beside the other: "part" is chosen at the start and says which of them     *)
(* takes the steps of a behaviour, the others stay in an initial state.       *)
EXTENDS Workspace, Shell, TLC

CONSTANTS s1, s2, p1, p2,   \* sources, connection profiles
          d1, d2,   \* what a connection form says
          f1, f2,   \* update feeds
          Broken    \* a text that is not a JSON object

VARIABLE part

sVars == <<sStore, sLegacy, sPage, sDue, sDraft, sCalls, sSpent>>
cVars == <<cStore, cPage, cPanel, cOp, cListing, cChooser, cSpent>>
uVars == <<uCall, uInstalling, uUnsaved, uSession, uOperation, uRefusing, uChosen, uOffline,
           uPublished, uData, uBackup, uDisk, uKept, uExited, uPage, uPoll, uStartup, uRuns, uChanges>>
zVars == <<zCurrent, zLegacy, zLayouts, zServer, zTabs, zActs>>

\* The workspace whose writes are answered with the patched list, not with a reload of it.
Patching == INSTANCE Workspace WITH Reload <- FALSE, Patch <- TRUE, MaxReads <- 2

\* Older values that are still to be migrated.
Migrating == INSTANCE AppSettings WITH
  Source <- SettingsSource, MaxEdits <- 2, MaxCalls <- 1, Legacy <- TRUE, Reliable <- FALSE,
  store <- sStore, legacy <- sLegacy, page <- sPage, due <- sDue, draft <- sDraft,
  calls <- sCalls, spent <- sSpent

\* Two feeds that the user switches between, and an editor with unsaved work.
Switching == INSTANCE Updates WITH
  Feed <- {f1, f2}, MaxVersion <- 1, MaxRuns <- 2, MaxChanges <- 1,
  call <- uCall, installing <- uInstalling, unsaved <- uUnsaved, session <- uSession,
  operation <- uOperation, refusing <- uRefusing, chosen <- uChosen, offline <- uOffline,
  published <- uPublished, data <- uData, backup <- uBackup, disk <- uDisk, kept <- uKept,
  exited <- uExited, page <- uPage, poll <- uPoll, startup <- uStartup, runs <- uRuns,
  changes <- uChanges

\* Two tabs of a browser.  One setting is older than the other, which only this version writes.
StoredFirst ==
  {[current |-> None, legacy |-> "old" :> 1], [current |-> Broken, legacy |-> "old" :> 1],
   [current |-> "old" :> 1 @@ "new" :> 1, legacy |-> None]}
SharedModels ==
  {[snapshot |-> "n1", semantics |-> 1], [snapshot |-> "n2", semantics |-> 2], [snapshot |-> None, semantics |-> 3]}

-----------------------------------------------------------------------------
MCInit ==
  /\ part \in {"reload", "patch", "settings", "migrate", "connect", "upgrade", "switching", "viewer"}
  /\ Init /\ Connect!Init /\ Viewer!Init
  /\ part # "viewer" => zServer = None /\ zLayouts = {} /\ zCurrent["app"] = Broken
  /\ IF part = "migrate" THEN Migrating!Init ELSE Settings!Init
  /\ IF part = "switching" THEN Switching!Init ELSE Upgrade!Init
  /\ part # "reload" => fetches = {}
  \* Of the sources saved before, the ones that differ in their names only are left out.
  /\ IF part = "connect" THEN cStore[p1].details # d2 /\ (cStore[p1].details = None => cStore[p2].details = None)
     ELSE \A p \in {p1, p2} : cStore[p].details = None

MCNext ==
  \/ /\ part = "reload" /\ Next
     /\ UNCHANGED <<part, sVars, cVars, uVars, zVars>>
  \/ /\ part = "patch" /\ Patching!Next
     /\ UNCHANGED <<part, sVars, cVars, uVars, zVars>>
  \/ /\ part = "settings" /\ Settings!Next
     /\ UNCHANGED <<part, vars, cVars, uVars, zVars>>
  \/ /\ part = "migrate" /\ Migrating!Next
     /\ UNCHANGED <<part, vars, cVars, uVars, zVars>>
  \/ /\ part = "connect" /\ Connect!Next
     /\ UNCHANGED <<part, vars, sVars, uVars, zVars>>
  \/ /\ part = "upgrade" /\ Upgrade!Next
     /\ UNCHANGED <<part, vars, sVars, cVars, zVars>>
  \/ /\ part = "switching" /\ Switching!Next
     /\ UNCHANGED <<part, vars, sVars, cVars, zVars>>
  \/ /\ part = "viewer" /\ Viewer!Next
     /\ UNCHANGED <<part, vars, sVars, cVars, uVars>>

MCSpec == MCInit /\ [][MCNext]_<<part, vars, sVars, cVars, uVars, zVars>>

\* Every part keeps its types.
ShellTypeOK ==
  CASE part \in {"reload", "patch"} -> TypeOK
    [] part \in {"settings", "migrate"} -> Settings!TypeOK
    [] part = "connect" -> Connect!TypeOK
    [] part = "upgrade" -> Upgrade!TypeOK
    [] part = "switching" -> Switching!TypeOK
    [] part = "viewer" -> Viewer!TypeOK
=============================================================================
