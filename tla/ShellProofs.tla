----------------------------- MODULE ShellProofs -----------------------------
(***************************************************************************)
(* What the parts of the shell promise, for every value of their constants *)
(* that suits them (ShellIsSuited): updates, connections, settings and the *)
(* viewer of a shared model, each by an inductive invariant of its own.    *)
(***************************************************************************)
EXTENDS Shell, FiniteSetTheorems, TLAPS

-----------------------------------------------------------------------------
(* Updates: types.                                                         *)

UpgradePhase == {"idle", "checking", "available", "upToDate", "downloading", "verifying",
          "ready", "installing", "error"}
UpgradeSession == [phase : UpgradePhase, update : Upgrade!Versions, bytes : Upgrade!Versions, feed : UpgradeFeeds, cancelled : BOOLEAN]

UpgradeShown == Upgrade!Answer \cup {Absent}
UpgradePanel == [open : BOOLEAN, shown : UpgradeShown, run : {Absent, "check", "download", "read"},
          dialog : {"closed", "open", "busy"}, asked : Upgrade!Versions]
UpgradePoll == [stage : {"idle", "sent", "answered"}, current : BOOLEAN, answer : UpgradeShown]

UpgradeBridgeOK ==
    /\ uCall \in [Upgrade!Command -> Upgrade!Stage]
    /\ \A c \in Upgrade!Command \ {"install"} : uCall[c] \in {"idle", "sent", "running", "ok", "failed"}
    /\ uInstalling \in BOOLEAN /\ uUnsaved \in BOOLEAN

UpgradeNativeOK ==
    /\ uSession \in UpgradeSession
    /\ uOperation \in UpgradeHolder \cup {Absent}
    /\ uRefusing \in BOOLEAN /\ uExited \in BOOLEAN
    /\ uDisk \in Upgrade!Versions /\ uKept \in Upgrade!Versions

\* Who works holds the lock.
UpgradeLockOK ==
    \A c \in Upgrade!Command \ {"save"} :
        uCall[c] \notin {"idle", "sent", "ok", "failed"} <=> uOperation # Absent /\ uOperation.by = c

UpgradeWorldOK ==
    /\ uChosen \in UpgradeFeed /\ uOffline \in BOOLEAN /\ uPublished \in [UpgradeFeed -> Upgrade!Version]

UpgradePageOK ==
    /\ uPage \in UpgradePanel
    /\ uPoll \in [{"timer", "run"} -> UpgradePoll]
    /\ uStartup \in UpgradeFeeds

UpgradeStateOK == UpgradeBridgeOK /\ UpgradeNativeOK /\ UpgradeLockOK /\ UpgradeWorldOK /\ UpgradePageOK

-----------------------------------------------------------------------------
(* The gate and the installation.                                          *)

\* While an installation is in flight the bridge is closed, no other command
\* is under way, its dialog is up and nothing is unsaved.
UpgradeClosed ==
    /\ uCall["install"] # "idle" => uInstalling
    /\ uInstalling =>
         /\ \A c \in Upgrade!Command \ {"install"} : uCall[c] = "idle"
         /\ uPage.dialog = "busy"
         /\ ~uUnsaved
    /\ uPage.dialog = "busy" => uCall["install"] # "idle"
    /\ uExited => uCall["install"] = "restarting"

\* What each stage of an installation has secured.
UpgradeSecured ==
    /\ uCall["install"] \in {"backing", "copying", "replacing"} => uSession.bytes # Absent
    /\ uCall["install"] \in {"copying", "replacing", "restoring", "restarting"} => uBackup = uData
    /\ uCall["install"] \in {"replacing", "restoring"} => uKept # Absent
    /\ uCall["install"] = "restarting" => uDisk # Absent
    /\ uDisk # Absent \/ uKept # Absent

-----------------------------------------------------------------------------
(* What the page shows of the update, and what the user agrees to.         *)

UpgradeReads == {"timer", "run"}

\* One read at most may still change what is shown, and the dialog is never
\* up on a page that shows nothing.
UpgradeReadsOK ==
    /\ uPage.dialog # "closed" => uPage.shown # Absent
    /\ \A k \in UpgradeReads :
         /\ uPoll[k].answer # Absent => uPoll[k].current
         /\ uPoll[k].current /\ uPoll[k].stage = "answered" => uPoll[k].answer # Absent
         /\ \A j \in UpgradeReads : uPoll[j].current /\ uPoll[k].current => j = k
    /\ \A c, d \in Upgrade!Command : uCall[c] = "sent" /\ uCall[d] = "sent" => c = d

UpgradeChecking == uCall["check"] = "running" \/ uCall["startup"] = "running"
UpgradeFetching == uCall["download"] \in {"sent", "running"}

\* The package is the one of the update that was found last.
UpgradePackageOK ==
    /\ uSession.bytes # Absent => uSession.bytes = uSession.update
    /\ UpgradeChecking \/ uCall["download"] = "running" => uSession.bytes = Absent

\* With several feeds, an answer given while another one was chosen names no version.
UpgradeUnnamed == IF \E f, g \in UpgradeFeed : f # g THEN {Absent} ELSE {}

\* The answer a names the package there is, and the one a download under way will leave.
UpgradeConforms(a) ==
    a # Absent =>
        /\ uSession.bytes # Absent => a.version \in {uSession.bytes} \cup UpgradeUnnamed
        /\ UpgradeFetching => a.version \in {uSession.update} \cup UpgradeUnnamed /\ ~UpgradeChecking

UpgradeAllConform == UpgradeConforms(uPage.shown) /\ \A k \in UpgradeReads : UpgradeConforms(uPoll[k].answer)

UpgradeAgreed ==
    /\ uPage.shown # Absent /\ uPage.shown.install => UpgradeAllConform
    /\ \A k \in UpgradeReads : uPoll[k].answer # Absent /\ uPoll[k].answer.install => UpgradeConforms(uPoll[k].answer)
    /\ uPage.dialog # "closed" => UpgradeAllConform
    /\ uPage.dialog = "busy" /\ uSession.bytes # Absent => uPage.asked \in {uSession.bytes} \cup UpgradeUnnamed

UpgradeInv == UpgradeStateOK /\ UpgradeClosed /\ UpgradeSecured
UpgradeShownInv == UpgradeInv /\ UpgradeReadsOK /\ UpgradePackageOK /\ UpgradeAgreed

-----------------------------------------------------------------------------
(* The initial states and the answers of the native status.                *)

LEMMA UpgradeInitInv == UpgradeSuitable /\ Upgrade!Init => UpgradeInv
<1> SUFFICES ASSUME UpgradeSuitable, Upgrade!Init PROVE UpgradeInv
  OBVIOUS
<1>1. uChosen \in UpgradeFeed
  BY DEF Upgrade!Init, UpgradeSuitable
<1>2. UpgradeBridgeOK
  BY DEF Upgrade!Init, UpgradeBridgeOK, Upgrade!Command, Upgrade!Stage
<1>3. UpgradeNativeOK /\ UpgradeWorldOK
  <2>1. 0 \in Upgrade!Version
    BY DEF UpgradeSuitable, Upgrade!Version
  <2>2. uSession \in UpgradeSession
    BY DEF Upgrade!Init, Upgrade!NoUpdate, UpgradeSession, UpgradePhase, Upgrade!Versions, UpgradeFeeds
  <2>3. UpgradeWorldOK
    BY <1>1, <2>1 DEF Upgrade!Init, UpgradeWorldOK
  <2> QED BY <2>1, <2>2, <2>3 DEF Upgrade!Init, UpgradeNativeOK, Upgrade!Versions
<1>4. UpgradePageOK
  BY <1>1 DEF Upgrade!Init, UpgradePageOK, UpgradePanel, UpgradePoll, UpgradeShown, Upgrade!Versions, UpgradeFeeds
<1>5. UpgradeLockOK
  BY DEF Upgrade!Init, UpgradeLockOK, Upgrade!Command
<1>6. UpgradeClosed /\ UpgradeSecured
  BY DEF UpgradeSuitable, Upgrade!Init, UpgradeClosed, UpgradeSecured, Upgrade!Command
<1> QED BY <1>2, <1>3, <1>4, <1>5, <1>6 DEF UpgradeInv, UpgradeStateOK

LEMMA UpgradeStatusType == UpgradeStateOK => Upgrade!Status \in Upgrade!Answer
  BY DEF UpgradeStateOK, UpgradeNativeOK, UpgradeWorldOK, UpgradeSession, Upgrade!Status, Upgrade!Answer, Upgrade!NoUpdate, Upgrade!CanInstall, Upgrade!CanDownload, UpgradePhase,
     Upgrade!Versions

-----------------------------------------------------------------------------
(* The native handlers.                                                    *)

LEMMA UpgradeHandlerInv == ASSUME UpgradeSuitable, UpgradeInv, NEW c \in Upgrade!Command, Upgrade!Handler(c) PROVE UpgradeInv'
<1> USE DEF UpgradeSuitable, UpgradeInv, UpgradeStateOK, UpgradeBridgeOK, UpgradeNativeOK, UpgradeLockOK, UpgradeWorldOK, UpgradePageOK, UpgradeClosed, UpgradeSecured, Upgrade!Command,
      Upgrade!Stage, Upgrade!Goes, Upgrade!Becomes, Upgrade!Page, Upgrade!native, Upgrade!world
<1>0. Upgrade!Failed(uSession) \in UpgradeSession
  BY DEF Upgrade!Failed, UpgradeSession, UpgradePhase
<1>1. CASE Upgrade!Refused(c)
  BY <1>1 DEF Upgrade!Refused
<1>2. CASE c \in {"check", "startup"} /\ Upgrade!CheckBegins(c)
  <2>1. /\ uCall[c] = "sent" /\ uOperation = Absent
        /\ uCall' = [uCall EXCEPT ![c] = "running"]
    BY <1>2 DEF Upgrade!CheckBegins, Upgrade!Received
  <2>2. uSession' \in UpgradeSession
    BY <1>2 DEF Upgrade!CheckBegins, Upgrade!NoUpdate, UpgradeSession, UpgradePhase, Upgrade!Versions, UpgradeFeeds
  <2>3. uOperation' \in UpgradeHolder /\ uOperation'.by = c
    BY <1>2 DEF Upgrade!CheckBegins, UpgradeHolder, UpgradeFeeds
  <2>4. UpgradeLockOK'
    BY <1>2, <2>1, <2>3
  <2> QED BY <1>2, <2>1, <2>2, <2>3, <2>4 DEF Upgrade!CheckBegins
<1>3. CASE c \in {"check", "startup"} /\ Upgrade!CheckAnswers(c)
  <2>1. /\ uCall[c] = "running" /\ uOperation' = Absent
        /\ uOperation \in UpgradeHolder /\ uOperation.by = c
    BY <1>3 DEF Upgrade!CheckAnswers
  <2>2. /\ uSession' \in UpgradeSession
        /\ uPublished' \in [UpgradeFeed -> Upgrade!Version]
        /\ uCall' \in {[uCall EXCEPT ![c] = "ok"], [uCall EXCEPT ![c] = "failed"]}
    <3>1. CASE uSession' = Upgrade!Failed(uSession) /\ Upgrade!Becomes(c, "failed") /\ UNCHANGED uPublished
      BY <1>0, <1>3, <3>1
    <3>2. CASE /\ uOperation.feed # Absent
               /\ \E v \in uPublished[uOperation.feed]..UpgradeMaxVersion :
                    /\ uPublished' = [uPublished EXCEPT ![uOperation.feed] = v]
                    /\ uSession' = [uSession EXCEPT !.phase = IF v > 0 THEN "available" ELSE "upToDate",
                                                  !.update = IF v > 0 THEN v ELSE Absent,
                                                  !.feed = uOperation.feed]
               /\ Upgrade!Becomes(c, "ok")
      <4>1. PICK v \in uPublished[uOperation.feed]..UpgradeMaxVersion :
                    /\ uPublished' = [uPublished EXCEPT ![uOperation.feed] = v]
                    /\ uSession' = [uSession EXCEPT !.phase = IF v > 0 THEN "available" ELSE "upToDate",
                                                  !.update = IF v > 0 THEN v ELSE Absent,
                                                  !.feed = uOperation.feed]
        BY <3>2
      <4>2. uOperation.feed \in UpgradeFeed
        BY <2>1, <3>2 DEF UpgradeHolder, UpgradeFeeds
      <4>3. v \in Upgrade!Version
        BY <4>1, <4>2 DEF Upgrade!Version
      <4>4. uSession' \in UpgradeSession
        BY <4>1, <4>2, <4>3 DEF UpgradeSession, UpgradePhase, Upgrade!Versions, UpgradeFeeds
      <4> QED BY <3>2, <4>1, <4>2, <4>3, <4>4
    <3> QED BY <1>3, <3>1, <3>2 DEF Upgrade!CheckAnswers
  <2>3. UpgradeLockOK'
    BY <1>3, <2>1, <2>2
  <2>4. UpgradeWorldOK' /\ UpgradePageOK'
    BY <1>3, <2>2 DEF Upgrade!CheckAnswers
  <2>7. UpgradeBridgeOK'
    <3>1. uInstalling' = uInstalling /\ uUnsaved' = uUnsaved
      BY <1>3 DEF Upgrade!CheckAnswers
    <3> QED BY <1>3, <2>2, <3>1
  <2>6. UpgradeNativeOK'
    BY <1>3, <2>1, <2>2 DEF Upgrade!CheckAnswers
  <2>5. UpgradeClosed' /\ UpgradeSecured'
    BY <1>3, <2>1, <2>2 DEF Upgrade!CheckAnswers
  <2> QED BY <2>3, <2>4, <2>5, <2>6, <2>7
<1>4. CASE c = "download" /\ Upgrade!DownloadBegins
  <2>1. uCall["download"] = "sent" /\ uOperation = Absent
    BY <1>4 DEF Upgrade!DownloadBegins, Upgrade!Received
  <2>2. CASE uSession' = Upgrade!Failed(uSession) /\ Upgrade!Becomes("download", "failed") /\ UNCHANGED uOperation
    BY <1>0, <1>4, <2>1, <2>2 DEF Upgrade!DownloadBegins
  <2>3. CASE /\ uSession' = [uSession EXCEPT !.phase = "downloading", !.bytes = Absent, !.cancelled = FALSE]
             /\ uOperation' = [by |-> "download", feed |-> uChosen]
             /\ Upgrade!Becomes("download", "running")
    <3>1. uSession' \in UpgradeSession /\ uOperation' \in UpgradeHolder /\ uOperation'.by = "download"
      BY <2>3 DEF UpgradeSession, UpgradePhase, Upgrade!Versions, UpgradeFeeds, UpgradeHolder
    <3>2. UpgradeLockOK'
      BY <2>1, <2>3, <3>1
    <3> QED BY <1>4, <2>1, <2>3, <3>1, <3>2 DEF Upgrade!DownloadBegins
  <2> QED BY <1>4, <2>2, <2>3 DEF Upgrade!DownloadBegins
<1>5. CASE c = "download" /\ Upgrade!Verifying
  <2>1. uSession' \in UpgradeSession
    BY <1>5 DEF Upgrade!Verifying, UpgradeSession, UpgradePhase
  <2> QED BY <1>5, <2>1 DEF Upgrade!Verifying
<1>6. CASE c = "download" /\ Upgrade!DownloadEnds
  <2>1. /\ uCall["download"] = "running" /\ uOperation' = Absent /\ uOperation.by = "download"
        /\ uCall' \in {[uCall EXCEPT !["download"] = "ok"], [uCall EXCEPT !["download"] = "failed"]}
    BY <1>6 DEF Upgrade!DownloadEnds
  <2>2. [uSession EXCEPT !.bytes = uSession.update, !.phase = "ready"] \in UpgradeSession
    BY DEF UpgradeSession, UpgradePhase
  <2>3. uSession' \in UpgradeSession
    BY <1>0, <1>6, <2>2 DEF Upgrade!DownloadEnds
  <2>4. UpgradeLockOK'
    BY <2>1
  <2> QED BY <1>6, <2>1, <2>3, <2>4 DEF Upgrade!DownloadEnds
<1>7. CASE c = "save" /\ Upgrade!SaveBegins
  BY <1>7 DEF Upgrade!SaveBegins, Upgrade!Received
<1>8. CASE c = "save" /\ Upgrade!SaveEnds
  BY <1>8 DEF Upgrade!SaveEnds
<1>9. CASE c = "install" /\ Upgrade!InstallBegins
  <2>1. uOperation' \in UpgradeHolder /\ uOperation'.by = "install"
    BY <1>9 DEF Upgrade!InstallBegins, UpgradeHolder, UpgradeFeeds
  <2> QED BY <1>9, <2>1 DEF Upgrade!InstallBegins, Upgrade!Received
<1>10. CASE c = "install" /\ Upgrade!InstallChecks
  <2>1. [uSession EXCEPT !.phase = "installing"] \in UpgradeSession
    BY DEF UpgradeSession, UpgradePhase
  <2>2. uSession' \in UpgradeSession
    BY <1>0, <1>10, <2>1 DEF Upgrade!InstallChecks, Upgrade!InstallFails
  <2>3. uCall["install"] = "running" /\ uOperation # Absent /\ uOperation.by = "install"
    BY <1>10 DEF Upgrade!InstallChecks
  <2>4. CASE Upgrade!InstallFails
    BY <1>10, <2>2, <2>3, <2>4 DEF Upgrade!InstallChecks, Upgrade!InstallFails
  <2>5. CASE ~Upgrade!InstallFails
    BY <1>10, <2>2, <2>3, <2>5 DEF Upgrade!InstallChecks, UpgradeSession
  <2> QED BY <2>4, <2>5
<1>11. CASE c = "install" /\ Upgrade!BackUp
  <2>1. CASE Upgrade!InstallFails
    BY <1>0, <1>11, <2>1 DEF Upgrade!BackUp, Upgrade!InstallFails
  <2>2. CASE ~Upgrade!InstallFails
    BY <1>11, <2>2 DEF Upgrade!BackUp
  <2> QED BY <2>1, <2>2
<1>12. CASE c = "install" /\ Upgrade!CopyApp
  <2>1. CASE Upgrade!InstallFails /\ UNCHANGED uKept
    BY <1>0, <1>12, <2>1 DEF Upgrade!CopyApp, Upgrade!InstallFails
  <2>2. CASE /\ uDisk # Absent /\ uKept' = uDisk /\ Upgrade!Becomes("install", "replacing")
             /\ UNCHANGED <<uSession, uOperation, uRefusing>>
    BY <1>12, <2>2 DEF Upgrade!CopyApp
  <2> QED BY <1>12, <2>1, <2>2 DEF Upgrade!CopyApp
<1>13. CASE c = "install" /\ Upgrade!Replace
  BY <1>13 DEF Upgrade!Replace, UpgradeSession, Upgrade!Versions
<1>14. CASE c = "install" /\ Upgrade!Restore
  <2>1. uCall["install"] = "restoring" /\ uOperation.by = "install" /\ uDisk' \in Upgrade!Versions
    BY <1>14 DEF Upgrade!Restore, Upgrade!Versions
  <2>2. uSession' \in UpgradeSession /\ uRefusing' = FALSE /\ uOperation' = Absent
    BY <1>0, <1>14 DEF Upgrade!Restore, Upgrade!InstallFails
  <2>3. UpgradeLockOK'
    BY <1>14, <2>1, <2>2 DEF Upgrade!Restore, Upgrade!InstallFails
  <2>4. UpgradeClosed' /\ UpgradeSecured'
    BY <1>14, <2>1, <2>2 DEF Upgrade!Restore, Upgrade!InstallFails
  <2> QED BY <1>14, <2>1, <2>2, <2>3, <2>4 DEF Upgrade!Restore, Upgrade!InstallFails
<1>15. CASE c = "install" /\ Upgrade!Restart
  <2>1. CASE Upgrade!InstallFails /\ UNCHANGED uExited
    <3>1. UpgradeClosed' /\ UpgradeSecured'
      BY <1>15, <2>1 DEF Upgrade!Restart, Upgrade!InstallFails
    <3> QED BY <1>0, <1>15, <2>1, <3>1 DEF Upgrade!Restart, Upgrade!InstallFails
  <2>2. CASE uExited' = TRUE /\ UNCHANGED <<uCall, uSession, uOperation, uRefusing>>
    BY <1>15, <2>2 DEF Upgrade!Restart
  <2> QED BY <1>15, <2>1, <2>2 DEF Upgrade!Restart
<1> QED
  BY <1>1, <1>2, <1>3, <1>4, <1>5, <1>6, <1>7, <1>8, <1>9, <1>10, <1>11, <1>12, <1>13, <1>14, <1>15
  DEF Upgrade!Handler

-----------------------------------------------------------------------------
(* The page, its polls, and the rest of the application.                   *)

LEMMA UpgradePollTypes ==
  ASSUME NEW p \in [{"timer", "run"} -> UpgradePoll], NEW k \in {"timer", "run"}
  PROVE  /\ Upgrade!Stale(p) \in [{"timer", "run"} -> UpgradePoll]
         /\ Upgrade!Read(p, k) \in [{"timer", "run"} -> UpgradePoll]
         /\ Upgrade!Arrived(p, k) \in [{"timer", "run"} -> UpgradePoll]
<1>1. Upgrade!Stale(p) \in [{"timer", "run"} -> UpgradePoll]
  BY DEF Upgrade!Stale, UpgradePoll, UpgradeShown
<1>2. [stage |-> "sent", current |-> TRUE, answer |-> Absent] \in UpgradePoll
  BY DEF UpgradePoll, UpgradeShown
<1>3. [stage |-> "idle", current |-> FALSE, answer |-> Absent] \in UpgradePoll
  BY DEF UpgradePoll, UpgradeShown
<1> QED BY <1>1, <1>2, <1>3 DEF Upgrade!Read, Upgrade!Arrived

LEMMA UpgradeDeliverInv == ASSUME UpgradeSuitable, UpgradeInv, NEW c \in Upgrade!Command, Upgrade!Deliver(c) PROVE UpgradeInv'
<1> USE DEF UpgradeInv, UpgradeStateOK, UpgradeBridgeOK, UpgradeNativeOK, UpgradeLockOK, UpgradeWorldOK, UpgradePageOK, UpgradeClosed, UpgradeSecured, Upgrade!Command,
      Upgrade!Stage, Upgrade!Becomes, Upgrade!native, Upgrade!world
<1>1. uPoll' \in [{"timer", "run"} -> UpgradePoll]
  BY UpgradePollTypes DEF Upgrade!Deliver
<1>2. ~uExited /\ uCall[c] \in {"ok", "failed"} /\ uCall' = [uCall EXCEPT ![c] = "idle"]
  BY DEF Upgrade!Deliver
<1>5. /\ uPage' \in UpgradePanel
      /\ uPage'.dialog = IF c = "install" /\ uPage.dialog = "busy" THEN "open" ELSE uPage.dialog
  <2>1. CASE uPage.run = c
    <3>1. uPage' = [uPage EXCEPT !.run = "read"] /\ c # "install"
      BY <2>1 DEF Upgrade!Deliver, UpgradePanel, UpgradeSuitable
    <3> QED BY <3>1 DEF UpgradePanel
  <2>2. CASE uPage.run # c
    <3>1. uPage' = [uPage EXCEPT !.dialog = IF c = "install" /\ @ = "busy" THEN "open" ELSE @]
      BY <2>2 DEF Upgrade!Deliver
    <3> QED BY <3>1 DEF UpgradePanel
  <2> QED BY <2>1, <2>2
<1>3. UpgradeBridgeOK' /\ UpgradeNativeOK' /\ UpgradeLockOK' /\ UpgradeWorldOK' /\ UpgradePageOK'
  BY <1>1, <1>2, <1>5 DEF Upgrade!Deliver
<1>4. UpgradeClosed' /\ UpgradeSecured'
  BY <1>2, <1>5 DEF Upgrade!Deliver
<1> QED BY <1>3, <1>4

LEMMA UpgradePollsInv == ASSUME UpgradeSuitable, UpgradeInv, Upgrade!Polls PROVE UpgradeInv'
<1> USE DEF UpgradeInv, UpgradeStateOK, UpgradeBridgeOK, UpgradeNativeOK, UpgradeLockOK, UpgradeWorldOK, UpgradePageOK, UpgradeClosed, UpgradeSecured, Upgrade!native, Upgrade!world
<1>1. /\ ~uExited /\ uPage' \in UpgradePanel /\ uPage'.dialog = uPage.dialog
      /\ uPoll' \in [{"timer", "run"} -> UpgradePoll]
      /\ UNCHANGED <<uCall, uInstalling, uUnsaved, Upgrade!native, Upgrade!world, uData, uStartup>>
  <2>1. CASE Upgrade!StartPoll
    <3>1. uPoll \in [{"timer", "run"} -> UpgradePoll] /\ uPage \in UpgradePanel
      OBVIOUS
    <3>2. Upgrade!Read(uPoll, "timer") \in [{"timer", "run"} -> UpgradePoll]
      BY <3>1, UpgradePollTypes
    <3> QED BY <2>1, <3>1, <3>2 DEF Upgrade!StartPoll
  <2>2. ASSUME NEW k \in DOMAIN uPoll, Upgrade!StatusAnswers(k)
        PROVE  uPoll' \in [{"timer", "run"} -> UpgradePoll]
    BY <2>2, UpgradeStatusType DEF Upgrade!StatusAnswers, UpgradePoll, UpgradeShown
  <2>3. ASSUME NEW k \in DOMAIN uPoll, Upgrade!StatusArrives(k)
        PROVE  /\ uPoll' \in [{"timer", "run"} -> UpgradePoll]
               /\ uPage' \in UpgradePanel /\ uPage'.dialog = uPage.dialog
    <3>1. uPoll' \in [{"timer", "run"} -> UpgradePoll]
      BY <2>3, UpgradePollTypes DEF Upgrade!StatusArrives
    <3>2. uPoll[k].answer \in UpgradeShown
      BY DEF UpgradePoll
    <3> QED BY <2>3, <3>1, <3>2 DEF Upgrade!StatusArrives, UpgradePanel
  <2> QED BY <2>1, <2>2, <2>3 DEF Upgrade!Polls, Upgrade!StatusAnswers, Upgrade!StatusArrives
<1> QED BY <1>1

LEMMA UpgradeUserInv == ASSUME UpgradeSuitable, UpgradeInv, UpgradeReadsOK, Upgrade!User PROVE UpgradeInv'
<1> USE DEF UpgradeSuitable, UpgradeInv, UpgradeStateOK, UpgradeBridgeOK, UpgradeNativeOK, UpgradeLockOK, UpgradeWorldOK, UpgradePageOK, UpgradeClosed, UpgradeSecured, Upgrade!Command,
      Upgrade!Stage, Upgrade!native, Upgrade!world, Upgrade!User
<1>1. CASE Upgrade!OpenPage
  BY <1>1 DEF Upgrade!OpenPage, UpgradePanel
<1>2. CASE Upgrade!ClosePage
  <2>1. uPoll' \in [{"timer", "run"} -> UpgradePoll]
    BY <1>2, UpgradePollTypes DEF Upgrade!ClosePage
  <2>2. uPage' \in UpgradePanel /\ uPage'.dialog = uPage.dialog
    BY <1>2 DEF Upgrade!ClosePage, UpgradePanel, UpgradeShown, Upgrade!Versions
  <2> QED BY <1>2, <2>1, <2>2 DEF Upgrade!ClosePage
<1>3. CASE Upgrade!CancelDownload
  <2>1. uSession' \in UpgradeSession
    BY <1>3 DEF Upgrade!CancelDownload, UpgradeSession
  <2> QED BY <1>3, <2>1 DEF Upgrade!CancelDownload
<1>4. CASE Upgrade!AskToInstall
  BY <1>4 DEF Upgrade!AskToInstall, UpgradePanel
<1>5. CASE Upgrade!Confirm
  <2>1. /\ ~uInstalling /\ ~uUnsaved /\ uInstalling' = TRUE /\ ~uExited
        /\ \A c \in Upgrade!Command : uCall[c] = "idle"
        /\ uCall' = [uCall EXCEPT !["install"] = "sent"]
    BY <1>5 DEF Upgrade!Confirm, Upgrade!SendInstall, Upgrade!Active
  <2>2. uPage' \in UpgradePanel /\ uPage'.dialog = "busy"
    <3>1. uPage.shown \in Upgrade!Answer
      BY <1>5 DEF UpgradePanel, UpgradeShown, Upgrade!Confirm, UpgradeReadsOK
    <3> QED BY <1>5, <3>1 DEF Upgrade!Confirm, UpgradePanel, Upgrade!Answer
  <2> QED BY <1>5, <2>1, <2>2 DEF Upgrade!Confirm
<1>6. CASE Upgrade!NotNow
  BY <1>6 DEF Upgrade!NotNow, UpgradePanel
<1>7. ASSUME NEW c \in {"check", "download"}, Upgrade!Run(c) PROVE UpgradeInv'
  <2>1. uPoll' \in [{"timer", "run"} -> UpgradePoll]
    BY <1>7, UpgradePollTypes DEF Upgrade!Run
  <2>2. uPage' \in UpgradePanel /\ uPage'.dialog = uPage.dialog
    BY <1>7 DEF Upgrade!Run, UpgradePanel
  <2> QED BY <1>7, <2>1, <2>2 DEF Upgrade!Run, Upgrade!Send
<1>8. CASE Upgrade!Edit
  BY <1>8 DEF Upgrade!Edit
<1>9. CASE Upgrade!Save
  BY <1>9 DEF Upgrade!Save, Upgrade!Send
<1>10. CASE Upgrade!ChangeSettings
  <2>1. /\ uChosen' \in UpgradeFeed /\ uOffline' \in BOOLEAN /\ uStartup' \in UpgradeFeeds
        /\ uPage.dialog = "closed"
    BY ZenonT(60), <1>10 DEF Upgrade!ChangeSettings, UpgradeFeeds
  <2>2. \/ uCall' = uCall
        \/ ~uInstalling /\ uCall["startup"] = "idle" /\ uCall' = [uCall EXCEPT !["startup"] = "sent"]
    BY <1>10 DEF Upgrade!ChangeSettings, Upgrade!Send
  <2> QED BY <1>10, <2>1, <2>2 DEF Upgrade!ChangeSettings
<1> QED BY <1>1, <1>2, <1>3, <1>4, <1>5, <1>6, <1>7, <1>8, <1>9, <1>10

-----------------------------------------------------------------------------
(* What is shown stays in step with what is there.                         *)

\* Handlers leave the page alone, and nobody else is sent a command by them.
LEMMA UpgradeHandlerShown ==
  ASSUME UpgradeSuitable, UpgradeShownInv, NEW c \in Upgrade!Command, Upgrade!Handler(c)
  PROVE  UpgradeReadsOK' /\ UpgradePackageOK' /\ UpgradeAgreed'
<1> USE DEF UpgradeSuitable, UpgradeShownInv, UpgradeInv, UpgradeStateOK, UpgradeBridgeOK, UpgradeLockOK, Upgrade!Command, Upgrade!Stage, Upgrade!Goes, Upgrade!Becomes
<1>1. /\ UNCHANGED <<uPage, uPoll>>
      /\ \E stage \in Upgrade!Stage \ {"sent", "idle"} : uCall' = [uCall EXCEPT ![c] = stage] \/ uCall' = uCall
  BY DEF Upgrade!Handler, Upgrade!Refused, Upgrade!CheckBegins, Upgrade!CheckAnswers, Upgrade!DownloadBegins, Upgrade!Verifying, Upgrade!DownloadEnds,
     Upgrade!SaveBegins, Upgrade!SaveEnds, Upgrade!InstallBegins, Upgrade!InstallChecks, Upgrade!BackUp, Upgrade!CopyApp, Upgrade!Replace, Upgrade!Restore, Upgrade!Restart,
     Upgrade!InstallFails, Upgrade!Page
<1>2. UpgradeReadsOK'
  BY <1>1 DEF UpgradeReadsOK
<1>3. CASE /\ uSession'.bytes = uSession.bytes /\ uSession'.update = uSession.update
           /\ UpgradeFetching' => UpgradeFetching
           /\ UpgradeChecking' => UpgradeChecking
           /\ uCall'["download"] = "running" => uCall["download"] = "running"
  <2>1. UpgradePackageOK'
    BY <1>3 DEF UpgradePackageOK
  <2>2. \A a : UpgradeConforms(a) => UpgradeConforms(a)'
    BY <1>3 DEF UpgradeConforms
  <2> QED BY <1>1, <1>2, <1>3, <2>1, <2>2 DEF UpgradeAgreed, UpgradeAllConform
<1>4. CASE c \in {"check", "startup"} /\ Upgrade!CheckBegins(c)
  <2>1. uSession'.bytes = Absent /\ ~UpgradeFetching /\ ~UpgradeFetching'
    <3>1. uCall[c] = "sent" /\ uCall["download"] # "sent"
      BY <1>4 DEF Upgrade!CheckBegins, Upgrade!Received, UpgradeReadsOK
    <3>2. uCall["download"] # "running"
      BY <1>4 DEF Upgrade!CheckBegins
    <3> QED BY <1>4, <3>1, <3>2 DEF Upgrade!CheckBegins, Upgrade!NoUpdate, UpgradeFetching
  <2> QED BY <1>1, <1>2, <2>1 DEF UpgradePackageOK, UpgradeAgreed, UpgradeAllConform, UpgradeConforms, UpgradeFetching
<1>5. CASE c \in {"check", "startup"} /\ Upgrade!CheckAnswers(c)
  <2>1. /\ UpgradeChecking /\ uSession.bytes = Absent /\ uSession'.bytes = Absent
        /\ uCall["download"] # "running" /\ uCall'["download"] = uCall["download"]
        /\ UpgradeChecking' => UpgradeChecking
    <3>1. UpgradeChecking /\ uSession.bytes = Absent
      BY <1>5 DEF Upgrade!CheckAnswers, UpgradeChecking, UpgradePackageOK
    <3>2. uSession'.bytes = uSession.bytes
      BY <1>5 DEF Upgrade!CheckAnswers, Upgrade!Failed, UpgradeNativeOK, UpgradeSession
    <3>3. uCall[c] = "running" /\ uOperation.by = c
      BY <1>5 DEF Upgrade!CheckAnswers
    <3>4. uCall["download"] # "running"
      BY <1>5, <3>3
    <3>6. uCall'["download"] = uCall["download"]
      BY <1>5 DEF Upgrade!CheckAnswers
    <3>5. UpgradeChecking' => UpgradeChecking
      BY <3>1
    <3> QED BY <3>1, <3>2, <3>4, <3>5, <3>6
  <2>2. \A a : UpgradeConforms(a) => UpgradeConforms(a)'
    BY <2>1 DEF UpgradeConforms, UpgradeFetching
  <2> QED BY <1>1, <1>2, <2>1, <2>2 DEF UpgradePackageOK, UpgradeAgreed, UpgradeAllConform
<1>6. CASE c = "download" /\ Upgrade!DownloadBegins
  <2>1. CASE uSession' = Upgrade!Failed(uSession) /\ Upgrade!Becomes("download", "failed")
    BY <1>3, <1>6, <2>1 DEF Upgrade!DownloadBegins, Upgrade!Failed, UpgradeFetching, UpgradeChecking, UpgradeNativeOK, UpgradeSession
  <2>2. CASE /\ uSession' = [uSession EXCEPT !.phase = "downloading", !.bytes = Absent, !.cancelled = FALSE]
             /\ Upgrade!Becomes("download", "running")
    <3>1. /\ uSession'.bytes = Absent /\ uSession'.update = uSession.update
          /\ UpgradeFetching /\ UpgradeChecking' = UpgradeChecking
      BY <1>6, <2>2 DEF Upgrade!DownloadBegins, Upgrade!Received, UpgradeFetching, UpgradeChecking, UpgradeNativeOK, UpgradeSession
    <3>2. \A a : UpgradeConforms(a) => UpgradeConforms(a)'
      BY <3>1 DEF UpgradeConforms
    <3> QED BY <1>1, <1>2, <3>1, <3>2 DEF UpgradePackageOK, UpgradeAgreed, UpgradeAllConform
  <2> QED BY <1>6, <2>1, <2>2 DEF Upgrade!DownloadBegins
<1>7. CASE c = "download" /\ Upgrade!DownloadEnds
  <2>1. /\ uSession'.bytes \in {uSession.bytes, uSession.update} /\ uSession'.update = uSession.update
        /\ UpgradeFetching /\ ~UpgradeFetching' /\ UpgradeChecking' = UpgradeChecking /\ uSession.bytes = Absent
        /\ uCall["download"] = "running"
    BY ZenonT(60), <1>7 DEF Upgrade!DownloadEnds, UpgradeFetching, UpgradeChecking, UpgradePackageOK, Upgrade!Failed, UpgradeNativeOK, UpgradeSession
  <2>2. \A a : UpgradeConforms(a) => UpgradeConforms(a)'
    BY <2>1 DEF UpgradeConforms
  <2>3. ~UpgradeChecking
    BY <2>1 DEF UpgradeChecking
  <2>4. UpgradePackageOK'
    BY <1>7, <2>1, <2>3 DEF UpgradePackageOK, Upgrade!DownloadEnds
  <2>5. uPage.dialog # "busy"
    BY <2>1 DEF UpgradeClosed
  <2> QED BY <1>1, <1>2, <2>1, <2>2, <2>4, <2>5 DEF UpgradeAgreed, UpgradeAllConform
<1>8. CASE \/ Upgrade!Refused(c)
           \/ c = "download" /\ Upgrade!Verifying
           \/ c = "save" /\ (Upgrade!SaveBegins \/ Upgrade!SaveEnds)
           \/ c = "install" /\ (Upgrade!InstallBegins \/ Upgrade!InstallChecks \/ Upgrade!BackUp \/ Upgrade!CopyApp \/ Upgrade!Replace \/ Upgrade!Restore \/ Upgrade!Restart)
  <2>1. uSession'.bytes = uSession.bytes /\ uSession'.update = uSession.update
    BY <1>8 DEF Upgrade!Refused, Upgrade!Verifying, Upgrade!SaveBegins, Upgrade!SaveEnds, Upgrade!InstallBegins, Upgrade!InstallChecks, Upgrade!BackUp, Upgrade!CopyApp,
       Upgrade!Replace, Upgrade!Restore, Upgrade!Restart, Upgrade!InstallFails, Upgrade!Failed, Upgrade!native, UpgradeNativeOK, UpgradeSession
  <2>2. \/ uCall' = uCall
        \/ uCall' = [uCall EXCEPT ![c] = "failed"]
        \/ c \in {"save", "install"} /\ \E stage \in Upgrade!Stage : uCall' = [uCall EXCEPT ![c] = stage]
    BY <1>8 DEF Upgrade!Refused, Upgrade!Verifying, Upgrade!SaveBegins, Upgrade!SaveEnds, Upgrade!InstallBegins, Upgrade!InstallChecks, Upgrade!BackUp, Upgrade!CopyApp,
       Upgrade!Replace, Upgrade!Restore, Upgrade!Restart, Upgrade!InstallFails
  <2> QED BY <1>3, <2>1, <2>2 DEF UpgradeFetching, UpgradeChecking
<1> QED
  BY <1>4, <1>5, <1>6, <1>7, <1>8 DEF Upgrade!Handler
LEMMA UpgradeStatusConforms ==
  ASSUME UpgradeSuitable, UpgradeStateOK, UpgradePackageOK
  PROVE  /\ uSession.bytes # Absent => Upgrade!Status.version \in {uSession.bytes} \cup UpgradeUnnamed
         /\ UpgradeFetching => Upgrade!Status.version \in {uSession.update} \cup UpgradeUnnamed
         /\ Upgrade!Status.install => uSession.bytes # Absent
<1>1. CASE uSession.feed # Absent /\ uSession.feed # uChosen
  <2>1. uSession.feed \in UpgradeFeed /\ uChosen \in UpgradeFeed
    BY <1>1 DEF UpgradeStateOK, UpgradeNativeOK, UpgradeWorldOK, UpgradeSession, UpgradeFeeds
  <2>2. UpgradeUnnamed = {Absent}
    BY <1>1, <2>1 DEF UpgradeUnnamed
  <2> QED BY <1>1, <2>2 DEF Upgrade!Status, Upgrade!NoUpdate, Upgrade!CanInstall
<1>2. CASE ~(uSession.feed # Absent /\ uSession.feed # uChosen)
  BY <1>2 DEF Upgrade!Status, UpgradePackageOK, Upgrade!CanInstall
<1> QED BY <1>1, <1>2

LEMMA UpgradeDeliverShown ==
  ASSUME UpgradeSuitable, UpgradeShownInv, NEW c \in Upgrade!Command, Upgrade!Deliver(c)
  PROVE  UpgradeReadsOK' /\ UpgradePackageOK' /\ UpgradeAgreed'
<1> USE DEF UpgradeSuitable, UpgradeShownInv, UpgradeInv, UpgradeStateOK, UpgradeBridgeOK, Upgrade!Command, Upgrade!Stage, Upgrade!Becomes
<1>1. /\ uSession' = uSession /\ uCall' = [uCall EXCEPT ![c] = "idle"]
      /\ UpgradeFetching' => UpgradeFetching
      /\ UpgradeChecking' => UpgradeChecking
      /\ uCall'["download"] = "running" => uCall["download"] = "running"
  BY DEF Upgrade!Deliver, Upgrade!native, UpgradeFetching, UpgradeChecking
<1>2. /\ uPage'.shown = uPage.shown /\ uPage'.asked = uPage.asked
      /\ uPage'.dialog # "closed" => uPage.dialog # "closed"
      /\ uPage'.dialog = "busy" => uPage.dialog = "busy"
  <2>1. CASE uPage.run = c
    <3>1. uPage' = [uPage EXCEPT !.run = "read"]
      BY <2>1 DEF Upgrade!Deliver
    <3> QED BY <3>1 DEF UpgradePageOK, UpgradePanel
  <2>2. CASE uPage.run # c
    <3>1. uPage' = [uPage EXCEPT !.dialog = IF c = "install" /\ @ = "busy" THEN "open" ELSE @]
      BY <2>2 DEF Upgrade!Deliver
    <3> QED BY <3>1 DEF UpgradePageOK, UpgradePanel
  <2> QED BY <2>1, <2>2
<1>3. \/ uPoll' = uPoll
      \/ /\ \A k \in UpgradeReads : uPoll'[k].answer = Absent
         /\ \A k \in UpgradeReads : uPoll'[k].current => k = "run" /\ uPoll'[k].stage = "sent"
  <2>1. CASE uPoll' = Upgrade!Read(uPoll, "run")
    BY <2>1 DEF Upgrade!Read, Upgrade!Stale, UpgradePageOK, UpgradePoll, UpgradeReads
  <2> QED BY <2>1 DEF Upgrade!Deliver
<1>4. UpgradeReadsOK'
  BY <1>1, <1>2, <1>3 DEF UpgradeReadsOK
<1>5. UpgradePackageOK'
  BY <1>1 DEF UpgradePackageOK
<1>6. \A a : UpgradeConforms(a) => UpgradeConforms(a)'
  BY <1>1 DEF UpgradeConforms
<1>7. UpgradeAgreed'
  BY <1>1, <1>2, <1>3, <1>6 DEF UpgradeAgreed, UpgradeAllConform, UpgradeConforms
<1> QED BY <1>4, <1>5, <1>7

LEMMA UpgradePollsShown ==
  ASSUME UpgradeSuitable, UpgradeShownInv, Upgrade!Polls
  PROVE  UpgradeReadsOK' /\ UpgradePackageOK' /\ UpgradeAgreed'
<1> USE DEF UpgradeSuitable, UpgradeShownInv, UpgradeInv, UpgradeStateOK
<1>1. UNCHANGED <<uCall, uSession>>
  BY DEF Upgrade!Polls, Upgrade!StartPoll, Upgrade!StatusAnswers, Upgrade!StatusArrives, Upgrade!native
<1>2. UpgradePackageOK'
  BY <1>1 DEF UpgradePackageOK, UpgradeChecking
<1>3. \A a : UpgradeConforms(a) => UpgradeConforms(a)'
  BY <1>1 DEF UpgradeConforms, UpgradeFetching, UpgradeChecking
<1>4. CASE Upgrade!StartPoll
  <2>1. /\ \A k \in UpgradeReads : uPoll'[k].answer = Absent
        /\ \A k \in UpgradeReads : uPoll'[k].current => k = "timer" /\ uPoll'[k].stage = "sent"
        /\ UNCHANGED uPage
    BY <1>4 DEF Upgrade!StartPoll, Upgrade!Read, Upgrade!Stale, UpgradePageOK, UpgradePoll, UpgradeReads
  <2>2. UpgradeReadsOK'
    BY <1>1, <2>1 DEF UpgradeReadsOK
  <2>3. UpgradeAgreed'
    BY <1>1, <1>3, <2>1 DEF UpgradeAgreed, UpgradeAllConform, UpgradeConforms
  <2> QED BY <1>2, <2>2, <2>3
<1>5. ASSUME NEW k \in UpgradeReads, Upgrade!StatusAnswers(k)
      PROVE  UpgradeReadsOK' /\ UpgradeAgreed'
  <2>1. /\ UNCHANGED uPage
        /\ uPoll[k].stage = "sent"
        /\ uPoll' = [uPoll EXCEPT ![k].stage = "answered",
                                ![k].answer = IF uPoll[k].current THEN Upgrade!Status ELSE Absent]
    BY <1>5 DEF Upgrade!StatusAnswers
  <2>2. /\ uPoll'[k].answer = IF uPoll[k].current THEN Upgrade!Status ELSE Absent
        /\ uPoll'[k].stage = "answered" /\ uPoll'[k].current = uPoll[k].current
        /\ \A j \in UpgradeReads \ {k} : uPoll'[j] = uPoll[j]
    BY <2>1 DEF UpgradePageOK, UpgradePoll, UpgradeReads
  <2>3. Upgrade!Status # Absent
    BY UpgradeStatusType
  <2>4. UpgradeReadsOK'
    <3>1. \A j \in UpgradeReads : uPoll'[j].current = uPoll[j].current
      BY <2>2
    <3>2. ASSUME NEW j \in UpgradeReads
          PROVE  /\ uPoll'[j].answer # Absent => uPoll'[j].current
                 /\ uPoll'[j].current /\ uPoll'[j].stage = "answered" => uPoll'[j].answer # Absent
      <4>1. CASE j = k
        BY <2>2, <2>3, <4>1
      <4>2. CASE j # k
        BY <2>2, <4>2 DEF UpgradeReadsOK
      <4> QED BY <4>1, <4>2
    <3>3. /\ uPage'.dialog # "closed" => uPage'.shown # Absent
          /\ \A j, i \in UpgradeReads : uPoll'[i].current /\ uPoll'[j].current => i = j
          /\ \A c, d \in Upgrade!Command : uCall'[c] = "sent" /\ uCall'[d] = "sent" => c = d
      BY <1>1, <2>1, <3>1 DEF UpgradeReadsOK
    <3> QED BY <3>2, <3>3 DEF UpgradeReadsOK
  <2>5. /\ uSession.bytes # Absent => Upgrade!Status.version \in {uSession.bytes} \cup UpgradeUnnamed
        /\ UpgradeFetching => Upgrade!Status.version \in {uSession.update} \cup UpgradeUnnamed
        /\ Upgrade!Status.install => uSession.bytes # Absent
    BY UpgradeStatusConforms
  <2>6. ASSUME uPage.dialog # "closed" \/ (uPage.shown # Absent /\ uPage.shown.install)
        PROVE  UpgradeConforms(Upgrade!Status)
    <3>1. UpgradeConforms(uPage.shown) /\ uPage.shown # Absent
      BY <2>6 DEF UpgradeAgreed, UpgradeAllConform, UpgradeReadsOK
    <3> QED BY <2>5, <3>1 DEF UpgradeConforms
  <2>7. Upgrade!Status.install => UpgradeConforms(Upgrade!Status)
    BY <2>5 DEF UpgradeConforms, UpgradePackageOK
  <2>8. UpgradeConforms(Absent)
    BY DEF UpgradeConforms
  <2> QED BY ZenonT(60), <1>1, <1>3, <2>1, <2>2, <2>4, <2>6, <2>7, <2>8 DEF UpgradeAgreed, UpgradeAllConform
<1>6. ASSUME NEW k \in UpgradeReads, Upgrade!StatusArrives(k)
      PROVE  UpgradeReadsOK' /\ UpgradeAgreed'
  <2>1. /\ uPage'.shown = IF uPoll[k].current THEN uPoll[k].answer ELSE uPage.shown
        /\ uPage'.dialog = uPage.dialog /\ uPage'.asked = uPage.asked
        /\ uPoll[k].stage = "answered"
        /\ uPoll'[k] = [stage |-> "idle", current |-> FALSE, answer |-> Absent]
        /\ \A j \in UpgradeReads \ {k} : uPoll'[j] = uPoll[j]
    BY <1>6 DEF Upgrade!StatusArrives, Upgrade!Arrived, UpgradePageOK, UpgradePanel, UpgradeReads
  <2>2. UpgradeReadsOK'
    BY <1>1, <2>1 DEF UpgradeReadsOK
  <2>3. CASE uPoll[k].current
    <3>1. \A j \in UpgradeReads : uPoll'[j].answer = Absent
      BY <2>1, <2>3 DEF UpgradeReadsOK
    <3>2. uPage'.shown = uPoll[k].answer /\ UpgradeConforms(Absent)
      BY <2>1, <2>3 DEF UpgradeConforms
    <3> QED BY <1>1, <1>3, <2>1, <2>2, <3>1, <3>2 DEF UpgradeAgreed, UpgradeAllConform
  <2>4. CASE ~uPoll[k].current
    <3>1. uPage'.shown = uPage.shown /\ uPoll'[k].answer = Absent /\ UpgradeConforms(Absent)
      BY <2>1, <2>4 DEF UpgradeConforms
    <3> QED BY <1>1, <1>3, <2>1, <2>2, <3>1 DEF UpgradeAgreed, UpgradeAllConform
  <2> QED BY <2>3, <2>4
<1> QED BY SMTT(60), <1>2, <1>4, <1>5, <1>6 DEF Upgrade!Polls, UpgradePageOK, UpgradeReads

LEMMA UpgradeUserShown ==
  ASSUME UpgradeSuitable, UpgradeShownInv, Upgrade!User
  PROVE  UpgradeReadsOK' /\ UpgradePackageOK' /\ UpgradeAgreed'
<1> USE DEF UpgradeSuitable, UpgradeShownInv, UpgradeInv, UpgradeStateOK, UpgradeBridgeOK, Upgrade!Command, Upgrade!Stage
<1>1. uSession'.bytes = uSession.bytes /\ uSession'.update = uSession.update
  BY DEF Upgrade!User, Upgrade!OpenPage, Upgrade!ClosePage, Upgrade!CancelDownload, Upgrade!AskToInstall, Upgrade!Confirm, Upgrade!NotNow, Upgrade!Run, Upgrade!Edit, Upgrade!Save,
     Upgrade!ChangeSettings, Upgrade!native, UpgradeNativeOK, UpgradeSession
<1>2. \/ uCall' = uCall
      \/ \E c \in Upgrade!Command : uCall[c] = "idle" /\ uCall' = [uCall EXCEPT ![c] = "sent"]
  BY DEF Upgrade!User, Upgrade!OpenPage, Upgrade!ClosePage, Upgrade!CancelDownload, Upgrade!AskToInstall, Upgrade!Confirm, Upgrade!NotNow, Upgrade!Run, Upgrade!Edit, Upgrade!Save,
     Upgrade!ChangeSettings, Upgrade!SendInstall, Upgrade!Active, Upgrade!Send
<1>3. \A c, d \in Upgrade!Command : uCall'[c] = "sent" /\ uCall'[d] = "sent" => c = d
  BY <1>2 DEF Upgrade!User
<1>4. (UpgradeChecking' => UpgradeChecking) /\ (uCall'["download"] = "running" => uCall["download"] = "running")
  BY <1>2 DEF UpgradeChecking
<1>5. UpgradePackageOK'
  BY <1>1, <1>4 DEF UpgradePackageOK
<1>6. CASE Upgrade!OpenPage \/ Upgrade!CancelDownload \/ Upgrade!NotNow \/ Upgrade!Edit \/ Upgrade!Save \/ Upgrade!ChangeSettings
  <2>1. /\ uPage'.shown = uPage.shown /\ uPage'.asked = uPage.asked
        /\ uPage'.dialog \in {uPage.dialog, "closed"}
        /\ uPoll' = uPoll
        /\ UpgradeFetching' = UpgradeFetching
    BY <1>6 DEF Upgrade!User, Upgrade!OpenPage, Upgrade!CancelDownload, Upgrade!NotNow, Upgrade!Edit, Upgrade!Save, Upgrade!ChangeSettings, Upgrade!Send, UpgradePageOK, UpgradePanel, UpgradeFetching
  <2>2. \A a : UpgradeConforms(a) => UpgradeConforms(a)'
    BY <1>1, <1>4, <2>1 DEF UpgradeConforms
  <2>3. UpgradeReadsOK'
    BY <1>3, <2>1 DEF UpgradeReadsOK
  <2> QED BY <1>1, <1>5, <2>1, <2>2, <2>3 DEF UpgradeAgreed, UpgradeAllConform
<1>7. CASE Upgrade!ClosePage
  <2>1. /\ uPage'.shown = Absent /\ uPage'.dialog = "closed"
        /\ \A k \in UpgradeReads : uPoll'[k].answer = Absent /\ ~uPoll'[k].current
    BY <1>7 DEF Upgrade!ClosePage, Upgrade!Stale, UpgradePageOK, UpgradePoll, UpgradeReads
  <2> QED BY <1>3, <1>5, <2>1 DEF UpgradeReadsOK, UpgradeAgreed, UpgradeAllConform, UpgradeConforms
<1>8. CASE Upgrade!AskToInstall
  <2>1. /\ uPage'.shown = uPage.shown /\ uPage'.dialog = "open" /\ uPoll' = uPoll /\ uCall' = uCall
        /\ uPage.shown # Absent /\ uPage.shown.install
    BY <1>8 DEF Upgrade!AskToInstall, UpgradePageOK, UpgradePanel
  <2>2. \A a : UpgradeConforms(a) => UpgradeConforms(a)'
    BY <1>1, <2>1 DEF UpgradeConforms, UpgradeFetching, UpgradeChecking
  <2> QED BY <1>3, <1>5, <2>1, <2>2 DEF UpgradeReadsOK, UpgradeAgreed, UpgradeAllConform
<1>9. CASE Upgrade!Confirm
  <2>1. /\ uPage'.shown = uPage.shown /\ uPage'.dialog = "busy" /\ uPoll' = uPoll
        /\ uPage'.asked = uPage.shown.version /\ uPage.dialog = "open"
        /\ uCall' = [uCall EXCEPT !["install"] = "sent"]
    BY <1>9 DEF Upgrade!Confirm, Upgrade!SendInstall, UpgradePageOK, UpgradePanel
  <2>2. \A a : UpgradeConforms(a) => UpgradeConforms(a)'
    BY <1>1, <2>1 DEF UpgradeConforms, UpgradeFetching, UpgradeChecking
  <2>3. uPage.shown # Absent /\ UpgradeConforms(uPage.shown)
    BY <2>1 DEF UpgradeReadsOK, UpgradeAgreed, UpgradeAllConform
  <2>4. uSession.bytes # Absent => uPage'.asked \in {uSession.bytes} \cup UpgradeUnnamed
    BY <2>1, <2>3 DEF UpgradeConforms
  <2> QED BY <1>1, <1>3, <1>5, <2>1, <2>2, <2>3, <2>4 DEF UpgradeReadsOK, UpgradeAgreed, UpgradeAllConform
<1>10. ASSUME NEW c \in {"check", "download"}, Upgrade!Run(c)
       PROVE  UpgradeReadsOK' /\ UpgradeAgreed'
  <2>1. /\ uPage'.shown = uPage.shown /\ uPage'.dialog = "closed"
        /\ \A k \in UpgradeReads : uPoll'[k].answer = Absent /\ ~uPoll'[k].current
        /\ c = "download" => uPage.shown # Absent /\ ~uPage.shown.install
        /\ uCall' = [uCall EXCEPT ![c] = "sent"]
    BY <1>10 DEF Upgrade!Run, Upgrade!Send, Upgrade!Stale, UpgradePageOK, UpgradePanel, UpgradePoll, UpgradeReads
  <2>2. UpgradeReadsOK'
    BY <1>3, <2>1 DEF UpgradeReadsOK
  <2>3. CASE c = "check"
    <3>1. \A a : UpgradeConforms(a) => UpgradeConforms(a)'
      BY <1>1, <1>4, <2>1, <2>3 DEF UpgradeConforms, UpgradeFetching
    <3> QED BY <2>1, <2>2, <3>1 DEF UpgradeAgreed, UpgradeAllConform, UpgradeConforms
  <2>4. CASE c = "download"
    BY <2>1, <2>2, <2>4 DEF UpgradeAgreed
  <2> QED BY <2>3, <2>4
<1> QED BY <1>5, <1>6, <1>7, <1>8, <1>9, <1>10 DEF Upgrade!User

-----------------------------------------------------------------------------
(* The theorems.                                                           *)

LEMMA UpgradeInitShown == UpgradeSuitable /\ Upgrade!Init => UpgradeShownInv
<1> SUFFICES ASSUME UpgradeSuitable, Upgrade!Init PROVE UpgradeShownInv
  OBVIOUS
<1>1. UpgradeInv
  BY UpgradeInitInv
<1>2. UpgradeReadsOK /\ UpgradePackageOK /\ UpgradeAgreed
  BY DEF UpgradeSuitable, Upgrade!Init, Upgrade!NoUpdate, UpgradeReadsOK, UpgradePackageOK, UpgradeAgreed, UpgradeAllConform, UpgradeConforms, UpgradeChecking, UpgradeReads, Upgrade!Command
<1> QED BY <1>1, <1>2 DEF UpgradeShownInv

LEMMA UpgradeNextShown == UpgradeSuitable /\ UpgradeShownInv /\ [Upgrade!Next]_Upgrade!vars => UpgradeShownInv'
<1> SUFFICES ASSUME UpgradeSuitable, UpgradeShownInv, [Upgrade!Next]_Upgrade!vars PROVE UpgradeShownInv'
  OBVIOUS
<1>1. CASE Upgrade!Next
  <2>1. ASSUME NEW c \in Upgrade!Command, Upgrade!Handler(c) PROVE UpgradeShownInv'
    BY <2>1, UpgradeHandlerInv, UpgradeHandlerShown DEF UpgradeShownInv
  <2>2. ASSUME NEW c \in Upgrade!Command, Upgrade!Deliver(c) PROVE UpgradeShownInv'
    BY <2>2, UpgradeDeliverInv, UpgradeDeliverShown DEF UpgradeShownInv
  <2>3. CASE Upgrade!Polls
    BY <2>3, UpgradePollsInv, UpgradePollsShown DEF UpgradeShownInv
  <2>4. CASE Upgrade!User
    BY <2>4, UpgradeUserInv, UpgradeUserShown DEF UpgradeShownInv
  <2> QED BY <1>1, <2>1, <2>2, <2>3, <2>4 DEF Upgrade!Next
<1>2. CASE UNCHANGED Upgrade!vars
  BY <1>2 DEF Upgrade!vars, Upgrade!native, Upgrade!world, UpgradeShownInv, UpgradeInv, UpgradeStateOK, UpgradeBridgeOK, UpgradeNativeOK, UpgradeLockOK, UpgradeWorldOK, UpgradePageOK, UpgradeClosed,
     UpgradeSecured, UpgradeReadsOK, UpgradePackageOK, UpgradeAgreed, UpgradeAllConform, UpgradeConforms, UpgradeChecking, UpgradeFetching
<1> QED BY <1>1, <1>2

\* The inductive invariant: types, the lock, the closed gate, what each stage
\* has secured, which read counts, and which package every answer names.
THEOREM UpgradeInvariance == UpgradeSuitable => (Upgrade!Spec => []UpgradeShownInv)
<1> SUFFICES ASSUME UpgradeSuitable PROVE Upgrade!Spec => []UpgradeShownInv
  OBVIOUS
<1>1. Upgrade!Init => UpgradeShownInv
  BY UpgradeInitShown
<1>2. UpgradeShownInv /\ [Upgrade!Next]_Upgrade!vars => UpgradeShownInv'
  BY UpgradeNextShown
<1> QED BY <1>1, <1>2, PTL DEF Upgrade!Spec

\* Every variable keeps its type; whoever holds the lock is at work.
THEOREM UpgradeTypeCorrect == UpgradeSuitable => (Upgrade!Spec => []Upgrade!TypeOK)
<1> SUFFICES ASSUME UpgradeSuitable PROVE Upgrade!Spec => []Upgrade!TypeOK
  OBVIOUS
<1>1. UpgradeShownInv => Upgrade!TypeOK
  <2> SUFFICES ASSUME UpgradeShownInv PROVE Upgrade!TypeOK
    OBVIOUS
  <2>1. Upgrade!Status \in Upgrade!Answer
    BY UpgradeStatusType DEF UpgradeShownInv, UpgradeInv
  <2>2. uOperation # Absent => uCall[uOperation.by] \notin {"idle", "sent", "ok", "failed"}
    BY DEF UpgradeShownInv, UpgradeInv, UpgradeStateOK, UpgradeNativeOK, UpgradeLockOK, UpgradeHolder
  <2> QED BY <2>1, <2>2 DEF UpgradeShownInv, UpgradeInv, UpgradeStateOK, UpgradeBridgeOK, UpgradeNativeOK, UpgradeWorldOK, UpgradePageOK, Upgrade!TypeOK, UpgradeSession, UpgradePanel, UpgradeShown, UpgradeFeeds
<1>2. Upgrade!Spec => []UpgradeShownInv
  BY UpgradeInvariance
<1> QED BY <1>1, <1>2, PTL

\* No failure at any stage of an installation leaves neither an application nor
\* a copy of one, and a restart has a backup of every write.
THEOREM UpgradeSurvival == UpgradeSuitable => (Upgrade!Spec => []Upgrade!NothingIsLost)
<1> SUFFICES ASSUME UpgradeSuitable PROVE Upgrade!Spec => []Upgrade!NothingIsLost
  OBVIOUS
<1>1. UpgradeShownInv => Upgrade!NothingIsLost
  BY DEF UpgradeShownInv, UpgradeInv, UpgradeClosed, UpgradeSecured, Upgrade!NothingIsLost, Upgrade!BackupIsWhole, Upgrade!AppSurvives
<1>2. Upgrade!Spec => []UpgradeShownInv
  BY UpgradeInvariance
<1> QED BY <1>1, <1>2, PTL

\* What replaces the application is what the dialog named; with several feeds
\* it may have named nothing, but it never named another version.
UpgradeInstalledAsAgreed ==
    [][uCall["install"] = "replacing" /\ uDisk' # uDisk /\ uDisk' # Absent
         => uPage.asked \in {uDisk'} \cup UpgradeUnnamed]_Upgrade!vars

THEOREM UpgradeAgreement == UpgradeSuitable => (Upgrade!Spec => UpgradeInstalledAsAgreed)
<1> SUFFICES ASSUME UpgradeSuitable PROVE Upgrade!Spec => UpgradeInstalledAsAgreed
  OBVIOUS
<1>1. UpgradeShownInv /\ [Upgrade!Next]_Upgrade!vars =>
        [uCall["install"] = "replacing" /\ uDisk' # uDisk /\ uDisk' # Absent
           => uPage.asked \in {uDisk'} \cup UpgradeUnnamed]_Upgrade!vars
  <2> SUFFICES ASSUME UpgradeShownInv, Upgrade!Next, uCall["install"] = "replacing", uDisk' # uDisk, uDisk' # Absent
               PROVE  uPage.asked \in {uDisk'} \cup UpgradeUnnamed
    BY SMTT(60)
  <2>1. uDisk' = uSession.bytes
    BY DEF Upgrade!Next, Upgrade!Handler, Upgrade!Refused, Upgrade!CheckBegins, Upgrade!CheckAnswers, Upgrade!DownloadBegins, Upgrade!Verifying, Upgrade!DownloadEnds,
     Upgrade!SaveBegins, Upgrade!SaveEnds, Upgrade!InstallBegins, Upgrade!InstallChecks, Upgrade!BackUp, Upgrade!CopyApp, Upgrade!Replace, Upgrade!Restore, Upgrade!Restart,
     Upgrade!InstallFails, Upgrade!Page, Upgrade!Deliver, Upgrade!Polls, Upgrade!StartPoll, Upgrade!StatusAnswers, Upgrade!StatusArrives, Upgrade!User, Upgrade!OpenPage,
     Upgrade!ClosePage, Upgrade!CancelDownload, Upgrade!AskToInstall, Upgrade!Confirm, Upgrade!NotNow, Upgrade!Run, Upgrade!Edit, Upgrade!Save, Upgrade!ChangeSettings, Upgrade!native, Upgrade!Goes
  <2>2. uPage.dialog = "busy"
    BY DEF UpgradeShownInv, UpgradeInv, UpgradeClosed
  <2> QED BY <2>1, <2>2 DEF UpgradeShownInv, UpgradeAgreed
<1>2. Upgrade!Spec => []UpgradeShownInv
  BY UpgradeInvariance
<1> QED BY <1>1, <1>2, PTL DEF Upgrade!Spec, UpgradeInstalledAsAgreed

\* With one feed it is exactly what the dialog named.
THEOREM UpgradeAgreementOnOneFeed ==
  UpgradeSuitable /\ (\A f, g \in UpgradeFeed : f = g) => (Upgrade!Spec => Upgrade!InstalledAsShown)
<1> SUFFICES ASSUME UpgradeSuitable, \A f, g \in UpgradeFeed : f = g PROVE Upgrade!Spec => Upgrade!InstalledAsShown
  OBVIOUS
<1>1. [uCall["install"] = "replacing" /\ uDisk' # uDisk /\ uDisk' # Absent
         => uPage.asked \in {uDisk'} \cup UpgradeUnnamed]_Upgrade!vars
      => [uCall["install"] = "replacing" /\ uDisk' # uDisk /\ uDisk' # Absent => uDisk' = uPage.asked]_Upgrade!vars
  BY DEF UpgradeUnnamed
<1>2. Upgrade!Spec => UpgradeInstalledAsAgreed
  BY UpgradeAgreement
<1> QED BY <1>1, <1>2, PTL DEF UpgradeInstalledAsAgreed, Upgrade!InstalledAsShown

-----------------------------------------------------------------------------
(* Updates implements UpdateGate, step by step.                            *)

UpgradeRunning == Upgrade!Active \ {"install"}
UpgradeMode == IF uExited THEN "over" ELSE IF uInstalling THEN "closed" ELSE "open"

LEMMA UpgradeCommandsCounted == IsFiniteSet(Upgrade!Command) /\ Cardinality(Upgrade!Command) \in Nat
<1>1. IsFiniteSet({"check"})
  BY FS_Singleton
<1>2. IsFiniteSet({"check", "startup"})
  BY <1>1, FS_AddElement, {"check"} \cup {"startup"} = {"check", "startup"}
<1>3. IsFiniteSet({"check", "startup", "download"})
  BY <1>2, FS_AddElement, {"check", "startup"} \cup {"download"} = {"check", "startup", "download"}
<1>4. IsFiniteSet({"check", "startup", "download", "install"})
  BY <1>3, FS_AddElement,
     {"check", "startup", "download"} \cup {"install"} = {"check", "startup", "download", "install"}
<1>5. IsFiniteSet(Upgrade!Command)
  BY <1>4, FS_AddElement,
     {"check", "startup", "download", "install"} \cup {"save"} = Upgrade!Command DEF Upgrade!Command
<1> QED BY <1>5, FS_CardinalityType

\* What the module of the updates counts with is the library's operator.
LEMMA UpgradeCounts == ASSUME NEW S PROVE Upgrade!Cardinality(S) = Cardinality(S)
  BY Zenon DEF Cardinality, Upgrade!Cardinality

LEMMA UpgradeRunningIs ==
  ASSUME NEW S \in SUBSET Upgrade!Command, NEW c \in Upgrade!Command
  PROVE  /\ Cardinality(S \ {"install"}) \in 0 .. Cardinality(Upgrade!Command)
         /\ Cardinality(S \ {"install"}) = 0 <=> S \subseteq {"install"}
         /\ c # "install" /\ c \notin S =>
              /\ Cardinality((S \cup {c}) \ {"install"}) = Cardinality(S \ {"install"}) + 1
              /\ Cardinality(S \ {"install"}) < Cardinality(Upgrade!Command)
         /\ c # "install" /\ c \in S =>
              Cardinality((S \ {c}) \ {"install"}) = Cardinality(S \ {"install"}) - 1
<1>1. IsFiniteSet(Upgrade!Command) /\ Cardinality(Upgrade!Command) \in Nat
  BY UpgradeCommandsCounted
<1> DEFINE R == S \ {"install"}
<1>2. R \in SUBSET Upgrade!Command /\ IsFiniteSet(R) /\ Cardinality(R) \in Nat /\ Cardinality(R) <= Cardinality(Upgrade!Command)
  BY <1>1, FS_Subset, FS_CardinalityType
<1>3. Cardinality(R) = 0 <=> S \subseteq {"install"}
  BY <1>2, FS_EmptySet
<1>4. ASSUME c # "install", c \notin S
      PROVE  /\ Cardinality((S \cup {c}) \ {"install"}) = Cardinality(R) + 1
             /\ Cardinality(R) < Cardinality(Upgrade!Command)
  <2>1. (S \cup {c}) \ {"install"} = R \cup {c}
    BY <1>4
  <2>2. Cardinality(R \cup {c}) = Cardinality(R) + 1
    BY <1>2, <1>4, FS_AddElement
  <2>3. Cardinality(R \cup {c}) <= Cardinality(Upgrade!Command)
    <3>1. R \cup {c} \in SUBSET Upgrade!Command
      BY <1>2
    <3> QED BY <1>1, <3>1, FS_Subset
  <2>4. Cardinality(R) + 1 <= Cardinality(Upgrade!Command)
    BY <2>2, <2>3
  <2>5. Cardinality(R) \in Nat /\ Cardinality(Upgrade!Command) \in Nat
    BY <1>1, <1>2
  <2> HIDE DEF R
  <2>6. Cardinality(R) < Cardinality(Upgrade!Command)
    BY <2>4, <2>5
  <2> QED BY <2>1, <2>2, <2>6
<1>5. ASSUME c # "install", c \in S
      PROVE  Cardinality((S \ {c}) \ {"install"}) = Cardinality(R) - 1
  <2>1. (S \ {c}) \ {"install"} = R \ {c}
    BY <1>5
  <2> QED BY <1>2, <1>5, <2>1, FS_RemoveElement
<1> QED BY <1>1, <1>2, <1>3, <1>4, <1>5

LEMMA UpgradeRunningCounted ==
  ASSUME NEW S \in SUBSET Upgrade!Command, NEW c \in Upgrade!Command
  PROVE  /\ Upgrade!Cardinality(S \ {"install"}) \in 0 .. Upgrade!Cardinality(Upgrade!Command)
         /\ Upgrade!Cardinality(S \ {"install"}) = 0 <=> S \subseteq {"install"}
         /\ c # "install" /\ c \notin S =>
              /\ Upgrade!Cardinality((S \cup {c}) \ {"install"}) = Upgrade!Cardinality(S \ {"install"}) + 1
              /\ Upgrade!Cardinality(S \ {"install"}) < Upgrade!Cardinality(Upgrade!Command)
         /\ c # "install" /\ c \in S =>
              Upgrade!Cardinality((S \ {c}) \ {"install"}) = Upgrade!Cardinality(S \ {"install"}) - 1
<1>1. Upgrade!Cardinality(S \ {"install"}) = Cardinality(S \ {"install"})
  BY UpgradeCounts, Zenon
<1>2. Upgrade!Cardinality((S \cup {c}) \ {"install"}) = Cardinality((S \cup {c}) \ {"install"})
  BY UpgradeCounts, Zenon
<1>3. Upgrade!Cardinality((S \ {c}) \ {"install"}) = Cardinality((S \ {c}) \ {"install"})
  BY UpgradeCounts, Zenon
<1>4. Upgrade!Cardinality(Upgrade!Command) = Cardinality(Upgrade!Command)
  BY UpgradeCounts, Zenon
<1>5. /\ Cardinality(S \ {"install"}) \in 0 .. Cardinality(Upgrade!Command)
      /\ Cardinality(S \ {"install"}) = 0 <=> S \subseteq {"install"}
      /\ c # "install" /\ c \notin S =>
           /\ Cardinality((S \cup {c}) \ {"install"}) = Cardinality(S \ {"install"}) + 1
           /\ Cardinality(S \ {"install"}) < Cardinality(Upgrade!Command)
      /\ c # "install" /\ c \in S =>
           Cardinality((S \ {c}) \ {"install"}) = Cardinality(S \ {"install"}) - 1
  BY UpgradeRunningIs
<1> QED BY <1>1, <1>2, <1>3, <1>4, <1>5, Zenon

LEMMA UpgradeGateInit == Upgrade!Init => Upgrade!Gate!Init
<1> SUFFICES ASSUME Upgrade!Init PROVE Upgrade!Gate!Init
  OBVIOUS
<1>1. Upgrade!Active \in SUBSET Upgrade!Command
  BY DEF Upgrade!Active
<1> QED BY <1>1, UpgradeRunningCounted DEF Upgrade!Init, Upgrade!Gate!Init, Upgrade!Command

\* A command that is under way stays under way.
LEMMA UpgradeBusyStays ==
  ASSUME uCall \in [Upgrade!Command -> Upgrade!Stage], NEW c \in Upgrade!Command, uCall[c] # "idle",
         NEW s \in Upgrade!Stage \ {"idle"}, Upgrade!Becomes(c, s)
  PROVE  Upgrade!Active' = Upgrade!Active
  BY DEF Upgrade!Becomes, Upgrade!Active

\* The work of a handler is no step of the gate, but for the restart.
LEMMA UpgradeHandlerGate ==
  ASSUME UpgradeSuitable, UpgradeInv, NEW c \in Upgrade!Command, Upgrade!Handler(c)
  PROVE  [Upgrade!Gate!Next]_(Upgrade!Gate!vars)
<1> DEFINE Moves(d) == \E s \in Upgrade!Stage \ {"idle"} : Upgrade!Becomes(d, s)
<1> USE DEF Upgrade!Stage
<1>0. uCall \in [Upgrade!Command -> Upgrade!Stage] /\ "install" \in Upgrade!Command /\ "download" \in Upgrade!Command /\ "save" \in Upgrade!Command
  BY DEF UpgradeInv, UpgradeStateOK, UpgradeBridgeOK, Upgrade!Command
<1>1. UNCHANGED <<uInstalling, uUnsaved>>
  BY DEF Upgrade!Handler, Upgrade!Refused, Upgrade!CheckBegins, Upgrade!CheckAnswers, Upgrade!DownloadBegins, Upgrade!Verifying, Upgrade!DownloadEnds,
     Upgrade!SaveBegins, Upgrade!SaveEnds, Upgrade!InstallBegins, Upgrade!InstallChecks, Upgrade!BackUp, Upgrade!CopyApp, Upgrade!Replace, Upgrade!Restore, Upgrade!Restart, Upgrade!Page
<1>2. /\ uCall[c] # "idle" /\ ~uExited
      /\ UNCHANGED uCall \/ Moves(c)
      /\ uExited' = uExited \/ (uExited' = TRUE /\ uCall["install"] = "restarting")
  <2>1. CASE Upgrade!Refused(c) \/ Upgrade!CheckBegins(c) \/ Upgrade!CheckAnswers(c)
    BY <1>0, <2>1 DEF Upgrade!Refused, Upgrade!CheckBegins, Upgrade!CheckAnswers, Upgrade!Received, Upgrade!Goes, Upgrade!native
  <2>2. CASE c = "download" /\ (Upgrade!DownloadBegins \/ Upgrade!Verifying \/ Upgrade!DownloadEnds)
    BY <1>0, <2>2 DEF Upgrade!DownloadBegins, Upgrade!Verifying, Upgrade!DownloadEnds, Upgrade!Received, Upgrade!Goes
  <2>3. CASE c = "save" /\ (Upgrade!SaveBegins \/ Upgrade!SaveEnds)
    BY <1>0, <2>3 DEF Upgrade!SaveBegins, Upgrade!SaveEnds, Upgrade!Received, Upgrade!Goes, Upgrade!native
  <2>4. CASE c = "install" /\ (Upgrade!InstallBegins \/ Upgrade!InstallChecks \/ Upgrade!BackUp)
    BY <1>0, <2>4 DEF Upgrade!InstallBegins, Upgrade!InstallChecks, Upgrade!BackUp, Upgrade!InstallFails, Upgrade!Received, Upgrade!Goes
  <2>5. CASE c = "install" /\ (Upgrade!CopyApp \/ Upgrade!Replace \/ Upgrade!Restore)
    BY <1>0, <2>5 DEF Upgrade!CopyApp, Upgrade!Replace, Upgrade!Restore, Upgrade!InstallFails, Upgrade!Goes
  <2>6. CASE c = "install" /\ Upgrade!Restart
    BY <1>0, <2>6 DEF Upgrade!Restart, Upgrade!InstallFails, Upgrade!Goes
  <2> QED BY <2>1, <2>2, <2>3, <2>4, <2>5, <2>6 DEF Upgrade!Handler
<1>3. Upgrade!Active' = Upgrade!Active
  <2>1. CASE UNCHANGED uCall
    BY <2>1 DEF Upgrade!Active
  <2>2. CASE Moves(c)
    BY <1>0, <1>2, <2>2, UpgradeBusyStays
  <2> QED BY <1>2, <2>1, <2>2
<1>4. CASE uExited' = uExited
  BY <1>1, <1>3, <1>4 DEF Upgrade!Gate!vars
<1>5. CASE uExited' = TRUE /\ uCall["install"] = "restarting"
  <2>1. uInstalling
    BY <1>5 DEF UpgradeInv, UpgradeClosed
  <2>2. Upgrade!Gate!Restart
    BY <1>1, <1>2, <1>3, <1>5, <2>1 DEF Upgrade!Gate!Restart
  <2> QED BY <2>2 DEF Upgrade!Gate!Next
<1> QED BY <1>2, <1>4, <1>5

LEMMA UpgradeDeliverGate ==
  ASSUME UpgradeSuitable, UpgradeInv, NEW c \in Upgrade!Command, Upgrade!Deliver(c)
  PROVE  [Upgrade!Gate!Next]_(Upgrade!Gate!vars)
<1>1. /\ Upgrade!Active \in SUBSET Upgrade!Command /\ c \in Upgrade!Active /\ Upgrade!Active' = Upgrade!Active \ {c}
      /\ UNCHANGED uExited /\ ~uExited
      /\ uInstalling' = (uInstalling /\ c # "install")
      /\ uUnsaved' = (uUnsaved /\ ~(c = "save" /\ uCall[c] = "ok"))
  BY DEF Upgrade!Deliver, UpgradeInv, UpgradeStateOK, UpgradeBridgeOK, Upgrade!Active, Upgrade!Becomes, Upgrade!native
<1>2. CASE c = "install"
  <2>1. uInstalling /\ ~uInstalling' /\ Upgrade!Active' \ {"install"} = Upgrade!Active \ {"install"} /\ uUnsaved' = uUnsaved
    BY <1>1, <1>2 DEF UpgradeInv, UpgradeClosed, UpgradeStateOK, UpgradeBridgeOK, Upgrade!Active
  <2>2. Upgrade!Gate!Reopen
    BY <1>1, <2>1 DEF Upgrade!Gate!Reopen
  <2> QED BY <2>2 DEF Upgrade!Gate!Next
<1>3. CASE c # "install"
  <2> DEFINE now == Upgrade!Cardinality(Upgrade!Active \ {"install"})
             after == Upgrade!Cardinality(Upgrade!Active' \ {"install"})
  <2>1. uInstalling' = uInstalling /\ uUnsaved' \in {uUnsaved, FALSE}
    BY <1>1, <1>3 DEF UpgradeInv, UpgradeStateOK, UpgradeBridgeOK
  <2>2. after = now - 1 /\ now > 0
    <3>1. now \in 0 .. Upgrade!Cardinality(Upgrade!Command) /\ (now = 0 <=> Upgrade!Active \subseteq {"install"})
      BY <1>1, UpgradeRunningCounted
    <3>2. after = now - 1
      BY <1>1, <1>3, UpgradeRunningCounted
    <3>3. now # 0
      BY <1>1, <1>3, <3>1
    <3>4. Upgrade!Cardinality(Upgrade!Command) \in Nat
      BY UpgradeCommandsCounted, UpgradeCounts
    <3> QED BY <3>1, <3>2, <3>3, <3>4
  <2>3. UNCHANGED (IF uExited THEN "over" ELSE IF uInstalling THEN "closed" ELSE "open")
    BY <1>1, <2>1
  <2>4. Upgrade!Gate!End
    <3> HIDE DEF now, after
    <3>1. now > 0 /\ after = now - 1
      BY <2>2
    <3> USE DEF now, after
    <3> QED BY <2>1, <2>3, <3>1 DEF Upgrade!Gate!End
  <2> QED BY <2>4 DEF Upgrade!Gate!Next
<1> QED BY <1>2, <1>3

LEMMA UpgradePollsGate == Upgrade!Polls => UNCHANGED Upgrade!Gate!vars
<1> SUFFICES ASSUME Upgrade!Polls PROVE UNCHANGED Upgrade!Gate!vars
  OBVIOUS
<1>1. UNCHANGED <<uCall, uExited, uInstalling, uUnsaved>>
  BY DEF Upgrade!Polls, Upgrade!StartPoll, Upgrade!StatusAnswers, Upgrade!StatusArrives, Upgrade!native
<1> QED BY <1>1 DEF Upgrade!Gate!vars, Upgrade!Active

LEMMA UpgradeUserGate ==
  ASSUME UpgradeSuitable, UpgradeInv, Upgrade!User
  PROVE  [Upgrade!Gate!Next]_(Upgrade!Gate!vars)
<1> USE DEF UpgradeInv, UpgradeStateOK, UpgradeBridgeOK
<1>1. ~uExited /\ UNCHANGED uExited /\ Upgrade!Active \in SUBSET Upgrade!Command
  BY DEF Upgrade!User, Upgrade!OpenPage, Upgrade!ClosePage, Upgrade!CancelDownload, Upgrade!AskToInstall, Upgrade!Confirm, Upgrade!NotNow, Upgrade!Run, Upgrade!Edit, Upgrade!Save,
     Upgrade!ChangeSettings, Upgrade!native, Upgrade!Active
<1>2. ASSUME NEW c \in Upgrade!Command \ {"install"}, Upgrade!Send(c), UNCHANGED <<uInstalling, uUnsaved>>
      PROVE  Upgrade!Gate!Next
  <2>1. ~uInstalling /\ c \notin Upgrade!Active /\ Upgrade!Active' = Upgrade!Active \cup {c}
    BY <1>2 DEF Upgrade!Send, Upgrade!Active, Upgrade!Command, Upgrade!Stage
  <2>2. /\ Upgrade!Cardinality(Upgrade!Active' \ {"install"}) = Upgrade!Cardinality(Upgrade!Active \ {"install"}) + 1
        /\ Upgrade!Cardinality(Upgrade!Active \ {"install"}) < Upgrade!Cardinality(Upgrade!Command)
    BY <1>1, <1>2, <2>1, UpgradeRunningCounted
  <2>3. Upgrade!Gate!Begin
    BY <1>1, <1>2, <2>1, <2>2 DEF Upgrade!Gate!Begin
  <2> QED BY <2>3 DEF Upgrade!Gate!Next
<1>3. CASE Upgrade!OpenPage \/ Upgrade!ClosePage \/ Upgrade!CancelDownload \/ Upgrade!AskToInstall \/ Upgrade!NotNow
  BY <1>1, <1>3 DEF Upgrade!OpenPage, Upgrade!ClosePage, Upgrade!CancelDownload, Upgrade!AskToInstall, Upgrade!NotNow, Upgrade!native, Upgrade!Gate!vars, Upgrade!Active
<1>4. CASE Upgrade!Confirm
  <2>1. /\ ~uInstalling /\ ~uUnsaved /\ uInstalling' = TRUE /\ UNCHANGED uUnsaved
        /\ Upgrade!Active = {} /\ Upgrade!Active' = {"install"}
    BY <1>4 DEF Upgrade!Confirm, Upgrade!SendInstall, Upgrade!Active, Upgrade!Command
  <2>2. Upgrade!Active \ {"install"} = {} /\ Upgrade!Active' \ {"install"} = {}
    BY <2>1
  <2>3. Upgrade!Cardinality({}) = 0
    BY FS_EmptySet, UpgradeCounts
  <2>4. Upgrade!Gate!Close
    BY <1>1, <2>1, <2>2, <2>3 DEF Upgrade!Gate!Close
  <2> QED BY <2>4 DEF Upgrade!Gate!Next
<1>5. ASSUME NEW c \in {"check", "download"}, Upgrade!Run(c) PROVE Upgrade!Gate!Next
  BY <1>2, <1>5 DEF Upgrade!Run, Upgrade!Command
<1>6. CASE Upgrade!Edit
  <2>1. ~uInstalling
    BY <1>6 DEF UpgradeClosed, Upgrade!Edit
  <2>2. Upgrade!Gate!Edit
    BY <1>1, <1>6, <2>1 DEF Upgrade!Edit, Upgrade!Gate!Edit, Upgrade!Active
  <2> QED BY <2>2 DEF Upgrade!Gate!Next
<1>7. CASE Upgrade!Save
  BY <1>2, <1>7 DEF Upgrade!Save, Upgrade!Command
<1>8. CASE Upgrade!ChangeSettings
  <2>1. CASE Upgrade!Send("startup")
    BY <1>2, <1>8, <2>1 DEF Upgrade!ChangeSettings, Upgrade!Command
  <2>2. CASE UNCHANGED uCall
    BY <1>1, <1>8, <2>2 DEF Upgrade!ChangeSettings, Upgrade!Gate!vars, Upgrade!Active
  <2> QED BY <1>8, <2>1, <2>2 DEF Upgrade!ChangeSettings
<1> QED BY <1>3, <1>4, <1>5, <1>6, <1>7, <1>8 DEF Upgrade!User

\* The bridge, the page and the native handlers are a gate that closes on an
\* idle application with nothing unsaved and lets nothing pass while closed.
THEOREM UpgradeRefinement == UpgradeSuitable => (Upgrade!Spec => Upgrade!GateHolds)
<1> SUFFICES ASSUME UpgradeSuitable PROVE Upgrade!Spec => Upgrade!Gate!Spec
  BY DEF Upgrade!GateHolds
<1>1. Upgrade!Init => Upgrade!Gate!Init
  BY UpgradeGateInit
<1>2. UpgradeShownInv /\ [Upgrade!Next]_Upgrade!vars => [Upgrade!Gate!Next]_(Upgrade!Gate!vars)
  <2> SUFFICES ASSUME UpgradeInv, [Upgrade!Next]_Upgrade!vars PROVE [Upgrade!Gate!Next]_(Upgrade!Gate!vars)
    BY DEF UpgradeShownInv
  <2>1. CASE Upgrade!Next
    BY <2>1, UpgradeHandlerGate, UpgradeDeliverGate, UpgradePollsGate, UpgradeUserGate DEF Upgrade!Next
  <2>2. CASE UNCHANGED Upgrade!vars
    BY <2>2 DEF Upgrade!vars, Upgrade!native, Upgrade!Gate!vars, Upgrade!Active
  <2> QED BY <2>1, <2>2
<1>3. Upgrade!Spec => []UpgradeShownInv
  BY UpgradeInvariance
<1> QED BY <1>1, <1>2, <1>3, PTL DEF Upgrade!Spec, Upgrade!Gate!Spec

\* What the gate is for: while an update is being installed, and once the
\* application left for its restart, no other command is under way and no
\* editor has unsaved work (desktop-invoke.ts, invoke).
UpgradeIdleWhenClosed == uInstalling \/ uExited => Upgrade!Active \subseteq {"install"} /\ ~uUnsaved

THEOREM UpgradeClosedGateIsIdle == UpgradeSuitable => (Upgrade!Spec => []UpgradeIdleWhenClosed)
<1>1. UpgradeShownInv => UpgradeIdleWhenClosed
  BY DEF UpgradeShownInv, UpgradeInv, UpgradeClosed, UpgradeIdleWhenClosed, Upgrade!Active
<1>2. UpgradeSuitable => (Upgrade!Spec => []UpgradeShownInv)
  BY UpgradeInvariance
<1> QED BY <1>1, <1>2, PTL

-----------------------------------------------------------------------------
(* Connections                                                             *)

LEMMA ConnectNoneIsNeither == Absent \notin ConnectProfile \cup ConnectDetails
  BY ShellIsSuited DEF ConnectSuitable


ConnectStatuses == {"idle", "testing", "success", "error", "cancelled"}
ConnectKinds == {"none", "test", "create", "verify", "rename", "pick", "open", "delete"}
ConnectTest == [status : ConnectStatuses, phase : Connect!Phases, ssh : BOOLEAN, of : ConnectDetails \cup {Absent}]
ConnectList == [ConnectProfile -> ConnectDetails \cup {Absent}]
ConnectPanel == [list : ConnectList, dialog : BOOLEAN, editing : Connect!Form \cup {Absent}, form : Connect!Form, test : ConnectTest]
ConnectOperation == [kind : ConnectKinds, step : 0..3, form : Connect!Form \cup {Absent}, aborted : BOOLEAN, passed : BOOLEAN]
ConnectRow == [details : ConnectDetails \cup {Absent}, verified : SUBSET ConnectDetails]

ConnectShapes ==
  /\ cStore \in [ConnectProfile -> ConnectRow]
  /\ cPage \in ConnectProfile \cup {Absent}
  /\ cPanel \in ConnectPanel /\ cOp \in ConnectOperation
  /\ cListing \in [asked : BOOLEAN, answer : ConnectList \cup {Absent}]
  /\ cChooser \in BOOLEAN
  /\ Connect!Pending => cOp.form \in Connect!Form

\* What may be listed or opened was seen to work.
ConnectSeen(list) == \A p \in ConnectProfile : list[p] # Absent => list[p] \in cStore[p].verified
ConnectWorked(form) == form.id \in ConnectProfile /\ form.details \in cStore[form.id].verified

ConnectListed == ConnectSeen(cPanel.list) /\ (cListing.answer # Absent => ConnectSeen(cListing.answer))
ConnectOpens == cPanel.editing # Absent => ConnectWorked(cPanel.editing) /\ cPanel.form.id = cPanel.editing.id

ConnectOpOK ==
  /\ cOp.kind = "create" =>
       /\ cPanel.editing = Absent
       /\ cOp.step >= 1 => cOp.passed
       /\ cOp.step >= 2 => ConnectWorked(cOp.form) /\ cOp.form.id \in Connect!Saved
  /\ cOp.kind \in {"verify", "rename"} =>
       /\ cPanel.editing # Absent /\ cOp.form.id = cPanel.editing.id
       /\ (cOp.kind = "rename" \/ cOp.step >= 1) => ConnectWorked(cOp.form)
       /\ cOp.step >= 1 => cOp.form.id \in Connect!Saved
  /\ cOp.kind \in {"open", "delete"} => cOp.form.id \in ConnectProfile

ConnectPageOK ==
  cPage \in Connect!Saved \cup {Absent} \/ (cOp.kind = "delete" /\ cOp.step = 1 /\ cOp.form.id = cPage)
ConnectAdvances == cPanel.test.ssh => cPanel.test.phase >= 1

ConnectInv ==
  /\ ConnectShapes /\ Connect!SavedIsVerified /\ ConnectListed /\ ConnectOpens /\ ConnectOpOK /\ ConnectPageOK /\ ConnectAdvances

-----------------------------------------------------------------------------
LEMMA ConnectInitEstablishes == Connect!Init => ConnectInv
<1> SUFFICES ASSUME Connect!Init PROVE ConnectInv
  OBVIOUS
<1>1. PICK first \in SUBSET ConnectProfile, d \in ConnectDetails :
        cStore = [p \in ConnectProfile |-> IF p \in first THEN [details |-> d, verified |-> {d}] ELSE Connect!Unused]
  BY DEF Connect!Init
<1>2. cStore \in [ConnectProfile -> ConnectRow]
  BY <1>1 DEF ConnectRow, Connect!Unused
<1>3. Connect!SavedIsVerified
  BY <1>1 DEF Connect!SavedIsVerified, Connect!Saved, Connect!Unused
<1>4. (CHOOSE e \in ConnectDetails : TRUE) \in ConnectDetails
  BY <1>1
<1>c. PICK default \in ConnectDetails : default = CHOOSE e \in ConnectDetails : TRUE
  BY <1>4
<1>5. PICK form \in Connect!Form : form = Connect!NewForm(default)
  BY DEF Connect!NewForm, Connect!Form
<1>6. cPanel = [list |-> [p \in ConnectProfile |-> Absent], dialog |-> FALSE, editing |-> Absent, form |-> form, test |-> Connect!Idle]
  BY <1>c, <1>5 DEF Connect!Init
<1>7. Connect!Idle \in ConnectTest /\ [p \in ConnectProfile |-> Absent] \in ConnectList
  BY DEF Connect!Idle, ConnectTest, ConnectStatuses, Connect!Phases, ConnectList
<1>8. cPanel \in ConnectPanel /\ cPanel.editing = Absent /\ cPanel.list = [p \in ConnectProfile |-> Absent] /\ cPanel.test = Connect!Idle
  BY <1>5, <1>6, <1>7 DEF ConnectPanel
<1>9. cOp \in ConnectOperation /\ cOp.kind = "none"
  BY DEF Connect!Init, Connect!NoOp, ConnectOperation, ConnectKinds
<1>10. ConnectShapes
  BY <1>2, <1>8, <1>9 DEF Connect!Init, ConnectShapes, Connect!Pending
<1> QED BY <1>3, <1>8, <1>9, <1>10 DEF Connect!Init, ConnectInv, ConnectListed, ConnectSeen, ConnectOpens, ConnectOpOK, ConnectPageOK, ConnectAdvances, Connect!Idle

-----------------------------------------------------------------------------
(* The details seen to work under an id only become more.                  *)
ConnectMore == \A p \in ConnectProfile : cStore[p].verified \subseteq cStore'[p].verified

LEMMA ConnectSeenStays ==
  ASSUME ConnectMore, NEW list, ConnectSeen(list)
  PROVE  ConnectSeen(list)'
BY DEF ConnectMore, ConnectSeen

LEMMA ConnectWorkedStays ==
  ASSUME ConnectMore, NEW form, ConnectWorked(form)
  PROVE  ConnectWorked(form)'
BY DEF ConnectMore, ConnectWorked

\* A step of the dialog or of the list while no operation ends or begins and nothing is saved.
LEMMA ConnectPanelMoves ==
  ASSUME ConnectInv, UNCHANGED <<cStore, cPage, cOp>>,
         cPanel' \in ConnectPanel, cListing' \in [asked : BOOLEAN, answer : ConnectList \cup {Absent}], cChooser' \in BOOLEAN,
         ConnectSeen(cPanel'.list), cListing'.answer # Absent => ConnectSeen(cListing'.answer),
         \/ UNCHANGED <<cPanel.editing, cPanel.form.id>>
         \/ ~Connect!Pending /\ (cPanel'.editing = Absent \/ (ConnectWorked(cPanel'.editing) /\ cPanel'.form.id = cPanel'.editing.id)),
         cPanel'.test.ssh => cPanel'.test.phase >= 1
  PROVE  ConnectInv'
<1>1. ConnectShapes'
  BY DEF ConnectInv, ConnectShapes, Connect!Pending
<1>2. Connect!SavedIsVerified' /\ ConnectPageOK' /\ Connect!Saved' = Connect!Saved
  BY DEF ConnectInv, Connect!SavedIsVerified, Connect!Saved, ConnectPageOK
<1>3. ConnectListed'
  BY DEF ConnectListed, ConnectSeen
<1>4. ConnectOpens'
  BY DEF ConnectInv, ConnectOpens, ConnectWorked
<1>5. ConnectOpOK'
  BY <1>2 DEF ConnectInv, ConnectOpOK, ConnectWorked, Connect!Pending
<1> QED BY <1>1, <1>2, <1>3, <1>4, <1>5 DEF ConnectInv, ConnectAdvances

LEMMA ConnectListKeeps ==
  ASSUME ConnectInv, Connect!ListRead \/ Connect!ListDelivered \/ Connect!ListAskedAgain
  PROVE  ConnectInv'
<1>0. /\ cPanel \in ConnectPanel /\ cListing \in [asked : BOOLEAN, answer : ConnectList \cup {Absent}] /\ cChooser \in BOOLEAN
      /\ ConnectSeen(cPanel.list) /\ (cListing.answer # Absent => ConnectSeen(cListing.answer))
      /\ (cPanel.test.ssh => cPanel.test.phase >= 1) /\ cStore \in [ConnectProfile -> ConnectRow]
  BY DEF ConnectInv, ConnectShapes, ConnectListed, ConnectAdvances
<1>1. CASE Connect!ListRead
  <2>1. /\ cListing' = [cListing EXCEPT !.answer = Connect!Copy(cStore)]
        /\ UNCHANGED <<cStore, cPage, cPanel, cOp, cChooser>>
    BY <1>1 DEF Connect!ListRead
  <2>2. Connect!Copy(cStore) \in ConnectList
    BY <1>0 DEF Connect!Copy, ConnectList, ConnectRow
  <2>3. ConnectSeen(Connect!Copy(cStore))
    BY DEF ConnectInv, Connect!SavedIsVerified, Connect!Saved, ConnectSeen, Connect!Copy
  <2>4. cListing' \in [asked : BOOLEAN, answer : ConnectList \cup {Absent}] /\ cListing'.answer = Connect!Copy(cStore)
    BY <1>0, <2>1, <2>2
  <2> QED BY <1>0, <2>1, <2>3, <2>4, ConnectPanelMoves
<1>2. CASE Connect!ListDelivered
  <2>1. /\ cListing.answer # Absent /\ cPanel' = [cPanel EXCEPT !.list = cListing.answer]
        /\ cListing' = [asked |-> FALSE, answer |-> Absent]
        /\ UNCHANGED <<cStore, cPage, cOp, cChooser>>
    BY <1>2 DEF Connect!ListDelivered
  <2>2. cPanel' \in ConnectPanel /\ cPanel'.list = cListing.answer /\ cPanel'.editing = cPanel.editing
        /\ cPanel'.form = cPanel.form /\ cPanel'.test = cPanel.test
    BY <1>0, <2>1 DEF ConnectPanel
  <2>3. cListing' \in [asked : BOOLEAN, answer : ConnectList \cup {Absent}] /\ cListing'.answer = Absent
    BY <2>1
  <2> QED BY <1>0, <2>1, <2>2, <2>3, ConnectPanelMoves
<1>3. CASE Connect!ListAskedAgain
  <2>1. cListing' = [asked |-> TRUE, answer |-> Absent] /\ UNCHANGED <<cStore, cPage, cPanel, cOp, cChooser>>
    BY <1>3 DEF Connect!ListAskedAgain
  <2>2. cListing' \in [asked : BOOLEAN, answer : ConnectList \cup {Absent}] /\ cListing'.answer = Absent
    BY <2>1
  <2> QED BY <1>0, <2>1, <2>2, ConnectPanelMoves
<1> QED BY <1>1, <1>2, <1>3

LEMMA ConnectIdleIsTest == Connect!Idle \in ConnectTest /\ ~Connect!Idle.ssh
BY DEF Connect!Idle, ConnectTest, ConnectStatuses, Connect!Phases

LEMMA ConnectTestStarts ==
  ASSUME NEW status \in ConnectStatuses, NEW of \in ConnectDetails \cup {Absent},
         NEW test, test = [Connect!Idle EXCEPT !.status = status, !.of = of]
  PROVE  test \in ConnectTest /\ ~test.ssh
<1>1. /\ test.status = status /\ test.of = of /\ test.phase = Connect!Idle.phase /\ test.ssh = Connect!Idle.ssh
      /\ test = [status |-> test.status, phase |-> test.phase, ssh |-> test.ssh, of |-> test.of]
  BY DEF Connect!Idle
<1> QED BY <1>1, ConnectIdleIsTest DEF ConnectTest

LEMMA ConnectTestForgets ==
  ASSUME NEW status \in ConnectStatuses, NEW test, test = [Connect!Idle EXCEPT !.status = status]
  PROVE  test \in ConnectTest /\ ~test.ssh
BY ConnectIdleIsTest DEF ConnectTest

LEMMA ConnectNoOpIsOperation == Connect!NoOp \in ConnectOperation /\ Connect!NoOp.step = 0
BY DEF Connect!NoOp, ConnectOperation, ConnectKinds

LEMMA ConnectNewFormIsForm == \A d \in ConnectDetails : Connect!NewForm(d) \in Connect!Form
BY DEF Connect!NewForm, Connect!Form

LEMMA ConnectDialogKeeps ==
  ASSUME ConnectInv,
         \/ \E d \in ConnectDetails : Connect!OpenCreate(d) \/ Connect!EditForm(d) \/ Connect!FileChosen(d)
         \/ \E p \in ConnectProfile : Connect!OpenEdit(p)
         \/ Connect!CloseDialog \/ Connect!ChooseFile \/ Connect!TestProgress
  PROVE  ConnectInv'
<1>0. /\ cPanel \in ConnectPanel /\ cListing \in [asked : BOOLEAN, answer : ConnectList \cup {Absent}] /\ cChooser \in BOOLEAN
      /\ ConnectSeen(cPanel.list) /\ (cListing.answer # Absent => ConnectSeen(cListing.answer))
      /\ (cPanel.test.ssh => cPanel.test.phase >= 1) /\ cPanel.list \in ConnectList /\ cPanel.form \in Connect!Form
      /\ cPanel.test \in ConnectTest
  BY DEF ConnectInv, ConnectShapes, ConnectListed, ConnectAdvances, ConnectPanel
<1>1. ASSUME NEW d \in ConnectDetails, Connect!OpenCreate(d) PROVE ConnectInv'
  <2>1. /\ ~Connect!Pending /\ UNCHANGED <<cStore, cPage, cOp, cListing, cChooser>>
        /\ cPanel' = [cPanel EXCEPT !.dialog = TRUE, !.editing = Absent, !.form = Connect!NewForm(d), !.test = Connect!Idle]
    BY <1>1 DEF Connect!OpenCreate
  <2>2. /\ cPanel' \in ConnectPanel /\ cPanel'.list = cPanel.list /\ cPanel'.editing = Absent /\ cPanel'.test = Connect!Idle
    BY <1>0, <2>1, ConnectNewFormIsForm, ConnectIdleIsTest DEF ConnectPanel
  <2> QED BY <1>0, <2>1, <2>2, ConnectIdleIsTest, ConnectPanelMoves
<1>2. ASSUME NEW d \in ConnectDetails, Connect!Changed(d), UNCHANGED <<cStore, cPage, cOp, cListing>>, cChooser' \in BOOLEAN
      PROVE  ConnectInv'
  <2>1. PICK form : form = [cPanel.form EXCEPT !.details = d]
    OBVIOUS
  <2>2. form \in Connect!Form /\ form.id = cPanel.form.id
    BY <1>0, <2>1 DEF Connect!Form
  <2>3. cPanel' = [cPanel EXCEPT !.form = form, !.test = Connect!Idle]
    BY <1>2, <2>1 DEF Connect!Changed
  <2>4. /\ cPanel' \in ConnectPanel /\ cPanel'.list = cPanel.list /\ cPanel'.editing = cPanel.editing
        /\ cPanel'.form.id = cPanel.form.id /\ cPanel'.test = Connect!Idle
    BY <1>0, <2>2, <2>3, ConnectNewFormIsForm, ConnectIdleIsTest DEF ConnectPanel
  <2> QED BY <1>0, <1>2, <2>4, ConnectIdleIsTest, ConnectPanelMoves
<1>3. ASSUME NEW p \in ConnectProfile, Connect!OpenEdit(p) PROVE ConnectInv'
  <2>1. PICK form : form = [id |-> p, details |-> cPanel.list[p]]
    OBVIOUS
  <2>2. /\ ~Connect!Pending /\ UNCHANGED <<cStore, cPage, cOp, cListing, cChooser>> /\ cPanel.list[p] # Absent
        /\ cPanel' = [cPanel EXCEPT !.dialog = TRUE, !.editing = form, !.form = form, !.test = Connect!Idle]
    BY <1>3, <2>1 DEF Connect!OpenEdit, Connect!Offered
  <2>3. form \in Connect!Form /\ form.id = p /\ form.details = cPanel.list[p]
    BY <1>0, <2>1, <2>2 DEF Connect!Form, ConnectList
  <2>4. ConnectWorked(form)
    BY <1>0, <2>2, <2>3 DEF ConnectWorked, ConnectSeen
  <2>5. /\ cPanel' \in ConnectPanel /\ cPanel'.list = cPanel.list /\ cPanel'.editing = form /\ cPanel'.form = form
        /\ cPanel'.test = Connect!Idle
    BY <1>0, <2>2, <2>3, ConnectNewFormIsForm, ConnectIdleIsTest DEF ConnectPanel
  <2>6. ~Connect!Idle.ssh
    BY DEF Connect!Idle
  <2> QED BY <1>0, <2>2, <2>4, <2>5, <2>6, ConnectPanelMoves
<1>4. CASE Connect!CloseDialog
  <2>1. UNCHANGED <<cStore, cPage, cOp, cListing, cChooser>> /\ cPanel' = [cPanel EXCEPT !.dialog = FALSE]
    BY <1>4 DEF Connect!CloseDialog
  <2>2. /\ cPanel' \in ConnectPanel /\ cPanel'.list = cPanel.list /\ cPanel'.editing = cPanel.editing
        /\ cPanel'.form = cPanel.form /\ cPanel'.test = cPanel.test
    BY <1>0, <2>1 DEF ConnectPanel
  <2> QED BY <1>0, <2>1, <2>2, ConnectPanelMoves
<1>5. CASE Connect!ChooseFile
  BY <1>0, <1>5, ConnectPanelMoves DEF Connect!ChooseFile
<1>6. CASE Connect!TestProgress
  <2>1. PICK test : test = [cPanel.test EXCEPT !.phase = @ + 1, !.ssh = cPanel.test.phase >= 1]
    OBVIOUS
  <2>b. (cPanel.test.phase >= 1) \in BOOLEAN
    OBVIOUS
  <2>2. /\ UNCHANGED <<cStore, cPage, cOp, cListing, cChooser>> /\ cPanel.test.phase < 4
        /\ cPanel' = [cPanel EXCEPT !.test.phase = @ + 1, !.test.ssh = cPanel.test.phase >= 1]
    BY <1>6 DEF Connect!TestProgress
  <2>3. cPanel.test.phase \in 0..4
    BY <1>0 DEF ConnectTest, Connect!Phases
  <2>4. test \in ConnectTest /\ test.phase = cPanel.test.phase + 1
    <3>1. PICK far : far = (cPanel.test.phase >= 1)
      OBVIOUS
    <3>2. PICK next \in 0..4 : next = cPanel.test.phase + 1
      BY <2>2, <2>3
    <3>3. far \in BOOLEAN
      BY <3>1
    <3>4. test = [cPanel.test EXCEPT !.phase = next, !.ssh = far]
      BY <2>1, <3>1, <3>2
    <3> QED BY <1>0, <3>2, <3>3, <3>4 DEF ConnectTest, Connect!Phases
  <2>5. cPanel' = [cPanel EXCEPT !.test = test]
    BY <1>0, <2>1, <2>2 DEF ConnectPanel, ConnectTest
  <2>6. /\ cPanel' \in ConnectPanel /\ cPanel'.list = cPanel.list /\ cPanel'.editing = cPanel.editing
        /\ cPanel'.form = cPanel.form /\ cPanel'.test = test
    BY <1>0, <2>4, <2>5 DEF ConnectPanel
  <2>7. test.phase >= 1
    BY <2>3, <2>4
  <2> QED BY <1>0, <2>2, <2>6, <2>7, ConnectPanelMoves
<1>7. ASSUME NEW d \in ConnectDetails, Connect!EditForm(d) PROVE ConnectInv'
  BY <1>0, <1>7, <1>2 DEF Connect!EditForm
<1>8. ASSUME NEW d \in ConnectDetails, Connect!FileChosen(d) PROVE ConnectInv'
  BY <1>0, <1>8, <1>2 DEF Connect!FileChosen
<1> QED BY <1>1, <1>3, <1>4, <1>5, <1>6, <1>7, <1>8

-----------------------------------------------------------------------------
(* Operations                                                              *)

\* An operation begins with the form it will save, or with the source it is about.
LEMMA ConnectBeginKeeps ==
  ASSUME ConnectInv, NEW kind \in ConnectKinds \ {"none"}, NEW target \in Connect!Form, Connect!Begin(kind, target),
         cPanel' \in ConnectPanel, UNCHANGED <<cPanel.list, cPanel.editing, cPanel.form>>,
         cPanel'.test.ssh => cPanel'.test.phase >= 1,
         kind = "create" => cPanel.editing = Absent,
         kind \in {"verify", "rename"} => cPanel.editing # Absent /\ target.id = cPanel.editing.id,
         kind = "rename" => ConnectWorked(target),
         kind \in {"open", "delete"} => target.id \in ConnectProfile
  PROVE  ConnectInv'
<1>1. /\ ~Connect!Pending /\ UNCHANGED <<cStore, cPage, cListing, cChooser>>
      /\ cOp' = [Connect!NoOp EXCEPT !.kind = kind, !.form = target]
  BY DEF Connect!Begin
<1>2. cOp' \in ConnectOperation /\ cOp'.kind = kind /\ cOp'.form = target /\ cOp'.step = 0
  <2>1. kind \in ConnectKinds /\ target \in Connect!Form \cup {Absent}
    OBVIOUS
  <2>2. PICK started : started = [Connect!NoOp EXCEPT !.kind = kind, !.form = target]
    OBVIOUS
  <2>3. started \in ConnectOperation /\ started.kind = kind /\ started.form = target /\ started.step = 0
    <3>1. PICK mid : mid = [Connect!NoOp EXCEPT !.kind = kind]
      OBVIOUS
    <3>2. mid \in ConnectOperation /\ mid.kind = kind /\ mid.step = 0
      BY <2>1, <3>1, ConnectNoOpIsOperation DEF ConnectOperation
    <3>3. started = [mid EXCEPT !.form = target]
      BY <2>2, <3>1, ConnectNoOpIsOperation DEF ConnectOperation
    <3> QED BY <2>1, <3>2, <3>3 DEF ConnectOperation
  <2> QED BY <1>1, <2>2, <2>3
<1>3. ConnectShapes'
  BY <1>1, <1>2 DEF ConnectInv, ConnectShapes
<1>4. Connect!SavedIsVerified' /\ ConnectListed' /\ ConnectOpens' /\ ConnectAdvances' /\ ConnectPageOK' /\ Connect!Saved' = Connect!Saved
  BY <1>1, <1>2 DEF ConnectInv, Connect!SavedIsVerified, Connect!Saved, ConnectListed, ConnectSeen, ConnectOpens, ConnectWorked, ConnectAdvances, ConnectPageOK,
                    Connect!Pending
<1>5. ConnectOpOK'
  BY <1>1, <1>2 DEF ConnectOpOK, ConnectWorked
<1> QED BY <1>3, <1>4, <1>5 DEF ConnectInv

\* An operation ends: the panel is free, and what it shows was seen to work.
LEMMA ConnectEndKeeps ==
  ASSUME ConnectInv, Connect!Ends, UNCHANGED <<cStore, cListing, cChooser>>,
         cPage' \in Connect!Saved \cup {Absent}, cPanel' \in ConnectPanel, ConnectSeen(cPanel'.list),
         cPanel'.editing = Absent \/ (ConnectWorked(cPanel'.editing) /\ cPanel'.form.id = cPanel'.editing.id),
         cPanel'.test.ssh => cPanel'.test.phase >= 1
  PROVE  ConnectInv'
<1>1. cOp' \in ConnectOperation /\ cOp'.kind = "none"
  BY DEF Connect!Ends, Connect!NoOp, ConnectOperation, ConnectKinds
<1>2. ConnectShapes'
  BY <1>1 DEF ConnectInv, ConnectShapes, Connect!Pending, Connect!Saved
<1>3. Connect!SavedIsVerified' /\ ConnectListed' /\ ConnectOpens' /\ ConnectAdvances' /\ ConnectPageOK'
  BY <1>1 DEF ConnectInv, Connect!SavedIsVerified, Connect!Saved, ConnectListed, ConnectSeen, ConnectOpens, ConnectWorked, ConnectAdvances, ConnectPageOK
<1> QED BY <1>1, <1>2, <1>3 DEF ConnectInv, ConnectOpOK

LEMMA ConnectInvFacts ==
  ASSUME ConnectInv
  PROVE  /\ cPanel \in ConnectPanel /\ cOp \in ConnectOperation /\ cStore \in [ConnectProfile -> ConnectRow] /\ cPage \in ConnectProfile \cup {Absent}
         /\ cListing \in [asked : BOOLEAN, answer : ConnectList \cup {Absent}] /\ cChooser \in BOOLEAN
         /\ cPanel.list \in ConnectList /\ cPanel.form \in Connect!Form /\ cPanel.editing \in Connect!Form \cup {Absent}
         /\ cPanel.test \in ConnectTest /\ ConnectSeen(cPanel.list) /\ (cListing.answer # Absent => ConnectSeen(cListing.answer))
         /\ (cPanel.editing # Absent => ConnectWorked(cPanel.editing) /\ cPanel.form.id = cPanel.editing.id)
         /\ (cPanel.test.ssh => cPanel.test.phase >= 1) /\ Absent \notin ConnectDetails /\ Absent \notin ConnectProfile
         /\ (Connect!Pending => cOp.form \in Connect!Form /\ cOp.form.details \in ConnectDetails)
         /\ (cOp.kind # "delete" => cPage \in Connect!Saved \cup {Absent})
         /\ (cOp.step # 1 => cPage \in Connect!Saved \cup {Absent})
BY ConnectNoneIsNeither DEF ConnectInv, ConnectShapes, ConnectPanel, ConnectListed, ConnectOpens, ConnectAdvances, ConnectPageOK, Connect!Form

LEMMA ConnectBeginsKeep ==
  ASSUME ConnectInv,
         Connect!BeginTest \/ Connect!BeginSubmit \/ Connect!BeginVerify \/ Connect!BeginDelete \/ Connect!BeginPick \/ \E p \in ConnectProfile : Connect!BeginOpen(p)
  PROVE  ConnectInv'
<1>0. /\ cPanel \in ConnectPanel /\ cPanel.list \in ConnectList /\ cPanel.form \in Connect!Form /\ cPanel.editing \in Connect!Form \cup {Absent}
      /\ cPanel.test \in ConnectTest /\ (cPanel.test.ssh => cPanel.test.phase >= 1)
      /\ (cPanel.editing # Absent => ConnectWorked(cPanel.editing) /\ cPanel.form.id = cPanel.editing.id)
      /\ cPanel.form.details \in ConnectDetails
  BY ConnectInvFacts DEF Connect!Form
<1>1. CASE Connect!BeginTest
  <2>1. PICK test : test = [Connect!Idle EXCEPT !.status = "testing", !.of = cPanel.form.details]
    OBVIOUS
  <2>2. test \in ConnectTest /\ ~test.ssh
    BY <1>0, <2>1, ConnectTestStarts DEF ConnectStatuses
  <2>3. Connect!Begin("test", cPanel.form) /\ cPanel' = [cPanel EXCEPT !.test = test]
    BY <1>1, <2>1 DEF Connect!BeginTest
  <2>4. /\ cPanel' \in ConnectPanel /\ cPanel'.list = cPanel.list /\ cPanel'.editing = cPanel.editing
        /\ cPanel'.form = cPanel.form /\ cPanel'.test = test
    BY <1>0, <2>2, <2>3 DEF ConnectPanel
  <2>5. "test" \in ConnectKinds \ {"none"}
    BY DEF ConnectKinds
  <2> QED BY <1>0, <2>2, <2>3, <2>4, <2>5, ConnectBeginKeeps
<1>2. CASE Connect!BeginSubmit
  <2>1. PICK kind : kind = IF cPanel.editing = Absent THEN "create" ELSE IF Connect!LiveChange THEN "verify" ELSE "rename"
    OBVIOUS
  <2>2. Connect!Begin(kind, cPanel.form) /\ cPanel' = cPanel
    BY <1>2, <2>1 DEF Connect!BeginSubmit
  <2>3. /\ kind \in ConnectKinds \ {"none"} /\ kind \notin {"open", "delete"}
        /\ kind = "create" => cPanel.editing = Absent
        /\ kind \in {"verify", "rename"} => cPanel.editing # Absent /\ cPanel.form.id = cPanel.editing.id
    BY <1>0, <2>1 DEF ConnectKinds
  <2>4. kind = "rename" => ConnectWorked(cPanel.form)
    BY <1>0, <2>1 DEF Connect!LiveChange, ConnectWorked
  <2> QED BY <1>0, <2>2, <2>3, <2>4, ConnectBeginKeeps
<1>3. CASE Connect!BeginVerify
  <2>1. Connect!Begin("verify", cPanel.form) /\ cPanel' = cPanel /\ cPanel.editing # Absent /\ "verify" \in ConnectKinds \ {"none"}
    BY <1>3 DEF Connect!BeginVerify, ConnectKinds
  <2> QED BY <1>0, <2>1, ConnectBeginKeeps
<1>4. CASE Connect!BeginDelete
  <2>1. /\ Connect!Begin("delete", cPanel.editing) /\ cPanel' = cPanel /\ cPanel.editing # Absent
        /\ "delete" \in ConnectKinds \ {"none"} /\ cPanel.editing \in Connect!Form /\ cPanel.editing.id \in ConnectProfile
    BY <1>0, <1>4 DEF Connect!BeginDelete, ConnectKinds, ConnectWorked
  <2> QED BY <1>0, <2>1, ConnectBeginKeeps
<1>5. CASE Connect!BeginPick
  <2>1. Connect!Begin("pick", cPanel.form) /\ cPanel' = cPanel /\ "pick" \in ConnectKinds \ {"none"}
    BY <1>5 DEF Connect!BeginPick, ConnectKinds
  <2> QED BY <1>0, <2>1, ConnectBeginKeeps
<1>6. ASSUME NEW p \in ConnectProfile, Connect!BeginOpen(p) PROVE ConnectInv'
  <2>1. PICK target : target = [id |-> p, details |-> cPanel.list[p]]
    OBVIOUS
  <2>2. Connect!Begin("open", target) /\ cPanel' = cPanel /\ cPanel.list[p] # Absent /\ "open" \in ConnectKinds \ {"none"}
    BY <1>6, <2>1 DEF Connect!BeginOpen, Connect!Offered, ConnectKinds
  <2>3. target \in Connect!Form /\ target.id \in ConnectProfile
    BY <1>0, <2>1, <2>2 DEF Connect!Form, ConnectList
  <2> QED BY <1>0, <2>2, <2>3, ConnectBeginKeeps
<1> QED BY <1>1, <1>2, <1>3, <1>4, <1>5, <1>6

LEMMA ConnectCancelTestKeeps ==
  ASSUME ConnectInv, Connect!CancelTest
  PROVE  ConnectInv'
<1>1. /\ UNCHANGED <<cStore, cPage, cPanel, cListing, cChooser>> /\ cOp.kind = "test"
      /\ cOp' = [cOp EXCEPT !.aborted = TRUE] /\ cOp \in ConnectOperation
  BY ConnectInvFacts DEF Connect!CancelTest
<1>2. cOp' \in ConnectOperation /\ cOp'.kind = cOp.kind /\ cOp'.form = cOp.form /\ cOp'.step = cOp.step
  BY <1>1 DEF ConnectOperation
<1> QED BY <1>1, <1>2 DEF ConnectInv, ConnectShapes, Connect!Pending, Connect!SavedIsVerified, Connect!Saved, ConnectListed, ConnectSeen, ConnectOpens, ConnectWorked,
                          ConnectOpOK, ConnectPageOK, ConnectAdvances

LEMMA ConnectOutcomeIsTest ==
  ASSUME ConnectInv, Connect!Pending, NEW status \in ConnectStatuses
  PROVE  Connect!Outcome(status) \in ConnectTest /\ (Connect!Outcome(status).ssh => Connect!Outcome(status).phase >= 1)
<1>1. cPanel.test \in ConnectTest /\ (cPanel.test.ssh => cPanel.test.phase >= 1) /\ cOp.form.details \in ConnectDetails
  BY ConnectInvFacts
<1>2. CASE cPanel.test.status = "testing"
  <2>1. Connect!Outcome(status) = [cPanel.test EXCEPT !.status = status]
    BY <1>2 DEF Connect!Outcome
  <2> QED BY <1>1, <2>1 DEF ConnectTest
<1>3. CASE cPanel.test.status # "testing"
  <2>1. Connect!Outcome(status) = [Connect!Idle EXCEPT !.status = status, !.of = cOp.form.details]
    BY <1>3 DEF Connect!Outcome
  <2>2. cOp.form.details \in ConnectDetails \cup {Absent}
    BY <1>1
  <2>3. PICK test : test = [Connect!Idle EXCEPT !.status = status, !.of = cOp.form.details]
    OBVIOUS
  <2>4. test \in ConnectTest /\ ~test.ssh
    BY <2>2, <2>3, ConnectTestStarts
  <2> QED BY <2>1, <2>3, <2>4
<1> QED BY <1>2, <1>3

\* The panel's test is replaced as an operation ends.
LEMMA ConnectTestEnds ==
  ASSUME ConnectInv, Connect!Pending, Connect!Ends, UNCHANGED <<cStore, cPage, cListing, cChooser>>, cPage \in Connect!Saved \cup {Absent},
         NEW test \in ConnectTest, test.ssh => test.phase >= 1,
         cPanel' = [cPanel EXCEPT !.test = test]
  PROVE  ConnectInv'
<1>1. /\ cPanel' \in ConnectPanel /\ cPanel'.list = cPanel.list /\ cPanel'.editing = cPanel.editing
      /\ cPanel'.form = cPanel.form /\ cPanel'.test = test
  BY ConnectInvFacts DEF ConnectPanel
<1> QED BY <1>1, ConnectInvFacts, ConnectEndKeeps

LEMMA ConnectTestAnsweredKeeps ==
  ASSUME ConnectInv, NEW passed \in BOOLEAN, Connect!TestAnswered(passed)
  PROVE  ConnectInv'
<1>0. /\ cOp.kind = "test" /\ Connect!Pending /\ cPage \in Connect!Saved \cup {Absent} /\ cOp.form.details \in ConnectDetails
      /\ Connect!Ends /\ UNCHANGED <<cStore, cPage, cListing, cChooser>>
  BY ConnectInvFacts DEF Connect!TestAnswered, Connect!Pending
<1>1. PICK test : test = IF cOp.aborted THEN Connect!Outcome("cancelled")
                         ELSE IF passed THEN [Connect!Idle EXCEPT !.status = "success", !.of = cOp.form.details]
                         ELSE Connect!Outcome("error")
  OBVIOUS
<1>2. cPanel' = [cPanel EXCEPT !.test = test]
  BY <1>1 DEF Connect!TestAnswered
<1>3. PICK good : good = [Connect!Idle EXCEPT !.status = "success", !.of = cOp.form.details]
  OBVIOUS
<1>g. good \in ConnectTest /\ ~good.ssh
  BY <1>0, <1>3, ConnectTestStarts DEF ConnectStatuses
<1>4. test \in ConnectTest /\ (test.ssh => test.phase >= 1)
  <2>1. "cancelled" \in ConnectStatuses /\ "error" \in ConnectStatuses
    BY DEF ConnectStatuses
  <2> QED BY <1>0, <1>1, <1>3, <1>g, <2>1, ConnectOutcomeIsTest
<1> QED BY <1>0, <1>2, <1>4, ConnectTestEnds

LEMMA ConnectOpFailsKeeps ==
  ASSUME ConnectInv, Connect!OpFails
  PROVE  ConnectInv'
<1>0. /\ cOp.kind \in {"create", "verify", "rename", "delete", "open"} /\ Connect!Pending
      /\ (cOp.step = 0 \/ (cOp.kind = "create" /\ cOp.step # 2))
      /\ Connect!Ends /\ UNCHANGED <<cStore, cPage, cListing, cChooser>>
  BY DEF Connect!OpFails, Connect!Pending
<1>1. cPage \in Connect!Saved \cup {Absent}
  BY <1>0, ConnectInvFacts
<1>2. PICK status \in {"idle", "error"} :
        cPanel' = IF cOp.kind \in {"delete", "open"} THEN cPanel ELSE [cPanel EXCEPT !.test = [Connect!Idle EXCEPT !.status = status]]
  BY DEF Connect!OpFails
<1>3. CASE cPanel' = cPanel
  BY <1>0, <1>1, <1>3, ConnectInvFacts, ConnectEndKeeps
<1>4. CASE cPanel' = [cPanel EXCEPT !.test = [Connect!Idle EXCEPT !.status = status]]
  <2>1. PICK test : test = [Connect!Idle EXCEPT !.status = status]
    OBVIOUS
  <2>2. test \in ConnectTest /\ ~test.ssh /\ cPanel' = [cPanel EXCEPT !.test = test]
    BY <1>4, <2>1, ConnectTestForgets DEF ConnectStatuses
  <2> QED BY <1>0, <1>1, <2>2, ConnectTestEnds
<1> QED BY <1>2, <1>3, <1>4

LEMMA ConnectPickedKeeps ==
  ASSUME ConnectInv, NEW d \in ConnectDetails, Connect!Picked(d)
  PROVE  ConnectInv'
<1>0. cOp.kind = "pick" /\ Connect!Ends /\ UNCHANGED <<cStore, cPage, cListing, cChooser>> /\ cPage \in Connect!Saved \cup {Absent}
  BY ConnectInvFacts DEF Connect!Picked
<1>1. CASE cPanel' = cPanel
  BY <1>0, <1>1, ConnectInvFacts, ConnectEndKeeps
<1>2. CASE Connect!Changed(d)
  <2>1. PICK form : form = [cPanel.form EXCEPT !.details = d]
    OBVIOUS
  <2>2. form \in Connect!Form /\ form.id = cPanel.form.id
    BY <2>1, ConnectInvFacts DEF Connect!Form
  <2>3. cPanel' = [cPanel EXCEPT !.form = form, !.test = Connect!Idle]
    BY <1>2, <2>1 DEF Connect!Changed
  <2>4. /\ cPanel' \in ConnectPanel /\ cPanel'.list = cPanel.list /\ cPanel'.editing = cPanel.editing
        /\ cPanel'.form.id = cPanel.form.id /\ cPanel'.test = Connect!Idle
    BY <2>2, <2>3, ConnectInvFacts, ConnectIdleIsTest DEF ConnectPanel
  <2> QED BY <1>0, <2>4, ConnectInvFacts, ConnectIdleIsTest, ConnectEndKeeps
<1> QED BY <1>1, <1>2 DEF Connect!Picked

\* A new source is tested, and saved only then; its id was not used before.
LEMMA ConnectCreateTestedKeeps ==
  ASSUME ConnectInv, NEW passed \in BOOLEAN, Connect!CreateTested(passed)
  PROVE  ConnectInv'
<1>1. /\ UNCHANGED <<cStore, cPage, cPanel, cListing, cChooser>> /\ cOp.kind = "create" /\ cOp.step = 0
      /\ cOp' = [cOp EXCEPT !.step = 1, !.passed = TRUE] /\ cOp \in ConnectOperation
  BY ConnectInvFacts DEF Connect!CreateTested
<1>a. PICK yes \in BOOLEAN : yes = TRUE
  OBVIOUS
<1>b. cOp' = [cOp EXCEPT !.step = 1, !.passed = yes]
  BY <1>1, <1>a
<1>2. cOp' \in ConnectOperation /\ cOp'.kind = "create" /\ cOp'.form = cOp.form /\ cOp'.step = 1 /\ cOp'.passed
  <2>1. PICK mid : mid = [cOp EXCEPT !.step = 1]
    OBVIOUS
  <2>2. mid \in ConnectOperation /\ mid.kind = cOp.kind /\ mid.form = cOp.form /\ mid.step = 1
    BY <1>1, <2>1 DEF ConnectOperation
  <2>3. cOp' = [mid EXCEPT !.passed = yes]
    BY <1>1, <1>b, <2>1 DEF ConnectOperation
  <2>4. cOp' \in ConnectOperation
    BY <1>a, <2>2, <2>3 DEF ConnectOperation
  <2>5. cOp'.kind = mid.kind /\ cOp'.form = mid.form /\ cOp'.step = mid.step /\ cOp'.passed = yes
    BY <2>2, <2>3 DEF ConnectOperation
  <2> QED BY <1>1, <1>a, <2>2, <2>4, <2>5
<1> QED BY <1>1, <1>2 DEF ConnectInv, ConnectShapes, Connect!Pending, Connect!SavedIsVerified, Connect!Saved, ConnectListed, ConnectSeen, ConnectOpens, ConnectWorked,
                          ConnectOpOK, ConnectPageOK, ConnectAdvances

\* A write to one row: what was seen to work under its id is still known.
LEMMA ConnectWriteKeeps ==
  ASSUME ConnectInv, NEW id \in ConnectProfile, NEW row \in ConnectRow,
         cStore' = [cStore EXCEPT ![id] = row], UNCHANGED <<cPage, cPanel, cListing, cChooser>>,
         cStore[id].verified \subseteq row.verified,
         row.details # Absent => row.details \in row.verified
  PROVE  /\ cStore' \in [ConnectProfile -> ConnectRow] /\ cStore'[id] = row /\ ConnectMore
         /\ Connect!SavedIsVerified' /\ ConnectListed' /\ ConnectOpens' /\ ConnectAdvances'
         /\ Connect!Saved \ {id} \subseteq Connect!Saved' /\ (row.details # Absent => id \in Connect!Saved')
<1>1. cStore \in [ConnectProfile -> ConnectRow] /\ ConnectSeen(cPanel.list) /\ (cListing.answer # Absent => ConnectSeen(cListing.answer))
  BY ConnectInvFacts
<1>2. cStore' \in [ConnectProfile -> ConnectRow] /\ cStore'[id] = row /\ \A p \in ConnectProfile \ {id} : cStore'[p] = cStore[p]
  BY <1>1
<1>3. ConnectMore
  BY <1>2 DEF ConnectMore
<1>4. Connect!SavedIsVerified'
  BY <1>2 DEF ConnectInv, Connect!SavedIsVerified, Connect!Saved
<1>5. ConnectListed'
  BY <1>1, <1>3 DEF ConnectMore, ConnectListed, ConnectSeen
<1>6. ConnectOpens'
  BY <1>3 DEF ConnectInv, ConnectOpens, ConnectWorked, ConnectMore
<1>7. Connect!Saved \ {id} \subseteq Connect!Saved' /\ (row.details # Absent => id \in Connect!Saved')
  BY <1>2 DEF Connect!Saved
<1> QED BY <1>2, <1>3, <1>4, <1>5, <1>6, <1>7 DEF ConnectInv, ConnectAdvances

LEMMA ConnectCreateSavedKeeps ==
  ASSUME ConnectInv, NEW p \in ConnectProfile, Connect!CreateSaved(p)
  PROVE  ConnectInv'
<1>0. /\ cOp.kind = "create" /\ cOp.step = 1 /\ cOp.passed /\ cPanel.editing = Absent /\ cOp \in ConnectOperation
      /\ cOp.form \in Connect!Form /\ cOp.form.details \in ConnectDetails /\ cPage \in Connect!Saved \cup {Absent}
      /\ cStore[p] = Connect!Unused /\ UNCHANGED <<cPage, cPanel, cListing, cChooser>> /\ Absent \notin ConnectDetails
  BY ConnectInvFacts DEF Connect!CreateSaved, ConnectInv, ConnectOpOK, Connect!Pending
<1>1. PICK d \in ConnectDetails : d = cOp.form.details
  BY <1>0
<1>2. PICK row : row = [details |-> d, verified |-> {d}]
  OBVIOUS
<1>3. row \in ConnectRow /\ row.details = d /\ row.verified = {d} /\ d # Absent
  BY <1>0, <1>2 DEF ConnectRow
<1>4. cStore' = [cStore EXCEPT ![p] = row] /\ cStore[p].verified \subseteq row.verified
  BY <1>0, <1>1, <1>2 DEF Connect!CreateSaved, Connect!Unused
<1>5. PICK form : form = [cOp.form EXCEPT !.id = p]
  OBVIOUS
<1>6. form \in Connect!Form /\ form.id = p /\ form.details = d
  BY <1>0, <1>1, <1>5 DEF Connect!Form
<1>7. cOp' = [cOp EXCEPT !.step = 2, !.form = form]
  BY <1>0, <1>5 DEF Connect!CreateSaved, ConnectOperation
<1>8. cOp' \in ConnectOperation /\ cOp'.kind = "create" /\ cOp'.step = 2 /\ cOp'.form = form /\ cOp'.passed = cOp.passed
  <2>1. PICK mid : mid = [cOp EXCEPT !.step = 2]
    OBVIOUS
  <2>2. mid \in ConnectOperation /\ mid.kind = cOp.kind /\ mid.passed = cOp.passed /\ mid.step = 2
    <3>1. mid \in ConnectOperation /\ mid.kind = cOp.kind /\ mid.step = 2
      BY <1>0, <2>1 DEF ConnectOperation
    <3>2. mid.passed = cOp.passed
      BY <1>0, <2>1, Zenon DEF ConnectOperation
    <3> QED BY <3>1, <3>2
  <2>3. cOp' = [mid EXCEPT !.form = form]
    BY <1>0, <1>7, <2>1 DEF ConnectOperation
  <2>4. cOp' \in ConnectOperation
    BY <1>6, <2>2, <2>3 DEF ConnectOperation
  <2>5. cOp'.kind = mid.kind /\ cOp'.form = form /\ cOp'.step = mid.step /\ cOp'.passed = mid.passed
    BY <2>2, <2>3 DEF ConnectOperation
  <2> QED BY <1>0, <2>2, <2>4, <2>5
<1>9. /\ cStore' \in [ConnectProfile -> ConnectRow] /\ cStore'[p] = row
      /\ Connect!SavedIsVerified' /\ ConnectListed' /\ ConnectOpens' /\ ConnectAdvances'
      /\ Connect!Saved \ {p} \subseteq Connect!Saved' /\ p \in Connect!Saved'
  BY <1>0, <1>3, <1>4, ConnectWriteKeeps
<1>10. ConnectShapes'
  BY <1>0, <1>6, <1>8, <1>9 DEF ConnectInv, ConnectShapes
<1>11. ConnectOpOK'
  BY <1>0, <1>3, <1>6, <1>8, <1>9 DEF ConnectOpOK, ConnectWorked
<1>12. ConnectPageOK'
  BY <1>0, <1>9 DEF ConnectPageOK
<1> QED BY <1>9, <1>10, <1>11, <1>12 DEF ConnectInv

LEMMA ConnectCreateListedKeeps ==
  ASSUME ConnectInv, Connect!CreateListed
  PROVE  ConnectInv'
<1>0. /\ cOp.kind = "create" /\ cOp.step = 2 /\ cOp.passed /\ cPanel.editing = Absent /\ cOp \in ConnectOperation
      /\ ConnectWorked(cOp.form) /\ cOp.form.id \in Connect!Saved /\ cOp.form \in Connect!Form /\ cOp.form.details \in ConnectDetails
      /\ cPage \in Connect!Saved \cup {Absent} /\ UNCHANGED <<cStore, cPage, cListing, cChooser>>
      /\ cPanel \in ConnectPanel /\ cPanel.list \in ConnectList /\ ConnectSeen(cPanel.list)
  BY ConnectInvFacts DEF Connect!CreateListed, ConnectInv, ConnectOpOK, Connect!Pending
<1>1. PICK list : list = [cPanel.list EXCEPT ![cOp.form.id] = cOp.form.details]
  OBVIOUS
<1>2. list \in ConnectList
  BY <1>0, <1>1 DEF ConnectList
<1>3. ConnectSeen(list)
  BY <1>0, <1>1 DEF ConnectList, ConnectSeen, ConnectWorked
<1>4. cPanel' = [cPanel EXCEPT !.list = list]
  BY <1>0, <1>1 DEF Connect!CreateListed, ConnectPanel
<1>5. /\ cPanel' \in ConnectPanel /\ cPanel'.list = list /\ cPanel'.editing = cPanel.editing
      /\ cPanel'.form = cPanel.form /\ cPanel'.test = cPanel.test
  BY <1>0, <1>2, <1>4 DEF ConnectPanel
<1>6. cOp' \in ConnectOperation /\ cOp'.kind = "create" /\ cOp'.step = 3 /\ cOp'.form = cOp.form /\ cOp'.passed
  BY <1>0 DEF Connect!CreateListed, ConnectOperation
<1>7. ConnectShapes'
  BY <1>0, <1>5, <1>6 DEF ConnectInv, ConnectShapes
<1>8. Connect!SavedIsVerified' /\ ConnectPageOK' /\ Connect!Saved' = Connect!Saved
  BY <1>0, <1>6 DEF ConnectInv, Connect!SavedIsVerified, Connect!Saved, ConnectPageOK
<1>9. ConnectListed' /\ ConnectOpens' /\ ConnectAdvances'
  BY <1>0, <1>3, <1>5 DEF ConnectInv, ConnectListed, ConnectSeen, ConnectOpens, ConnectAdvances
<1>10. ConnectOpOK'
  BY <1>0, <1>5, <1>6, <1>8 DEF ConnectOpOK, ConnectWorked
<1> QED BY <1>7, <1>8, <1>9, <1>10 DEF ConnectInv

\* What the panel shows after a source was saved: it is listed, and the dialog is closed.
LEMMA ConnectCloseShows ==
  ASSUME ConnectInv, NEW id \in ConnectProfile, NEW d \in ConnectDetails, d \in cStore[id].verified,
         cPanel' = Connect!Close(id, d), cPanel.editing # Absent => cPanel.editing.id = id
  PROVE  /\ cPanel' \in ConnectPanel /\ ConnectSeen(cPanel'.list) /\ cPanel'.editing = cPanel.editing
         /\ cPanel'.form.id = id /\ cPanel'.test = cPanel.test
<1>0. cPanel \in ConnectPanel /\ cPanel.list \in ConnectList /\ ConnectSeen(cPanel.list) /\ cPanel.form \in Connect!Form
  BY ConnectInvFacts
<1>1. PICK list : list = [cPanel.list EXCEPT ![id] = d]
  OBVIOUS
<1>2. list \in ConnectList
  BY <1>0, <1>1 DEF ConnectList
<1>3. ConnectSeen(list)
  BY <1>0, <1>1 DEF ConnectList, ConnectSeen
<1>4. PICK form : form = [cPanel.form EXCEPT !.id = id]
  OBVIOUS
<1>5. form \in Connect!Form /\ form.id = id
  BY <1>0, <1>4 DEF Connect!Form
<1>6. cPanel' = [cPanel EXCEPT !.list = list, !.dialog = FALSE, !.form = form]
  BY <1>0, <1>1, <1>4 DEF Connect!Close, ConnectPanel
<1>7. /\ cPanel'.list = list /\ cPanel'.editing = cPanel.editing /\ cPanel'.form = form /\ cPanel'.test = cPanel.test
      /\ cPanel' \in ConnectPanel
  BY <1>0, <1>2, <1>5, <1>6 DEF ConnectPanel
<1> QED BY <1>3, <1>5, <1>7

LEMMA ConnectCreateCapturedKeeps ==
  ASSUME ConnectInv, Connect!CreateCaptured
  PROVE  ConnectInv'
<1>0. /\ cPanel.editing = Absent /\ ConnectWorked(cOp.form) /\ cOp.form.id \in Connect!Saved /\ cOp.form.details \in ConnectDetails
      /\ cPage' = cOp.form.id /\ Connect!Ends /\ UNCHANGED <<cStore, cListing, cChooser>>
      /\ cPanel' = Connect!Close(cOp.form.id, cOp.form.details) /\ (cPanel.test.ssh => cPanel.test.phase >= 1)
  BY ConnectInvFacts DEF Connect!CreateCaptured, ConnectInv, ConnectOpOK, Connect!Pending
<1>1. cOp.form.id \in ConnectProfile /\ cOp.form.details \in cStore[cOp.form.id].verified
  BY <1>0 DEF ConnectWorked
<1>2. /\ cPanel' \in ConnectPanel /\ ConnectSeen(cPanel'.list) /\ cPanel'.editing = cPanel.editing /\ cPanel'.test = cPanel.test
  BY <1>0, <1>1, ConnectCloseShows
<1> QED BY <1>0, <1>2, ConnectEndKeeps

\* A name is saved with the details the form was opened with, which worked under this id before.
LEMMA ConnectEditSavedKeeps ==
  ASSUME ConnectInv, Connect!EditSaved
  PROVE  ConnectInv'
<1>0. /\ cOp.kind \in {"verify", "rename"} /\ cOp.step = 0 /\ cOp.form.id \in Connect!Saved /\ cOp \in ConnectOperation
      /\ cOp.form \in Connect!Form /\ cOp.form.details \in ConnectDetails /\ cPage \in Connect!Saved \cup {Absent}
      /\ UNCHANGED <<cPage, cPanel, cListing, cChooser>> /\ cPanel.editing # Absent
      /\ cOp.form.id = cPanel.editing.id /\ (cOp.kind = "rename" => ConnectWorked(cOp.form))
      /\ cStore \in [ConnectProfile -> ConnectRow] /\ cOp.form.id \in ConnectProfile /\ Absent \notin ConnectDetails
  BY ConnectInvFacts DEF Connect!EditSaved, ConnectInv, ConnectOpOK, Connect!Pending, Connect!Saved
<1>1. PICK seen : seen = cStore[cOp.form.id].verified \cup IF cOp.kind = "verify" THEN {cOp.form.details} ELSE {}
  OBVIOUS
<1>2. /\ seen \in SUBSET ConnectDetails /\ cOp.form.details \in seen /\ cStore[cOp.form.id].verified \subseteq seen
  BY <1>0, <1>1 DEF ConnectRow, ConnectWorked
<1>3. PICK row : row = [details |-> cOp.form.details, verified |-> seen]
  OBVIOUS
<1>4. row \in ConnectRow /\ row.details = cOp.form.details /\ row.verified = seen
  BY <1>0, <1>2, <1>3 DEF ConnectRow
<1>5. cStore' = [cStore EXCEPT ![cOp.form.id] = row]
  BY <1>0, <1>1, <1>3 DEF Connect!EditSaved
<1>6. cOp' \in ConnectOperation /\ cOp'.kind = cOp.kind /\ cOp'.step = 1 /\ cOp'.form = cOp.form
  BY <1>0 DEF Connect!EditSaved, ConnectOperation
<1>7. PICK id \in ConnectProfile : id = cOp.form.id
  BY <1>0
<1>8. /\ cStore' \in [ConnectProfile -> ConnectRow] /\ cStore'[id] = row
      /\ Connect!SavedIsVerified' /\ ConnectListed' /\ ConnectOpens' /\ ConnectAdvances'
      /\ Connect!Saved \ {id} \subseteq Connect!Saved' /\ id \in Connect!Saved'
  BY <1>0, <1>2, <1>4, <1>5, <1>7, ConnectWriteKeeps
<1>9. ConnectShapes'
  BY <1>0, <1>6, <1>8 DEF ConnectInv, ConnectShapes
<1>10. ConnectOpOK'
  BY <1>0, <1>2, <1>4, <1>6, <1>7, <1>8 DEF ConnectOpOK, ConnectWorked
<1>11. ConnectPageOK'
  BY <1>0, <1>8 DEF ConnectPageOK
<1> QED BY <1>8, <1>9, <1>10, <1>11 DEF ConnectInv

LEMMA ConnectEditDeliveredKeeps ==
  ASSUME ConnectInv, Connect!EditDelivered
  PROVE  ConnectInv'
<1>0. /\ cOp.kind \in {"verify", "rename"} /\ cPanel.editing # Absent /\ ConnectWorked(cOp.form) /\ cOp.form.id \in Connect!Saved
      /\ cOp.form.id = cPanel.editing.id /\ cOp.form.details \in ConnectDetails /\ Connect!Ends
      /\ cPage' = (IF cOp.kind = "verify" THEN cOp.form.id ELSE cPage) /\ cPage \in Connect!Saved \cup {Absent}
      /\ UNCHANGED <<cStore, cListing, cChooser>>
      /\ cPanel' = Connect!Close(cOp.form.id, cOp.form.details) /\ (cPanel.test.ssh => cPanel.test.phase >= 1)
      /\ ConnectWorked(cPanel.editing)
  BY ConnectInvFacts DEF Connect!EditDelivered, ConnectInv, ConnectOpOK, Connect!Pending
<1>1. cOp.form.id \in ConnectProfile /\ cOp.form.details \in cStore[cOp.form.id].verified
  BY <1>0 DEF ConnectWorked
<1>2. /\ cPanel' \in ConnectPanel /\ ConnectSeen(cPanel'.list) /\ cPanel'.editing = cPanel.editing /\ cPanel'.test = cPanel.test
      /\ cPanel'.form.id = cOp.form.id
  BY <1>0, <1>1, ConnectCloseShows
<1>3. cPage' \in Connect!Saved \cup {Absent}
  BY <1>0
<1> QED BY <1>0, <1>2, <1>3, ConnectEndKeeps

LEMMA ConnectOpenedKeeps ==
  ASSUME ConnectInv, Connect!Opened
  PROVE  ConnectInv'
<1>1. cPage' \in Connect!Saved \cup {Absent} /\ Connect!Ends /\ UNCHANGED <<cStore, cPanel, cListing, cChooser>>
  BY DEF Connect!Opened
<1> QED BY <1>1, ConnectInvFacts, ConnectEndKeeps

\* A deleted source keeps what was seen to work under its id.
LEMMA ConnectDeletedKeeps ==
  ASSUME ConnectInv, Connect!Deleted
  PROVE  ConnectInv'
<1>0. /\ cOp.kind = "delete" /\ cOp.step = 0 /\ cOp \in ConnectOperation /\ cOp.form \in Connect!Form /\ cOp.form.id \in ConnectProfile
      /\ cPage \in Connect!Saved \cup {Absent} /\ UNCHANGED <<cPage, cPanel, cListing, cChooser>> /\ cStore \in [ConnectProfile -> ConnectRow]
  BY ConnectInvFacts DEF Connect!Deleted, ConnectInv, ConnectOpOK, Connect!Pending
<1>1. PICK id \in ConnectProfile : id = cOp.form.id
  BY <1>0
<1>2. PICK row : row = [cStore[id] EXCEPT !.details = Absent]
  OBVIOUS
<1>3. row \in ConnectRow /\ row.details = Absent /\ row.verified = cStore[id].verified
  BY <1>0, <1>2 DEF ConnectRow
<1>4. cStore' = [cStore EXCEPT ![id] = row]
  BY <1>0, <1>1, <1>2 DEF Connect!Deleted
<1>5. cOp' \in ConnectOperation /\ cOp'.kind = "delete" /\ cOp'.step = 1 /\ cOp'.form = cOp.form
  BY <1>0 DEF Connect!Deleted, ConnectOperation
<1>6. /\ cStore' \in [ConnectProfile -> ConnectRow] /\ Connect!SavedIsVerified' /\ ConnectListed' /\ ConnectOpens' /\ ConnectAdvances'
      /\ Connect!Saved \ {id} \subseteq Connect!Saved'
  BY <1>0, <1>3, <1>4, ConnectWriteKeeps
<1>7. ConnectShapes'
  BY <1>0, <1>5, <1>6 DEF ConnectInv, ConnectShapes
<1>8. ConnectOpOK'
  BY <1>0, <1>5 DEF ConnectOpOK
<1>9. ConnectPageOK'
  BY <1>0, <1>1, <1>5, <1>6 DEF ConnectPageOK
<1> QED BY <1>6, <1>7, <1>8, <1>9 DEF ConnectInv

LEMMA ConnectDeleteDeliveredKeeps ==
  ASSUME ConnectInv, Connect!DeleteDelivered
  PROVE  ConnectInv'
<1>0. /\ cOp.kind = "delete" /\ cOp.step = 1 /\ cOp.form.id \in ConnectProfile /\ ConnectPageOK
      /\ cPanel' = [cPanel EXCEPT !.list[cOp.form.id] = Absent, !.dialog = FALSE, !.editing = Absent]
      /\ cPage' = (IF cPage = cOp.form.id THEN Absent ELSE cPage) /\ UNCHANGED <<cStore, cListing, cChooser>>
      /\ cPanel \in ConnectPanel /\ cPanel.list \in ConnectList /\ ConnectSeen(cPanel.list) /\ (cPanel.test.ssh => cPanel.test.phase >= 1)
  BY ConnectInvFacts DEF Connect!DeleteDelivered, ConnectInv, ConnectOpOK
<1>1. PICK list : list = [cPanel.list EXCEPT ![cOp.form.id] = Absent]
  OBVIOUS
<1>2. list \in ConnectList
  BY <1>0, <1>1 DEF ConnectList
<1>3. ConnectSeen(list)
  BY <1>0, <1>1 DEF ConnectList, ConnectSeen
<1>4. cPanel' = [cPanel EXCEPT !.list = list, !.dialog = FALSE, !.editing = Absent]
  BY <1>0, <1>1 DEF ConnectPanel
<1>5. cPanel' \in ConnectPanel /\ cPanel'.list = list /\ cPanel'.editing = Absent /\ cPanel'.test = cPanel.test
  BY <1>0, <1>2, <1>4 DEF ConnectPanel
<1>6. cPage' \in Connect!Saved \cup {Absent}
  BY <1>0 DEF ConnectPageOK
<1>7. CASE Connect!Ends
  BY <1>0, <1>3, <1>5, <1>6, <1>7, ConnectEndKeeps
<1>8. CASE ~Connect!Ends
  <2>1. PICK p \in Connect!Offered : cOp' = [Connect!NoOp EXCEPT !.kind = "open", !.form = [id |-> p, details |-> cPanel.list[p]]]
    BY <1>8 DEF Connect!DeleteDelivered
  <2>2. PICK form : form = [id |-> p, details |-> cPanel.list[p]]
    OBVIOUS
  <2>3. form \in Connect!Form /\ form.id \in ConnectProfile
    BY <1>0, <2>1, <2>2 DEF Connect!Offered, Connect!Form, ConnectList
  <2>4. PICK started : started = [Connect!NoOp EXCEPT !.kind = "open", !.form = form]
    OBVIOUS
  <2>5. "open" \in ConnectKinds /\ form \in Connect!Form \cup {Absent}
    BY <2>3 DEF ConnectKinds
  <2>6. started \in ConnectOperation /\ started.kind = "open" /\ started.form = form /\ started.step = 0
    <3>1. PICK mid : mid = [Connect!NoOp EXCEPT !.kind = "open"]
      OBVIOUS
    <3>2. mid \in ConnectOperation /\ mid.kind = "open" /\ mid.step = 0
      BY <2>5, <3>1, ConnectNoOpIsOperation DEF ConnectOperation
    <3>3. started = [mid EXCEPT !.form = form]
      BY <2>4, <3>1, ConnectNoOpIsOperation DEF ConnectOperation
    <3> QED BY <2>5, <3>2, <3>3 DEF ConnectOperation
  <2>7. cOp' \in ConnectOperation /\ cOp'.kind = "open" /\ cOp'.form = form
    BY <2>1, <2>2, <2>4, <2>6
  <2>8. ConnectShapes'
    BY <1>0, <1>5, <1>6, <2>3, <2>7 DEF ConnectInv, ConnectShapes, Connect!Saved
  <2>9. Connect!SavedIsVerified' /\ ConnectPageOK'
    BY <1>0, <1>6 DEF ConnectInv, Connect!SavedIsVerified, Connect!Saved, ConnectPageOK
  <2>10. ConnectListed' /\ ConnectOpens' /\ ConnectAdvances'
    BY <1>0, <1>3, <1>5 DEF ConnectInv, ConnectListed, ConnectSeen, ConnectOpens, ConnectAdvances
  <2>11. ConnectOpOK'
    BY <2>3, <2>7 DEF ConnectOpOK
  <2> QED BY <2>8, <2>9, <2>10, <2>11 DEF ConnectInv
<1> QED BY <1>7, <1>8

-----------------------------------------------------------------------------
LEMMA ConnectNextKeeps ==
  ASSUME ConnectInv, [Connect!Next]_Connect!vars
  PROVE  ConnectInv'
<1>1. CASE UNCHANGED Connect!vars
  BY <1>1 DEF Connect!vars, ConnectInv, ConnectShapes, Connect!Pending, Connect!SavedIsVerified, Connect!Saved, ConnectListed, ConnectSeen, ConnectOpens, ConnectWorked, ConnectOpOK,
              ConnectPageOK, ConnectAdvances
<1>2. CASE Connect!User
  BY <1>2, ConnectDialogKeeps, ConnectBeginsKeep, ConnectCancelTestKeeps DEF Connect!User
<1>3. CASE Connect!Answer
  BY <1>3, ConnectTestAnsweredKeeps, ConnectCreateTestedKeeps, ConnectCreateSavedKeeps, ConnectPickedKeeps, ConnectCreateListedKeeps,
     ConnectCreateCapturedKeeps, ConnectEditSavedKeeps, ConnectEditDeliveredKeeps, ConnectOpenedKeeps, ConnectDeletedKeeps, ConnectDeleteDeliveredKeeps,
     ConnectOpFailsKeeps DEF Connect!Answer
<1>4. CASE Connect!TestProgress
  BY <1>4, ConnectDialogKeeps
<1>5. CASE Connect!ListRead \/ Connect!ListDelivered \/ Connect!ListAskedAgain
  BY <1>5, ConnectListKeeps
<1> QED BY <1>1, <1>2, <1>3, <1>4, <1>5 DEF Connect!Next

\* The inductive invariant holds in every state of the panel (ConnectionPanel.tsx, lib.rs 881-897, 1163-1206).
THEOREM ConnectInductive == Connect!Spec => []ConnectInv
BY ConnectInitEstablishes, ConnectNextKeeps, PTL DEF Connect!Spec

\* The panel, the store and the operation keep their types.
THEOREM ConnectTypeCorrect == Connect!Spec => []Connect!TypeOK
<1>1. ConnectInv => Connect!TypeOK
  BY DEF ConnectInv, ConnectShapes, Connect!TypeOK, ConnectRow, ConnectPanel, ConnectTest, ConnectOperation, ConnectList
<1> QED BY <1>1, ConnectInductive, PTL

\* No connection is saved with details that no database answered to under its id: not by a file chosen after
\* the test, not by a rename with a form that a late list filled (ConnectionPanel.tsx 107-118, 177-262).
THEOREM ConnectSavedIsAlwaysVerified == Connect!Spec => []Connect!SavedIsVerified
BY ConnectInductive, PTL DEF ConnectInv

\* The workspace shows a saved source, none, or the one just being deleted.
THEOREM ConnectPageIsAlwaysSaved == Connect!Spec => []Connect!PageIsSaved
<1>1. ConnectInv => Connect!PageIsSaved
  BY DEF ConnectInv, ConnectPageOK, Connect!PageIsSaved
<1> QED BY <1>1, ConnectInductive, PTL

\* What a running test has shown as passed is not taken back by its failure or its cancellation
\* (ConnectionTestStatus.tsx 29-60, ConnectionPanel.tsx testConnection): a step that reports progress never
\* goes back, and a result replaces only a test that nothing shows any more.
THEOREM ConnectWhatPassedIsKept == Connect!Spec => Connect!PassedIsKept
<1> DEFINE Kept == (cPanel.test.status = "testing" /\ cPanel'.test.status \in {"testing", "error", "cancelled", "success"}
                      /\ cOp.kind = "test") => Connect!Passed(cPanel.test) \subseteq Connect!Passed(cPanel'.test)
<1>1. ConnectInv /\ [Connect!Next]_Connect!vars => [Kept]_Connect!vars
  <2> SUFFICES ASSUME ConnectInv, Connect!Next, cPanel.test.status = "testing", cOp.kind = "test",
                      cPanel'.test.status \in {"testing", "error", "cancelled", "success"}
               PROVE  Connect!Passed(cPanel.test) \subseteq Connect!Passed(cPanel'.test)
    OBVIOUS
  <2>0. /\ cPanel \in ConnectPanel /\ cPanel.test \in ConnectTest /\ Connect!Pending /\ (cPanel.test.ssh => cPanel.test.phase >= 1)
        /\ cPanel.test.phase \in 0..4
    BY ConnectInvFacts DEF Connect!Pending, ConnectTest, Connect!Phases
  <2>1. CASE cPanel'.test = cPanel.test
    BY <2>1
  <2>2. CASE Connect!TestProgress
    <3>1. PICK far : far = (cPanel.test.phase >= 1)
      OBVIOUS
    <3>2. cPanel'.test.phase = cPanel.test.phase + 1 /\ cPanel'.test.ssh = far /\ cPanel.test.phase < 4
      BY <2>0, <2>2, <3>1 DEF Connect!TestProgress, ConnectPanel, ConnectTest
    <3>3. cPanel.test.ssh => cPanel'.test.ssh
      BY <2>0, <3>1, <3>2
    <3>4. cPanel.test.phase # 4
      BY <3>2
    <3> QED BY <3>3, <3>4 DEF Connect!Passed
  <2>3. ASSUME NEW passed \in BOOLEAN, Connect!TestAnswered(passed) PROVE Connect!Passed(cPanel.test) \subseteq Connect!Passed(cPanel'.test)
    <3>1. ASSUME NEW status \in ConnectStatuses, cPanel'.test = Connect!Outcome(status)
          PROVE  Connect!Passed(cPanel.test) \subseteq Connect!Passed(cPanel'.test)
      <4>1. cPanel'.test = [cPanel.test EXCEPT !.status = status]
        BY <3>1 DEF Connect!Outcome
      <4>2. cPanel'.test.phase = cPanel.test.phase
        BY <2>0, <4>1 DEF ConnectTest
      <4>3. cPanel'.test.ssh = cPanel.test.ssh
        BY <2>0, <4>1, Zenon DEF ConnectTest
      <4> QED BY <4>2, <4>3 DEF Connect!Passed
    <3>2. CASE cPanel'.test = Connect!Outcome("cancelled") \/ cPanel'.test = Connect!Outcome("error")
      BY <3>1, <3>2 DEF ConnectStatuses
    <3>3. CASE cPanel'.test = [Connect!Idle EXCEPT !.status = "success", !.of = cOp.form.details]
      <4>1. cPanel'.test.status = "success"
        BY <3>3 DEF Connect!Idle
      <4> QED BY <4>1 DEF Connect!Passed
    <3>4. cPanel' = [cPanel EXCEPT !.test = cPanel'.test] /\
          (\/ cPanel'.test = Connect!Outcome("cancelled") \/ cPanel'.test = Connect!Outcome("error")
           \/ cPanel'.test = [Connect!Idle EXCEPT !.status = "success", !.of = cOp.form.details])
      BY <2>0, <2>3 DEF Connect!TestAnswered, ConnectPanel
    <3> QED BY <3>2, <3>3, <3>4
  <2>4. ASSUME NEW d \in ConnectDetails, Connect!FileChosen(d) PROVE FALSE
    <3>1. cPanel'.test = Connect!Idle
      BY <2>0, <2>4 DEF Connect!FileChosen, Connect!Changed, ConnectPanel
    <3> QED BY <3>1 DEF Connect!Idle
  <2>5. CASE Connect!ListDelivered
    BY <2>0, <2>1, <2>5 DEF Connect!ListDelivered, ConnectPanel
  <2>6. CASE Connect!User
    <3>1. \/ \E d \in ConnectDetails : Connect!FileChosen(d)
          \/ cPanel' = cPanel
      BY <2>0, <2>6 DEF Connect!User, Connect!OpenCreate, Connect!EditForm, Connect!OpenEdit, Connect!BeginOpen, Connect!CloseDialog, Connect!ChooseFile, Connect!BeginTest,
                        Connect!CancelTest, Connect!BeginSubmit, Connect!BeginVerify, Connect!BeginDelete, Connect!BeginPick, Connect!Begin
    <3> QED BY <2>1, <2>4, <3>1
  <2>7. CASE Connect!Answer
    <3>1. \/ \E passed \in BOOLEAN : Connect!TestAnswered(passed)
          \/ cPanel' = cPanel
      BY <2>0, <2>7 DEF Connect!Answer, Connect!CreateTested, Connect!CreateSaved, Connect!Picked, Connect!CreateListed, Connect!CreateCaptured, Connect!EditSaved,
                        Connect!EditDelivered, Connect!Opened, Connect!Deleted, Connect!DeleteDelivered, Connect!OpFails
    <3> QED BY <2>1, <2>3, <3>1
  <2>8. CASE Connect!ListRead \/ Connect!ListAskedAgain
    BY <2>1, <2>8 DEF Connect!ListRead, Connect!ListAskedAgain
  <2> QED BY <2>2, <2>5, <2>6, <2>7, <2>8 DEF Connect!Next
<1>2. ConnectInv /\ ConnectInv' /\ [Connect!Next]_Connect!vars => [Kept]_Connect!vars
  BY <1>1
<1> QED BY <1>2, ConnectInductive, PTL DEF Connect!Spec, Connect!PassedIsKept

-----------------------------------------------------------------------------
(* Settings: types.  A call has an answer once it was read, or written by   *)
(* an action whose answer is what it wrote.                                 *)

SettingsSources == SettingsSource \cup {Absent}
SettingsPair == [app : Settings!App, source : Settings!OfSource \cup {Absent}]
SettingsKinds == {"load", "migrate", "app", "source", "reload", "panel", "last"}
SettingsCall ==
  [kind : SettingsKinds, for : SettingsSources, active : BOOLEAN, app : Settings!App,
   source : Settings!OfSource \cup {Absent}, secret : BOOLEAN,
   step : {"read", "write", "migrate", "deliver"}, answer : SettingsPair \cup {Absent}]
SettingsPage ==
  [source : SettingsSources, loaded : BOOLEAN, panel : 0..(SettingsMaxEdits + 1), settings : SettingsPair]
SettingsDraft ==
  [open : BOOLEAN, ai : 0..(SettingsMaxEdits + 1), cloud : 0..SettingsMaxEdits, secret : BOOLEAN,
   due : BOOLEAN, basis : Settings!OfSource \cup {Absent}, moved : BOOLEAN]

SettingsStoreOK ==
  /\ sStore \in [app : Settings!App, source : [SettingsSource -> Settings!OfSource]]
  /\ sLegacy \in BOOLEAN /\ sSpent \in 0..SettingsMaxEdits
SettingsPageOK == sPage \in SettingsPage /\ sDue \in SUBSET {"panel", "last"}

\* A call that writes the settings of a source has some; one that is delivered or migrated has an answer.
SettingsSends(c) ==
  /\ c \in SettingsCall
  /\ c.kind \in {"source", "migrate"} => c.source # Absent
  /\ c.step \in {"migrate", "deliver"} => c.answer # Absent
SettingsCallsOK == \A c \in sCalls : SettingsSends(c)
SettingsCounted == IsFiniteSet(sCalls) /\ Cardinality(sCalls) <= SettingsMaxCalls + 1

\* Once the drafts are open, they are told of every change of what they were made from.
SettingsFollows(d, source) ==
  d.open => (d.due => d.moved) /\ (Settings!Key(source) # Settings!Key(d.basis) => d.moved)
SettingsDraftOK == sDraft \in SettingsDraft /\ SettingsFollows(sDraft, sPage.settings.source)

SettingsInv ==
  /\ SettingsStoreOK /\ SettingsPageOK /\ SettingsCallsOK /\ SettingsCounted /\ SettingsDraftOK

\* What a step may do to a draft.
SettingsKept ==
  (sDraft.open /\ sDraft'.open /\ sDraft.basis # Absent /\ sDraft.ai # sDraft.basis.ai
     /\ sDraft'.ai # sDraft.ai /\ sSpent' = sSpent /\ ~ Settings!Discard) => sDraft.moved

-----------------------------------------------------------------------------
(* Settings: what the operators give                                        *)

LEMMA SettingsSuits ==
  /\ SettingsMaxEdits \in Nat /\ SettingsMaxCalls \in Nat
  /\ SettingsLegacy \in BOOLEAN /\ SettingsReliable \in BOOLEAN
  /\ Absent \notin SettingsSource /\ Absent \notin Settings!OfSource /\ Absent \notin SettingsPair
  BY ShellIsSuited DEF SettingsSuitable, SettingsPair

LEMMA SettingsCounts == ASSUME NEW S PROVE Settings!Cardinality(S) = Cardinality(S)
  BY Zenon DEF Cardinality, Settings!Cardinality

LEMMA SettingsDefaults ==
  /\ Settings!DefaultApp \in Settings!App
  /\ \A s \in SettingsSource : Settings!DefaultSource(s) \in Settings!OfSource
  BY SettingsSuits DEF Settings!DefaultApp, Settings!DefaultSource, Settings!App, Settings!OfSource

LEMMA SettingsCallSent ==
  ASSUME NEW k \in SettingsKinds, NEW s \in SettingsSources, NEW a \in Settings!App,
         NEW src \in Settings!OfSource \cup {Absent}, k \in {"source", "migrate"} => src # Absent
  PROVE  /\ SettingsSends(Settings!Call(k, s, a, src))
         /\ Settings!Call(k, s, a, src).kind = k
  BY DEF SettingsSends, SettingsCall, Settings!Call

LEMMA SettingsEffective ==
  ASSUME SettingsStoreOK, NEW s \in SettingsSources
  PROVE  Settings!Effective(s) \in SettingsPair
  BY SettingsSuits DEF SettingsStoreOK, Settings!Effective, SettingsSources, SettingsPair

\* Taking a call off, putting another in its place, and one that goes out when there is room.
LEMMA SettingsTaken ==
  ASSUME NEW S, IsFiniteSet(S), Cardinality(S) <= SettingsMaxCalls + 1, NEW c \in S, NEW d
  PROVE  /\ IsFiniteSet(S \ {c}) /\ Cardinality(S \ {c}) <= SettingsMaxCalls
         /\ IsFiniteSet((S \ {c}) \cup {d}) /\ Cardinality((S \ {c}) \cup {d}) <= SettingsMaxCalls + 1
<1>1. IsFiniteSet(S \ {c}) /\ Cardinality(S \ {c}) = Cardinality(S) - 1
  BY FS_RemoveElement
<1>2. IsFiniteSet((S \ {c}) \cup {d}) /\ Cardinality((S \ {c}) \cup {d}) <= Cardinality(S \ {c}) + 1
  <2>1. IsFiniteSet((S \ {c}) \cup {d})
    BY <1>1, FS_AddElement
  <2>2. Cardinality((S \ {c}) \cup {d}) = IF d \in S \ {c} THEN Cardinality(S \ {c}) ELSE Cardinality(S \ {c}) + 1
    BY <1>1, FS_AddElement
  <2>3. Cardinality(S \ {c}) \in Nat
    BY <1>1, FS_CardinalityType
  <2> QED BY <2>1, <2>2, <2>3
<1>3. Cardinality(S) \in Nat
  BY FS_CardinalityType
<1>4. PICK n \in Nat : n = Cardinality(S)
  BY <1>3
<1>5. PICK m : m = Cardinality(S \ {c})
  OBVIOUS
<1>6. PICK k : k = Cardinality((S \ {c}) \cup {d})
  OBVIOUS
<1>7. IsFiniteSet((S \ {c}) \cup {d}) /\ k \in Nat
  BY <1>2, <1>6, FS_CardinalityType
<1>8. m = n - 1 /\ k <= m + 1 /\ n <= SettingsMaxCalls + 1
  BY <1>1, <1>2, <1>4, <1>5, <1>6
<1>9. m <= SettingsMaxCalls /\ k <= SettingsMaxCalls + 1
  BY <1>4, <1>7, <1>8, SettingsSuits
<1> QED BY <1>1, <1>5, <1>6, <1>7, <1>9

LEMMA SettingsSent ==
  ASSUME NEW S, IsFiniteSet(S), Cardinality(S) <= SettingsMaxCalls, NEW d
  PROVE  IsFiniteSet(S \cup {d}) /\ Cardinality(S \cup {d}) <= SettingsMaxCalls + 1
<1>1. IsFiniteSet(S \cup {d})
  BY FS_AddElement
<1>2. Cardinality(S \cup {d}) = IF d \in S THEN Cardinality(S) ELSE Cardinality(S) + 1
  BY FS_AddElement
<1>3. Cardinality(S) \in Nat
  BY FS_CardinalityType
<1>4. PICK n \in Nat : n = Cardinality(S)
  BY <1>3
<1>5. PICK k : k = Cardinality(S \cup {d})
  OBVIOUS
<1>6. n <= SettingsMaxCalls /\ (k = n \/ k = n + 1)
  BY <1>2, <1>4, <1>5
<1>7. k <= SettingsMaxCalls + 1
  BY <1>4, <1>6, SettingsSuits
<1> QED BY <1>1, <1>5, <1>7

LEMMA SettingsRoom ==
  ASSUME SettingsCounted, Settings!Room, NEW d
  PROVE  /\ Cardinality(sCalls) < SettingsMaxCalls
         /\ IsFiniteSet(sCalls \cup {d}) /\ Cardinality(sCalls \cup {d}) <= SettingsMaxCalls + 1
<1>1. Cardinality(sCalls) < SettingsMaxCalls /\ IsFiniteSet(sCalls)
  BY SettingsCounts DEF SettingsCounted, Settings!Room
<1>2. Cardinality(sCalls) \in Nat
  BY <1>1, FS_CardinalityType
<1>3. Cardinality(sCalls) <= SettingsMaxCalls
  BY <1>1, <1>2, SettingsSuits
<1> QED BY <1>1, <1>3, SettingsSent

\* Of the calls S those of other kinds than K are no longer wanted: they are as many, and as well made.
SettingsWanted(S, K) == {[c EXCEPT !.active = @ /\ c.kind \in K] : c \in S}

LEMMA SettingsUnwanted ==
  ASSUME NEW S, IsFiniteSet(S), \A c \in S : SettingsSends(c), NEW K, NEW n \in Nat, Cardinality(S) <= n
  PROVE  /\ IsFiniteSet(SettingsWanted(S, K)) /\ Cardinality(SettingsWanted(S, K)) <= n
         /\ \A c \in SettingsWanted(S, K) : SettingsSends(c)
<1> DEFINE T == SettingsWanted(S, K)
<1> DEFINE f == [c \in S |-> [c EXCEPT !.active = @ /\ c.kind \in K]]
<1>1. f \in Surjection(S, T)
  BY DEF Surjection, SettingsWanted
<1>2. IsFiniteSet(T) /\ Cardinality(T) <= Cardinality(S)
  BY <1>1, FS_Surjection
<1>3. ASSUME NEW c \in T PROVE SettingsSends(c)
  <2>1. PICK d \in S : c = [d EXCEPT !.active = @ /\ d.kind \in K]
    BY DEF SettingsWanted
  <2>2. PICK b \in BOOLEAN : b = (d.active /\ d.kind \in K)
    BY Zenon
  <2>3. d \in SettingsCall /\ c = [d EXCEPT !.active = b]
    BY <2>1, <2>2 DEF SettingsSends
  <2>4. c \in SettingsCall /\ c.kind = d.kind /\ c.step = d.step /\ c.answer = d.answer /\ c.source = d.source
    BY <2>2, <2>3 DEF SettingsCall
  <2> QED BY <2>1, <2>4 DEF SettingsSends
<1>4. Cardinality(S) \in Nat /\ Cardinality(T) \in Nat
  BY <1>2, FS_CardinalityType
<1>5. Cardinality(T) <= n
  <2>1. PICK i \in Nat : i = Cardinality(S)
    BY <1>4
  <2>2. PICK j \in Nat : j = Cardinality(T)
    BY <1>4
  <2>3. j <= i /\ i <= n
    BY <1>2, <2>1, <2>2
  <2> QED BY <2>1, <2>2, <2>3
<1> QED BY <1>2, <1>3, <1>5

\* What new settings do to a draft.
LEMMA SettingsFollowing ==
  ASSUME NEW d \in SettingsDraft, SettingsFollows(d, sPage.settings.source), NEW settings \in SettingsPair, NEW e,
         e = Settings!Following(d, settings)
  PROVE  /\ e \in SettingsDraft /\ SettingsFollows(e, settings.source)
         /\ e.open = d.open /\ e.ai = d.ai /\ e.basis = d.basis
<1>1. PICK due \in BOOLEAN : due = (d.due \/ (d.open /\ Settings!OutOfDate(settings)))
  BY Zenon
<1>2. PICK moved \in BOOLEAN : moved = (d.moved \/ (d.open /\ Settings!Key(settings.source) # Settings!Key(d.basis)))
  BY Zenon
<1>3. e = [d EXCEPT !.due = due, !.moved = moved]
  BY <1>1, <1>2 DEF Settings!Following
<1>4. /\ e \in SettingsDraft /\ e.open = d.open /\ e.ai = d.ai /\ e.basis = d.basis
      /\ e.due = due /\ e.moved = moved
  BY <1>1, <1>2, <1>3 DEF SettingsDraft
<1>5. d.due \in BOOLEAN /\ d.open \in BOOLEAN /\ d.moved \in BOOLEAN
  BY DEF SettingsDraft
<1>6. SettingsFollows(e, settings.source)
  BY <1>1, <1>2, <1>4, <1>5 DEF SettingsFollows, Settings!OutOfDate, Settings!Saved
<1> QED BY <1>4, <1>6

-----------------------------------------------------------------------------
(* Settings: the backend's half of a call                                   *)

\* A step that leaves page and draft alone.
LEMMA SettingsBehind ==
  ASSUME SettingsInv, UNCHANGED <<sPage, sDraft>>, SettingsStoreOK', sDue' \in SUBSET {"panel", "last"},
         SettingsCallsOK', SettingsCounted'
  PROVE  SettingsInv' /\ SettingsKept
BY DEF SettingsInv, SettingsPageOK, SettingsDraftOK, SettingsFollows, SettingsKept

\* One call in place of another.
LEMMA SettingsAdvances ==
  ASSUME SettingsInv, NEW c \in sCalls, NEW d, SettingsSends(d), Settings!Advance(c, d)
  PROVE  SettingsCallsOK' /\ SettingsCounted'
<1>1. sCalls' = (sCalls \ {c}) \cup {d}
  BY DEF Settings!Advance
<1>2. SettingsCounted'
  BY <1>1, SettingsTaken DEF SettingsInv, SettingsCounted
<1> QED BY <1>1, <1>2 DEF SettingsInv, SettingsCallsOK

LEMMA SettingsWritten ==
  ASSUME SettingsInv, NEW c \in sCalls, Settings!Written(c)
  PROVE  SettingsInv' /\ SettingsKept
<1>1. SettingsSends(c) /\ c \in SettingsCall
  BY DEF SettingsInv, SettingsCallsOK, SettingsSends
<1>2. c.kind \in SettingsKinds /\ c.app \in Settings!App /\ c.step = "write"
  BY <1>1 DEF SettingsCall, Settings!Written
<1>3. CASE c.kind \in {"source", "migrate"}
  <2>1. c.source \in Settings!OfSource /\ c.source.of \in SettingsSource
    BY <1>1, <1>3 DEF SettingsSends, SettingsCall, Settings!OfSource
  <2>2. PICK legacy \in BOOLEAN : legacy = (sLegacy /\ ~ (c.kind = "migrate"))
    BY Zenon
  <2>3. SettingsStoreOK'
    <3>1. sStore' = [sStore EXCEPT !.source[c.source.of] = c.source] /\ sLegacy' = legacy /\ sSpent' = sSpent
      BY <1>3, <2>2 DEF Settings!Written
    <3> QED BY <2>1, <2>2, <3>1 DEF SettingsInv, SettingsStoreOK
  <2>4. PICK answer \in SettingsPair : answer = [app |-> sStore.app, source |-> c.source]
    BY <2>1 DEF SettingsInv, SettingsStoreOK, SettingsPair
  <2>5. PICK d : d = [c EXCEPT !.step = "deliver", !.answer = answer]
    OBVIOUS
  <2>6. Settings!Advance(c, d)
    BY <1>3, <2>4, <2>5 DEF Settings!Written
  <2>7. SettingsSends(d)
    <3>1. d \in SettingsCall /\ d.source = c.source /\ d.answer = answer
      BY <1>1, <2>4, <2>5 DEF SettingsCall
    <3>2. answer # Absent /\ c.source # Absent
      BY <2>1, <2>4, SettingsSuits
    <3> QED BY <3>1, <3>2 DEF SettingsSends
  <2>8. SettingsCallsOK' /\ SettingsCounted'
    BY <2>6, <2>7, SettingsAdvances
  <2>9. UNCHANGED <<sPage, sDue, sDraft>> /\ sDue' \in SUBSET {"panel", "last"}
    BY DEF Settings!Written, SettingsInv, SettingsPageOK
  <2> QED BY <2>3, <2>8, <2>9, SettingsBehind
<1>4. CASE c.kind \notin {"source", "migrate"}
  <2>1. SettingsStoreOK'
    <3>1. sStore' = [sStore EXCEPT !.app = c.app] /\ sLegacy' = (sLegacy /\ ~ (c.kind = "migrate")) /\ sSpent' = sSpent
      BY <1>4 DEF Settings!Written
    <3>2. sLegacy' = sLegacy
      BY <1>4, <3>1 DEF SettingsInv, SettingsStoreOK
    <3> QED BY <1>2, <3>1, <3>2 DEF SettingsInv, SettingsStoreOK
  <2>2. PICK answer \in SettingsPair : answer = [app |-> c.app, source |-> Absent]
    BY <1>2 DEF SettingsPair
  <2>3. PICK d : d = IF c.kind \in {"app", "load"} THEN [c EXCEPT !.step = "read"]
                     ELSE [c EXCEPT !.step = "deliver", !.answer = answer]
    OBVIOUS
  <2>4. Settings!Advance(c, d)
    BY <1>4, <2>2, <2>3 DEF Settings!Written
  <2>5. SettingsSends(d)
    <3>1. answer # Absent
      BY <2>2, SettingsSuits
    <3>2. CASE c.kind \in {"app", "load"}
      BY <1>1, <1>4, <2>3, <3>2 DEF SettingsSends, SettingsCall
    <3>3. CASE c.kind \notin {"app", "load"}
      <4>1. d \in SettingsCall /\ d.kind = c.kind /\ d.answer = answer
        BY <1>1, <2>2, <2>3, <3>3 DEF SettingsCall
      <4> QED BY <1>4, <3>1, <4>1 DEF SettingsSends
    <3> QED BY <3>2, <3>3
  <2>6. SettingsCallsOK' /\ SettingsCounted'
    BY <2>4, <2>5, SettingsAdvances
  <2>7. UNCHANGED <<sPage, sDue, sDraft>> /\ sDue' \in SUBSET {"panel", "last"}
    BY DEF Settings!Written, SettingsInv, SettingsPageOK
  <2> QED BY <2>1, <2>6, <2>7, SettingsBehind
<1> QED BY <1>3, <1>4

LEMMA SettingsRead ==
  ASSUME SettingsInv, NEW c \in sCalls, Settings!Read(c)
  PROVE  SettingsInv' /\ SettingsKept
<1>1. SettingsSends(c) /\ c \in SettingsCall /\ c.for \in SettingsSources
  BY DEF SettingsInv, SettingsCallsOK, SettingsSends, SettingsCall
<1>2. PICK answer \in SettingsPair : answer = Settings!Effective(c.for)
  BY <1>1, SettingsEffective DEF SettingsInv
<1>3. PICK step \in {"migrate", "deliver"} : step = IF c.kind = "load" THEN "migrate" ELSE "deliver"
  OBVIOUS
<1>4. PICK d : d = [c EXCEPT !.answer = answer, !.step = step]
  OBVIOUS
<1>5. Settings!Advance(c, d)
  BY <1>2, <1>3, <1>4 DEF Settings!Read
<1>6. d \in SettingsCall /\ d.kind = c.kind /\ d.source = c.source /\ d.answer = answer
  BY <1>1, <1>2, <1>3, <1>4 DEF SettingsCall
<1>7. SettingsSends(d)
  BY <1>1, <1>2, <1>6, SettingsSuits DEF SettingsSends
<1>8. SettingsCallsOK' /\ SettingsCounted'
  BY <1>5, <1>7, SettingsAdvances
<1>9. /\ UNCHANGED <<sPage, sDue, sDraft>> /\ sDue' \in SUBSET {"panel", "last"}
      /\ SettingsStoreOK'
  BY DEF Settings!Read, SettingsInv, SettingsPageOK, SettingsStoreOK
<1> QED BY <1>8, <1>9, SettingsBehind

LEMMA SettingsMigrate ==
  ASSUME SettingsInv, NEW c \in sCalls, Settings!Migrate(c)
  PROVE  SettingsInv' /\ SettingsKept
<1>1. SettingsSends(c) /\ c \in SettingsCall /\ c.answer \in SettingsPair /\ c.kind = "load"
  BY DEF SettingsInv, SettingsCallsOK, SettingsSends, SettingsCall, Settings!Migrate
<1>2. PICK app \in Settings!App : app = c.answer.app
  BY <1>1 DEF SettingsPair
<1>3. PICK src \in Settings!OfSource \cup {Absent} : src = c.answer.source
  BY <1>1 DEF SettingsPair
<1>4. ASSUME ~ app.migrated
      PROVE  SettingsCallsOK' /\ SettingsCounted'
  <2>1. PICK panel \in 0..(SettingsMaxEdits + 1) : panel = IF sLegacy THEN SettingsMaxEdits + 1 ELSE app.panel
    BY SettingsSuits DEF Settings!App
  <2>2. PICK new \in Settings!App : new = [app EXCEPT !.migrated = TRUE, !.panel = panel]
    BY <2>1 DEF Settings!App
  <2>3. PICK d : d = [c EXCEPT !.step = "write", !.app = new]
    OBVIOUS
  <2>4. Settings!Advance(c, d)
    <3>1. new = [app EXCEPT !.migrated = TRUE, !.panel = IF sLegacy THEN SettingsMaxEdits + 1 ELSE @]
      BY <2>1, <2>2
    <3> QED BY <1>2, <1>4, <2>3, <3>1 DEF Settings!Migrate
  <2>5. SettingsSends(d)
    BY <1>1, <2>2, <2>3 DEF SettingsSends, SettingsCall
  <2> QED BY <2>4, <2>5, SettingsAdvances
<1>5. ASSUME app.migrated /\ src # Absent /\ ~ src.migrated
      PROVE  SettingsCallsOK' /\ SettingsCounted'
  <2>1. PICK ai \in 0..(SettingsMaxEdits + 1) : ai = IF sLegacy THEN SettingsMaxEdits + 1 ELSE src.ai
    BY <1>5, SettingsSuits DEF Settings!OfSource
  <2>2. PICK new \in Settings!OfSource : new = [src EXCEPT !.migrated = TRUE, !.ai = ai]
    BY <1>5, <2>1 DEF Settings!OfSource
  <2>3. PICK d : d = [c EXCEPT !.kind = "migrate", !.step = "write", !.source = new]
    OBVIOUS
  <2>4. Settings!Advance(c, d)
    <3>1. new = [src EXCEPT !.migrated = TRUE, !.ai = IF sLegacy THEN SettingsMaxEdits + 1 ELSE @]
      BY <2>1, <2>2
    <3> QED BY <1>2, <1>3, <1>5, <2>3, <3>1 DEF Settings!Migrate
  <2>5. SettingsSends(d)
    <3>1. d \in SettingsCall /\ d.source = new /\ d.step = "write"
      BY <1>1, <2>2, <2>3 DEF SettingsCall, SettingsKinds
    <3> QED BY <2>2, <3>1, SettingsSuits DEF SettingsSends
  <2> QED BY <2>4, <2>5, SettingsAdvances
<1>6. ASSUME app.migrated /\ ~ (src # Absent /\ ~ src.migrated)
      PROVE  SettingsCallsOK' /\ SettingsCounted'
  <2>1. PICK d : d = [c EXCEPT !.step = "deliver"]
    OBVIOUS
  <2>2. Settings!Advance(c, d)
    BY <1>2, <1>3, <1>6, <2>1 DEF Settings!Migrate
  <2>3. SettingsSends(d)
    <3>1. d \in SettingsCall /\ d.answer = c.answer /\ d.kind = c.kind
      BY <1>1, <2>1 DEF SettingsCall
    <3> QED BY <1>1, <3>1, SettingsSuits DEF SettingsSends
  <2> QED BY <2>2, <2>3, SettingsAdvances
<1>7. SettingsCallsOK' /\ SettingsCounted'
  BY <1>4, <1>5, <1>6
<1>8. /\ UNCHANGED <<sPage, sDue, sDraft>> /\ sDue' \in SUBSET {"panel", "last"}
      /\ SettingsStoreOK'
  BY DEF Settings!Migrate, SettingsInv, SettingsPageOK, SettingsStoreOK
<1> QED BY <1>7, <1>8, SettingsBehind

-----------------------------------------------------------------------------
(* Settings: delivery                                                       *)

\* New settings on the page, and the draft told of them.
LEMMA SettingsDelivered ==
  ASSUME SettingsInv, NEW d \in SettingsDraft, SettingsFollows(d, sPage.settings.source),
         d.open = sDraft.open, d.ai = sDraft.ai, NEW p \in SettingsPage,
         NEW others, IsFiniteSet(others), Cardinality(others) <= SettingsMaxCalls + 1,
         \A c \in others : SettingsSends(c),
         Settings!DeliverTo(d, p, others), UNCHANGED <<sStore, sLegacy, sSpent>>
  PROVE  SettingsInv' /\ SettingsKept
<1>1. sPage' = p /\ sDue' = {"panel", "last"} /\ sDraft' = Settings!Following(d, p.settings)
  BY DEF Settings!DeliverTo
<1>2. p.settings \in SettingsPair
  BY DEF SettingsPage
<1>3. sDraft' \in SettingsDraft /\ SettingsFollows(sDraft', p.settings.source) /\ sDraft'.ai = d.ai
  BY <1>1, <1>2, SettingsFollowing
<1>4. SettingsDraftOK'
  BY <1>1, <1>3 DEF SettingsDraftOK, SettingsFollows
<1>5. SettingsCallsOK' /\ SettingsCounted'
  <2>k. PICK K : K = SettingsKinds \ {"last"}
    OBVIOUS
  <2>1. sCalls' = {[c EXCEPT !.active = @ /\ c.kind # "last"] : c \in others}
    BY DEF Settings!DeliverTo
  <2>2. ASSUME NEW c \in others PROVE c.kind # "last" <=> c.kind \in K
    BY <2>k DEF SettingsSends, SettingsCall
  <2>3. sCalls' = {[c EXCEPT !.active = @ /\ c.kind \in K] : c \in others}
    BY <2>1, <2>2
  <2>4. PICK n \in Nat : n = SettingsMaxCalls + 1
    BY SettingsSuits
  <2>5. Cardinality(others) <= n
    BY <2>4
  <2>t. PICK T : T = sCalls'
    OBVIOUS
  <2>s. T = SettingsWanted(others, K)
    BY <2>3, <2>t DEF SettingsWanted
  <2>6. IsFiniteSet(T) /\ Cardinality(T) <= n /\ \A c \in T : SettingsSends(c)
    BY <2>4, <2>5, <2>s, SettingsUnwanted
  <2>7. SettingsCounted'
    BY <2>4, <2>6, <2>t DEF SettingsCounted
  <2> QED BY <2>6, <2>7, <2>t DEF SettingsCallsOK
<1>6. SettingsStoreOK' /\ SettingsPageOK'
  BY <1>1 DEF SettingsInv, SettingsStoreOK, SettingsPageOK
<1> QED BY <1>3, <1>4, <1>5, <1>6 DEF SettingsInv, SettingsKept

\* An answer that nobody waits for, or a failure, takes its call away.
LEMMA SettingsDropped ==
  ASSUME SettingsInv, NEW c \in sCalls, sCalls' = sCalls \ {c},
         UNCHANGED <<sStore, sLegacy, sPage, sDue, sDraft, sSpent>>
  PROVE  SettingsInv' /\ SettingsKept
<1>1. SettingsCallsOK' /\ SettingsCounted'
  <2>1. IsFiniteSet(sCalls \ {c}) /\ Cardinality(sCalls \ {c}) <= SettingsMaxCalls + 1
    <3>1. IsFiniteSet(sCalls) /\ sCalls \ {c} \in SUBSET sCalls /\ Cardinality(sCalls) <= SettingsMaxCalls + 1
      BY DEF SettingsInv, SettingsCounted
    <3>2. IsFiniteSet(sCalls \ {c}) /\ Cardinality(sCalls \ {c}) <= Cardinality(sCalls)
      BY <3>1, FS_Subset
    <3>3. PICK i \in Nat : i = Cardinality(sCalls \ {c})
      BY <3>2, FS_CardinalityType
    <3>4. PICK j \in Nat : j = Cardinality(sCalls)
      BY <3>1, FS_CardinalityType
    <3>5. i <= j /\ j <= SettingsMaxCalls + 1
      BY <3>1, <3>2, <3>3, <3>4
    <3>6. i <= SettingsMaxCalls + 1
      BY <3>5, <3>3, <3>4, SettingsSuits
    <3> QED BY <3>2, <3>3, <3>6
  <2> QED BY <2>1 DEF SettingsInv, SettingsCallsOK, SettingsCounted
<1>2. SettingsStoreOK' /\ sDue' \in SUBSET {"panel", "last"}
  BY DEF SettingsInv, SettingsStoreOK, SettingsPageOK
<1> QED BY <1>1, <1>2, SettingsBehind

\* The others, when one call is taken away.
LEMMA SettingsOthers ==
  ASSUME SettingsInv, NEW c \in sCalls
  PROVE  /\ IsFiniteSet(sCalls \ {c}) /\ Cardinality(sCalls \ {c}) <= SettingsMaxCalls
         /\ Cardinality(sCalls \ {c}) <= SettingsMaxCalls + 1
         /\ \A d \in sCalls \ {c} : SettingsSends(d)
<1>1. IsFiniteSet(sCalls \ {c}) /\ Cardinality(sCalls \ {c}) <= SettingsMaxCalls
  BY SettingsTaken DEF SettingsInv, SettingsCounted
<1>2. PICK n \in Nat : n = Cardinality(sCalls \ {c})
  BY <1>1, FS_CardinalityType
<1>3. n <= SettingsMaxCalls
  BY <1>1, <1>2
<1>4. n <= SettingsMaxCalls + 1
  BY <1>2, <1>3, SettingsSuits
<1> QED BY <1>1, <1>2, <1>4 DEF SettingsInv, SettingsCallsOK

\* A draft as it is.
LEMMA SettingsDraftIs ==
  ASSUME SettingsInv
  PROVE  sDraft \in SettingsDraft /\ SettingsFollows(sDraft, sPage.settings.source) /\ sPage \in SettingsPage
BY DEF SettingsInv, SettingsDraftOK, SettingsPageOK

LEMMA SettingsLoadDelivered ==
  ASSUME SettingsInv, NEW c \in sCalls, Settings!LoadDelivered(c)
  PROVE  SettingsInv' /\ SettingsKept
<1>1. c.answer \in SettingsPair /\ c.answer.app.panel \in 0..(SettingsMaxEdits + 1)
  <2>1. c.answer \in SettingsPair
    BY DEF SettingsInv, SettingsCallsOK, SettingsSends, SettingsCall, Settings!LoadDelivered
  <2> QED BY <2>1 DEF SettingsPair, Settings!App
<1>2. CASE c.active
  <2>1. PICK p \in SettingsPage :
          p = [sPage EXCEPT !.settings = c.answer, !.loaded = TRUE, !.panel = c.answer.app.panel]
    BY <1>1, SettingsDraftIs DEF SettingsPage
  <2>2. Settings!DeliverTo(sDraft, p, sCalls \ {c}) /\ UNCHANGED <<sStore, sLegacy, sSpent>>
    BY <1>2, <2>1 DEF Settings!LoadDelivered, Settings!Deliver
  <2> QED BY <2>2, SettingsOthers, SettingsDraftIs, SettingsDelivered
<1>3. CASE ~ c.active
  BY <1>3, SettingsDropped DEF Settings!LoadDelivered
<1> QED BY <1>2, <1>3

LEMMA SettingsLoadFails ==
  ASSUME SettingsInv, NEW c \in sCalls, Settings!LoadFails(c)
  PROVE  SettingsInv' /\ SettingsKept
<1>1. /\ sCalls' = sCalls \ {c} /\ UNCHANGED <<sStore, sLegacy, sDraft, sSpent>>
      /\ sDue' \in SUBSET {"panel", "last"}
  BY DEF Settings!LoadFails, SettingsInv, SettingsPageOK
<1>2. sPage' \in SettingsPage /\ sPage'.settings = sPage.settings
  <2>1. PICK p : p = [sPage EXCEPT !.loaded = TRUE]
    OBVIOUS
  <2>3. p \in SettingsPage /\ p.settings = sPage.settings
    BY <2>1, SettingsDraftIs DEF SettingsPage
  <2>2. sPage' \in {p, sPage}
    BY <2>1 DEF Settings!LoadFails
  <2> QED BY <2>2, <2>3, SettingsDraftIs
<1>3. SettingsCallsOK' /\ SettingsCounted'
  BY <1>1, SettingsOthers DEF SettingsCallsOK, SettingsCounted
<1>4. SettingsStoreOK' /\ SettingsPageOK' /\ SettingsDraftOK'
  BY <1>1, <1>2 DEF SettingsInv, SettingsStoreOK, SettingsPageOK, SettingsDraftOK, SettingsFollows
<1> QED BY <1>1, <1>3, <1>4 DEF SettingsInv, SettingsKept

LEMMA SettingsSaverDelivered ==
  ASSUME SettingsInv, NEW c \in sCalls, Settings!SaverDelivered(c)
  PROVE  SettingsInv' /\ SettingsKept
<1>1. c.app \in Settings!App
  BY DEF SettingsInv, SettingsCallsOK, SettingsSends, SettingsCall
<1>2. CASE c.active
  <2>1. PICK s \in SettingsPair : s = [sPage.settings EXCEPT !.app = c.app]
    BY <1>1, SettingsDraftIs DEF SettingsPage, SettingsPair
  <2>2. PICK p \in SettingsPage : p = [sPage EXCEPT !.settings.app = c.app]
    <3>1. [sPage EXCEPT !.settings = s] \in SettingsPage
      BY SettingsDraftIs DEF SettingsPage
    <3>2. [sPage EXCEPT !.settings = s] = [sPage EXCEPT !.settings.app = c.app]
      BY <2>1
    <3> QED BY <3>1, <3>2
  <2>3. Settings!DeliverTo(sDraft, p, sCalls \ {c}) /\ UNCHANGED <<sStore, sLegacy, sSpent>>
    BY <1>2, <2>2 DEF Settings!SaverDelivered, Settings!Deliver
  <2> QED BY <2>3, SettingsOthers, SettingsDraftIs, SettingsDelivered
<1>3. CASE ~ c.active
  BY <1>3, SettingsDropped DEF Settings!SaverDelivered
<1> QED BY <1>2, <1>3

LEMMA SettingsAppDelivered ==
  ASSUME SettingsInv, NEW c \in sCalls, Settings!AppDelivered(c)
  PROVE  SettingsInv' /\ SettingsKept
<1>1. c.answer \in SettingsPair /\ c.answer.app.panel \in 0..(SettingsMaxEdits + 1)
  <2>1. c.answer \in SettingsPair
    BY DEF SettingsInv, SettingsCallsOK, SettingsSends, SettingsCall, Settings!AppDelivered
  <2> QED BY <2>1 DEF SettingsPair, Settings!App
<1>2. PICK panel \in 0..(SettingsMaxEdits + 1) :
        panel = IF c.app = Settings!DefaultApp THEN sPage.panel ELSE c.answer.app.panel
  BY <1>1, SettingsDraftIs DEF SettingsPage
<1>3. PICK p \in SettingsPage : p = [sPage EXCEPT !.settings = c.answer, !.panel = panel]
  BY <1>1, <1>2, SettingsDraftIs DEF SettingsPage
<1>4. Settings!DeliverTo(sDraft, p, sCalls \ {c}) /\ UNCHANGED <<sStore, sLegacy, sSpent>>
  BY <1>2, <1>3 DEF Settings!AppDelivered, Settings!Deliver
<1> QED BY <1>4, SettingsOthers, SettingsDraftIs, SettingsDelivered

LEMMA SettingsSourceDelivered ==
  ASSUME SettingsInv, NEW c \in sCalls, Settings!SourceDelivered(c)
  PROVE  SettingsInv' /\ SettingsKept
<1>1. c.answer \in SettingsPair /\ c.for \in SettingsSources
  BY DEF SettingsInv, SettingsCallsOK, SettingsSends, SettingsCall, Settings!SourceDelivered
<1>2. PICK secret \in BOOLEAN : secret = (sDraft.secret /\ ~ c.secret)
  BY Zenon
<1>d. PICK d : d = [sDraft EXCEPT !.secret = secret]
  OBVIOUS
<1>3. /\ d \in SettingsDraft /\ d.open = sDraft.open /\ d.ai = sDraft.ai /\ d.due = sDraft.due
      /\ d.moved = sDraft.moved /\ d.basis = sDraft.basis
  BY <1>2, <1>d, SettingsDraftIs DEF SettingsDraft
<1>4. SettingsFollows(d, sPage.settings.source)
  BY <1>3, SettingsDraftIs DEF SettingsFollows
<1>5. PICK p \in SettingsPage : p = [sPage EXCEPT !.settings = c.answer]
  BY <1>1, SettingsDraftIs DEF SettingsPage
<1>6. PICK reload : reload = Settings!Call("reload", c.for, Settings!DefaultApp, Absent)
  OBVIOUS
<1>7. SettingsSends(reload)
  BY <1>1, <1>6, SettingsCallSent, SettingsDefaults DEF SettingsKinds
<1>8. PICK others : others = (sCalls \ {c}) \cup (IF c.secret THEN {reload} ELSE {})
  OBVIOUS
<1>9. others = sCalls \ {c} \/ others = (sCalls \ {c}) \cup {reload}
  BY <1>8
<1>10. IsFiniteSet(others) /\ Cardinality(others) <= SettingsMaxCalls + 1
  <2>1. IsFiniteSet((sCalls \ {c}) \cup {reload}) /\ Cardinality((sCalls \ {c}) \cup {reload}) <= SettingsMaxCalls + 1
    BY SettingsTaken DEF SettingsInv, SettingsCounted
  <2> QED BY <1>9, <2>1, SettingsOthers
<1>11. \A e \in others : SettingsSends(e)
  BY <1>7, <1>9, SettingsOthers
<1>12. Settings!DeliverTo(d, p, others) /\ UNCHANGED <<sStore, sLegacy, sSpent>>
  BY <1>2, <1>d, <1>5, <1>6, <1>8 DEF Settings!SourceDelivered
<1> QED BY <1>3, <1>4, <1>10, <1>11, <1>12, SettingsDelivered

LEMMA SettingsReloaded ==
  ASSUME SettingsInv, NEW c \in sCalls, Settings!Reloaded(c)
  PROVE  SettingsInv' /\ SettingsKept
<1>1. c.answer \in SettingsPair
  BY DEF SettingsInv, SettingsCallsOK, SettingsSends, SettingsCall, Settings!Reloaded
<1>2. CASE c.for = sPage.source
  <2>1. PICK p \in SettingsPage : p = [sPage EXCEPT !.settings = c.answer]
    BY <1>1, SettingsDraftIs DEF SettingsPage
  <2>2. Settings!DeliverTo(sDraft, p, sCalls \ {c}) /\ UNCHANGED <<sStore, sLegacy, sSpent>>
    BY <1>2, <2>1 DEF Settings!Reloaded, Settings!Deliver
  <2> QED BY <2>2, SettingsOthers, SettingsDraftIs, SettingsDelivered
<1>3. CASE c.for # sPage.source
  BY <1>3, SettingsDropped DEF Settings!Reloaded
<1> QED BY <1>2, <1>3

LEMMA SettingsSaveFails ==
  ASSUME SettingsInv, NEW c \in sCalls, Settings!SaveFails(c)
  PROVE  SettingsInv' /\ SettingsKept
BY SettingsDropped DEF Settings!SaveFails

-----------------------------------------------------------------------------
(* Settings: the savers and the user                                        *)

\* A call of a saver or of the user goes out, when there is room.
LEMMA SettingsGoes ==
  ASSUME SettingsInv, Settings!Room, NEW k \in SettingsKinds, NEW a \in Settings!App,
         NEW src \in Settings!OfSource \cup {Absent}, k \in {"source", "migrate"} => src # Absent,
         sCalls' = sCalls \cup {Settings!Call(k, sPage.source, a, src)}
  PROVE  SettingsCallsOK' /\ SettingsCounted'
<1>1. sPage.source \in SettingsSources
  BY SettingsDraftIs DEF SettingsPage
<1>2. SettingsSends(Settings!Call(k, sPage.source, a, src))
  BY <1>1, SettingsCallSent
<1>3. SettingsCounted'
  BY SettingsRoom DEF SettingsInv, SettingsCounted
<1> QED BY <1>2, <1>3 DEF SettingsInv, SettingsCallsOK

LEMMA SettingsSaved ==
  ASSUME SettingsInv, UNCHANGED sCalls
  PROVE  SettingsCallsOK' /\ SettingsCounted'
BY DEF SettingsInv, SettingsCallsOK, SettingsCounted

LEMMA SettingsSavers ==
  ASSUME SettingsInv, Settings!SavePanels \/ Settings!SaveWorkspace
  PROVE  SettingsInv' /\ SettingsKept
<1>1. sPage.settings.app \in Settings!App /\ sPage.panel \in 0..(SettingsMaxEdits + 1) /\ sPage.source \in SettingsSources
  BY SettingsDraftIs DEF SettingsPage, SettingsPair
<1>2. /\ UNCHANGED <<sStore, sLegacy, sPage, sDraft, sSpent>> /\ sDue' \in SUBSET {"panel", "last"}
      /\ SettingsStoreOK'
  BY DEF Settings!SavePanels, Settings!SaveWorkspace, SettingsInv, SettingsPageOK, SettingsStoreOK
<1>3. SettingsCallsOK' /\ SettingsCounted'
  <2>1. CASE UNCHANGED sCalls
    BY <2>1, SettingsSaved
  <2>2. CASE Settings!SavePanels /\ sCalls' # sCalls
    <3>1. PICK a \in Settings!App : a = [sPage.settings.app EXCEPT !.panel = sPage.panel]
      BY <1>1 DEF Settings!App
    <3>2. Settings!Room /\ sCalls' = sCalls \cup {Settings!Call("panel", sPage.source, a, Absent)}
      BY <2>2, <3>1 DEF Settings!SavePanels
    <3> QED BY <3>2, SettingsGoes DEF SettingsKinds
  <2>3. CASE Settings!SaveWorkspace /\ sCalls' # sCalls
    <3>1. PICK a \in Settings!App : a = [sPage.settings.app EXCEPT !.last = sPage.source]
      BY <1>1 DEF Settings!App, SettingsSources
    <3>2. Settings!Room /\ sCalls' = sCalls \cup {Settings!Call("last", sPage.source, a, Absent)}
      BY <2>3, <3>1 DEF Settings!SaveWorkspace
    <3> QED BY <3>2, SettingsGoes DEF SettingsKinds
  <2> QED BY <2>1, <2>2, <2>3
<1> QED BY <1>2, <1>3, SettingsBehind

\* What the user spends stays within its limit.
LEMMA SettingsActs ==
  ASSUME SettingsInv, Settings!Act
  PROVE  /\ sSpent' \in 0..SettingsMaxEdits /\ sSpent + 1 \in 0..SettingsMaxEdits
         /\ sSpent + 1 \in 0..(SettingsMaxEdits + 1) /\ sSpent' # sSpent
BY SettingsSuits DEF SettingsInv, SettingsStoreOK, Settings!Act

LEMMA SettingsMovePanel ==
  ASSUME SettingsInv, Settings!MovePanel
  PROVE  SettingsInv' /\ SettingsKept
<1>1. Settings!Act /\ UNCHANGED <<sStore, sLegacy, sDraft, sCalls>> /\ sDue' \in SUBSET {"panel", "last"}
  BY DEF Settings!MovePanel, SettingsInv, SettingsPageOK
<1>2. PICK p \in SettingsPage : p = [sPage EXCEPT !.panel = sSpent + 1]
  BY <1>1, SettingsActs, SettingsDraftIs DEF SettingsPage
<1>3. sPage' = p /\ p.settings = sPage.settings
  BY <1>2, SettingsDraftIs DEF Settings!MovePanel, SettingsPage
<1>4. SettingsCallsOK' /\ SettingsCounted'
  BY <1>1, SettingsSaved
<1>5. SettingsStoreOK' /\ SettingsPageOK' /\ SettingsDraftOK'
  BY <1>1, <1>3, SettingsActs DEF SettingsInv, SettingsStoreOK, SettingsPageOK, SettingsDraftOK, SettingsFollows
<1> QED BY <1>1, <1>4, <1>5 DEF SettingsInv, SettingsKept

LEMMA SettingsSwitchSource ==
  ASSUME SettingsInv, NEW s \in SettingsSource, Settings!SwitchSource(s)
  PROVE  SettingsInv' /\ SettingsKept
<1>1. /\ Settings!Act /\ Settings!Room /\ UNCHANGED <<sStore, sLegacy, sDraft>> /\ sDue' \in SUBSET {"panel", "last"}
      /\ s \in SettingsSources
  BY DEF Settings!SwitchSource, SettingsInv, SettingsPageOK, SettingsSources
<1>2. PICK p \in SettingsPage : p = [sPage EXCEPT !.source = s]
  BY <1>1, SettingsDraftIs DEF SettingsPage
<1>3. sPage' = p /\ p.settings = sPage.settings
  BY <1>2, SettingsDraftIs DEF Settings!SwitchSource, SettingsPage
<1>4. PICK load : load = Settings!Call("load", s, Settings!DefaultApp, Absent)
  OBVIOUS
<1>5. SettingsSends(load)
  BY <1>1, <1>4, SettingsCallSent, SettingsDefaults DEF SettingsKinds
<1>6. PICK K : K = {"panel"}
  OBVIOUS
<1>7. sCalls' = SettingsWanted(sCalls, K) \cup {load}
  BY <1>4, <1>6 DEF Settings!SwitchSource, SettingsWanted
<1>8. IsFiniteSet(sCalls) /\ Cardinality(sCalls) <= SettingsMaxCalls /\ \A c \in sCalls : SettingsSends(c)
  <2>1. IsFiniteSet(sCalls) /\ Cardinality(sCalls) < SettingsMaxCalls
    BY <1>1, SettingsRoom DEF SettingsInv, SettingsCounted
  <2>2. PICK n \in Nat : n = Cardinality(sCalls)
    BY <2>1, FS_CardinalityType
  <2>3. n <= SettingsMaxCalls
    BY <2>1, <2>2, SettingsSuits
  <2> QED BY <2>1, <2>2, <2>3 DEF SettingsInv, SettingsCallsOK
<1>9. /\ IsFiniteSet(SettingsWanted(sCalls, K)) /\ Cardinality(SettingsWanted(sCalls, K)) <= SettingsMaxCalls
      /\ \A c \in SettingsWanted(sCalls, K) : SettingsSends(c)
  BY <1>8, SettingsUnwanted, SettingsSuits
<1>10. PICK W : W = SettingsWanted(sCalls, K)
  OBVIOUS
<1>11. IsFiniteSet(W \cup {load}) /\ Cardinality(W \cup {load}) <= SettingsMaxCalls + 1
  BY <1>9, <1>10, SettingsSent
<1>12. SettingsCallsOK' /\ SettingsCounted'
  BY <1>5, <1>7, <1>9, <1>10, <1>11 DEF SettingsCallsOK, SettingsCounted
<1>13. SettingsStoreOK' /\ SettingsPageOK' /\ SettingsDraftOK'
  BY <1>1, <1>3, SettingsActs DEF SettingsInv, SettingsStoreOK, SettingsPageOK, SettingsDraftOK, SettingsFollows
<1> QED BY <1>1, <1>12, <1>13 DEF SettingsInv, SettingsKept

\* A draft made from the saved settings.
LEMMA SettingsMade ==
  ASSUME SettingsInv, NEW secret \in BOOLEAN, NEW d,
         d = [Settings!DraftOf(Settings!Saved) EXCEPT !.secret = secret] \/ d = Settings!DraftOf(Settings!Saved)
  PROVE  d \in SettingsDraft /\ SettingsFollows(d, sPage.settings.source)
<1>1. PICK src \in Settings!OfSource \cup {Absent} : src = sPage.settings.source
  BY SettingsDraftIs DEF SettingsPage, SettingsPair
<1>2. PICK ai \in 0..(SettingsMaxEdits + 1) : ai = IF src = Absent THEN 0 ELSE src.ai
  BY SettingsSuits DEF Settings!OfSource
<1>3. PICK cloud \in 0..SettingsMaxEdits : cloud = IF src = Absent THEN 0 ELSE src.cloud
  BY SettingsSuits DEF Settings!OfSource
<1>4. PICK e \in SettingsDraft : e = [open |-> TRUE, ai |-> ai, cloud |-> cloud, secret |-> FALSE, due |-> FALSE,
                                      basis |-> src, moved |-> FALSE]
  BY DEF SettingsDraft
<1>5. Settings!DraftOf(Settings!Saved) = e
  <2>1. PICK c : c = Settings!ClosedDraft
    OBVIOUS
  <2>2. c = [open |-> FALSE, ai |-> 0, cloud |-> 0, secret |-> FALSE, due |-> FALSE, basis |-> Absent, moved |-> FALSE]
    BY <2>1 DEF Settings!ClosedDraft
  <2>3. Settings!DraftOf(Settings!Saved) = [c EXCEPT !.open = TRUE, !.ai = ai, !.cloud = cloud, !.basis = src]
    BY <1>1, <1>2, <1>3, <2>1 DEF Settings!DraftOf, Settings!Saved
  <2> QED BY <1>4, <2>2, <2>3
<1>6. d = e \/ d = [e EXCEPT !.secret = secret]
  BY <1>5
<1>7. d \in SettingsDraft /\ d.basis = src /\ d.due = FALSE
  <2>1. CASE d = e
    BY <1>4, <2>1
  <2>2. CASE d = [e EXCEPT !.secret = secret]
    BY <1>4, <2>2 DEF SettingsDraft
  <2> QED BY <1>6, <2>1, <2>2
<1> QED BY <1>1, <1>7 DEF SettingsFollows

\* A step of the draft alone.
LEMMA SettingsDrafts ==
  ASSUME SettingsInv, UNCHANGED <<sStore, sLegacy, sPage, sDue, sCalls>>, sSpent' \in 0..SettingsMaxEdits,
         sDraft' \in SettingsDraft, SettingsFollows(sDraft', sPage.settings.source)
  PROVE  SettingsInv'
<1>1. SettingsCallsOK' /\ SettingsCounted'
  BY SettingsSaved
<1>2. SettingsStoreOK' /\ SettingsPageOK' /\ SettingsDraftOK'
  BY DEF SettingsInv, SettingsStoreOK, SettingsPageOK, SettingsDraftOK, SettingsFollows
<1> QED BY <1>1, <1>2 DEF SettingsInv

LEMMA SettingsOpens ==
  ASSUME SettingsInv, Settings!OpenSettings \/ Settings!CloseSettings \/ Settings!SyncDrafts
  PROVE  SettingsInv' /\ SettingsKept
<1>1. UNCHANGED <<sStore, sLegacy, sPage, sDue, sCalls, sSpent>> /\ sSpent' \in 0..SettingsMaxEdits
  BY DEF Settings!OpenSettings, Settings!CloseSettings, Settings!SyncDrafts, SettingsInv, SettingsStoreOK
<1>2. sDraft.secret \in BOOLEAN
  BY SettingsDraftIs DEF SettingsDraft
<1>3. sDraft' \in SettingsDraft /\ SettingsFollows(sDraft', sPage.settings.source)
  <2>1. CASE Settings!OpenSettings \/ Settings!SyncDrafts
    <3>1. /\ \/ sDraft' = [Settings!DraftOf(Settings!Saved) EXCEPT !.secret = sDraft.secret]
             \/ sDraft' = Settings!DraftOf(Settings!Saved)
      BY <2>1 DEF Settings!OpenSettings, Settings!SyncDrafts
    <3> QED BY <1>2, <3>1, SettingsMade
  <2>2. CASE Settings!CloseSettings
    BY <2>2, SettingsSuits DEF Settings!CloseSettings, Settings!ClosedDraft, SettingsDraft, SettingsFollows
  <2> QED BY <2>1, <2>2
<1>4. SettingsInv'
  BY <1>1, <1>3, SettingsDrafts
<1>5. SettingsKept
  <2>1. CASE Settings!OpenSettings
    BY <2>1 DEF Settings!OpenSettings, SettingsKept
  <2>2. CASE Settings!CloseSettings
    BY <2>2 DEF Settings!CloseSettings, Settings!ClosedDraft, SettingsKept
  <2>3. CASE Settings!SyncDrafts
    BY <2>3 DEF Settings!SyncDrafts, SettingsKept, SettingsInv, SettingsDraftOK, SettingsFollows
  <2> QED BY <2>1, <2>2, <2>3
<1> QED BY <1>4, <1>5

LEMMA SettingsEdits ==
  ASSUME SettingsInv, Settings!EditDraft \/ Settings!Discard
  PROVE  SettingsInv' /\ SettingsKept
<1>2. PICK ai \in 0..(SettingsMaxEdits + 1), secret \in BOOLEAN : sDraft' = [sDraft EXCEPT !.ai = ai, !.secret = secret]
  <2>1. CASE Settings!EditDraft
    <3>1. PICK typed \in BOOLEAN : sDraft' = [sDraft EXCEPT !.ai = sSpent + 1, !.secret = @ \/ typed]
      BY <2>1 DEF Settings!EditDraft
    <3>2. PICK b \in BOOLEAN : b = (sDraft.secret \/ typed)
      BY Zenon
    <3>3. sSpent + 1 \in 0..(SettingsMaxEdits + 1)
      BY <2>1, SettingsActs DEF Settings!EditDraft
    <3> QED BY <3>1, <3>2, <3>3
  <2>2. CASE Settings!Discard
    <3>1. Settings!Saved # Absent /\ sDraft' = [sDraft EXCEPT !.ai = Settings!Saved.ai, !.secret = FALSE]
      BY <2>2 DEF Settings!Discard, Settings!AiDirty
    <3>2. Settings!Saved.ai \in 0..(SettingsMaxEdits + 1)
      BY <3>1, SettingsDraftIs DEF SettingsPage, SettingsPair, Settings!Saved, Settings!OfSource
    <3> QED BY <3>1, <3>2
  <2> QED BY <2>1, <2>2
<1>3. /\ sDraft' \in SettingsDraft /\ sDraft'.open = sDraft.open /\ sDraft'.due = sDraft.due
      /\ sDraft'.moved = sDraft.moved /\ sDraft'.basis = sDraft.basis
  BY <1>2, SettingsDraftIs DEF SettingsDraft
<1>4. UNCHANGED <<sStore, sLegacy, sPage, sDue, sCalls>> /\ sSpent' \in 0..SettingsMaxEdits
  BY SettingsActs DEF Settings!EditDraft, Settings!Discard, SettingsInv, SettingsStoreOK
<1>5. SettingsFollows(sDraft', sPage.settings.source)
  BY <1>3, SettingsDraftIs DEF SettingsFollows
<1>6. SettingsInv'
  BY <1>3, <1>4, <1>5, SettingsDrafts
<1>7. SettingsKept
  BY SettingsActs DEF Settings!EditDraft, SettingsKept
<1> QED BY <1>6, <1>7

\* A row of the settings page is sent.
LEMMA SettingsRows ==
  ASSUME SettingsInv, Settings!EditApp \/ Settings!ResetApp \/ Settings!EditSource \/ Settings!ResetSource
  PROVE  SettingsInv' /\ SettingsKept
<1>1. /\ Settings!Act /\ Settings!Room
      /\ UNCHANGED <<sStore, sLegacy, sPage, sDue, sDraft>> /\ sDue' \in SUBSET {"panel", "last"}
  BY DEF Settings!EditApp, Settings!ResetApp, Settings!EditSource, Settings!ResetSource, SettingsInv, SettingsPageOK
<1>2. sPage.settings.app \in Settings!App /\ sPage.settings.source \in Settings!OfSource \cup {Absent} /\ sPage.source \in SettingsSources
  BY SettingsDraftIs DEF SettingsPage, SettingsPair
<1>3. sSpent + 1 \in 0..SettingsMaxEdits /\ sSpent' \in 0..SettingsMaxEdits
  BY <1>1, SettingsActs
<1>4. SettingsCallsOK' /\ SettingsCounted'
  <2>1. CASE Settings!EditApp
    <3>1. PICK a \in Settings!App : a = Settings!AppRow
      BY <1>2, <1>3 DEF Settings!App, Settings!AppRow
    <3>2. sCalls' = sCalls \cup {Settings!Call("app", sPage.source, a, Absent)}
      BY <2>1, <3>1 DEF Settings!EditApp
    <3> QED BY <1>1, <3>2, SettingsGoes DEF SettingsKinds
  <2>2. CASE Settings!ResetApp
    <3>1. sCalls' = sCalls \cup {Settings!Call("app", sPage.source, Settings!DefaultApp, Absent)}
      BY <2>2 DEF Settings!ResetApp
    <3> QED BY <1>1, <3>1, SettingsGoes, SettingsDefaults DEF SettingsKinds
  <2>3. CASE Settings!EditSource
    <3>1. Settings!Saved # Absent
      BY <2>3 DEF Settings!EditSource
    <3>2. PICK src \in Settings!OfSource : src = Settings!SourceRow
      BY <1>2, <1>3, <3>1 DEF Settings!OfSource, Settings!SourceRow, Settings!Saved
    <3>3. sCalls' = sCalls \cup {Settings!Call("source", sPage.source, Settings!DefaultApp, src)} /\ src # Absent
      BY <2>3, <3>2, SettingsSuits DEF Settings!EditSource
    <3> QED BY <1>1, <3>3, SettingsGoes, SettingsDefaults DEF SettingsKinds
  <2>4. CASE Settings!ResetSource
    <3>1. sPage.source \in SettingsSource
      BY <1>2, <2>4 DEF Settings!ResetSource, SettingsSources
    <3>2. PICK src \in Settings!OfSource : src = Settings!DefaultSource(sPage.source)
      BY <3>1, SettingsDefaults
    <3>3. sCalls' = sCalls \cup {Settings!Call("source", sPage.source, Settings!DefaultApp, src)} /\ src # Absent
      BY <2>4, <3>2, SettingsSuits DEF Settings!ResetSource
    <3> QED BY <1>1, <3>3, SettingsGoes, SettingsDefaults DEF SettingsKinds
  <2> QED BY <2>1, <2>2, <2>3, <2>4
<1>5. SettingsStoreOK'
  BY <1>1, <1>3 DEF SettingsInv, SettingsStoreOK
<1> QED BY <1>1, <1>4, <1>5, SettingsBehind

LEMMA SettingsSaveAi ==
  ASSUME SettingsInv, Settings!SaveAi
  PROVE  SettingsInv' /\ SettingsKept
<1>1. /\ Settings!Act /\ Settings!Room /\ Settings!Saved # Absent
      /\ UNCHANGED <<sStore, sLegacy, sPage, sDue, sDraft>> /\ sDue' \in SUBSET {"panel", "last"}
  BY DEF Settings!SaveAi, Settings!AiDirty, SettingsInv, SettingsPageOK
<1>2. /\ Settings!Saved \in Settings!OfSource /\ sPage.source \in SettingsSources
      /\ sDraft.ai \in 0..(SettingsMaxEdits + 1) /\ sDraft.secret \in BOOLEAN
  BY <1>1, SettingsDraftIs DEF SettingsPage, SettingsPair, SettingsDraft, Settings!Saved
<1>3. PICK src \in Settings!OfSource : src = [Settings!Saved EXCEPT !.ai = sDraft.ai]
  BY <1>2 DEF Settings!OfSource
<1>4. PICK c : c = Settings!Call("source", sPage.source, Settings!DefaultApp, src)
  OBVIOUS
<1>5. SettingsSends(c)
  BY <1>2, <1>3, <1>4, SettingsCallSent, SettingsDefaults, SettingsSuits DEF SettingsKinds
<1>6. PICK d : d = [c EXCEPT !.secret = sDraft.secret]
  OBVIOUS
<1>7. SettingsSends(d)
  <2>1. d \in SettingsCall /\ d.kind = c.kind /\ d.source = c.source /\ d.step = c.step /\ d.answer = c.answer
    BY <1>2, <1>5, <1>6 DEF SettingsSends, SettingsCall
  <2> QED BY <1>5, <2>1 DEF SettingsSends
<1>8. sCalls' = sCalls \cup {d}
  BY <1>3, <1>4, <1>6 DEF Settings!SaveAi
<1>9. SettingsCounted'
  BY <1>1, <1>8, SettingsRoom DEF SettingsInv, SettingsCounted
<1>10. SettingsCallsOK'
  BY <1>7, <1>8 DEF SettingsInv, SettingsCallsOK
<1>11. SettingsStoreOK'
  BY <1>1, SettingsActs DEF SettingsInv, SettingsStoreOK
<1> QED BY <1>1, <1>9, <1>10, <1>11, SettingsBehind

-----------------------------------------------------------------------------
(* Settings: the theorems                                                   *)

LEMMA SettingsStarts == Settings!Init => SettingsInv
<1> SUFFICES ASSUME Settings!Init PROVE SettingsInv
  OBVIOUS
<1>1. PICK migrated \in BOOLEAN : migrated = ~ SettingsLegacy
  BY Zenon
<1>2. PICK app \in Settings!App : app = [Settings!DefaultApp EXCEPT !.migrated = ~ SettingsLegacy]
  BY <1>1, SettingsDefaults DEF Settings!App
<1>3. \A s \in SettingsSource : [Settings!DefaultSource(s) EXCEPT !.migrated = ~ SettingsLegacy] \in Settings!OfSource
  <2> SUFFICES ASSUME NEW s \in SettingsSource
               PROVE  [Settings!DefaultSource(s) EXCEPT !.migrated = ~ SettingsLegacy] \in Settings!OfSource
    OBVIOUS
  <2>1. PICK d \in Settings!OfSource : d = Settings!DefaultSource(s)
    BY SettingsDefaults
  <2>2. [d EXCEPT !.migrated = migrated] \in Settings!OfSource
    BY <2>1 DEF Settings!OfSource
  <2> QED BY <1>1, <2>1, <2>2
<1>4. SettingsStoreOK
  BY <1>2, <1>3, SettingsSuits DEF Settings!Init, SettingsStoreOK
<1>5. SettingsPageOK /\ sPage.settings.source = Absent
  BY SettingsDefaults, SettingsSuits DEF Settings!Init, SettingsPageOK, SettingsPage, SettingsPair, SettingsSources
<1>6. SettingsDraftOK
  BY <1>5, SettingsSuits DEF Settings!Init, SettingsDraftOK, SettingsDraft, SettingsFollows, Settings!ClosedDraft
<1>7. PICK c : c = Settings!Call("load", Absent, Settings!DefaultApp, Absent)
  OBVIOUS
<1>8. SettingsSends(c)
  BY <1>7, SettingsCallSent, SettingsDefaults DEF SettingsKinds, SettingsSources
<1>9. sCalls = {c}
  BY <1>7 DEF Settings!Init
<1>10. SettingsCallsOK
  BY <1>8, <1>9 DEF SettingsCallsOK
<1>11. SettingsCounted
  <2>1. IsFiniteSet({c}) /\ Cardinality({c}) = 1
    BY FS_Singleton
  <2>2. 1 <= SettingsMaxCalls + 1
    BY SettingsSuits
  <2> QED BY <1>9, <2>1, <2>2 DEF SettingsCounted
<1> QED BY <1>4, <1>5, <1>6, <1>10, <1>11 DEF SettingsInv

LEMMA SettingsStepKeeps ==
  SettingsInv /\ [Settings!Next]_Settings!vars => SettingsInv' /\ [SettingsKept]_Settings!vars
<1> SUFFICES ASSUME SettingsInv, [Settings!Next]_Settings!vars
             PROVE  SettingsInv' /\ [SettingsKept]_Settings!vars
  OBVIOUS
<1>1. CASE UNCHANGED Settings!vars
  BY <1>1 DEF Settings!vars, SettingsInv, SettingsStoreOK, SettingsPageOK, SettingsCallsOK, SettingsCounted, SettingsDraftOK, SettingsFollows
<1>2. CASE Settings!Next
  <2>1. CASE Settings!Backend
    BY <2>1, SettingsWritten, SettingsRead, SettingsMigrate DEF Settings!Backend
  <2>2. CASE Settings!Delivery
    BY <2>2, SettingsLoadDelivered, SettingsSaverDelivered, SettingsAppDelivered, SettingsSourceDelivered, SettingsReloaded
       DEF Settings!Delivery
  <2>3. CASE Settings!Failure
    BY <2>3, SettingsLoadFails, SettingsSaveFails DEF Settings!Failure
  <2>4. CASE Settings!SavePanels \/ Settings!SaveWorkspace \/ Settings!SyncDrafts
    BY <2>4, SettingsSavers, SettingsOpens
  <2>5. CASE Settings!User
    BY <2>5, SettingsMovePanel, SettingsOpens, SettingsRows, SettingsEdits, SettingsSaveAi, SettingsSwitchSource DEF Settings!User
  <2> QED BY <1>2, <2>1, <2>2, <2>3, <2>4, <2>5 DEF Settings!Next
<1> QED BY <1>1, <1>2

LEMMA SettingsInvGives == SettingsInv => Settings!TypeOK
<1> SUFFICES ASSUME SettingsInv PROVE Settings!TypeOK
  OBVIOUS
<1>1. sStore.app \in Settings!App /\ sStore.source \in [SettingsSource -> Settings!OfSource]
  BY DEF SettingsInv, SettingsStoreOK
<1>2. sPage.settings.app \in Settings!App /\ sPage.settings.source \in Settings!OfSource \cup {Absent}
  BY SettingsDraftIs DEF SettingsPage, SettingsPair
<1>3. sDue \subseteq {"panel", "last"} /\ sDraft.basis \in Settings!OfSource \cup {Absent}
  BY DEF SettingsInv, SettingsPageOK, SettingsDraftOK, SettingsDraft
<1>4. Settings!Cardinality(sCalls) <= SettingsMaxCalls + 1
  BY SettingsCounts DEF SettingsInv, SettingsCounted
<1> QED BY <1>1, <1>2, <1>3, <1>4 DEF Settings!TypeOK

\* The store, the page and its draft keep their types, and no more calls are under way than there is
\* room for, with one that reloads.
THEOREM SettingsTypeCorrect == Settings!Spec => []Settings!TypeOK
<1>1. Settings!Init => SettingsInv
  BY SettingsStarts
<1>2. SettingsInv /\ [Settings!Next]_Settings!vars => SettingsInv'
  BY SettingsStepKeeps
<1>3. SettingsInv => Settings!TypeOK
  BY SettingsInvGives
<1> QED BY <1>1, <1>2, <1>3, PTL DEF Settings!Spec

\* A draft of the AI settings is replaced only after what it was made from has changed.
THEOREM SettingsDraftIsKept == Settings!Spec => Settings!DraftKept
<1>1. Settings!Init => SettingsInv
  BY SettingsStarts
<1>2. SettingsInv /\ [Settings!Next]_Settings!vars => SettingsInv' /\ [SettingsKept]_Settings!vars
  BY SettingsStepKeeps
<1> QED BY <1>1, <1>2, PTL DEF Settings!Spec, Settings!DraftKept, SettingsKept

-----------------------------------------------------------------------------
(* Viewer: types.  The settings under a key can be read.  A tab that shows  *)
(* a snapshot keeps the shared model it is of; one that still has the older *)
(* key to remove has stored the settings as a whole under the new one.      *)

ViewerTabOK(x) ==
  /\ x = [open |-> x.open, loading |-> x.loading, bundle |-> x.bundle, snapshot |-> x.snapshot,
          semantics |-> x.semantics, asked |-> x.asked, read |-> x.read, erase |-> x.erase,
          wrote |-> x.wrote, told |-> x.told]
  /\ x.open \in BOOLEAN /\ x.bundle \in ViewerShared \cup {Absent} /\ x.erase \in Viewer!Place \cup {Absent}
  /\ x.read \in [Viewer!Place -> Viewer!Full \cup {Absent}]
  /\ x.snapshot # Absent =>
       x.bundle # Absent /\ x.snapshot = x.bundle.snapshot /\ x.semantics = x.bundle.semantics

ViewerTabsOK == zTabs = [t \in ViewerTab |-> zTabs[t]] /\ \A t \in ViewerTab : ViewerTabOK(zTabs[t])
ViewerStored(texts) ==
  texts = [p \in Viewer!Place |-> texts[p]] /\ \A p \in Viewer!Place : ViewerReadable(texts[p])
ViewerStoresOK == ViewerStored(zCurrent) /\ ViewerStored(zLegacy)
ViewerErases == \A t \in ViewerTab : zTabs[t].erase # Absent => zCurrent[zTabs[t].erase] \in Viewer!Full
ViewerCloudOK == zLayouts \subseteq ViewerLayout /\ zServer \in ViewerShared \cup {Absent}

ViewerInv == ViewerTabsOK /\ ViewerStoresOK /\ ViewerErases /\ ViewerCloudOK

-----------------------------------------------------------------------------
(* Viewer: what is read                                                     *)

LEMMA ViewerSuits ==
  /\ ViewerDefault \in ViewerValue
  /\ Absent \notin Viewer!Place /\ Absent \notin Viewer!Full /\ Absent \notin ViewerShared
  /\ ViewerBroken \notin Viewer!Full
  /\ \A s \in ViewerFirst : ViewerReadable(s.current) /\ ViewerReadable(s.legacy)
  BY ShellIsSuited DEF ViewerSuitable

LEMMA ViewerEffective ==
  ASSUME NEW now, NEW old, NEW p, ViewerReadable(now[p]), ViewerReadable(old[p])
  PROVE  Viewer!Effective(now, old, p) \in Viewer!Full
<1>1. PICK older : older = Viewer!Parsed(old[p], <<>>)
  OBVIOUS
<1>2. PICK stored : stored = Viewer!Parsed(now[p], older)
  OBVIOUS
<1>3. older \in {<<>>, old[p]} /\ (old[p] \in {Absent, ViewerBroken} => older = <<>>)
  BY <1>1 DEF Viewer!Parsed
<1>4. \A f \in ViewerField : f \in DOMAIN older => older[f] \in ViewerValue
  <2>1. CASE older = <<>>
    BY <2>1
  <2>2. CASE older # <<>>
    BY <1>3, <2>2 DEF ViewerReadable
  <2> QED BY <2>1, <2>2
<1>5. stored \in {older, now[p]} /\ (now[p] \in {Absent, ViewerBroken} => stored = older)
  BY <1>2 DEF Viewer!Parsed
<1>6. \A f \in ViewerField : f \in DOMAIN stored => stored[f] \in ViewerValue
  <2>1. CASE stored = older
    BY <1>4, <2>1
  <2>2. CASE stored # older
    BY <1>5, <2>2 DEF ViewerReadable
  <2> QED BY <2>1, <2>2
<1>7. Viewer!Effective(now, old, p) =
        [f \in ViewerField |-> IF f \in DOMAIN stored THEN stored[f] ELSE ViewerDefault]
  BY <1>1, <1>2 DEF Viewer!Effective
<1> QED BY <1>6, <1>7, ViewerSuits DEF Viewer!Full

\* Settings stored as a whole are what is read, whatever the version before has left.
LEMMA ViewerWhole ==
  ASSUME NEW now, NEW old, NEW p, now[p] \in Viewer!Full
  PROVE  Viewer!Effective(now, old, p) = now[p]
<1>1. PICK v \in Viewer!Full : v = now[p]
  OBVIOUS
<1>2. v # Absent /\ v # ViewerBroken
  BY ViewerSuits
<1>3. Viewer!Parsed(now[p], Viewer!Parsed(old[p], <<>>)) = v
  BY <1>1, <1>2 DEF Viewer!Parsed
<1>4. Viewer!Effective(now, old, p) = [f \in ViewerField |-> IF f \in DOMAIN v THEN v[f] ELSE ViewerDefault]
  BY <1>3 DEF Viewer!Effective
<1>5. v = [f \in ViewerField |-> v[f]] /\ DOMAIN v = ViewerField
  BY DEF Viewer!Full
<1>6. [f \in ViewerField |-> IF f \in DOMAIN v THEN v[f] ELSE ViewerDefault] = [f \in ViewerField |-> v[f]]
  BY <1>5
<1> QED BY <1>1, <1>4, <1>5, <1>6

LEMMA ViewerDepends ==
  ASSUME NEW now, NEW old, NEW now2, NEW old2, NEW p, now2[p] = now[p], old2[p] = old[p]
  PROVE  Viewer!Effective(now2, old2, p) = Viewer!Effective(now, old, p)
BY DEF Viewer!Effective

LEMMA ViewerFullIsReadable == \A v \in Viewer!Full : ViewerReadable(v)
  BY DEF Viewer!Full, ViewerReadable

ViewerPut(texts, p, v) == [texts EXCEPT ![p] = v]

LEMMA ViewerStoresText ==
  ASSUME NEW texts, ViewerStored(texts), NEW p \in Viewer!Place, NEW v, ViewerReadable(v)
  PROVE  /\ ViewerStored(ViewerPut(texts, p, v))
         /\ ViewerPut(texts, p, v)[p] = v
         /\ \A q \in Viewer!Place : q # p => ViewerPut(texts, p, v)[q] = texts[q]
<1>1. PICK new : new = ViewerPut(texts, p, v)
  OBVIOUS
<1>2. texts = [q \in Viewer!Place |-> texts[q]] /\ \A q \in Viewer!Place : ViewerReadable(texts[q])
  BY DEF ViewerStored
<1>3. new = [q \in Viewer!Place |-> IF q = p THEN v ELSE texts[q]]
  BY <1>1, <1>2 DEF ViewerPut
<1>4. new = [q \in Viewer!Place |-> new[q]] /\ new[p] = v /\ \A q \in Viewer!Place : q # p => new[q] = texts[q]
  BY <1>3
<1>5. \A q \in Viewer!Place : ViewerReadable(new[q])
  BY <1>2, <1>4
<1> QED BY <1>1, <1>4, <1>5 DEF ViewerStored

-----------------------------------------------------------------------------
(* Viewer: the steps                                                        *)

\* One tab becomes x.
LEMMA ViewerSets ==
  ASSUME ViewerInv, NEW t \in ViewerTab, NEW x, ViewerTabOK(x), Viewer!Set(t, x)
  PROVE  /\ ViewerTabsOK' /\ zTabs'[t] = x
         /\ \A u \in ViewerTab : u # t => zTabs'[u] = zTabs[u]
<1>1. zTabs = [u \in ViewerTab |-> zTabs[u]] /\ \A u \in ViewerTab : ViewerTabOK(zTabs[u])
  BY DEF ViewerInv, ViewerTabsOK
<1>2. zTabs' = [u \in ViewerTab |-> IF u = t THEN x ELSE zTabs[u]]
  BY <1>1 DEF Viewer!Set
<1>3. zTabs' = [u \in ViewerTab |-> zTabs'[u]] /\ zTabs'[t] = x /\ \A u \in ViewerTab : u # t => zTabs'[u] = zTabs[u]
  BY <1>2
<1>4. \A u \in ViewerTab : ViewerTabOK(zTabs'[u])
  BY <1>1, <1>3
<1>5. ViewerTabsOK'
  BY <1>3, <1>4 DEF ViewerTabsOK, ViewerTabOK
<1> QED BY <1>3, <1>5

\* A step that leaves the storage alone, and one tab at most as it has to erase something.
LEMMA ViewerBeside ==
  ASSUME ViewerInv, UNCHANGED <<zCurrent, zLegacy>>, ViewerTabsOK', ViewerCloudOK',
         \A t \in ViewerTab : zTabs'[t].erase \in {Absent, zTabs[t].erase}
  PROVE  ViewerInv' /\ Viewer!Kept
<1>1. ViewerStoresOK'
  BY DEF ViewerInv, ViewerStoresOK, ViewerStored
<1>2. ViewerErases'
  BY DEF ViewerInv, ViewerErases
<1>3. Viewer!Kept
  BY DEF Viewer!Kept
<1> QED BY <1>1, <1>2, <1>3 DEF ViewerInv

\* Such a step, of one tab.
LEMMA ViewerTurns ==
  ASSUME ViewerInv, NEW t \in ViewerTab, NEW x, ViewerTabOK(x), x.erase \in {Absent, zTabs[t].erase},
         Viewer!Set(t, x), UNCHANGED <<zCurrent, zLegacy>>, ViewerCloudOK'
  PROVE  ViewerInv' /\ Viewer!Kept
<1>1. ViewerTabsOK' /\ zTabs'[t] = x /\ \A u \in ViewerTab : u # t => zTabs'[u] = zTabs[u]
  BY ViewerSets
<1>2. \A u \in ViewerTab : zTabs'[u].erase \in {Absent, zTabs[u].erase}
  BY <1>1
<1> QED BY <1>1, <1>2, ViewerBeside

LEMMA ViewerTabIs == ASSUME ViewerInv, NEW t \in ViewerTab PROVE ViewerTabOK(zTabs[t])
  BY DEF ViewerInv, ViewerTabsOK

LEMMA ViewerCloudStays ==
  ASSUME ViewerInv, UNCHANGED <<zLayouts, zServer>>
  PROVE  ViewerCloudOK'
BY DEF ViewerInv, ViewerCloudOK

\* A tab that is closed, and one just opened.
LEMMA ViewerClosed ==
  /\ ViewerTabOK(Viewer!Closed) /\ Viewer!Closed.erase = Absent
  /\ ViewerTabOK([Viewer!Closed EXCEPT !.open = TRUE, !.loading = TRUE])
  /\ [Viewer!Closed EXCEPT !.open = TRUE, !.loading = TRUE].erase = Absent
<1>1. PICK r \in [Viewer!Place -> Viewer!Full \cup {Absent}] : r = [p \in Viewer!Place |-> Absent]
  OBVIOUS
<1>2. PICK c : c = Viewer!Closed
  OBVIOUS
<1>3. c = [open |-> FALSE, loading |-> FALSE, bundle |-> Absent, snapshot |-> Absent, semantics |-> Absent,
           asked |-> FALSE, read |-> r, erase |-> Absent, wrote |-> Absent, told |-> Absent]
  BY <1>1, <1>2 DEF Viewer!Closed
<1>4. PICK o : o = [c EXCEPT !.open = TRUE, !.loading = TRUE]
  OBVIOUS
<1>5. o = [open |-> TRUE, loading |-> TRUE, bundle |-> Absent, snapshot |-> Absent, semantics |-> Absent,
           asked |-> FALSE, read |-> r, erase |-> Absent, wrote |-> Absent, told |-> Absent]
  BY <1>3, <1>4
<1>6. ViewerTabOK(c) /\ c.erase = Absent
  BY <1>3 DEF ViewerTabOK
<1>7. ViewerTabOK(o) /\ o.erase = Absent
  BY <1>5 DEF ViewerTabOK
<1> QED BY <1>2, <1>4, <1>6, <1>7

LEMMA ViewerOpens ==
  ASSUME ViewerInv, NEW t \in ViewerTab, Viewer!Open(t) \/ Viewer!Close(t)
  PROVE  ViewerInv' /\ Viewer!Kept
<1>1. PICK x : x \in {Viewer!Closed, [Viewer!Closed EXCEPT !.open = TRUE, !.loading = TRUE]} /\ Viewer!Set(t, x)
  BY DEF Viewer!Open, Viewer!Close
<1>2. ViewerTabOK(x) /\ x.erase \in {Absent, zTabs[t].erase}
  BY <1>1, ViewerClosed
<1>3. UNCHANGED <<zCurrent, zLegacy, zLayouts, zServer>>
  BY DEF Viewer!Open, Viewer!Close
<1>4. ViewerCloudOK'
  BY <1>3, ViewerCloudStays
<1> QED BY <1>1, <1>2, <1>3, <1>4, ViewerTurns

\* What tabs are told, read and wrote says nothing of the shared model.
LEMMA ViewerTold ==
  ASSUME NEW x, ViewerTabOK(x), NEW told
  PROVE  ViewerTabOK([x EXCEPT !.told = told]) /\ [x EXCEPT !.told = told].erase = x.erase
<1>1. PICK y : y = [x EXCEPT !.told = told]
  OBVIOUS
<1>2. y = [open |-> x.open, loading |-> x.loading, bundle |-> x.bundle, snapshot |-> x.snapshot,
           semantics |-> x.semantics, asked |-> x.asked, read |-> x.read, erase |-> x.erase,
           wrote |-> x.wrote, told |-> told]
  BY <1>1 DEF ViewerTabOK
<1>3. ViewerTabOK(y) /\ y.erase = x.erase
  BY <1>2 DEF ViewerTabOK
<1> QED BY <1>1, <1>3

ViewerNoted(x, w, e) == [x EXCEPT !.wrote = w, !.erase = e]

LEMMA ViewerWrote ==
  ASSUME NEW x, ViewerTabOK(x), NEW w, NEW e, e \in Viewer!Place \/ e = Absent
  PROVE  /\ ViewerTabOK(ViewerNoted(x, w, e))
         /\ ViewerNoted(x, w, e).erase = e /\ ViewerNoted(x, w, e).wrote = w
<1>1. PICK y : y = ViewerNoted(x, w, e)
  OBVIOUS
<1>2. y = [open |-> x.open, loading |-> x.loading, bundle |-> x.bundle, snapshot |-> x.snapshot,
           semantics |-> x.semantics, asked |-> x.asked, read |-> x.read, erase |-> e,
           wrote |-> w, told |-> x.told]
  BY <1>1 DEF ViewerTabOK, ViewerNoted
<1>3. ViewerTabOK(y) /\ y.erase = e /\ y.wrote = w
  BY <1>2 DEF ViewerTabOK
<1> QED BY <1>1, <1>3

LEMMA ViewerReadAt ==
  ASSUME NEW x, ViewerTabOK(x), NEW p \in Viewer!Place, NEW v \in Viewer!Full, NEW y, y = [x EXCEPT !.read[p] = v]
  PROVE  ViewerTabOK(y) /\ y.erase = x.erase /\ y.wrote = x.wrote
<1>1. PICK r \in [Viewer!Place -> Viewer!Full \cup {Absent}] : r = [x.read EXCEPT ![p] = v]
  BY DEF ViewerTabOK
<1>2. y = [open |-> x.open, loading |-> x.loading, bundle |-> x.bundle, snapshot |-> x.snapshot,
           semantics |-> x.semantics, asked |-> x.asked, read |-> r, erase |-> x.erase,
           wrote |-> x.wrote, told |-> x.told]
  BY <1>1 DEF ViewerTabOK
<1> QED BY <1>2 DEF ViewerTabOK

LEMMA ViewerGetSettings ==
  ASSUME ViewerInv, NEW t \in ViewerTab, NEW p \in Viewer!Place, Viewer!GetSettings(t, p)
  PROVE  ViewerInv' /\ Viewer!Kept
<1>1. PICK v \in Viewer!Full : v = Viewer!Effective(zCurrent, zLegacy, p)
  BY ViewerEffective DEF ViewerInv, ViewerStoresOK, ViewerStored
<1>2. PICK y : y = [zTabs[t] EXCEPT !.read[p] = v]
  OBVIOUS
<1>3. ViewerTabOK(y) /\ y.erase = zTabs[t].erase
  BY <1>2, ViewerTabIs, ViewerReadAt
<1>4. Viewer!Set(t, y) /\ UNCHANGED <<zCurrent, zLegacy, zLayouts, zServer>>
  BY <1>1, <1>2 DEF Viewer!GetSettings
<1>5. ViewerCloudOK'
  BY <1>4, ViewerCloudStays
<1> QED BY <1>3, <1>4, <1>5, ViewerTurns

\* A tab stores settings as a whole.
LEMMA ViewerStores ==
  ASSUME ViewerInv, NEW t \in ViewerTab, NEW p \in Viewer!Place, NEW v \in Viewer!Full,
         zCurrent' = [zCurrent EXCEPT ![p] = v], UNCHANGED zLegacy, ViewerCloudOK',
         NEW y, ViewerTabOK(y), Viewer!Set(t, y), y.erase \in {Absent, p, zTabs[t].erase},
         y.wrote = [place |-> p, value |-> v], y # zTabs[t] \/ Viewer!Reset(t, p)
  PROVE  ViewerInv' /\ Viewer!Kept
<1>1. /\ ViewerTabsOK' /\ zTabs'[t] = y
      /\ \A u \in ViewerTab : u # t => zTabs'[u] = zTabs[u]
  BY ViewerSets
<1>2. ViewerStored(zCurrent) /\ ViewerStored(zLegacy) /\ ViewerErases
  BY DEF ViewerInv, ViewerStoresOK
<1>3. PICK new : new = zCurrent'
  OBVIOUS
<1>4. ViewerStored(new) /\ new[p] = v /\ \A q \in Viewer!Place : q # p => new[q] = zCurrent[q]
  <2>1. ViewerReadable(v)
    BY ViewerFullIsReadable
  <2>2. new = ViewerPut(zCurrent, p, v)
    BY <1>3 DEF ViewerPut
  <2> QED BY <1>2, <2>1, <2>2, ViewerStoresText
<1>5. ViewerStoresOK'
  BY <1>2, <1>3, <1>4 DEF ViewerStoresOK, ViewerStored
<1>6. ViewerErases'
  <2> SUFFICES ASSUME NEW u \in ViewerTab, zTabs'[u].erase # Absent PROVE new[zTabs'[u].erase] \in Viewer!Full
    BY <1>3 DEF ViewerErases
  <2>1. PICK q : q = zTabs'[u].erase
    OBVIOUS
  <2>2. q = p \/ (q = zTabs[u].erase /\ q # Absent)
    BY <1>1, <2>1
  <2>3. CASE q = p
    BY <1>4, <2>1, <2>3
  <2>4. CASE q # p
    <3>1. zCurrent[q] \in Viewer!Full
      BY <1>2, <2>2, <2>4 DEF ViewerErases
    <3>2. q \in Viewer!Place
      BY <2>2, <2>4, ViewerTabIs DEF ViewerTabOK
    <3> QED BY <1>4, <2>1, <2>4, <3>1, <3>2
  <2> QED BY <2>3, <2>4
<1>7. Viewer!Kept
  <2> SUFFICES ASSUME NEW q \in Viewer!Place,
                      Viewer!Effective(new, zLegacy, q) # Viewer!Effective(zCurrent, zLegacy, q)
               PROVE  Viewer!Asked(q, Viewer!Effective(new, zLegacy, q))
    BY <1>3 DEF Viewer!Kept
  <2>1. q = p
    BY <1>4, ViewerDepends
  <2>2. Viewer!Effective(new, zLegacy, p) = v
    BY <1>4, ViewerWhole
  <2>3. Viewer!Asked(p, v)
    BY <1>1 DEF Viewer!Asked
  <2> QED BY <2>1, <2>2, <2>3
<1> QED BY <1>1, <1>5, <1>6, <1>7 DEF ViewerInv

LEMMA ViewerUpdate ==
  ASSUME ViewerInv, NEW t \in ViewerTab, NEW p \in Viewer!Place, NEW f \in ViewerField, NEW x \in ViewerValue,
         Viewer!Update(t, p, f, x)
  PROVE  ViewerInv' /\ Viewer!Kept
<1>t. ViewerTabOK(zTabs[t])
  BY ViewerTabIs
<1>1. zTabs[t].read[p] \in Viewer!Full /\ zTabs[t].erase = Absent
  <2>1. zTabs[t].read[p] # Absent /\ zTabs[t].erase = Absent
    BY DEF Viewer!Update, Viewer!Free
  <2>2. zTabs[t].read \in [Viewer!Place -> Viewer!Full \cup {Absent}]
    BY <1>t DEF ViewerTabOK
  <2> QED BY <2>1, <2>2
<1>2. PICK v \in Viewer!Full : v = [zTabs[t].read[p] EXCEPT ![f] = x]
  BY <1>1 DEF Viewer!Full
<1>3. Viewer!SetItem(t, p, v) /\ UNCHANGED <<zLegacy, zLayouts, zServer>>
  BY <1>2 DEF Viewer!Update, Viewer!SetItem
<1>4. ViewerCloudOK'
  BY <1>3, ViewerCloudStays
<1>5. PICK w : w = [place |-> p, value |-> v]
  OBVIOUS
<1>6. CASE zCurrent' = [zCurrent EXCEPT ![p] = v] /\ Viewer!Set(t, [zTabs[t] EXCEPT !.wrote = w, !.erase = p])
  <2>1. PICK y : y = ViewerNoted(zTabs[t], w, p)
    OBVIOUS
  <2>2. ViewerTabOK(y) /\ y.erase = p /\ y.wrote = w
    BY <2>1, <1>t, ViewerWrote
  <2>3. y # zTabs[t]
    BY <1>1, <2>2, ViewerSuits
  <2>4. Viewer!Set(t, y)
    BY <1>6, <2>1 DEF ViewerNoted
  <2> QED BY <1>3, <1>4, <1>5, <1>6, <2>2, <2>3, <2>4, ViewerStores
<1>7. CASE UNCHANGED zCurrent /\ Viewer!Set(t, [zTabs[t] EXCEPT !.wrote = w, !.told = "refused"])
  <2>1. PICK z : z = ViewerNoted(zTabs[t], w, zTabs[t].erase)
    OBVIOUS
  <2>2. ViewerTabOK(z) /\ z.erase = Absent
    BY <1>1, <2>1, <1>t, ViewerWrote
  <2>3. PICK y : y = [z EXCEPT !.told = "refused"]
    OBVIOUS
  <2>4. ViewerTabOK(y) /\ y.erase = Absent
    BY <2>2, <2>3, ViewerTold
  <2>5. y = [zTabs[t] EXCEPT !.wrote = w, !.told = "refused"]
    BY <2>1, <2>3, <1>t DEF ViewerTabOK, ViewerNoted
  <2> QED BY <1>3, <1>4, <1>7, <2>4, <2>5, ViewerTurns
<1> QED BY <1>3, <1>5, <1>6, <1>7 DEF Viewer!SetItem

LEMMA ViewerReset ==
  ASSUME ViewerInv, NEW t \in ViewerTab, NEW p \in Viewer!Place, Viewer!Reset(t, p)
  PROVE  ViewerInv' /\ Viewer!Kept
<1>t. ViewerTabOK(zTabs[t])
  BY ViewerTabIs
<1>1. PICK v \in Viewer!Full : v = Viewer!Defaults
  BY ViewerSuits DEF Viewer!Defaults, Viewer!Full
<1>2. UNCHANGED <<zLegacy, zLayouts, zServer>> /\ zTabs[t].erase = Absent
  BY DEF Viewer!Reset, Viewer!Free
<1>3. ViewerCloudOK'
  BY <1>2, ViewerCloudStays
<1>4. PICK w : w = [place |-> p, value |-> v]
  OBVIOUS
<1>5. CASE /\ zCurrent' = [zCurrent EXCEPT ![p] = v]
           /\ Viewer!Set(t, [zTabs[t] EXCEPT !.wrote = w, !.read[p] = v, !.told = "done"])
  <2>1. PICK a : a = ViewerNoted(zTabs[t], w, zTabs[t].erase)
    OBVIOUS
  <2>2. ViewerTabOK(a) /\ a.erase = Absent /\ a.wrote = w
    BY <1>2, <2>1, <1>t, ViewerWrote
  <2>3. PICK b : b = [a EXCEPT !.read[p] = v]
    OBVIOUS
  <2>4. ViewerTabOK(b) /\ b.erase = Absent /\ b.wrote = w
    BY <2>2, <2>3, ViewerReadAt
  <2>5. PICK y : y = [b EXCEPT !.told = "done"]
    OBVIOUS
  <2>6. ViewerTabOK(y) /\ y.erase = Absent
    BY <2>4, <2>5, ViewerTold
  <2>7. y.wrote = w
    BY <2>4, <2>5 DEF ViewerTabOK
  <2>8. y = [zTabs[t] EXCEPT !.wrote = w, !.read[p] = v, !.told = "done"]
    BY <2>1, <2>3, <2>5, <1>t DEF ViewerTabOK, ViewerNoted
  <2>9. Viewer!Set(t, y)
    BY <1>5, <2>8
  <2> QED BY <1>2, <1>3, <1>4, <1>5, <2>6, <2>7, <2>9, ViewerStores
<1>6. CASE UNCHANGED zCurrent /\ Viewer!Set(t, [zTabs[t] EXCEPT !.told = "refused"])
  <2>1. ViewerTabOK([zTabs[t] EXCEPT !.told = "refused"]) /\ [zTabs[t] EXCEPT !.told = "refused"].erase = zTabs[t].erase
    BY <1>t, ViewerTold
  <2> QED BY <1>2, <1>3, <1>6, <2>1, ViewerTurns
<1> QED BY <1>1, <1>4, <1>5, <1>6 DEF Viewer!Reset

LEMMA ViewerRemoveItem ==
  ASSUME ViewerInv, NEW t \in ViewerTab, Viewer!RemoveItem(t)
  PROVE  ViewerInv' /\ Viewer!Kept
<1>t. ViewerTabOK(zTabs[t])
  BY ViewerTabIs
<1>1. PICK p \in Viewer!Place : p = zTabs[t].erase
  BY ViewerTabIs DEF Viewer!RemoveItem, ViewerTabOK
<1>2. /\ zLegacy' = [zLegacy EXCEPT ![p] = Absent] /\ UNCHANGED <<zCurrent, zLayouts, zServer>>
      /\ Viewer!Set(t, [zTabs[t] EXCEPT !.erase = Absent, !.told = "done", !.read[p] = Viewer!Effective(zCurrent, zLegacy', p)])
  BY <1>1 DEF Viewer!RemoveItem
<1>3. zCurrent[p] \in Viewer!Full /\ ViewerStored(zCurrent) /\ ViewerStored(zLegacy) /\ ViewerErases
  BY <1>1, ViewerSuits DEF ViewerInv, ViewerErases, ViewerStoresOK
<1>4. PICK older : older = zLegacy'
  OBVIOUS
<1>5. ViewerReadable(Absent)
  BY DEF ViewerReadable
<1>6. ViewerStored(older) /\ \A q \in Viewer!Place : q # p => older[q] = zLegacy[q]
  <2>1. older = ViewerPut(zLegacy, p, Absent)
    BY <1>2, <1>4 DEF ViewerPut
  <2> QED BY <1>3, <1>5, <2>1, ViewerStoresText
<1>7. Viewer!Effective(zCurrent, older, p) = zCurrent[p] /\ Viewer!Effective(zCurrent, zLegacy, p) = zCurrent[p]
  BY <1>3, ViewerWhole
<1>8. PICK v \in Viewer!Full : v = zCurrent[p]
  BY <1>3
<1>9. PICK a : a = ViewerNoted(zTabs[t], zTabs[t].wrote, Absent)
  OBVIOUS
<1>10. ViewerTabOK(a) /\ a.erase = Absent
  BY <1>9, <1>t, ViewerWrote
<1>11. PICK b : b = [a EXCEPT !.told = "done"]
  OBVIOUS
<1>12. ViewerTabOK(b) /\ b.erase = Absent
  BY <1>10, <1>11, ViewerTold
<1>13. PICK y : y = [b EXCEPT !.read[p] = v]
  OBVIOUS
<1>14. ViewerTabOK(y) /\ y.erase = Absent
  BY <1>12, <1>13, ViewerReadAt
<1>15. y = [zTabs[t] EXCEPT !.erase = Absent, !.told = "done", !.read[p] = v]
  BY <1>9, <1>11, <1>13, <1>t DEF ViewerTabOK, ViewerNoted
<1>16. Viewer!Set(t, y)
  BY <1>2, <1>4, <1>7, <1>8, <1>15
<1>17. ViewerTabsOK' /\ zTabs'[t] = y /\ \A u \in ViewerTab : u # t => zTabs'[u] = zTabs[u]
  BY <1>14, <1>16, ViewerSets
<1>18. ViewerErases'
  BY <1>2, <1>3, <1>14, <1>17 DEF ViewerErases
<1>19. ViewerStoresOK'
  BY <1>2, <1>3, <1>4, <1>6 DEF ViewerStoresOK, ViewerStored
<1>20. ViewerCloudOK'
  BY <1>2, ViewerCloudStays
<1>21. Viewer!Kept
  <2> SUFFICES ASSUME NEW q \in Viewer!Place PROVE Viewer!Effective(zCurrent, older, q) = Viewer!Effective(zCurrent, zLegacy, q)
    BY <1>2, <1>4 DEF Viewer!Kept
  <2>1. CASE q = p
    BY <1>7, <2>1
  <2>2. CASE q # p
    BY <1>6, <2>2, ViewerDepends
  <2> QED BY <2>1, <2>2
<1> QED BY <1>17, <1>18, <1>19, <1>20, <1>21 DEF ViewerInv

\* The layouts, and what the owner publishes.
LEMMA ViewerBehind ==
  ASSUME ViewerInv, UNCHANGED <<zCurrent, zLegacy, zTabs>>, ViewerCloudOK'
  PROVE  ViewerInv' /\ Viewer!Kept
<1>1. ViewerTabsOK'
  BY DEF ViewerInv, ViewerTabsOK, ViewerTabOK
<1> QED BY <1>1, ViewerBeside

LEMMA ViewerLayouts ==
  ASSUME ViewerInv, NEW t \in ViewerTab,
         Viewer!ClearLayouts(t) \/ \E l \in ViewerLayout : Viewer!KeepLayout(t, l)
  PROVE  ViewerInv' /\ Viewer!Kept
<1>1. ViewerCloudOK'
  BY DEF Viewer!ClearLayouts, Viewer!KeepLayout, ViewerInv, ViewerCloudOK
<1>2. CASE Viewer!ClearLayouts(t)
  <2>1. ViewerTabOK([zTabs[t] EXCEPT !.told = "done"]) /\ [zTabs[t] EXCEPT !.told = "done"].erase = zTabs[t].erase
    BY ViewerTabIs, ViewerTold
  <2>2. Viewer!Set(t, [zTabs[t] EXCEPT !.told = "done"]) /\ UNCHANGED <<zCurrent, zLegacy>>
    BY <1>2 DEF Viewer!ClearLayouts
  <2> QED BY <1>1, <2>1, <2>2, ViewerTurns
<1>3. CASE \E l \in ViewerLayout : Viewer!KeepLayout(t, l)
  BY <1>1, <1>3, ViewerBehind DEF Viewer!KeepLayout
<1> QED BY <1>2, <1>3

LEMMA ViewerPublish ==
  ASSUME ViewerInv, NEW b \in ViewerShared \cup {Absent}, Viewer!Publish(b)
  PROVE  ViewerInv' /\ Viewer!Kept
<1>1. ViewerCloudOK'
  BY DEF Viewer!Publish, ViewerInv, ViewerCloudOK
<1> QED BY <1>1, ViewerBehind DEF Viewer!Publish

\* What a tab shows becomes a whole shared model, or stays.
ViewerShown(x, b, asked) ==
  [x EXCEPT !.loading = FALSE, !.bundle = b, !.snapshot = b.snapshot, !.semantics = b.semantics, !.asked = asked]

LEMMA ViewerShows ==
  ASSUME NEW x, ViewerTabOK(x), NEW b \in ViewerShared, NEW asked
  PROVE  ViewerTabOK(ViewerShown(x, b, asked)) /\ ViewerShown(x, b, asked).erase = x.erase
<1>t. PICK y : y = ViewerShown(x, b, asked)
  OBVIOUS
<1>1. y = [open |-> x.open, loading |-> FALSE, bundle |-> b, snapshot |-> b.snapshot,
           semantics |-> b.semantics, asked |-> asked, read |-> x.read, erase |-> x.erase,
           wrote |-> x.wrote, told |-> x.told]
  BY <1>t DEF ViewerTabOK, ViewerShown
<1>2. /\ y.open = x.open /\ y.bundle = b /\ y.erase = x.erase /\ y.read = x.read
      /\ y.snapshot = b.snapshot /\ y.semantics = b.semantics /\ y.loading = FALSE
      /\ y.asked = asked /\ y.wrote = x.wrote /\ y.told = x.told
  BY <1>1
<1>3. b # Absent
  BY ViewerSuits
<1> QED BY <1>t, <1>1, <1>2, <1>3 DEF ViewerTabOK

ViewerAnswered(x, loading, asked, semantics) ==
  [x EXCEPT !.loading = loading, !.asked = asked, !.semantics = semantics]

LEMMA ViewerAnswers ==
  ASSUME NEW x, ViewerTabOK(x), NEW loading, NEW asked, NEW semantics,
         semantics = x.semantics \/ x.snapshot = Absent \/ semantics = x.bundle.semantics
  PROVE  /\ ViewerTabOK(ViewerAnswered(x, loading, asked, semantics))
         /\ ViewerAnswered(x, loading, asked, semantics).erase = x.erase
<1>t. PICK y : y = ViewerAnswered(x, loading, asked, semantics)
  OBVIOUS
<1>1. y = [open |-> x.open, loading |-> loading, bundle |-> x.bundle, snapshot |-> x.snapshot,
           semantics |-> semantics, asked |-> asked, read |-> x.read, erase |-> x.erase,
           wrote |-> x.wrote, told |-> x.told]
  BY <1>t DEF ViewerTabOK, ViewerAnswered
<1>2. ViewerTabOK(y) /\ y.erase = x.erase
  BY <1>1 DEF ViewerTabOK
<1> QED BY <1>t, <1>2

LEMMA ViewerLoads ==
  ASSUME ViewerInv, NEW t \in ViewerTab, Viewer!LoadSharedBundle(t)
  PROVE  ViewerInv' /\ Viewer!Kept
<1>t. ViewerTabOK(zTabs[t])
  BY ViewerTabIs
<1>n. PICK no : no = FALSE
  OBVIOUS
<1>1. UNCHANGED <<zCurrent, zLegacy, zLayouts, zServer>>
  BY DEF Viewer!LoadSharedBundle, Viewer!Stays
<1>2. ViewerCloudOK'
  BY <1>1, ViewerCloudStays
<1>3. CASE zServer = Absent
  <2>1. PICK y : y = [zTabs[t] EXCEPT !.loading = FALSE]
    OBVIOUS
  <2>2. y = ViewerAnswered(zTabs[t], no, zTabs[t].asked, zTabs[t].semantics)
    BY <2>1, <1>t, <1>n DEF ViewerTabOK, ViewerAnswered
  <2>3. ViewerTabOK(y) /\ y.erase = zTabs[t].erase
    BY <2>2, <1>t, ViewerAnswers
  <2>4. Viewer!Set(t, y)
    BY <1>3, <2>1 DEF Viewer!LoadSharedBundle
  <2> QED BY <1>1, <1>2, <2>3, <2>4, ViewerTurns
<1>4. CASE zServer # Absent
  <2>1. zServer \in ViewerShared
    BY <1>4 DEF ViewerInv, ViewerCloudOK
  <2>2. PICK asked : asked = (zServer.snapshot # Absent)
    BY Zenon
  <2>3. PICK y : y = ViewerShown(zTabs[t], zServer, asked)
    OBVIOUS
  <2>4. ViewerTabOK(y) /\ y.erase = zTabs[t].erase
    BY <2>1, <2>3, <1>t, ViewerShows
  <2>5. Viewer!Set(t, y)
    BY <1>4, <2>2, <2>3 DEF Viewer!LoadSharedBundle, Viewer!Loaded, ViewerShown
  <2> QED BY <1>1, <1>2, <2>4, <2>5, ViewerTurns
<1> QED BY <1>3, <1>4

LEMMA ViewerReads ==
  ASSUME ViewerInv, NEW t \in ViewerTab, Viewer!Refresh(t) \/ Viewer!GetSemantics(t)
  PROVE  ViewerInv' /\ Viewer!Kept
<1>t. ViewerTabOK(zTabs[t])
  BY ViewerTabIs
<1>n. PICK no : no = FALSE
  OBVIOUS
<1>y. PICK yes : yes = TRUE
  OBVIOUS
<1>1. UNCHANGED <<zCurrent, zLegacy, zLayouts, zServer>>
  BY DEF Viewer!Refresh, Viewer!GetSemantics, Viewer!Stays
<1>2. ViewerCloudOK'
  BY <1>1, ViewerCloudStays
<1>3. CASE Viewer!Refresh(t)
  <2>1. PICK y : y = [zTabs[t] EXCEPT !.asked = TRUE]
    OBVIOUS
  <2>2. y = ViewerAnswered(zTabs[t], zTabs[t].loading, yes, zTabs[t].semantics)
    BY <2>1, <1>t, <1>y DEF ViewerTabOK, ViewerAnswered
  <2>3. ViewerTabOK(y) /\ y.erase = zTabs[t].erase
    BY <2>2, <1>t, ViewerAnswers
  <2>4. Viewer!Set(t, y)
    BY <1>3, <2>1 DEF Viewer!Refresh
  <2> QED BY <1>1, <1>2, <2>3, <2>4, ViewerTurns
<1>4. CASE Viewer!GetSemantics(t)
  <2>1. PICK s : s = IF zTabs[t].bundle = Absent THEN Absent ELSE zTabs[t].bundle.semantics
    OBVIOUS
  <2>2. zTabs[t].snapshot = Absent \/ s = zTabs[t].bundle.semantics
    BY <2>1, ViewerTabIs DEF ViewerTabOK
  <2>3. PICK y : y = [zTabs[t] EXCEPT !.asked = FALSE, !.semantics = s]
    OBVIOUS
  <2>4. y = ViewerAnswered(zTabs[t], zTabs[t].loading, no, s)
    BY <2>3, <1>t, <1>n DEF ViewerTabOK, ViewerAnswered
  <2>5. ViewerTabOK(y) /\ y.erase = zTabs[t].erase
    BY <2>2, <2>4, <1>t, ViewerAnswers
  <2>6. Viewer!Set(t, y)
    BY <1>4, <2>1, <2>3 DEF Viewer!GetSemantics
  <2> QED BY <1>1, <1>2, <2>5, <2>6, ViewerTurns
<1> QED BY <1>3, <1>4

LEMMA ViewerTells ==
  ASSUME ViewerInv, NEW t \in ViewerTab,
         (\E b \in ViewerShared : Viewer!GetSnapshot(t, b.snapshot)) \/ \E op \in ViewerOperation : Viewer!Call(t, op)
  PROVE  ViewerInv' /\ Viewer!Kept
<1>1. PICK told : Viewer!Set(t, [zTabs[t] EXCEPT !.told = told]) /\ Viewer!Stays
  BY DEF Viewer!GetSnapshot, Viewer!Call
<1>2. UNCHANGED <<zCurrent, zLegacy, zLayouts, zServer>>
  BY <1>1 DEF Viewer!Stays
<1>3. ViewerCloudOK'
  BY <1>2, ViewerCloudStays
<1>4. PICK y : y = [zTabs[t] EXCEPT !.told = told]
  OBVIOUS
<1>5. ViewerTabOK(y) /\ y.erase = zTabs[t].erase
  BY <1>4, ViewerTabIs, ViewerTold
<1>6. Viewer!Set(t, y)
  BY <1>1, <1>4
<1> QED BY <1>2, <1>3, <1>5, <1>6, ViewerTurns

-----------------------------------------------------------------------------
(* Viewer: the theorems                                                     *)

LEMMA ViewerStarts == Viewer!Init => ViewerInv
<1> SUFFICES ASSUME Viewer!Init PROVE ViewerInv
  OBVIOUS
<1>1. PICK s \in ViewerFirst : zCurrent = [p \in Viewer!Place |-> s.current] /\ zLegacy = [p \in Viewer!Place |-> s.legacy]
  BY DEF Viewer!Init
<1>2. ViewerReadable(s.current) /\ ViewerReadable(s.legacy)
  BY <1>1, ViewerSuits
<1>3. ViewerStoresOK
  BY <1>1, <1>2 DEF ViewerStoresOK, ViewerStored
<1>4. PICK c : c = Viewer!Closed
  OBVIOUS
<1>5. ViewerTabOK(c) /\ c.erase = Absent
  BY <1>4, ViewerClosed
<1>6. zTabs = [t \in ViewerTab |-> c]
  BY <1>4 DEF Viewer!Init
<1>7. ViewerTabsOK
  BY <1>5, <1>6 DEF ViewerTabsOK
<1>8. ViewerErases
  BY <1>5, <1>6 DEF ViewerErases
<1>9. ViewerCloudOK
  BY DEF Viewer!Init, ViewerCloudOK
<1> QED BY <1>3, <1>7, <1>8, <1>9 DEF ViewerInv

LEMMA ViewerStepKeeps ==
  ViewerInv /\ [Viewer!Next]_Viewer!vars => ViewerInv' /\ [Viewer!Kept]_Viewer!vars
<1> SUFFICES ASSUME ViewerInv, [Viewer!Next]_Viewer!vars
             PROVE  ViewerInv' /\ [Viewer!Kept]_Viewer!vars
  OBVIOUS
<1>1. CASE UNCHANGED Viewer!vars
  BY <1>1 DEF Viewer!vars, ViewerInv, ViewerTabsOK, ViewerTabOK, ViewerStoresOK, ViewerStored, ViewerErases, ViewerCloudOK
<1>2. CASE Viewer!Next
  <2>1. ASSUME NEW t \in ViewerTab, Viewer!Open(t) \/ Viewer!Close(t) PROVE ViewerInv' /\ Viewer!Kept
    BY <2>1, ViewerOpens
  <2>2. ASSUME NEW t \in ViewerTab, Viewer!Stores(t) PROVE ViewerInv' /\ Viewer!Kept
    BY <2>2, ViewerGetSettings, ViewerReset, ViewerUpdate, ViewerRemoveItem, ViewerLayouts DEF Viewer!Stores
  <2>3. ASSUME NEW t \in ViewerTab, Viewer!Shares(t) PROVE ViewerInv' /\ Viewer!Kept
    BY <2>3, ViewerLoads, ViewerReads, ViewerTells DEF Viewer!Shares
  <2> QED BY <1>2, <2>1, <2>2, <2>3, ViewerPublish DEF Viewer!Next
<1> QED BY <1>1, <1>2

LEMMA ViewerInvGives == ViewerInv => Viewer!TypeOK /\ Viewer!SharedIsWhole
<1> SUFFICES ASSUME ViewerInv PROVE Viewer!TypeOK /\ Viewer!SharedIsWhole
  OBVIOUS
<1>1. Viewer!TypeOK
  <2>1. zLayouts \subseteq ViewerLayout /\ zServer \in ViewerShared \cup {Absent}
    BY DEF ViewerInv, ViewerCloudOK
  <2>2. ASSUME NEW t \in ViewerTab
        PROVE  /\ zTabs[t].open \in BOOLEAN /\ zTabs[t].bundle \in ViewerShared \cup {Absent}
               /\ zTabs[t].erase \in Viewer!Place \cup {Absent}
               /\ \A p \in Viewer!Place : zTabs[t].read[p] \in Viewer!Full \cup {Absent}
    BY ViewerTabIs DEF ViewerTabOK
  <2> QED BY <2>1, <2>2 DEF Viewer!TypeOK
<1>2. Viewer!SharedIsWhole
  <2> SUFFICES ASSUME NEW t \in ViewerTab, zTabs[t].snapshot # Absent
               PROVE  \E b \in ViewerShared : zTabs[t].snapshot = b.snapshot /\ zTabs[t].semantics = b.semantics
    BY DEF Viewer!SharedIsWhole, Viewer!ShowsShared
  <2>1. /\ zTabs[t].bundle \in ViewerShared
        /\ zTabs[t].snapshot = zTabs[t].bundle.snapshot /\ zTabs[t].semantics = zTabs[t].bundle.semantics
    BY ViewerTabIs DEF ViewerTabOK
  <2> QED BY <2>1
<1> QED BY <1>1, <1>2

\* Tabs, storage and the cloud's answer keep their types; what a tab has read are settings as a whole.
THEOREM ViewerTypeCorrect == Viewer!Spec => []Viewer!TypeOK
<1>1. Viewer!Init => ViewerInv
  BY ViewerStarts
<1>2. ViewerInv /\ [Viewer!Next]_Viewer!vars => ViewerInv'
  BY ViewerStepKeeps
<1>3. ViewerInv => Viewer!TypeOK
  BY ViewerInvGives
<1> QED BY <1>1, <1>2, <1>3, PTL DEF Viewer!Spec

\* What a tab shows is one shared model, however many are published meanwhile.
THEOREM ViewerSharedIsWhole == Viewer!Spec => []Viewer!SharedIsWhole
<1>1. Viewer!Init => ViewerInv
  BY ViewerStarts
<1>2. ViewerInv /\ [Viewer!Next]_Viewer!vars => ViewerInv'
  BY ViewerStepKeeps
<1>3. ViewerInv => Viewer!SharedIsWhole
  BY ViewerInvGives
<1> QED BY <1>1, <1>2, <1>3, PTL DEF Viewer!Spec

\* Neither a storage that refuses nor a tab closed between two steps loses settings.
THEOREM ViewerSettingsAreKept == Viewer!Spec => Viewer!SettingsAreKept
<1>1. Viewer!Init => ViewerInv
  BY ViewerStarts
<1>2. ViewerInv /\ [Viewer!Next]_Viewer!vars => ViewerInv' /\ [Viewer!Kept]_Viewer!vars
  BY ViewerStepKeeps
<1> QED BY <1>1, <1>2, PTL DEF Viewer!Spec, Viewer!SettingsAreKept

-----------------------------------------------------------------------------
(* What Shell promises, part by part                                        *)

\* SettingsPage and web-platform: a draft of the AI settings is replaced only after what it was made
\* from has changed; a browser's settings change as a tab asks, and it shows one shared model.
THEOREM DraftIsKept == Settings!Spec /\ Viewer!Spec => DraftKept
<1>1. Viewer!SharedIsWhole => \A t \in ViewerTab : Viewer!ShowsShared(t)
  BY DEF Viewer!SharedIsWhole
<1> QED BY <1>1, SettingsDraftIsKept, ViewerSettingsAreKept, ViewerSharedIsWhole, PTL DEF DraftKept

\* desktop connections: only what passed its test is saved, and the page shows something saved.
THEOREM ConnectionsAreVerified == Connect!Spec => SavedIsVerified
BY ConnectSavedIsAlwaysVerified, ConnectPageIsAlwaysSaved, ConnectWhatPassedIsKept, PTL DEF SavedIsVerified

\* updates.rs and UpdatePanel, with a single feed: what is installed is what the dialog named when the
\* user agreed, and backup and application survive every failure on the way.
THEOREM UpdatesAreSafe == (\A f, g \in UpgradeFeed : f = g) => (Upgrade!Spec => UpdateIsSafe)
<1> SUFFICES ASSUME \A f, g \in UpgradeFeed : f = g PROVE Upgrade!Spec => UpdateIsSafe
  OBVIOUS
<1>1. UpgradeSuitable
  BY ShellIsSuited
<1>2. Upgrade!NothingIsLost => Upgrade!BackupIsWhole /\ Upgrade!AppSurvives
  BY DEF Upgrade!NothingIsLost
<1>3. Upgrade!Spec => []Upgrade!NothingIsLost
  BY <1>1, UpgradeSurvival
<1>4. Upgrade!Spec => Upgrade!InstalledAsShown
  BY <1>1, UpgradeAgreementOnOneFeed
<1> QED BY <1>2, <1>3, <1>4, PTL DEF UpdateIsSafe

\* desktop-invoke.ts and the native handlers: nothing passes the gate while an installation runs.
THEOREM TheGateHolds == Upgrade!Spec => GateHolds
<1>1. UpgradeSuitable
  BY ShellIsSuited
<1> QED BY <1>1, UpgradeRefinement DEF GateHolds

=============================================================================
