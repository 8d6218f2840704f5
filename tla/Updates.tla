------------------------------- MODULE Updates -------------------------------
(***************************************************************************)
(* Application updates: the update page and its confirmation dialog        *)
(* (components/settings/UpdatePanel.tsx), the startup check                *)
(* (use-available-update.ts), the bridge every command goes through        *)
(* (platform/desktop-invoke.ts), the work that blocks a restart            *)
(* (platform/update-guard.ts) and the native handlers (updates.rs).        *)
(*                                                                         *)
(* A command is sent by the bridge, received and worked on by its handler  *)
(* in several steps, and its answer is delivered later; the page polls the *)
(* native status in the same way.  The handlers share one operation lock   *)
(* and one session; the page only knows what its last poll said.           *)
(***************************************************************************)
EXTENDS Naturals, FiniteSets

CONSTANTS
    Feed,         \* the update feeds the settings can choose (a custom feed's address)
    None,         \* no update, no package, no answer
    MaxVersion,   \* versions published: up to MaxVersion; the installed one is 0
    MaxRuns,      \* checks, downloads and installations the user begins
    MaxChanges    \* edits and changes of the update settings

VARIABLES
    call,         \* the bridge: where each command is, "idle" when none is in flight
    installing,   \* the bridge's own installing flag
    unsaved,      \* some editor registered an update blocker
    session,      \* native session: phase, update, bytes, feed, cancelled
    operation,    \* who holds the native operation lock, and on what
    refusing,     \* the native installing flag: every other command is refused
    chosen,       \* the feed the settings choose
    offline,      \* the settings' completely-offline mode
    published,    \* the newest version a check has seen of each feed
    data,         \* how often the local database was written
    backup,       \* the write the last database backup includes, or None
    disk,         \* version of the application on disk, or None
    kept,         \* version of the application kept for roll-back, or None
    exited,       \* the application left for its restart
    page,         \* the update page: open, what it shows, its run, its dialog
    poll,         \* the status reads under way: the timer's and the run's
    startup,      \* the key (feed) of the last startup check, or None
    runs, changes \* how many of those there were

native == <<session, operation, refusing, backup, disk, kept, exited>>
world  == <<chosen, offline, published>>
vars   == <<call, installing, unsaved, native, world, data, page, poll, startup, runs, changes>>

Command == {"check", "startup", "download", "install", "save"}
Stage   == {"idle", "sent", "running", "backing", "copying", "replacing", "restoring",
            "restarting", "ok", "failed"}
Active  == {c \in Command : call[c] # "idle"}

NoUpdate == [phase |-> "idle", update |-> None, bytes |-> None, feed |-> None, cancelled |-> FALSE]

Init ==
    /\ call = [c \in Command |-> IF c = "startup" THEN "sent" ELSE "idle"]
    /\ installing = FALSE
    /\ unsaved = FALSE
    /\ session = NoUpdate
    /\ operation = None
    /\ refusing = FALSE
    /\ chosen = CHOOSE f \in Feed : TRUE
    /\ offline = FALSE
    /\ published = [f \in Feed |-> 0]
    /\ data = 0
    /\ backup = None
    /\ disk = 0
    /\ kept = None
    /\ exited = FALSE
    /\ page = [open |-> FALSE, shown |-> None, run |-> None, dialog |-> "closed", asked |-> None]
    /\ poll = [k \in {"timer", "run"} |-> [stage |-> "idle", current |-> FALSE, answer |-> None]]
    /\ startup = chosen
    /\ runs = 0
    /\ changes = 0

(***************************************************************************)
(* What a status read answers: the session, or nothing when the settings   *)
(* have since chosen another feed.                                         *)
(***************************************************************************)
CanInstall(s)  == s.bytes # None /\ s.phase # "installing"
CanDownload(s) == s.update # None /\ s.bytes = None /\ s.phase \in {"available", "error"}

Status ==
    LET s == IF session.feed # None /\ session.feed # chosen THEN NoUpdate ELSE session
    IN  [phase |-> s.phase, version |-> s.update, install |-> CanInstall(s), download |-> CanDownload(s)]

Busy ==
    \/ page.run # None
    \/ page.shown # None /\ page.shown.phase \in {"checking", "downloading", "verifying", "installing"}

(***************************************************************************)
(* The bridge: a command is refused while an update is being installed;    *)
(* installing waits for every command and for every editor's work.         *)
(***************************************************************************)
Send(c) ==
    /\ call[c] = "idle"
    /\ ~installing
    /\ call' = [call EXCEPT ![c] = "sent"]

\* mutant: installing does not wait for the commands under way.
SendInstallOverWork ==
    /\ ~installing /\ ~unsaved
    /\ installing' = TRUE
    /\ call' = [call EXCEPT !["install"] = "sent"]

SendInstall ==
    /\ ~installing /\ ~unsaved /\ Active = {}
    /\ installing' = TRUE
    /\ call' = [call EXCEPT !["install"] = "sent"]

RunCounted == runs < MaxRuns /\ runs' = runs + 1 /\ UNCHANGED changes
ChangeCounted == changes < MaxChanges /\ changes' = changes + 1 /\ UNCHANGED runs

(***************************************************************************)
(* The native handlers.                                                    *)
(***************************************************************************)
Failed(s) == [s EXCEPT !.phase = "error"]

Goes(c, stage) == call[c] = stage /\ ~exited
Becomes(c, stage) == call' = [call EXCEPT ![c] = stage]
Page == <<installing, unsaved, world, page, poll, startup, runs, changes>>

\* The command reaches the application while it is being replaced, or while
\* another update operation holds the lock.
Refused(c) ==
    /\ Goes(c, "sent")
    /\ \/ refusing
       \/ c \in {"check", "startup", "download", "install"} /\ operation # None
    /\ Becomes(c, "failed")
    /\ UNCHANGED <<Page, native, data>>

Received(c) == Goes(c, "sent") /\ ~refusing

\* check_for_updates forgets the previous update, its package and its feed.
CheckBegins(c) ==
    /\ Received(c)
    /\ operation = None
    /\ session' = [NoUpdate EXCEPT !.phase = "checking"]
    /\ operation' = [by |-> c, feed |-> IF offline THEN None ELSE chosen]
    /\ Becomes(c, "running")
    /\ UNCHANGED <<Page, refusing, backup, disk, kept, exited, data>>

\* The network answers: the newest version published by now, none newer than
\* the running one, or an error.
CheckAnswers(c) ==
    /\ Goes(c, "running")
    /\ \/ /\ operation.feed # None
          /\ \E v \in published[operation.feed]..MaxVersion :
                /\ published' = [published EXCEPT ![operation.feed] = v]
                /\ session' = [session EXCEPT !.phase = IF v > 0 THEN "available" ELSE "upToDate",
                                              !.update = IF v > 0 THEN v ELSE None,
                                              !.feed = operation.feed]
          /\ Becomes(c, "ok")
       \/ session' = Failed(session) /\ Becomes(c, "failed") /\ UNCHANGED published
    /\ operation' = None
    /\ UNCHANGED <<installing, unsaved, chosen, offline, page, poll, startup, runs, changes,
                   refusing, backup, disk, kept, exited, data>>

DownloadBegins ==
    /\ Received("download")
    /\ operation = None
    /\ IF offline \/ session.feed # chosen \/ session.update = None
       THEN session' = Failed(session) /\ Becomes("download", "failed") /\ UNCHANGED operation
       ELSE /\ session' = [session EXCEPT !.phase = "downloading", !.bytes = None, !.cancelled = FALSE]
            /\ operation' = [by |-> "download", feed |-> chosen]
            /\ Becomes("download", "running")
    /\ UNCHANGED <<Page, refusing, backup, disk, kept, exited, data>>

Verifying ==
    /\ Goes("download", "running")
    /\ session.phase = "downloading"
    /\ ~session.cancelled
    /\ session' = [session EXCEPT !.phase = "verifying"]
    /\ UNCHANGED <<Page, call, operation, refusing, backup, disk, kept, exited, data>>

\* The transfer is cancelled, fails or exceeds the limit, or the package is
\* verified and kept for the installation.
DownloadEnds ==
    /\ Goes("download", "running")
    /\ \/ /\ session.phase = "verifying" /\ ~session.cancelled
          /\ session' = [session EXCEPT !.bytes = session.update, !.phase = "ready"]
          /\ Becomes("download", "ok")
       \/ session' = Failed(session) /\ Becomes("download", "failed")
    /\ operation' = None
    /\ UNCHANGED <<Page, refusing, backup, disk, kept, exited, data>>

\* Any other command that writes the local database.
SaveBegins ==
    /\ Received("save")
    /\ Becomes("save", "running")
    /\ UNCHANGED <<Page, native, data>>

SaveEnds ==
    /\ Goes("save", "running")
    /\ \/ data' = data + 1 /\ Becomes("save", "ok")
       \/ UNCHANGED data /\ Becomes("save", "failed")
    /\ UNCHANGED <<Page, native>>

\* From here every other command is refused, also while the package, the feed
\* and the disk space are looked at.
InstallBegins ==
    /\ Received("install")
    /\ operation = None
    /\ refusing' = TRUE
    /\ operation' = [by |-> "install", feed |-> chosen]
    /\ Becomes("install", "running")
    /\ UNCHANGED <<Page, session, backup, disk, kept, exited, data>>

\* An installation ends in an error: commands are accepted again.
InstallFails ==
    /\ refusing' = FALSE
    /\ operation' = None
    /\ session' = Failed(session)
    /\ Becomes("install", "failed")

InstallChecks ==
    /\ Goes("install", "running")
    /\ \/ /\ session.feed = operation.feed /\ session.bytes # None
          /\ session' = [session EXCEPT !.phase = "installing"]
          /\ Becomes("install", "backing")
          /\ UNCHANGED <<operation, refusing>>
       \/ InstallFails
    /\ UNCHANGED <<Page, backup, disk, kept, exited, data>>

BackUp ==
    /\ Goes("install", "backing")
    /\ \/ backup' = data /\ Becomes("install", "copying") /\ UNCHANGED <<session, operation, refusing>>
       \/ InstallFails /\ UNCHANGED backup
    /\ UNCHANGED <<Page, disk, kept, exited, data>>

\* The application on disk cannot be copied when an earlier roll-back lost it.
\* mutant: the running application is not copied before it is replaced.
CopyNothing ==
    /\ Goes("install", "copying")
    /\ \/ Becomes("install", "replacing") /\ UNCHANGED <<session, operation, refusing>>
       \/ InstallFails
    /\ UNCHANGED <<Page, backup, kept, disk, exited, data>>

CopyApp ==
    /\ Goes("install", "copying")
    /\ \/ /\ disk # None
          /\ kept' = disk
          /\ Becomes("install", "replacing")
          /\ UNCHANGED <<session, operation, refusing>>
       \/ InstallFails /\ UNCHANGED kept
    /\ UNCHANGED <<Page, backup, disk, exited, data>>

\* The replacement succeeds, or leaves a broken application that is removed.
Replace ==
    /\ Goes("install", "replacing")
    /\ \/ disk' = session.bytes /\ Becomes("install", "restarting")
       \/ disk' = None /\ Becomes("install", "restoring")
    /\ UNCHANGED <<Page, session, operation, refusing, backup, kept, exited, data>>

Restore ==
    /\ Goes("install", "restoring")
    /\ disk' \in {kept, None}
    /\ InstallFails
    /\ UNCHANGED <<Page, backup, kept, exited, data>>

Restart ==
    /\ Goes("install", "restarting")
    /\ \/ exited' = TRUE /\ UNCHANGED <<call, session, operation, refusing>>
       \/ InstallFails /\ UNCHANGED exited
    /\ UNCHANGED <<Page, backup, disk, kept, data>>

Handler(c) ==
    \/ Refused(c)
    \/ c \in {"check", "startup"} /\ (CheckBegins(c) \/ CheckAnswers(c))
    \/ c = "download" /\ (DownloadBegins \/ Verifying \/ DownloadEnds)
    \/ c = "save" /\ (SaveBegins \/ SaveEnds)
    \/ c = "install" /\ (InstallBegins \/ InstallChecks \/ BackUp \/ CopyApp \/ Replace \/ Restore \/ Restart)

(***************************************************************************)
(* The page: its polls, its runs, its dialog.                              *)
(***************************************************************************)
\* mutant: every answer is shown, however old its read is.
Fresh(p)  == p

\* The answer of a read that is no longer the newest is never looked at.
Stale(p)  == [k \in DOMAIN p |-> [p[k] EXCEPT !.current = FALSE, !.answer = None]]
Read(p, k) == [Stale(p) EXCEPT ![k] = [stage |-> "sent", current |-> TRUE, answer |-> None]]
Arrived(p, k) == [p EXCEPT ![k] = [stage |-> "idle", current |-> FALSE, answer |-> None]]

\* An answer comes back: the bridge opens again after an installation, the
\* saved work no longer blocks a restart, and the run that sent it reads the
\* status once more before it lets the buttons go.
Deliver(c) ==
    /\ ~exited
    /\ call[c] \in {"ok", "failed"}
    /\ Becomes(c, "idle")
    /\ installing' = (installing /\ c # "install")
    /\ unsaved' = (unsaved /\ ~(c = "save" /\ call[c] = "ok"))
    /\ IF page.run = c
       THEN page' = [page EXCEPT !.run = "read"] /\ poll' = Read(poll, "run")
       ELSE /\ page' = [page EXCEPT !.dialog = IF c = "install" /\ @ = "busy" THEN "open" ELSE @]
            /\ UNCHANGED poll
    /\ UNCHANGED <<native, world, data, startup, runs, changes>>

\* mutant: an answer that is no longer wanted leaves the timer believing that
\* its read is still under way.
StatusArrivesOnce(k) ==
    /\ ~exited
    /\ poll[k].stage = "answered"
    /\ poll' = IF poll[k].current THEN Arrived(poll, k) ELSE [poll EXCEPT ![k].stage = "lost"]
    /\ page' = [page EXCEPT !.shown = IF poll[k].current THEN poll[k].answer ELSE @,
                            !.run = IF k = "run" /\ @ = "read" THEN None ELSE @]
    /\ UNCHANGED <<call, installing, unsaved, native, world, data, startup, runs, changes>>

StatusAnswers(k) ==
    /\ ~exited
    /\ poll[k].stage = "sent"
    /\ poll' = [poll EXCEPT ![k].stage = "answered", ![k].answer = IF poll[k].current THEN Status ELSE None]
    /\ UNCHANGED <<call, installing, unsaved, native, world, data, page, startup, runs, changes>>

\* Only the newest status read of this page may change what it shows.
StatusArrives(k) ==
    /\ ~exited
    /\ poll[k].stage = "answered"
    /\ poll' = Arrived(poll, k)
    /\ page' = [page EXCEPT !.shown = IF poll[k].current THEN poll[k].answer ELSE @,
                            !.run = IF k = "run" /\ @ = "read" THEN None ELSE @]
    /\ UNCHANGED <<call, installing, unsaved, native, world, data, startup, runs, changes>>

StartPoll ==
    /\ ~exited
    /\ page.open
    /\ poll["timer"].stage = "idle"
    /\ poll' = Read(poll, "timer")
    /\ UNCHANGED <<call, installing, unsaved, native, world, data, page, startup, runs, changes>>

OpenPage ==
    /\ ~page.open
    /\ \A k \in DOMAIN poll : poll[k].stage = "idle"
    /\ page' = [page EXCEPT !.open = TRUE]
    /\ UNCHANGED <<call, installing, unsaved, native, world, data, poll, startup, runs, changes>>

ClosePage ==
    /\ page.open
    /\ page.dialog = "closed"
    /\ page' = [open |-> FALSE, shown |-> None, run |-> None, dialog |-> "closed", asked |-> None]
    /\ poll' = Stale(poll)
    /\ UNCHANGED <<call, installing, unsaved, native, world, data, startup, runs, changes>>

\* Check or download: a status read begun before must not restore its phase.
Run(c) ==
    /\ page.open /\ page.dialog = "closed"
    /\ ~Busy /\ ~offline
    /\ c = "download" => page.shown # None /\ page.shown.download /\ ~page.shown.install
    /\ RunCounted
    /\ Send(c)
    /\ page' = [page EXCEPT !.run = c]
    /\ poll' = Stale(poll)
    /\ UNCHANGED <<installing, unsaved, native, world, data, startup>>

\* cancel_update_download is a plain command: it is done as soon as it is sent.
CancelDownload ==
    /\ page.open /\ page.dialog = "closed"
    /\ page.shown # None /\ page.shown.phase = "downloading"
    /\ ~installing
    /\ session' = [session EXCEPT !.cancelled = TRUE]
    /\ UNCHANGED <<call, installing, unsaved, operation, refusing, backup, disk, kept, exited,
                   world, data, page, poll, startup, runs, changes>>

AskToInstall ==
    /\ page.open /\ page.dialog = "closed"
    /\ page.shown # None /\ page.shown.install
    /\ ~Busy /\ ~unsaved
    /\ page' = [page EXCEPT !.dialog = "open"]
    /\ UNCHANGED <<call, installing, unsaved, native, world, data, poll, startup, runs, changes>>

\* The dialog names the version the page shows now; install_update takes none.
Confirm ==
    /\ page.dialog = "open"
    /\ RunCounted
    /\ SendInstall
    /\ page' = [page EXCEPT !.dialog = "busy", !.asked = page.shown.version]
    /\ UNCHANGED <<unsaved, native, world, data, poll, startup>>

NotNow ==
    /\ page.dialog = "open"
    /\ page' = [page EXCEPT !.dialog = "closed"]
    /\ UNCHANGED <<call, installing, unsaved, native, world, data, poll, startup, runs, changes>>

(***************************************************************************)
(* The rest of the application: an editor, the settings, whose change  *)
(* begins another startup check.  The modal dialog keeps the user from     *)
(* editing or changing settings.                                           *)
(***************************************************************************)
Edit ==
    /\ page.dialog = "closed"
    /\ ChangeCounted
    /\ call["save"] = "idle"
    /\ unsaved' = TRUE
    /\ UNCHANGED <<call, installing, native, world, data, page, poll, startup>>

\* An editor saves its work, or another command writes, such as an import.
Save ==
    /\ IF unsaved THEN UNCHANGED <<runs, changes>> ELSE ChangeCounted
    /\ Send("save")
    /\ UNCHANGED <<installing, unsaved, native, world, data, page, poll, startup>>

ChangeSettings ==
    /\ page.dialog = "closed" /\ ~Busy
    /\ ChangeCounted
    /\ \/ chosen' \in Feed \ {chosen} /\ UNCHANGED offline
       \/ offline' = ~offline /\ UNCHANGED chosen
    /\ IF ~offline' /\ startup # chosen'
       THEN startup' = chosen' /\ Send("startup")
       ELSE UNCHANGED <<startup, call>>
    /\ UNCHANGED <<installing, unsaved, native, published, data, page, poll>>

\* A command reaches its handler before the user can do anything else: what
\* takes long is the handler, its answer and the status reads.
User ==
    /\ ~exited
    /\ \A c \in Command : call[c] # "sent"
    /\ \/ OpenPage \/ ClosePage \/ CancelDownload \/ AskToInstall \/ Confirm \/ NotNow
       \/ \E c \in {"check", "download"} : Run(c)
       \/ Edit \/ Save \/ ChangeSettings

Polls == StartPoll \/ \E k \in DOMAIN poll : StatusAnswers(k) \/ StatusArrives(k)

Next == (\E c \in Command : Handler(c) \/ Deliver(c)) \/ Polls \/ User

Spec == Init /\ [][Next]_vars

-----------------------------------------------------------------------------
Version == 0..MaxVersion
Versions == Version \cup {None}
Answer == [phase : {"idle", "checking", "available", "upToDate", "downloading", "verifying",
                    "ready", "installing", "error"},
           version : Versions, install : BOOLEAN, download : BOOLEAN]

TypeOK ==
    /\ call \in [Command -> Stage]
    /\ \A c \in Command \ {"install"} : call[c] \in {"idle", "sent", "running", "ok", "failed"}
    /\ installing \in BOOLEAN /\ refusing \in BOOLEAN /\ unsaved \in BOOLEAN
    /\ session.update \in Versions /\ session.bytes \in Versions
    /\ Status \in Answer
    /\ operation # None => call[operation.by] \notin {"idle", "sent", "ok", "failed"}
    /\ chosen \in Feed /\ offline \in BOOLEAN /\ published \in [Feed -> Version]
    /\ disk \in Versions /\ kept \in Versions
    /\ page.shown \in Answer \cup {None}
    /\ page.run \in {None, "check", "download", "read"}
    /\ page.dialog \in {"closed", "open", "busy"}
    /\ startup \in Feed \cup {None}

\* While an update replaces the application, and when it restarts, the last
\* database backup has every write made so far; and at no moment is there
\* neither an application on disk nor a copy to put back (updates.rs,
\* install_update; desktop-invoke.ts, invoke).
BackupIsWhole ==
    exited \/ call["install"] \in {"copying", "replacing", "restoring", "restarting"} => backup = data
AppSurvives == (exited => disk # None) /\ (disk # None \/ kept # None)
NothingIsLost == BackupIsWhole /\ AppSurvives

\* The version that replaces the application is the one the dialog named when
\* the user agreed, whatever checks, downloads and late status reads came
\* between (UpdatePanel.tsx, refreshStatus and run; updates.rs, install_update).
\* It holds for one feed; with several, an answer given while another feed was
\* chosen may leave the dialog without a version to name (UpgradeAgreement in
\* ShellProofs).
InstalledAsShown ==
    [][call["install"] = "replacing" /\ disk' # disk /\ disk' # None => disk' = page.asked]_vars

\* The page and the native handlers together keep the promise of UpdateGate:
\* the gate closes on an idle application with nothing unsaved and nothing
\* passes while it is closed.
Gate == INSTANCE UpdateGate WITH
    Capacity <- Cardinality(Command),
    mode <- IF exited THEN "over" ELSE IF installing THEN "closed" ELSE "open",
    running <- Cardinality(Active \ {"install"})
GateHolds == Gate!Spec

\* As long as the page is open it comes to show the true state of the update
\* again and again, and lets its buttons go after every operation
\* (UpdatePanel.tsx, the polling effect and run).
Settled == exited \/ ~page.open \/ (page.run = None /\ page.shown = Status)
=============================================================================
