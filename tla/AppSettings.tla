---------------------------- MODULE AppSettings ----------------------------
(***************************************************************************)
(* The settings App.tsx holds and the page that edits them.  Everything is *)
(* saved as a whole object: a row of SettingsPage, the saver of the panel  *)
(* widths, the saver of the last workspace and the migration of older      *)
(* values each send all app settings, built from those their rendering     *)
(* had.  A call is written by the backend, perhaps read back, and then     *)
(* delivered; between the three anything else may happen.                  *)
(*                                                                         *)
(* A value is the number of the edit that made it, 0 the default: `pref`   *)
(* for whatever a row changes, `panel` for the panels, `ai` and `cloud`    *)
(* for the two configurations of a source that are edited as a draft.      *)
(***************************************************************************)
EXTENDS Naturals, FiniteSets

CONSTANTS Source, None,
          MaxEdits,   \* edits of the user, of any kind
          MaxCalls,   \* calls under way at once
          Legacy,     \* older values are still to be migrated
          Reliable    \* calls do not fail

VARIABLES store,  \* the backend's app settings and settings of each source
          legacy, \* whether values of the older versions are still in local storage
          page,   \* source on the page, settings, loaded, panel as it stands
          due,    \* timers of the two savers that will fire: a subset of {"panel", "last"}
          draft,  \* the settings page: open, drafts, typed secret, whether a synchronisation is due;
                  \* what the drafts were made from, and (a history variable) whether it has changed since
          calls, spent

vars == <<store, legacy, page, due, draft, calls, spent>>

DefaultApp == [pref |-> 0, panel |-> 0, last |-> None, migrated |-> FALSE]
DefaultSource(s) == [of |-> s, ai |-> 0, cloud |-> 0, migrated |-> FALSE]
Effective(s) == [app |-> store.app, source |-> IF s = None THEN None ELSE store.source[s]]

Saved == page.settings.source
ClosedDraft == [open |-> FALSE, ai |-> 0, cloud |-> 0, secret |-> FALSE, due |-> FALSE,
                basis |-> None, moved |-> FALSE]

Call(kind, s, app, src) ==
  [kind |-> kind, for |-> s, active |-> TRUE, app |-> app, source |-> src, secret |-> FALSE,
   step |-> IF kind \in {"load", "reload"} THEN "read" ELSE "write", answer |-> None]

Init ==
  /\ store = [app |-> [DefaultApp EXCEPT !.migrated = ~ Legacy],
              source |-> [s \in Source |-> [DefaultSource(s) EXCEPT !.migrated = ~ Legacy]]]
  /\ legacy = Legacy
  /\ page = [source |-> None, loaded |-> FALSE, panel |-> 0,
             settings |-> [app |-> DefaultApp, source |-> None]]
  /\ due = {} /\ draft = ClosedDraft /\ spent = 0
  /\ calls = {Call("load", None, DefaultApp, None)}

-----------------------------------------------------------------------------
(* What follows from new settings on the page                              *)

Key(s) == IF s = None THEN None ELSE [of |-> s.of, ai |-> s.ai, cloud |-> s.cloud]

\* mutant: any new settings object replaces the drafts
OutOfDateAlways(settings) == settings # page.settings \/ settings.source # None
\* Drafts follow the source and the two saved configurations, not the object that carries them.
OutOfDate(settings) == Key(settings.source) # Key(Saved)

\* The draft after new settings.
Following(d, settings) ==
  [d EXCEPT !.due = @ \/ (d.open /\ OutOfDate(settings)),
            !.moved = @ \/ (d.open /\ Key(settings.source) # Key(d.basis))]

\* setSettings: both savers start their timers anew, and the pending answer of one is no longer wanted.
DeliverTo(d, p, others) ==
  /\ page' = p
  /\ due' = {"panel", "last"}
  /\ calls' = {[c EXCEPT !.active = @ /\ c.kind # "last"] : c \in others}
  /\ draft' = Following(d, p.settings)

\* mutant: the savers do not look at settings that another call has brought
DeliverQuietly(p, others) ==
  /\ page' = p
  /\ due' = due
  /\ calls' = others
  /\ draft' = Following(draft, p.settings)

Deliver(p, others) == DeliverTo(draft, p, others)

-----------------------------------------------------------------------------
(* The backend's half of a call                                            *)

Advance(c, d) == calls' = (calls \ {c}) \cup {d}

\* A write replaces the whole object.
Written(c) ==
  /\ c.step = "write"
  /\ store' = IF c.kind \in {"source", "migrate"} THEN [store EXCEPT !.source[c.source.of] = c.source]
              ELSE [store EXCEPT !.app = c.app]
  /\ legacy' = (legacy /\ ~ (c.kind = "migrate"))
  /\ Advance(c, CASE c.kind \in {"app", "load"} -> [c EXCEPT !.step = "read"]
                  [] c.kind \in {"source", "migrate"} ->
                       [c EXCEPT !.step = "deliver", !.answer = [app |-> store.app, source |-> c.source]]
                  [] OTHER -> [c EXCEPT !.step = "deliver", !.answer = [app |-> c.app, source |-> None]])
  /\ UNCHANGED <<page, due, draft, spent>>

Read(c) ==
  /\ c.step = "read"
  /\ Advance(c, [c EXCEPT !.answer = Effective(c.for),
                          !.step = IF c.kind = "load" THEN "migrate" ELSE "deliver"])
  /\ UNCHANGED <<store, legacy, page, due, draft, spent>>

\* migrateLegacySettings: app settings first and read again, then those of the source; the source's
\* answer is what its own write returns.
Migrate(c) ==
  /\ c.kind = "load" /\ c.step = "migrate"
  /\ LET app == c.answer.app
         src == c.answer.source
     IN  Advance(c,
           IF ~ app.migrated THEN
             [c EXCEPT !.step = "write",
                       !.app = [app EXCEPT !.migrated = TRUE, !.panel = IF legacy THEN MaxEdits + 1 ELSE @]]
           ELSE IF src # None /\ ~ src.migrated THEN
             [c EXCEPT !.kind = "migrate", !.step = "write",
                       !.source = [src EXCEPT !.migrated = TRUE, !.ai = IF legacy THEN MaxEdits + 1 ELSE @]]
           ELSE [c EXCEPT !.step = "deliver"])
  /\ UNCHANGED <<store, legacy, page, due, draft, spent>>

-----------------------------------------------------------------------------
(* Delivery                                                                *)

LoadDelivered(c) ==
  /\ c.kind \in {"load", "migrate"} /\ c.step = "deliver"
  /\ IF c.active
     THEN Deliver([page EXCEPT !.settings = c.answer, !.loaded = TRUE, !.panel = c.answer.app.panel], calls \ {c})
     ELSE calls' = calls \ {c} /\ UNCHANGED <<page, due, draft>>
  /\ UNCHANGED <<store, legacy, spent>>

\* A failed load leaves the defaults in place, and counts as loaded.
LoadFails(c) ==
  /\ ~ Reliable
  /\ c.kind \in {"load", "migrate"}
  /\ calls' = calls \ {c}
  /\ page' = IF c.active THEN [page EXCEPT !.loaded = TRUE] ELSE page
  /\ due' = IF c.active THEN {"panel", "last"} ELSE due
  /\ UNCHANGED <<store, legacy, draft, spent>>

\* The answers of the two savers touch the app settings only.
SaverDelivered(c) ==
  /\ c.kind \in {"panel", "last"} /\ c.step = "deliver"
  /\ IF c.active THEN Deliver([page EXCEPT !.settings.app = c.app], calls \ {c})
     ELSE calls' = calls \ {c} /\ UNCHANGED <<page, due, draft>>
  /\ UNCHANGED <<store, legacy, spent>>

\* updateAppSettings, and a reset of the app settings, which leaves the panels alone.
AppDelivered(c) ==
  /\ c.kind = "app" /\ c.step = "deliver"
  /\ Deliver([page EXCEPT !.settings = c.answer,
                          !.panel = IF c.app = DefaultApp THEN @ ELSE c.answer.app.panel], calls \ {c})
  /\ UNCHANGED <<store, legacy, spent>>

\* updateSourceSettings; the typed secret, if any, is sent next and the settings read again.
SourceDelivered(c) ==
  /\ c.kind = "source" /\ c.step = "deliver"
  /\ DeliverTo([draft EXCEPT !.secret = @ /\ ~ c.secret], [page EXCEPT !.settings = c.answer],
               (calls \ {c}) \cup (IF c.secret THEN {Call("reload", c.for, DefaultApp, None)} ELSE {}))
  /\ UNCHANGED <<store, legacy, spent>>

\* onReload; the answer counts only as long as its snapshot is on the page.
Reloaded(c) ==
  /\ c.kind = "reload" /\ c.step = "deliver"
  /\ IF c.for = page.source THEN Deliver([page EXCEPT !.settings = c.answer], calls \ {c})
     ELSE calls' = calls \ {c} /\ UNCHANGED <<page, due, draft>>
  /\ UNCHANGED <<store, legacy, spent>>

SaveFails(c) ==
  /\ ~ Reliable
  /\ c.kind \notin {"load", "migrate"}
  /\ calls' = calls \ {c}
  /\ UNCHANGED <<store, legacy, page, due, draft, spent>>

-----------------------------------------------------------------------------
(* The savers and the user                                                 *)

Room == Cardinality(calls) < MaxCalls
Act == spent < MaxEdits /\ spent' = spent + 1

\* 300 ms after the last change of panels or settings.
SavePanels ==
  /\ "panel" \in due /\ page.loaded
  /\ due' = due \ {"panel"}
  /\ IF page.settings.app.panel = page.panel THEN UNCHANGED calls
     ELSE Room /\ calls' = calls \cup {Call("panel", page.source, [page.settings.app EXCEPT !.panel = page.panel], None)}
  /\ UNCHANGED <<store, legacy, page, draft, spent>>

SaveWorkspace ==
  /\ "last" \in due /\ page.loaded
  /\ due' = due \ {"last"}
  /\ IF page.source \in {None, page.settings.app.last} THEN UNCHANGED calls
     ELSE Room /\ calls' = calls \cup {Call("last", page.source, [page.settings.app EXCEPT !.last = page.source], None)}
  /\ UNCHANGED <<store, legacy, page, draft, spent>>

MovePanel ==
  /\ Act
  /\ page' = [page EXCEPT !.panel = spent + 1]
  /\ due' = due \cup {"panel"}
  /\ UNCHANGED <<store, legacy, draft, calls>>

\* Another snapshot's source: its settings are read; the answer of an earlier reading is dropped.
SwitchSource(s) ==
  /\ Act /\ Room
  /\ s # page.source
  /\ page' = [page EXCEPT !.source = s]
  /\ due' = due \cup {"last"}
  /\ calls' = {[c EXCEPT !.active = @ /\ c.kind = "panel"] : c \in calls} \cup {Call("load", s, DefaultApp, None)}
  /\ UNCHANGED <<store, legacy, draft>>

DraftOf(src) ==
  [ClosedDraft EXCEPT !.open = TRUE, !.ai = IF src = None THEN 0 ELSE src.ai,
                      !.cloud = IF src = None THEN 0 ELSE src.cloud, !.basis = src]

OpenSettings ==
  /\ ~ draft.open
  /\ draft' = DraftOf(Saved)
  /\ UNCHANGED <<store, legacy, page, due, calls, spent>>

CloseSettings ==
  /\ draft.open
  /\ draft' = ClosedDraft
  /\ UNCHANGED <<store, legacy, page, due, calls, spent>>

\* What a row sends: the whole object of its rendering with one value changed.
AppRow == [page.settings.app EXCEPT !.pref = spent + 1]
SourceRow == [Saved EXCEPT !.cloud = spent + 1]

\* A row of the app categories, or the defaults of a category.
EditApp ==
  /\ draft.open /\ Act /\ Room
  /\ calls' = calls \cup {Call("app", page.source, AppRow, None)}
  /\ UNCHANGED <<store, legacy, page, due, draft>>

ResetApp ==
  /\ draft.open /\ Act /\ Room
  /\ calls' = calls \cup {Call("app", page.source, DefaultApp, None)}
  /\ UNCHANGED <<store, legacy, page, due, draft>>

\* A row of the source categories, the cloud draft among them.
EditSource ==
  /\ draft.open /\ Saved # None /\ Act /\ Room
  /\ calls' = calls \cup {Call("source", page.source, DefaultApp, SourceRow)}
  /\ UNCHANGED <<store, legacy, page, due, draft>>

ResetSource ==
  /\ draft.open /\ Saved # None /\ page.source # None /\ Act /\ Room
  /\ calls' = calls \cup {Call("source", page.source, DefaultApp, DefaultSource(page.source))}
  /\ UNCHANGED <<store, legacy, page, due, draft>>

EditDraft ==
  /\ draft.open /\ Saved # None /\ Act
  /\ \E typed \in BOOLEAN :
       draft' = [draft EXCEPT !.ai = spent + 1, !.secret = @ \/ typed]
  /\ UNCHANGED <<store, legacy, page, due, calls>>

AiDirty == Saved # None /\ (draft.ai # Saved.ai \/ draft.secret)

Discard ==
  /\ draft.open /\ AiDirty
  /\ draft' = [draft EXCEPT !.ai = Saved.ai, !.secret = FALSE]
  /\ UNCHANGED <<store, legacy, page, due, calls, spent>>

\* saveAiConfiguration, one at a time.
SaveAi ==
  /\ draft.open /\ AiDirty /\ Act /\ Room
  /\ ~ \E c \in calls : c.kind = "source"
  /\ calls' = calls \cup {[Call("source", page.source, DefaultApp, [Saved EXCEPT !.ai = draft.ai])
                             EXCEPT !.secret = draft.secret]}
  /\ UNCHANGED <<store, legacy, page, due, draft>>

\* The timer that lets both drafts follow the saved configurations.
SyncDrafts ==
  /\ draft.open /\ draft.due
  /\ draft' = [DraftOf(Saved) EXCEPT !.secret = draft.secret]
  /\ UNCHANGED <<store, legacy, page, due, calls, spent>>

-----------------------------------------------------------------------------
Backend == \E c \in calls : Written(c) \/ Read(c) \/ Migrate(c)
Delivery == \E c \in calls : LoadDelivered(c) \/ SaverDelivered(c) \/ AppDelivered(c) \/ SourceDelivered(c) \/ Reloaded(c)
Failure == \E c \in calls : LoadFails(c) \/ SaveFails(c)
User ==
  \/ MovePanel \/ OpenSettings \/ CloseSettings
  \/ EditApp \/ ResetApp \/ EditSource \/ ResetSource \/ EditDraft \/ Discard \/ SaveAi
  \/ \E s \in Source : SwitchSource(s)

Next == Backend \/ Delivery \/ Failure \/ SavePanels \/ SaveWorkspace \/ SyncDrafts \/ User

Spec == Init /\ [][Next]_vars

\* Timers fire, and the backend answers.
Progress == Backend \/ Delivery \/ SavePanels \/ SaveWorkspace

-----------------------------------------------------------------------------
(* Properties                                                              *)

App == [pref : 0..MaxEdits, panel : 0..(MaxEdits + 1), last : Source \cup {None}, migrated : BOOLEAN]
OfSource == [of : Source, ai : 0..(MaxEdits + 1), cloud : 0..MaxEdits, migrated : BOOLEAN]

TypeOK ==
  /\ store.app \in App /\ store.source \in [Source -> OfSource]
  /\ page.settings.app \in App /\ page.settings.source \in OfSource \cup {None}
  /\ due \subseteq {"panel", "last"} /\ draft.basis \in OfSource \cup {None}
  /\ Cardinality(calls) <= MaxCalls + 1

\* An unsaved draft of the AI configuration is replaced only after the source or one of its saved
\* configurations has changed, though it may have changed back: reloading app preferences does not
\* cost the user a draft (SettingsPage.tsx 229-240).
DraftKept ==
  [][(draft.open /\ draft'.open /\ draft.basis # None /\ draft.ai # draft.basis.ai
        /\ draft'.ai # draft.ai /\ spent' = spent /\ ~ Discard) => draft.moved]_vars

\* The two savers do not chase one another: each sends a whole object that may carry an old value of
\* the other's part, and its answer starts both again, yet once the user stops both come to rest, with
\* the panels and the source of the page in the settings on the page (App.tsx 435-452, 530-566).
Settled ==
  /\ due = {} /\ ~ (\E c \in calls : c.kind \in {"panel", "last"})
  /\ page.loaded => /\ page.settings.app.panel = page.panel
                    /\ page.source \in {None, page.settings.app.last}

=============================================================================
