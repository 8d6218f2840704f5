----------------------------- MODULE WebViewer -----------------------------
(***************************************************************************)
(* The page in a browser (web-platform.ts): it shows a model that was      *)
(* shared, which it reads from the cloud once, and refuses what needs the  *)
(* desktop.  Its settings are in the storage of the browser, which all     *)
(* tabs share, under a key of this version and one of the version before:  *)
(* a tab may crash between two steps, and the storage may refuse to take a *)
(* value.                                                                  *)
(***************************************************************************)
EXTENDS Naturals

CONSTANTS Tab, Source, Field, Value, Default,
          First,    \* what the storage may hold when the version is first opened, key by key
          Shared,   \* the models that are shared, one after the other: a snapshot and its semantics
          Operation, Refused, Empty,  \* the operations; those it refuses, and those that have nothing
          Layout, None, Broken, MaxActs

VARIABLES current, legacy,  \* the settings under both keys: for the application and for each source
          layouts,          \* the layouts in the storage
          server,           \* what the cloud has, if it answers
          tabs, acts

vars == <<current, legacy, layouts, server, tabs, acts>>

Place == Source \cup {"app"}
Closed ==
  [open |-> FALSE, loading |-> FALSE, bundle |-> None, snapshot |-> None, semantics |-> None,
   asked |-> FALSE, read |-> [p \in Place |-> None], erase |-> None, wrote |-> None, told |-> None]

Init ==
  /\ \E s \in First : current = [p \in Place |-> s.current] /\ legacy = [p \in Place |-> s.legacy]
  /\ layouts \in SUBSET Layout /\ server \in Shared \cup {None}
  /\ tabs = [t \in Tab |-> Closed] /\ acts = 0

-----------------------------------------------------------------------------
\* readJson.
Parsed(text, fallback) == IF text \in {None, Broken} THEN fallback ELSE text

\* readAppSettings and readSourceSettings: what is not stored has its default.
Effective(now, old, p) ==
  LET stored == Parsed(now[p], Parsed(old[p], <<>>)) IN
  [f \in Field |-> IF f \in DOMAIN stored THEN stored[f] ELSE Default]
Defaults == [f \in Field |-> Default]

Act == acts < MaxActs /\ acts' = acts + 1
Set(t, x) == tabs' = [tabs EXCEPT ![t] = x]
\* A tab does one thing at a time.
Free(t) == tabs[t].open /\ tabs[t].erase = None

\* A tab is opened, and closed; one that crashes ends between any two of its steps.
Open(t) ==
  /\ Act /\ ~tabs[t].open
  /\ Set(t, [Closed EXCEPT !.open = TRUE, !.loading = TRUE]) /\ UNCHANGED <<current, legacy, layouts, server>>
Close(t) == Act /\ tabs[t].open /\ Set(t, Closed) /\ UNCHANGED <<current, legacy, layouts, server>>

-----------------------------------------------------------------------------
(* Settings                                                                *)

\* getSettings.
GetSettings(t, p) ==
  /\ Act /\ Free(t) /\ Set(t, [tabs[t] EXCEPT !.read[p] = Effective(current, legacy, p)])
  /\ UNCHANGED <<current, legacy, layouts, server>>

\* Mutated: the key of the version before is removed first.
ReplaceKey(t, p, v) ==
  /\ legacy' = [legacy EXCEPT ![p] = None]
  /\ \/ current' = [current EXCEPT ![p] = v]
     \/ UNCHANGED current
  /\ Set(t, [tabs[t] EXCEPT !.wrote = [place |-> p, value |-> v], !.told = "done"])

\* setItem: the storage takes the value, and the key before is removed next; or it refuses.
SetItem(t, p, v) ==
  /\ UNCHANGED legacy
  /\ \/ /\ current' = [current EXCEPT ![p] = v]
        /\ Set(t, [tabs[t] EXCEPT !.wrote = [place |-> p, value |-> v], !.erase = p])
     \/ UNCHANGED current /\ Set(t, [tabs[t] EXCEPT !.wrote = [place |-> p, value |-> v], !.told = "refused"])

\* updateAppSettings and updateDataSourceSettings: a page sends all it has read, with its change.
Update(t, p, f, x) ==
  /\ Act /\ Free(t) /\ tabs[t].read[p] # None
  /\ SetItem(t, p, [tabs[t].read[p] EXCEPT ![f] = x]) /\ UNCHANGED <<layouts, server>>
RemoveItem(t) ==
  /\ tabs[t].erase # None
  /\ LET p == tabs[t].erase IN
     /\ legacy' = [legacy EXCEPT ![p] = None]
     /\ Set(t, [tabs[t] EXCEPT !.erase = None, !.told = "done", !.read[p] = Effective(current, legacy', p)])
  /\ UNCHANGED <<current, layouts, server, acts>>

\* resetAppSettings and resetDataSourceSettings: the key before stays, behind the new one.
Reset(t, p) ==
  /\ Act /\ Free(t)
  /\ \/ /\ current' = [current EXCEPT ![p] = Defaults]
        /\ Set(t, [tabs[t] EXCEPT !.wrote = [place |-> p, value |-> Defaults], !.read[p] = Defaults, !.told = "done"])
     \/ UNCHANGED current /\ Set(t, [tabs[t] EXCEPT !.told = "refused"])
  /\ UNCHANGED <<legacy, layouts, server>>

\* The canvas keeps a layout, and clearLayouts removes them, of both versions.
KeepLayout(t, l) ==
  /\ Act /\ Free(t) /\ tabs[t].snapshot # None /\ layouts' = layouts \cup {l}
  /\ UNCHANGED <<current, legacy, server, tabs>>
ClearLayouts(t) ==
  /\ Act /\ Free(t) /\ layouts' = {} /\ Set(t, [tabs[t] EXCEPT !.told = "done"])
  /\ UNCHANGED <<current, legacy, server>>

-----------------------------------------------------------------------------
(* The shared model                                                        *)

Stays == UNCHANGED <<current, legacy, layouts, server>>

\* The owner publishes another state of the project, or revokes the link.
Publish(b) == Act /\ b # server /\ server' = b /\ UNCHANGED <<current, legacy, layouts, tabs>>

\* Mutated: the platform hands the model out without keeping it.
LoadedAndForgotten(t, b) ==
  [tabs[t] EXCEPT !.loading = FALSE, !.snapshot = b.snapshot, !.semantics = b.semantics, !.asked = b.snapshot # None]

\* loadSharedBundle, and the page that shows it: a snapshot makes the page ask for its semantics.
Loaded(t, b) ==
  [tabs[t] EXCEPT !.loading = FALSE, !.bundle = b, !.snapshot = b.snapshot, !.semantics = b.semantics,
                  !.asked = b.snapshot # None]
LoadSharedBundle(t) ==
  /\ tabs[t].loading /\ Stays /\ UNCHANGED acts
  /\ Set(t, IF server = None THEN [tabs[t] EXCEPT !.loading = FALSE] ELSE Loaded(t, server))

\* getSemantics, for the page and again when it is refreshed; without a model they are empty.
Refresh(t) == Act /\ Free(t) /\ tabs[t].snapshot # None /\ ~tabs[t].asked /\ Set(t, [tabs[t] EXCEPT !.asked = TRUE]) /\ Stays
GetSemantics(t) ==
  /\ tabs[t].asked /\ Stays /\ UNCHANGED acts
  /\ Set(t, [tabs[t] EXCEPT !.asked = FALSE,
                            !.semantics = IF tabs[t].bundle = None THEN None ELSE tabs[t].bundle.semantics])

\* getSnapshot: the shared one or none.
GetSnapshot(t, n) ==
  /\ Act /\ Free(t) /\ Stays
  /\ Set(t, [tabs[t] EXCEPT !.told = IF tabs[t].bundle # None /\ tabs[t].bundle.snapshot = n THEN n ELSE "refused"])

\* Everything else needs the desktop, has nothing in a browser, or only gives the page a file.
Told(op) == IF op \in Refused THEN "refused" ELSE IF op \in Empty THEN "empty" ELSE "done"
Call(t, op) == Act /\ Free(t) /\ Stays /\ Set(t, [tabs[t] EXCEPT !.told = Told(op)])

Stores(t) ==
  \/ \E p \in Place : GetSettings(t, p) \/ Reset(t, p) \/ \E f \in Field, x \in Value : Update(t, p, f, x)
  \/ RemoveItem(t) \/ ClearLayouts(t) \/ (\E l \in Layout : KeepLayout(t, l))
Shares(t) ==
  \/ LoadSharedBundle(t) \/ Refresh(t) \/ GetSemantics(t)
  \/ \E b \in Shared : GetSnapshot(t, b.snapshot)
  \/ \E op \in Operation : Call(t, op)
Next ==
  \/ \E t \in Tab : Open(t) \/ Close(t) \/ Stores(t) \/ Shares(t)
  \/ \E b \in Shared \cup {None} : Publish(b)

Spec == Init /\ [][Next]_vars

-----------------------------------------------------------------------------
(* Properties                                                              *)

Full == [Field -> Value]
TypeOK ==
  /\ layouts \subseteq Layout /\ server \in Shared \cup {None}
  /\ \A t \in Tab :
       /\ tabs[t].open \in BOOLEAN /\ tabs[t].bundle \in Shared \cup {None} /\ tabs[t].erase \in Place \cup {None}
       /\ \A p \in Place : tabs[t].read[p] \in Full \cup {None}

Asked(p, v) ==
  \E t \in Tab : (tabs'[t] # tabs[t] \/ Reset(t, p)) /\ tabs'[t].wrote = [place |-> p, value |-> v]
Kept ==
  \A p \in Place :
    Effective(current', legacy', p) # Effective(current, legacy, p) => Asked(p, Effective(current', legacy', p))

\* The settings a tab would read change only to those that some tab asks for, whole: neither a value
\* the storage refuses nor a tab closed half way loses those of the version before (updateAppSettings).
SettingsAreKept == [][Kept]_vars

\* What a tab shows is one shared model, however often it is read again and whatever was published since.
ShowsShared(t) ==
  tabs[t].snapshot # None =>
    \E b \in Shared : tabs[t].snapshot = b.snapshot /\ tabs[t].semantics = b.semantics
SharedIsWhole == \A t \in Tab : ShowsShared(t)
=============================================================================
