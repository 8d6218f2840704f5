---------------------------- MODULE CanvasProofs ----------------------------
(***************************************************************************)
(* What the parts of the diagram page promise, for every value of their    *)
(* constants that suits them (CanvasIsSuited, SomethingIsUndone): the      *)
(* editing of relationships, the review of suggestions, the exported files *)
(* and the canvas with its layouts, each by an inductive invariant of its  *)
(* own.                                                                    *)
(***************************************************************************)
EXTENDS Diagram, Canvas, FiniteSetTheorems, TLAPS

-----------------------------------------------------------------------------
(* The editing of relationships                                            *)

RelateServers == [rels : [Relate!Rel -> {Missing} \cup RelateStoredRows], made : 0..RelateMaxRels, unlike : SUBSET (RelateSource \X Relate!Mapping)]
RelateGestures == [at : {"none", "menu", "drag", "pick"}, from : RelateFieldOrNone, rel : {Missing}]
RelateCanvases == [edge : [rel : RelateRelOrNone, map : RelateMapOrNone], gesture : RelateGestures]
RelateForms == Relate!FormType \cup {Missing}
RelateManagers == [open : BOOLEAN, editor : RelateForms, asked : RelateActions \cup {Missing}, busy : BOOLEAN]
RelateSpendings == [forms : 0..RelateMaxForms, moves : 0..RelateMaxMoves, edits : Nat, calls : Nat]
RelateKinds == {"popover", "editor", "toggle", "delete"}

-----------------------------------------------------------------------------
RelateServerOK == rServer \in RelateServers /\ \A r \in Relate!Rel : rServer.rels[r] # Missing => r <= rServer.made
RelateShownOK == rShown \in [source : RelateSource, snap : 0..RelateMaxMoves]
\* Where a gesture is under way it began at a field.
RelateCanvasOK == rCanvas \in RelateCanvases /\ (rCanvas.gesture.at # "none" => rCanvas.gesture.from \in RelateField)
\* The popover is about two fields.
RelateDraftOK == rDraft \in RelateForms /\ (rDraft # Missing => rDraft.map \in Relate!Mapping)
\* What the editor knows was asked in the source shown, and it asks of a mapping.
RelateEditorOK(x) ==
  /\ x.checked # Missing => x.checked.source = rShown.source
  /\ x.asking => x.map # Missing
RelateManagerOK == rManager \in RelateManagers /\ (rManager.editor # Missing => RelateEditorOK(rManager.editor))
\* A deletion is asked of a relationship of the source shown.
RelateDoomedOK ==
  /\ rDoomed \in RelateDeletions \cup {Missing}
  /\ rDoomed # Missing =>
       /\ rDoomed.source = rShown.source /\ rDoomed.snap = rShown.snap /\ rDoomed.rel <= rServer.made
       /\ rServer.rels[rDoomed.rel] # Missing => rServer.rels[rDoomed.rel].source = rDoomed.source
RelateWriters == Nat \cup {"manager", "inspector"}
RelateWrittenCalls ==
  [kind : RelateKinds, by : RelateWriters, source : RelateSource, rel : RelateRelOrNone, map : RelateMapOrNone, allow : BOOLEAN,
   at : {"sent", "done", "failed"}, id : Nat]
RelateCallOK(c) ==
  /\ c \in RelateWrittenCalls
  /\ c.kind # "delete" => c.map \in Relate!Mapping
  /\ c.kind \in {"toggle", "delete"} => c.rel \in Relate!Rel
RelateCallsOK == \A c \in rCalls : RelateCallOK(c)
RelateSpentOK == rSpent \in RelateSpendings
RelateInv == RelateServerOK /\ RelateShownOK /\ RelateCanvasOK /\ RelateDraftOK /\ RelateManagerOK /\ RelateDoomedOK /\ RelateCallsOK /\ RelateSpentOK

RelateChecks == {Missing} \cup [source : RelateSource, map : Relate!Mapping, verdict : {"duplicate", "conflicted", "valid"}]
RelateBefores == RelateMapOrNone \X BOOLEAN
RelateNumbers == 1..RelateMaxForms

LEMMA RelateFormTypeIs ==
  Relate!FormType = [rel : RelateRelOrNone, map : RelateMapOrNone, allow : BOOLEAN, was : RelateBefores, checked : RelateChecks,
              asking : BOOLEAN, status : {"validating", "idle", "saving", "error"}, inst : RelateNumbers]
BY DEF Relate!FormType, RelateRelOrNone, RelateMapOrNone, RelateBefores, RelateChecks, RelateNumbers

LEMMA RelateCheckIs ==
  ASSUME RelateInv, NEW map \in Relate!Mapping, NEW i
  PROVE  [source |-> rShown.source, map |-> map, verdict |-> Relate!Verdict(rShown.source, map, i)] \in RelateChecks
<1>1. rShown.source \in RelateSource
  BY DEF RelateInv, RelateShownOK
<1>2. PICK v \in {"duplicate", "conflicted", "valid"} : v = Relate!Verdict(rShown.source, map, i)
  BY DEF Relate!Verdict
<1> QED BY <1>1, <1>2 DEF RelateChecks

\* A written call: its fields.
RelateWritten(kind, by, rel, map, allow) ==
  [kind |-> kind, by |-> by, source |-> rShown.source, rel |-> rel, map |-> map,
   allow |-> allow, at |-> "sent", id |-> rSpent.calls]

LEMMA RelateSendIs ==
  ASSUME NEW kind, NEW by, NEW rel, NEW map, NEW allow, Relate!Send(kind, by, rel, map, allow)
  PROVE  rCalls' = rCalls \cup {RelateWritten(kind, by, rel, map, allow)}
BY DEF Relate!Send, RelateWritten

LEMMA RelateWrittenIs ==
  ASSUME NEW kind, NEW by, NEW rel, NEW map, NEW allow
  PROVE  LET c == RelateWritten(kind, by, rel, map, allow) IN
         /\ c.kind = kind /\ c.by = by /\ c.source = rShown.source /\ c.rel = rel /\ c.map = map /\ c.at = "sent"
BY DEF RelateWritten

LEMMA RelateSendKeeps ==
  ASSUME NEW kind, NEW by, NEW rel, NEW map, NEW allow, Relate!Send(kind, by, rel, map, allow),
         RelateInv, kind \in RelateKinds, by \in RelateWriters, rel \in RelateRelOrNone, map \in RelateMapOrNone, allow \in BOOLEAN, kind # "delete" => map \in Relate!Mapping,
         kind \in {"toggle", "delete"} => rel \in Relate!Rel
  PROVE  RelateCallsOK'
<1> DEFINE w == RelateWritten(kind, by, rel, map, allow)
<1>1. rCalls' = rCalls \cup {w}
  BY RelateSendIs
<1>2. w.kind = kind /\ w.source = rShown.source /\ w.rel = rel /\ w.map = map
  BY RelateWrittenIs
<1>0. rShown.source \in RelateSource /\ rSpent.calls \in Nat
  BY DEF RelateInv, RelateShownOK, RelateSpentOK, RelateSpendings
<1>5. w \in RelateWrittenCalls
  BY <1>0 DEF RelateWritten, RelateWrittenCalls
<1>3. RelateCallOK(w)
  BY <1>2, <1>5 DEF RelateCallOK
<1>4. \A c \in rCalls : RelateCallOK(c)
  BY DEF RelateInv, RelateCallsOK
<1> QED BY <1>1, <1>3, <1>4 DEF RelateCallsOK, RelateCallOK

LEMMA RelateFormIs ==
  ASSUME NEW rel \in RelateRelOrNone, NEW map \in RelateMapOrNone, NEW allow \in BOOLEAN,
         RelateInv, RelateSuitable, rSpent.forms < RelateMaxForms
  PROVE  LET x == Relate!Form(rel, map, allow) IN
         /\ x \in Relate!FormType /\ x # Missing /\ x.map = map /\ x.checked = Missing /\ (x.asking => x.map # Missing) /\ x.inst = rSpent.forms + 1
<1>1. rSpent.forms + 1 \in 1..RelateMaxForms
  BY DEF RelateInv, RelateSpentOK, RelateSpendings, RelateSuitable
<1>2. Relate!Form(rel, map, allow) \in Relate!FormType
  BY <1>1, SMTT(30) DEF Relate!Form, Relate!FormType, RelateRelOrNone, RelateMapOrNone
<1> QED BY <1>2 DEF Relate!Form, RelateSuitable

LEMMA RelateFormOfIs ==
  ASSUME NEW r \in Relate!Rel, rServer.rels[r] # Missing, RelateInv, RelateSuitable, rSpent.forms < RelateMaxForms
  PROVE  /\ Relate!FormOf(r) \in Relate!FormType /\ Relate!FormOf(r) # Missing /\ Relate!FormOf(r).map \in Relate!Mapping /\ Relate!FormOf(r).checked = Missing
         /\ (Relate!FormOf(r).asking => Relate!FormOf(r).map # Missing)
         /\ Relate!FormOf(r).inst = rSpent.forms + 1
<1>1. rServer.rels[r] \in RelateStoredRows
  BY DEF RelateInv, RelateServerOK, RelateServers
<1>2. rServer.rels[r].map \in Relate!Mapping
  BY <1>1 DEF RelateStoredRows
<1>5. Relate!Conflicted(r) \in BOOLEAN
  BY DEF Relate!Conflicted
<1>3. PICK b \in BOOLEAN : b = Relate!Conflicted(r)
  BY <1>5
<1>4. r \in RelateRelOrNone /\ rServer.rels[r].map \in RelateMapOrNone
  BY <1>2 DEF RelateRelOrNone, RelateMapOrNone
<1> QED BY <1>2, <1>3, <1>4, RelateFormIs DEF Relate!FormOf

LEMMA RelateOpensKeeps ==
  ASSUME RelateInv, Relate!OpensForm, RelateSuitable
  PROVE  RelateSpentOK' /\ rSpent.forms < RelateMaxForms
BY DEF RelateInv, Relate!OpensForm, RelateSpentOK, RelateSpendings, RelateSuitable

LEMMA RelateCountsKeeps ==
  ASSUME RelateInv, Relate!Counts
  PROVE  RelateSpentOK'
BY DEF RelateInv, Relate!Counts, RelateSpentOK, RelateSpendings

LEMMA RelateEditsKeeps ==
  ASSUME RelateInv, Relate!Edits
  PROVE  RelateSpentOK'
BY DEF RelateInv, Relate!Edits, RelateSpentOK, RelateSpendings

-----------------------------------------------------------------------------
LEMMA RelateStarts == RelateSuitable /\ Relate!Init => RelateInv
<1> SUFFICES ASSUME RelateSuitable, Relate!Init PROVE RelateInv
  OBVIOUS
<1>1. RelateShownOK
  BY DEF Relate!Init, RelateShownOK, RelateSuitable
<1>2. RelateServerOK
  <2>1. PICK map \in Relate!Mapping, unlike \in {{}, {rShown.source} \X Relate!Mapping} :
          rServer = [rels |-> [r \in Relate!Rel |-> IF r = 1 THEN [source |-> rShown.source, map |-> map, on |-> TRUE] ELSE Missing],
                    made |-> 1, unlike |-> unlike]
    BY DEF Relate!Init
  <2>2. rShown.source \in RelateSource
    BY <1>1 DEF RelateShownOK
  <2>3. [source |-> rShown.source, map |-> map, on |-> TRUE] \in RelateStoredRows
    BY <2>2 DEF RelateStoredRows
  <2>4. unlike \in SUBSET (RelateSource \X Relate!Mapping)
    BY <2>2
  <2>5. rServer.rels \in [Relate!Rel -> {Missing} \cup RelateStoredRows]
    BY <2>1, <2>3
  <2>6. 1 \in 0..RelateMaxRels
    BY DEF RelateSuitable
  <2>7. rServer \in RelateServers
    BY <2>1, <2>3, <2>4, <2>6 DEF RelateServers
  <2> QED BY <2>1, <2>7 DEF RelateServerOK
<1>3. RelateCanvasOK
  BY
     DEF Relate!Init, RelateCanvasOK, RelateCanvases, RelateGestures, Relate!NoEdge, Relate!NoGesture, RelateRelOrNone, RelateMapOrNone, RelateFieldOrNone
<1>4. RelateDraftOK /\ RelateDoomedOK /\ RelateCallsOK
  BY DEF Relate!Init, RelateDraftOK, RelateDoomedOK, RelateCallsOK, RelateForms
<1>5. RelateManagerOK
  BY DEF Relate!Init, RelateManagerOK, RelateEditorOK, RelateManagers, Relate!ClosedManager, RelateForms
<1>6. RelateSpentOK
  BY DEF Relate!Init, RelateSpentOK, RelateSpendings, RelateSuitable
<1> QED BY <1>1, <1>2, <1>3, <1>4, <1>5, <1>6 DEF RelateInv

LEMMA RelateInvGives == RelateInv => Relate!TypeOK
BY SMTT(30)
   DEF RelateInv, Relate!TypeOK, RelateServerOK, RelateServers, RelateShownOK, RelateDraftOK, RelateManagerOK, RelateEditorOK, RelateManagers, RelateDoomedOK, RelateDeletions, RelateForms, Relate!Editor, RelateStoredRows

-----------------------------------------------------------------------------
(* The steps                                                               *)

RelateSteps == Relate!ValidatedHere /\ Relate!AskedHere /\ Relate!KeptUntilDecided

LEMMA RelateQuiet ==
  ASSUME rCalls' \subseteq rCalls
  PROVE  Relate!ValidatedHere /\ Relate!AskedHere
BY DEF Relate!ValidatedHere, Relate!AskedHere

LEMMA RelateUnmoved ==
  ASSUME rManager' = rManager \/ rManager'.editor = rManager.editor
  PROVE  Relate!KeptUntilDecided
BY DEF Relate!KeptUntilDecided, Relate!Dirty, Relate!Editor

LEMMA RelateCanvasKeeps ==
  ASSUME RelateInv, RelateSuitable, Relate!SelectEdge \/ Relate!BeginGesture \/ Relate!PickFromMenu \/ Relate!EndGesture \/ Relate!Escape
  PROVE  RelateInv' /\ RelateSteps
<1>1. UNCHANGED <<rShown, rServer, rManager, rDoomed, rCalls, rSpent>>
  BY DEF Relate!SelectEdge, Relate!BeginGesture, Relate!PickFromMenu, Relate!EndGesture, Relate!Escape
<1>2. rDraft' = rDraft \/ rDraft' = Missing
  BY DEF Relate!SelectEdge, Relate!BeginGesture, Relate!PickFromMenu, Relate!EndGesture, Relate!Escape
<1>3. RelateDraftOK'
  BY <1>2 DEF RelateInv, RelateDraftOK, RelateForms
<1>4. RelateCanvasOK /\ rCanvas \in RelateCanvases
  BY DEF RelateInv, RelateCanvasOK
<1>5. RelateCanvasOK'
  <2>1. CASE Relate!SelectEdge
    <3>1. PICK e \in {[rel |-> r, map |-> Missing] : r \in Relate!Known} \cup {[rel |-> Missing, map |-> m] : m \in Relate!Mapping} :
            rCanvas' = [rCanvas EXCEPT !.edge = e]
      BY <2>1 DEF Relate!SelectEdge
    <3>2. Relate!Known \subseteq Relate!Rel
      BY DEF Relate!Known, Relate!Stored
    <3>3. e \in [rel : RelateRelOrNone, map : RelateMapOrNone]
      BY <3>1, <3>2 DEF RelateRelOrNone, RelateMapOrNone
    <3> QED BY <1>4, <3>1, <3>3 DEF RelateCanvasOK, RelateCanvases
  <2>2. CASE Relate!BeginGesture
    <3>1. PICK f \in RelateField, at \in {"menu", "drag"} : rCanvas' = [rCanvas EXCEPT !.gesture = Relate!Gesture(at, f, Missing)]
      BY <2>2 DEF Relate!BeginGesture
    <3> QED BY <1>4, <3>1
               DEF RelateCanvasOK, RelateCanvases, Relate!Gesture, RelateGestures, RelateFieldOrNone
  <2>3. CASE Relate!PickFromMenu
    BY <1>4, <2>3 DEF Relate!PickFromMenu, RelateCanvasOK, RelateCanvases, RelateGestures, RelateFieldOrNone
  <2>4. CASE Relate!EndGesture \/ Relate!Escape
    BY <1>4, <2>4
       DEF Relate!EndGesture, Relate!Escape, RelateCanvasOK, RelateCanvases, RelateGestures, RelateFieldOrNone, Relate!NoEdge, Relate!NoGesture, RelateRelOrNone, RelateMapOrNone
  <2> QED BY <2>1, <2>2, <2>3, <2>4
<1>6. RelateSteps
  BY <1>1, RelateQuiet, RelateUnmoved DEF RelateSteps
<1> QED BY <1>1, <1>3, <1>5, <1>6
           DEF RelateInv, RelateShownOK, RelateServerOK, RelateManagerOK, RelateEditorOK, RelateDoomedOK, RelateCallsOK, RelateCallOK, RelateSpentOK

LEMMA RelatePopoverIs ==
  ASSUME RelateSuitable, NEW form \in Relate!FormType, form.map \in Relate!Mapping
  PROVE  Relate!Popover(form) \in RelateForms /\ Relate!Popover(form) # Missing /\ Relate!Popover(form).map \in Relate!Mapping
<1>1. Relate!Popover(form) \in Relate!FormType /\ Relate!Popover(form).map = form.map
  BY SMTT(30) DEF Relate!Popover, Relate!FormType
<1> QED BY <1>1 DEF RelateForms, RelateSuitable

\* A popover is opened on an edge or on two fields.
LEMMA RelateOpeningKeeps ==
  ASSUME RelateInv, RelateSuitable, Relate!EditEdge \/ Relate!ChooseTarget
  PROVE  RelateInv' /\ RelateSteps
<1>1. UNCHANGED <<rShown, rServer, rManager, rDoomed, rCalls>> /\ Relate!OpensForm
  BY DEF Relate!EditEdge, Relate!ChooseTarget
<1>2. RelateSpentOK' /\ rSpent.forms < RelateMaxForms
  BY <1>1, RelateOpensKeeps
<1>3. RelateCanvasOK /\ rCanvas \in RelateCanvases
  BY DEF RelateInv, RelateCanvasOK
<1>4. RelateDraftOK' /\ RelateCanvasOK'
  <2>1. CASE Relate!EditEdge
    <3>1. PICK r \in Relate!Known : rDraft' = Relate!Popover(Relate!FormOf(r)) /\ rCanvas' = [rCanvas EXCEPT !.edge = [rel |-> r, map |-> Missing]]
      BY <2>1 DEF Relate!EditEdge
    <3>2. r \in Relate!Rel /\ rServer.rels[r] # Missing
      BY <3>1 DEF Relate!Known, Relate!Stored
    <3>3. Relate!FormOf(r) \in Relate!FormType /\ Relate!FormOf(r).map \in Relate!Mapping
      BY <1>2, <3>2, RelateFormOfIs
    <3>4. RelateDraftOK'
      BY <3>1, <3>3, RelatePopoverIs DEF RelateDraftOK
    <3>5. RelateCanvasOK'
      BY <1>3, <3>1, <3>2 DEF RelateCanvasOK, RelateCanvases, RelateRelOrNone, RelateMapOrNone
    <3> QED BY <3>4, <3>5
  <2>2. CASE Relate!ChooseTarget
    <3>1. PICK f \in RelateField \ {rCanvas.gesture.from} : rDraft' = Relate!Popover(Relate!Form(Missing, <<rCanvas.gesture.from, f>>, FALSE))
      BY <2>2 DEF Relate!ChooseTarget
    <3>2. rCanvas.gesture.from \in RelateField
      BY <1>3, <2>2 DEF Relate!ChooseTarget, RelateCanvasOK
    <3>3. <<rCanvas.gesture.from, f>> \in Relate!Mapping
      BY <3>1, <3>2 DEF Relate!Mapping
    <3> DEFINE x == Relate!Form(Missing, <<rCanvas.gesture.from, f>>, FALSE)
    <3>4. Missing \in RelateRelOrNone /\ <<rCanvas.gesture.from, f>> \in RelateMapOrNone /\ FALSE \in BOOLEAN
      BY <3>3 DEF RelateRelOrNone, RelateMapOrNone
    <3>5. x \in Relate!FormType /\ x.map = <<rCanvas.gesture.from, f>>
      BY <1>2, <3>4, RelateFormIs
    <3>6. RelateDraftOK'
      BY <3>1, <3>3, <3>5, RelatePopoverIs DEF RelateDraftOK
    <3>7. RelateCanvasOK'
      BY <1>3, <2>2
         DEF Relate!ChooseTarget, RelateCanvasOK, RelateCanvases, Relate!NoGesture, RelateGestures, RelateFieldOrNone
    <3> QED BY <3>6, <3>7
  <2> QED BY <2>1, <2>2
<1>5. RelateSteps
  BY <1>1, RelateQuiet, RelateUnmoved DEF RelateSteps
<1> QED BY <1>1, <1>2, <1>4, <1>5
           DEF RelateInv, RelateShownOK, RelateServerOK, RelateManagerOK, RelateEditorOK, RelateDoomedOK, RelateCallsOK, RelateCallOK

-----------------------------------------------------------------------------
(* The backend                                                             *)

LEMMA RelateStoresKeeps ==
  ASSUME RelateInv, RelateSuitable, NEW c, RelateCallOK(c), c.kind # "delete", Relate!Stores(c)
  PROVE  /\ RelateServerOK' /\ rServer'.made >= rServer.made
         /\ \A r \in Relate!Rel : r <= rServer.made /\ rServer'.rels[r] # Missing =>
              rServer.rels[r] # Missing /\ rServer'.rels[r].source = rServer.rels[r].source
<1> DEFINE n == IF c.rel = Missing THEN rServer.made + 1 ELSE c.rel
           row == [source |-> c.source, map |-> c.map,
                   on |-> IF c.rel = Missing THEN TRUE ELSE IF c.kind = "toggle" THEN ~rServer.rels[n].on ELSE rServer.rels[n].on]
           m == IF c.rel = Missing THEN rServer.made + 1 ELSE rServer.made
<1>1. rServer \in RelateServers /\ \A r \in Relate!Rel : rServer.rels[r] # Missing => r <= rServer.made
  BY DEF RelateInv, RelateServerOK
<1>2. rServer' = [rServer EXCEPT !.made = m, !.rels[n] = row]
  BY <1>1 DEF Relate!Stores, Relate!Fresh, RelateServers
<1>3. c.rel # Missing => c.rel \in Relate!Rel /\ rServer.rels[c.rel] # Missing /\ rServer.rels[c.rel].source = c.source
  BY DEF Relate!Stores, Relate!Stored
<1>4. n \in Relate!Rel /\ m \in 0..RelateMaxRels /\ m >= rServer.made /\ n <= m
  <2>1. CASE c.rel = Missing
    BY <1>1, <2>1 DEF Relate!Stores, RelateServers, Relate!Rel, RelateSuitable
  <2>2. CASE c.rel # Missing
    BY <1>1, <1>3, <2>2 DEF RelateServers
  <2> QED BY <2>1, <2>2
<1>5. c.rel # Missing => rServer.rels[n] \in RelateStoredRows
  BY <1>1, <1>3 DEF RelateServers
<1>6. row \in RelateStoredRows
  <2>1. c.source \in RelateSource /\ c.map \in Relate!Mapping
    BY DEF RelateCallOK, RelateWrittenCalls
  <2>2. row.on \in BOOLEAN
    BY <1>5 DEF RelateStoredRows
  <2> QED BY <2>1, <2>2 DEF RelateStoredRows
<1> HIDE DEF n, row, m
<1>7. rServer' \in RelateServers /\ rServer'.made = m /\ rServer'.rels = [rServer.rels EXCEPT ![n] = row]
  BY <1>1, <1>2, <1>4, <1>6 DEF RelateServers
<1>8. \A r \in Relate!Rel : rServer'.rels[r] = IF r = n THEN row ELSE rServer.rels[r]
  BY <1>1, <1>7 DEF RelateServers
<1>9. \A r \in Relate!Rel : rServer'.rels[r] # Missing => r <= rServer'.made
  BY <1>1, <1>4, <1>7, <1>8 DEF RelateServers, Relate!Rel, RelateSuitable
<1>10. ASSUME NEW r \in Relate!Rel, r <= rServer.made, rServer'.rels[r] # Missing
       PROVE  rServer.rels[r] # Missing /\ rServer'.rels[r].source = rServer.rels[r].source
  <2>1. CASE r # n
    BY <1>8, <1>10, <2>1
  <2>2. CASE r = n
    <3>1. c.rel # Missing
      BY <1>1, <1>10, <2>2 DEF n, RelateServers, Relate!Rel, RelateSuitable
    <3>2. n = c.rel /\ row.source = c.source
      BY <3>1 DEF n, row
    <3> QED BY <1>3, <1>8, <2>2, <3>1, <3>2
  <2> QED BY <2>1, <2>2
<1> QED BY <1>4, <1>7, <1>9, <1>10 DEF RelateServerOK

LEMMA RelateRemovesKeeps ==
  ASSUME RelateInv, RelateSuitable, NEW c, Relate!Removes(c)
  PROVE  /\ RelateServerOK' /\ rServer'.made >= rServer.made
         /\ \A r \in Relate!Rel : r <= rServer.made /\ rServer'.rels[r] # Missing =>
              rServer.rels[r] # Missing /\ rServer'.rels[r].source = rServer.rels[r].source
<1>1. rServer \in RelateServers /\ \A r \in Relate!Rel : rServer.rels[r] # Missing => r <= rServer.made
  BY DEF RelateInv, RelateServerOK
<1>2. rServer.made \in Nat
  BY <1>1 DEF RelateServers, RelateSuitable
<1>3. CASE rServer' = rServer
  BY <1>1, <1>2, <1>3 DEF RelateServerOK
<1>4. CASE rServer' # rServer
  <2>1. rServer' = [rServer EXCEPT !.rels[c.rel] = Missing] /\ c.rel \in Relate!Rel
    BY <1>4 DEF Relate!Removes, Relate!Stored
  <2>2. rServer' \in RelateServers /\ rServer'.made = rServer.made /\ rServer'.rels = [rServer.rels EXCEPT ![c.rel] = Missing]
    BY <1>1, <2>1 DEF RelateServers
  <2>3. \A r \in Relate!Rel : rServer'.rels[r] = IF r = c.rel THEN Missing ELSE rServer.rels[r]
    BY <1>1, <2>2 DEF RelateServers
  <2> QED BY <1>1, <1>2, <2>2, <2>3 DEF RelateServerOK
<1> QED BY <1>3, <1>4

LEMMA RelateServeKeeps ==
  ASSUME RelateInv, RelateSuitable, Relate!Serve
  PROVE  RelateInv' /\ RelateSteps
<1>1. UNCHANGED <<rShown, rCanvas, rDraft, rManager, rDoomed, rSpent>>
  BY DEF Relate!Serve
<1>2. PICK c \in rCalls :
        /\ c.at = "sent"
        /\ \/ /\ IF c.kind = "delete" THEN Relate!Removes(c) ELSE Relate!Stores(c)
              /\ rCalls' = (rCalls \ {c}) \cup {[c EXCEPT !.at = "done"]}
           \/ rServer' = rServer /\ rCalls' = (rCalls \ {c}) \cup {[c EXCEPT !.at = "failed"]}
  BY DEF Relate!Serve
<1>3. RelateCallOK(c)
  BY <1>2 DEF RelateInv, RelateCallsOK
<1>4. \A d \in rCalls : RelateCallOK(d)
  BY DEF RelateInv, RelateCallsOK
<1>5. PICK a \in {"done", "failed"} : rCalls' = (rCalls \ {c}) \cup {[c EXCEPT !.at = a]}
  BY <1>2
<1> DEFINE e == [c EXCEPT !.at = a]
<1>6. e \in RelateWrittenCalls /\ e.kind = c.kind /\ e.map = c.map /\ e.rel = c.rel /\ e.at = a
  BY <1>3, <1>5 DEF RelateCallOK, RelateWrittenCalls
<1>7. RelateCallOK(e)
  BY <1>3, <1>6 DEF RelateCallOK
<1>8. RelateCallsOK'
  BY <1>4, <1>5, <1>7 DEF RelateCallsOK, RelateCallOK
<1>9. /\ RelateServerOK' /\ rServer'.made >= rServer.made
      /\ \A r \in Relate!Rel : r <= rServer.made /\ rServer'.rels[r] # Missing =>
              rServer.rels[r] # Missing /\ rServer'.rels[r].source = rServer.rels[r].source
  <2>1. CASE rServer' = rServer
    <3>1. rServer.made \in Nat
      BY DEF RelateInv, RelateServerOK, RelateServers, RelateSuitable
    <3> QED BY <2>1, <3>1 DEF RelateInv, RelateServerOK
  <2>2. CASE c.kind = "delete" /\ Relate!Removes(c)
    BY <2>2, RelateRemovesKeeps
  <2>3. CASE c.kind # "delete" /\ Relate!Stores(c)
    BY <1>3, <2>3, RelateStoresKeeps
  <2> QED BY <1>2, <2>1, <2>2, <2>3
<1>10. RelateDoomedOK'
  <2>1. CASE rDoomed # Missing
    <3>1. rDoomed.rel \in Relate!Rel /\ rDoomed.rel <= rServer.made
      BY <2>1 DEF RelateInv, RelateDoomedOK, RelateDeletions
    <3>2. rServer.made \in Nat /\ rServer'.made \in Nat /\ rDoomed.rel \in Nat
      BY <1>9, <3>1 DEF RelateInv, RelateServerOK, RelateServers, RelateSuitable, Relate!Rel
    <3>3. rDoomed.rel <= rServer'.made
      BY <1>9, <3>1, <3>2
    <3>4. rServer'.rels[rDoomed.rel] # Missing => rServer'.rels[rDoomed.rel].source = rDoomed.source
      BY <1>9, <2>1, <3>1 DEF RelateInv, RelateDoomedOK
    <3> QED BY <1>1, <2>1, <3>3, <3>4 DEF RelateInv, RelateDoomedOK
  <2>2. CASE rDoomed = Missing
    BY <1>1, <2>2 DEF RelateDoomedOK
  <2> QED BY <2>1, <2>2
<1>11. \A d \in rCalls' \ rCalls : d.at # "sent"
  BY <1>5, <1>6
<1>12. RelateSteps
  BY <1>1, <1>11, RelateUnmoved DEF RelateSteps, Relate!ValidatedHere, Relate!AskedHere
<1> QED BY <1>1, <1>8, <1>9, <1>10, <1>12
           DEF RelateInv, RelateShownOK, RelateCanvasOK, RelateDraftOK, RelateManagerOK, RelateEditorOK, RelateSpentOK

-----------------------------------------------------------------------------
(* The popover                                                             *)

LEMMA RelatePopoverKeeps ==
  ASSUME RelateInv, RelateSuitable, Relate!PopoverChecked \/ Relate!AllowMismatch \/ Relate!PopoverCancel
  PROVE  RelateInv' /\ RelateSteps
<1>1. UNCHANGED <<rShown, rServer, rCanvas, rManager, rDoomed, rCalls>>
  BY DEF Relate!PopoverChecked, Relate!AllowMismatch, Relate!PopoverCancel
<1>2. RelateSpentOK'
  <2>1. CASE Relate!AllowMismatch
    BY <2>1, RelateEditsKeeps DEF Relate!AllowMismatch
  <2>2. CASE Relate!PopoverChecked \/ Relate!PopoverCancel
    BY <2>2 DEF Relate!PopoverChecked, Relate!PopoverCancel, RelateInv, RelateSpentOK
  <2> QED BY <2>1, <2>2
<1>3. rDraft \in Relate!FormType /\ rDraft.map \in Relate!Mapping
  BY
     DEF RelateInv, RelateDraftOK, RelateForms, Relate!PopoverChecked, Relate!AllowMismatch, Relate!PopoverCancel
<1>4. RelateDraftOK'
  <2>1. CASE Relate!PopoverChecked
    <3>1. PICK k \in RelateChecks : k = [source |-> rShown.source, map |-> rDraft.map, verdict |-> Relate!Verdict(rShown.source, rDraft.map, rDraft.rel)]
      BY <1>3, RelateCheckIs
    <3>2. \/ rDraft' = [rDraft EXCEPT !.asking = FALSE, !.status = "idle", !.checked = k]
          \/ rDraft' = [rDraft EXCEPT !.asking = FALSE, !.status = "error"]
      BY <2>1, <3>1 DEF Relate!PopoverChecked
    <3>4. rDraft' \in Relate!FormType /\ rDraft'.map = rDraft.map
      BY <1>3, <3>2, RelateFormTypeIs
    <3> QED BY <1>3, <3>4 DEF RelateDraftOK, RelateForms
  <2>2. CASE Relate!AllowMismatch
    <3>1. rDraft' = [rDraft EXCEPT !.allow = ~@]
      BY <2>2 DEF Relate!AllowMismatch
    <3>2. PICK b \in BOOLEAN : b = ~rDraft.allow
      BY Zenon
    <3>3. rDraft' = [rDraft EXCEPT !.allow = b]
      BY <3>1, <3>2
    <3>4. rDraft' \in Relate!FormType /\ rDraft'.map = rDraft.map
      BY <1>3, <3>3, RelateFormTypeIs
    <3> QED BY <1>3, <3>4 DEF RelateDraftOK, RelateForms
  <2>3. CASE Relate!PopoverCancel
    BY <2>3 DEF Relate!PopoverCancel, RelateDraftOK, RelateForms
  <2> QED BY <2>1, <2>2, <2>3
<1>5. RelateSteps
  BY <1>1, RelateQuiet, RelateUnmoved DEF RelateSteps
<1> QED BY <1>1, <1>2, <1>4, <1>5
           DEF RelateInv, RelateShownOK, RelateServerOK, RelateCanvasOK, RelateManagerOK, RelateEditorOK, RelateDoomedOK, RelateCallsOK, RelateCallOK

LEMMA RelateSubmitKeeps ==
  ASSUME RelateInv, RelateSuitable, Relate!PopoverSubmit
  PROVE  RelateInv' /\ RelateSteps
<1>1. UNCHANGED <<rShown, rServer, rCanvas, rManager, rDoomed>> /\ Relate!Counts
      /\ rDraft' = [rDraft EXCEPT !.status = "saving"]
      /\ Relate!Send("popover", rDraft.inst, rDraft.rel, rDraft.map, rDraft.allow)
  BY DEF Relate!PopoverSubmit
<1>2. rDraft \in Relate!FormType /\ rDraft.map \in Relate!Mapping
  BY DEF RelateInv, RelateDraftOK, RelateForms, Relate!PopoverSubmit
<1>3. rDraft' \in Relate!FormType /\ rDraft'.map = rDraft.map
  BY <1>1, <1>2, SMTT(30) DEF Relate!FormType
<1>4. RelateDraftOK'
  BY <1>2, <1>3 DEF RelateDraftOK, RelateForms
<1>5. rDraft.inst \in RelateWriters /\ rDraft.rel \in RelateRelOrNone /\ rDraft.map \in RelateMapOrNone /\ rDraft.allow \in BOOLEAN
  BY <1>2, SMTT(30) DEF Relate!FormType, RelateWriters, RelateRelOrNone, RelateMapOrNone, RelateSuitable
<1>6. RelateCallsOK'
  <2>1. PICK i \in RelateWriters, r \in RelateRelOrNone, m \in Relate!Mapping, b \in BOOLEAN :
          i = rDraft.inst /\ r = rDraft.rel /\ m = rDraft.map /\ b = rDraft.allow
    BY <1>2, <1>5
  <2>2. Relate!Send("popover", i, r, m, b) /\ m \in RelateMapOrNone
    BY <1>1, <2>1 DEF RelateMapOrNone
  <2> QED BY <2>2, RelateSendKeeps DEF RelateKinds
<1>7. RelateSpentOK'
  BY <1>1, RelateCountsKeeps
<1>8. \A c \in rCalls' \ rCalls : c.kind = "popover"
  <2>1. rCalls' = rCalls \cup {RelateWritten("popover", rDraft.inst, rDraft.rel, rDraft.map, rDraft.allow)}
    BY <1>1, RelateSendIs
  <2> QED BY <2>1 DEF RelateWritten
<1>9. RelateSteps
  BY <1>1, <1>8, RelateUnmoved DEF RelateSteps, Relate!ValidatedHere, Relate!AskedHere
<1> QED BY <1>1, <1>4, <1>6, <1>7, <1>9
           DEF RelateInv, RelateShownOK, RelateServerOK, RelateCanvasOK, RelateManagerOK, RelateEditorOK, RelateDoomedOK

LEMMA RelateAnsweredKeeps ==
  ASSUME RelateInv, RelateSuitable, Relate!PopoverAnswered
  PROVE  RelateInv' /\ RelateSteps
<1>1. UNCHANGED <<rShown, rServer, rManager, rDoomed, rSpent>>
  BY DEF Relate!PopoverAnswered
<1>2. PICK c \in rCalls :
       /\ rCalls' = rCalls \ {c}
       /\ \/ rDraft' = Missing /\ rCanvas' = [rCanvas EXCEPT !.gesture = IF @.at = "pick" THEN Relate!NoGesture ELSE @]
          \/ /\ rCanvas' = rCanvas
             /\ rDraft' = IF rDraft # Missing /\ rDraft.inst = c.by THEN [rDraft EXCEPT !.status = "error"] ELSE rDraft
  BY DEF Relate!PopoverAnswered
<1>3. RelateCallsOK'
  BY <1>2 DEF RelateInv, RelateCallsOK, RelateCallOK
<1>4. RelateCanvasOK /\ rCanvas \in RelateCanvases
  BY DEF RelateInv, RelateCanvasOK
<1>5. RelateCanvasOK'
  BY <1>2, <1>4 DEF RelateCanvasOK, RelateCanvases, RelateGestures, Relate!NoGesture, RelateFieldOrNone
<1>6. RelateDraftOK'
  <2>1. CASE rDraft' = [rDraft EXCEPT !.status = "error"] /\ rDraft # Missing
    <3>1. rDraft \in Relate!FormType /\ rDraft.map \in Relate!Mapping
      BY <2>1 DEF RelateInv, RelateDraftOK, RelateForms
    <3>2. rDraft' \in Relate!FormType /\ rDraft'.map = rDraft.map
      BY <2>1, <3>1, SMTT(30) DEF Relate!FormType
    <3> QED BY <3>1, <3>2 DEF RelateDraftOK, RelateForms
  <2>2. CASE rDraft' = rDraft \/ rDraft' = Missing
    BY <2>2 DEF RelateInv, RelateDraftOK, RelateForms
  <2> QED BY <1>2, <2>1, <2>2
<1>7. RelateSteps
  BY <1>1, <1>2, RelateQuiet, RelateUnmoved DEF RelateSteps
<1> QED BY <1>1, <1>3, <1>5, <1>6, <1>7
           DEF RelateInv, RelateShownOK, RelateServerOK, RelateManagerOK, RelateEditorOK, RelateDoomedOK, RelateSpentOK

-----------------------------------------------------------------------------
(* The manager                                                             *)

LEMMA RelateOpenManagerKeeps ==
  ASSUME RelateInv, RelateSuitable, Relate!OpenManager
  PROVE  RelateInv' /\ RelateSteps
<1>1. UNCHANGED <<rShown, rServer, rDraft, rDoomed, rCalls, rSpent>>
      /\ rManager' = [rManager EXCEPT !.open = TRUE]
      /\ rCanvas' = [rCanvas EXCEPT !.edge = IF @.map # Missing THEN Relate!NoEdge ELSE @]
  BY DEF Relate!OpenManager
<1>2. rManager \in RelateManagers /\ RelateCanvasOK /\ rCanvas \in RelateCanvases
  BY DEF RelateInv, RelateManagerOK, RelateEditorOK, RelateCanvasOK
<1>3. rManager' \in RelateManagers /\ rManager'.editor = rManager.editor
  BY <1>1, <1>2 DEF RelateManagers
<1>4. RelateManagerOK'
  BY <1>1, <1>3 DEF RelateInv, RelateManagerOK, RelateEditorOK
<1>5. RelateCanvasOK'
  BY <1>1, <1>2 DEF RelateCanvasOK, RelateCanvases, Relate!NoEdge, RelateRelOrNone, RelateMapOrNone
<1>6. RelateSteps
  BY <1>1, <1>3, RelateQuiet, RelateUnmoved DEF RelateSteps
<1> QED BY <1>1, <1>4, <1>5, <1>6
           DEF RelateInv, RelateShownOK, RelateServerOK, RelateDraftOK, RelateDoomedOK, RelateCallsOK, RelateCallOK, RelateSpentOK

LEMMA RelatePerformedIs ==
  ASSUME RelateInv, RelateSuitable, NEW a, Relate!Performed(a), rShown' = rShown
  PROVE  RelateManagerOK' /\ RelateSpentOK'
<1>1. rManager \in RelateManagers
  BY DEF RelateInv, RelateManagerOK, RelateEditorOK
<1> DEFINE x == IF a.to # "edit" THEN Missing ELSE IF a.rel \in Relate!Stored THEN Relate!FormOf(a.rel) ELSE Relate!Form(Missing, Missing, FALSE)
<1>2. rManager' = [rManager EXCEPT !.asked = Missing, !.open = (a.to # "close"), !.editor = x]
  BY DEF Relate!Performed
<1>3. x \in RelateForms /\ (x # Missing => RelateEditorOK(x))
  <2>1. CASE a.to # "edit"
    BY <2>1 DEF RelateForms
  <2>2. CASE a.to = "edit"
    <3>1. rSpent.forms < RelateMaxForms
      BY <2>2, RelateOpensKeeps DEF Relate!Performed
    <3>2. CASE a.rel \in Relate!Stored
      <4>1. Relate!FormOf(a.rel) \in Relate!FormType /\ Relate!FormOf(a.rel).checked = Missing
            /\ (Relate!FormOf(a.rel).asking => Relate!FormOf(a.rel).map # Missing)
        BY <3>1, <3>2, RelateFormOfIs DEF Relate!Stored
      <4> QED BY <2>2, <3>2, <4>1 DEF RelateForms, RelateEditorOK
    <3>3. CASE a.rel \notin Relate!Stored
      <4>1. Missing \in RelateRelOrNone /\ Missing \in RelateMapOrNone /\ FALSE \in BOOLEAN
        BY DEF RelateRelOrNone, RelateMapOrNone
      <4>2. Relate!Form(Missing, Missing, FALSE) \in Relate!FormType /\ Relate!Form(Missing, Missing, FALSE).checked = Missing
            /\ (Relate!Form(Missing, Missing, FALSE).asking => Relate!Form(Missing, Missing, FALSE).map # Missing)
        BY <3>1, <4>1, RelateFormIs
      <4> QED BY <2>2, <3>3, <4>2 DEF RelateForms, RelateEditorOK
    <3> QED BY <3>2, <3>3
  <2> QED BY <2>1, <2>2
<1> HIDE DEF x
<1>4. rManager' \in RelateManagers /\ rManager'.editor = x
  <2>1. PICK b \in BOOLEAN : b = (a.to # "close")
    BY Zenon
  <2>2. rManager' = [rManager EXCEPT !.asked = Missing, !.open = b, !.editor = x]
    BY <1>2, <2>1
  <2> QED BY <1>1, <1>3, <2>1, <2>2 DEF RelateManagers
<1>5. RelateManagerOK'
  BY <1>3, <1>4 DEF RelateManagerOK, RelateEditorOK
<1>6. RelateSpentOK'
  <2>1. CASE a.to = "edit"
    BY <2>1, RelateOpensKeeps DEF Relate!Performed
  <2>2. CASE a.to # "edit"
    BY <2>2 DEF Relate!Performed, RelateInv, RelateSpentOK
  <2> QED BY <2>1, <2>2
<1> QED BY <1>5, <1>6

LEMMA RelateAskKeeps ==
  ASSUME RelateInv, RelateSuitable, Relate!AskManager \/ Relate!AnswerDiscard
  PROVE  RelateInv' /\ RelateSteps
<1>1. UNCHANGED <<rShown, rServer, rCanvas, rDraft, rDoomed, rCalls>>
  BY DEF Relate!AskManager, Relate!AnswerDiscard
<1>2. rManager \in RelateManagers
  BY DEF RelateInv, RelateManagerOK, RelateEditorOK
<1>3. RelateManagerOK' /\ RelateSpentOK' /\ Relate!KeptUntilDecided
  <2>1. CASE Relate!AskManager
    <3>1. PICK a \in Relate!Asks : Relate!RequestAction(a)
      BY <2>1 DEF Relate!AskManager
    <3>2. CASE Relate!Dirty /\ rManager' = [rManager EXCEPT !.asked = a] /\ rSpent' = rSpent
      <4>1. a \in RelateActions
        BY <3>1 DEF Relate!Asks, RelateActions, RelateRelOrNone, Relate!Known, Relate!Stored
      <4>2. rManager' \in RelateManagers /\ rManager'.editor = rManager.editor
        BY <1>2, <3>2, <4>1 DEF RelateManagers
      <4> QED BY <1>1, <3>2, <4>2, RelateUnmoved DEF RelateInv, RelateManagerOK, RelateEditorOK, RelateSpentOK
    <3>3. CASE ~Relate!Dirty /\ Relate!Performed(a)
      BY <1>1, <3>3, RelatePerformedIs DEF Relate!KeptUntilDecided
    <3> QED BY <3>1, <3>2, <3>3 DEF Relate!RequestAction
  <2>2. CASE Relate!AnswerDiscard
    <3>1. CASE Relate!Performed(rManager.asked)
      <4>1. PICK a : a = rManager.asked
        OBVIOUS
      <4>2. Relate!Performed(a)
        BY <3>1, <4>1
      <4>3. RelateManagerOK' /\ RelateSpentOK'
        BY <1>1, <4>2, RelatePerformedIs
      <4> QED BY <2>2, <4>3 DEF Relate!AnswerDiscard, Relate!KeptUntilDecided
    <3>2. CASE rManager' = [rManager EXCEPT !.asked = Missing] /\ rSpent' = rSpent
      <4>1. rManager' \in RelateManagers /\ rManager'.editor = rManager.editor
        BY <1>2, <3>2 DEF RelateManagers
      <4> QED BY <1>1, <3>2, <4>1, RelateUnmoved DEF RelateInv, RelateManagerOK, RelateEditorOK, RelateSpentOK
    <3> QED BY <2>2, <3>1, <3>2 DEF Relate!AnswerDiscard
  <2> QED BY <2>1, <2>2
<1>4. RelateSteps
  BY <1>1, <1>3, RelateQuiet DEF RelateSteps
<1> QED BY <1>1, <1>3, <1>4
           DEF RelateInv, RelateShownOK, RelateServerOK, RelateCanvasOK, RelateDraftOK, RelateDoomedOK, RelateCallsOK, RelateCallOK

\* The form in the editor changes; it stays the same form.
LEMMA RelateEditedIs ==
  ASSUME RelateInv, RelateSuitable, rManager.editor # Missing, NEW x \in Relate!FormType, rManager' = [rManager EXCEPT !.editor = x],
         rShown' = rShown, x.inst = rManager.editor.inst, RelateEditorOK(x)
  PROVE  RelateManagerOK' /\ Relate!KeptUntilDecided
<1>1. rManager \in RelateManagers
  BY DEF RelateInv, RelateManagerOK, RelateEditorOK
<1>2. rManager' \in RelateManagers /\ rManager'.editor = x
  BY <1>1 DEF RelateManagers, RelateForms
<1>3. x # Missing
  BY DEF RelateSuitable
<1> QED BY <1>2, <1>3 DEF RelateManagerOK, RelateEditorOK, Relate!KeptUntilDecided, Relate!Editor

LEMMA RelateEditKeeps ==
  ASSUME RelateInv, RelateSuitable, Relate!EditForm
  PROVE  RelateInv' /\ RelateSteps
<1>1. UNCHANGED <<rShown, rServer, rCanvas, rDraft, rDoomed, rCalls>> /\ Relate!Edits /\ rManager.editor # Missing
  BY DEF Relate!EditForm, Relate!Editor
<1>2. rManager \in RelateManagers /\ rManager.editor \in Relate!FormType
      /\ RelateEditorOK(rManager.editor)
  BY <1>1 DEF RelateInv, RelateManagerOK, RelateEditorOK, RelateManagers, RelateForms
<1>3. RelateManagerOK' /\ Relate!KeptUntilDecided
  <2>1. CASE \E map \in (Relate!Mapping \cup {Missing}) \ {Relate!Editor.map} : rManager' = [rManager EXCEPT !.editor = Relate!Mapped(@, map)]
    <3>1. PICK map \in RelateMapOrNone : rManager' = [rManager EXCEPT !.editor = Relate!Mapped(@, map)]
      BY <2>1 DEF RelateMapOrNone
    <3>2. PICK b \in BOOLEAN : b = (map # Missing)
      BY Zenon
    <3>3. PICK x : x = [rManager.editor EXCEPT !.map = map, !.allow = FALSE, !.asking = b]
      OBVIOUS
    <3>4. x \in Relate!FormType /\ x.inst = rManager.editor.inst /\ RelateEditorOK(x)
      BY <1>2, <3>2, <3>3, RelateFormTypeIs DEF RelateEditorOK
    <3>5. rManager' = [rManager EXCEPT !.editor = x]
      BY <1>2, <3>1, <3>2, <3>3 DEF Relate!Mapped, RelateManagers
    <3> QED BY <1>1, <1>2, <3>4, <3>5, RelateEditedIs
  <2>2. CASE rManager' = [rManager EXCEPT !.editor.allow = ~@]
    <3>1. PICK b \in BOOLEAN : b = ~rManager.editor.allow
      BY Zenon
    <3>2. PICK x : x = [rManager.editor EXCEPT !.allow = b]
      OBVIOUS
    <3>3. x \in Relate!FormType /\ x.inst = rManager.editor.inst /\ RelateEditorOK(x)
      BY <1>2, <3>2, RelateFormTypeIs DEF RelateEditorOK
    <3>4. rManager' = [rManager EXCEPT !.editor = x]
      BY <1>2, <2>2, <3>1, <3>2 DEF RelateManagers
    <3> QED BY <1>1, <1>2, <3>3, <3>4, RelateEditedIs
  <2>3. CASE rManager.editor.map # Missing /\ rManager' = [rManager EXCEPT !.editor.asking = TRUE]
    <3>2. PICK x : x = [rManager.editor EXCEPT !.asking = TRUE]
      OBVIOUS
    <3>3. x \in Relate!FormType /\ x.inst = rManager.editor.inst /\ RelateEditorOK(x)
      BY <1>2, <2>3, <3>2, RelateFormTypeIs DEF RelateEditorOK
    <3>4. rManager' = [rManager EXCEPT !.editor = x]
      BY <1>2, <2>3, <3>2 DEF RelateManagers
    <3> QED BY <1>1, <1>2, <3>3, <3>4, RelateEditedIs
  <2> QED BY <2>1, <2>2, <2>3 DEF Relate!EditForm, Relate!Editor
<1>4. RelateSpentOK'
  BY <1>1, RelateEditsKeeps
<1>5. RelateSteps
  BY <1>1, <1>3, RelateQuiet DEF RelateSteps
<1> QED BY <1>1, <1>3, <1>4, <1>5
           DEF RelateInv, RelateShownOK, RelateServerOK, RelateCanvasOK, RelateDraftOK, RelateDoomedOK, RelateCallsOK, RelateCallOK

LEMMA RelateCheckedKeeps ==
  ASSUME RelateInv, RelateSuitable, Relate!EditorChecked
  PROVE  RelateInv' /\ RelateSteps
<1>1. UNCHANGED <<rShown, rServer, rCanvas, rDraft, rDoomed, rCalls, rSpent>> /\ rManager.editor # Missing
  BY DEF Relate!EditorChecked, Relate!Editor
<1>2. rManager \in RelateManagers /\ rManager.editor \in Relate!FormType
      /\ RelateEditorOK(rManager.editor)
  BY <1>1 DEF RelateInv, RelateManagerOK, RelateEditorOK, RelateManagers, RelateForms
<1>6. rManager.editor.map \in RelateMapOrNone /\ rManager.editor.map # Missing
  BY <1>2, RelateFormTypeIs DEF Relate!EditorChecked, Relate!Editor, RelateEditorOK
<1>3. PICK map \in Relate!Mapping : map = rManager.editor.map
  BY <1>6 DEF RelateMapOrNone
<1>4. PICK k : k = [source |-> rShown.source, map |-> map, verdict |-> Relate!Verdict(rShown.source, map, rManager.editor.rel)]
  OBVIOUS
<1>5. RelateManagerOK' /\ Relate!KeptUntilDecided
  <2>1. CASE rManager' = [rManager EXCEPT !.editor.asking = FALSE, !.editor.checked = k]
    <3>1. k \in RelateChecks
      BY <1>4, RelateCheckIs
    <3>2. PICK x : x = [rManager.editor EXCEPT !.asking = FALSE, !.checked = k]
      OBVIOUS
    <3>3. x \in Relate!FormType /\ x.inst = rManager.editor.inst /\ x.checked = k /\ ~x.asking
      BY <1>2, <3>1, <3>2, RelateFormTypeIs
    <3>4. RelateEditorOK(x)
      BY <1>4, <3>3 DEF RelateEditorOK
    <3>5. rManager' = [rManager EXCEPT !.editor = x]
      BY <1>2, <2>1, <3>2 DEF RelateManagers
    <3> QED BY <1>1, <1>2, <3>3, <3>4, <3>5, RelateEditedIs
  <2>2. CASE rManager' = [rManager EXCEPT !.editor.asking = FALSE, !.editor.checked = Missing]
    <3>2. PICK x : x = [rManager.editor EXCEPT !.asking = FALSE, !.checked = Missing]
      OBVIOUS
    <3>0. Missing \in RelateChecks
      BY DEF RelateChecks
    <3>3. x \in Relate!FormType /\ x.inst = rManager.editor.inst /\ RelateEditorOK(x)
      BY <1>2, <3>0, <3>2, RelateFormTypeIs DEF RelateEditorOK
    <3>4. rManager' = [rManager EXCEPT !.editor = x]
      BY <1>2, <2>2, <3>2 DEF RelateManagers
    <3> QED BY <1>1, <1>2, <3>3, <3>4, RelateEditedIs
  <2> QED BY <1>3, <1>4, <2>1, <2>2 DEF Relate!EditorChecked, Relate!Editor
<1>7. RelateSteps
  BY <1>1, <1>5, RelateQuiet DEF RelateSteps
<1> QED BY <1>1, <1>5, <1>7
           DEF RelateInv, RelateShownOK, RelateServerOK, RelateCanvasOK, RelateDraftOK, RelateDoomedOK, RelateCallsOK, RelateCallOK, RelateSpentOK

LEMMA RelateEditorSubmitKeeps ==
  ASSUME RelateInv, RelateSuitable, Relate!EditorSubmit
  PROVE  RelateInv' /\ RelateSteps
<1>1. UNCHANGED <<rShown, rServer, rCanvas, rDraft, rDoomed>> /\ Relate!Counts /\ rManager.editor # Missing
      /\ rManager' = [rManager EXCEPT !.editor.status = "saving"]
      /\ Relate!Send("editor", rManager.editor.inst, rManager.editor.rel, rManager.editor.map, rManager.editor.allow)
      /\ rManager.editor.map # Missing /\ rManager.editor.checked # Missing
      /\ rManager.editor.checked.map = rManager.editor.map
  BY DEF Relate!EditorSubmit, Relate!Editor, Relate!CheckedNow
<1>2. rManager \in RelateManagers /\ rManager.editor \in Relate!FormType /\ RelateEditorOK(rManager.editor)
  BY <1>1 DEF RelateInv, RelateManagerOK, RelateManagers, RelateForms
<1>3. PICK i \in RelateWriters, r \in RelateRelOrNone, m \in Relate!Mapping, b \in BOOLEAN :
        i = rManager.editor.inst /\ r = rManager.editor.rel /\ m = rManager.editor.map /\ b = rManager.editor.allow
  <2>1. rManager.editor.inst \in RelateNumbers /\ rManager.editor.rel \in RelateRelOrNone
        /\ rManager.editor.map \in RelateMapOrNone /\ rManager.editor.allow \in BOOLEAN
    BY <1>2, RelateFormTypeIs
  <2>2. rManager.editor.inst \in RelateWriters /\ rManager.editor.map \in Relate!Mapping
    BY <1>1, <2>1 DEF RelateNumbers, RelateWriters, RelateMapOrNone, RelateSuitable
  <2> QED BY <2>1, <2>2
<1>4. Relate!Send("editor", i, r, m, b) /\ m \in RelateMapOrNone
  BY <1>1, <1>3 DEF RelateMapOrNone
<1>5. RelateCallsOK'
  BY <1>4, RelateSendKeeps DEF RelateKinds
<1>6. RelateSpentOK'
  BY <1>1, RelateCountsKeeps
<1>7. RelateManagerOK' /\ Relate!KeptUntilDecided
  <2>1. PICK x : x = [rManager.editor EXCEPT !.status = "saving"]
    OBVIOUS
  <2>2. x \in Relate!FormType /\ x.inst = rManager.editor.inst /\ RelateEditorOK(x)
    BY <1>2, <2>1, RelateFormTypeIs DEF RelateEditorOK
  <2>3. rManager' = [rManager EXCEPT !.editor = x]
    BY <1>1, <1>2, <2>1 DEF RelateManagers
  <2> QED BY <1>1, <2>2, <2>3, RelateEditedIs
<1>8. rCalls' = rCalls \cup {RelateWritten("editor", i, r, m, b)}
  BY <1>4, RelateSendIs
<1>9. \A c \in rCalls' \ rCalls : c.kind = "editor" /\ c.source = rShown.source /\ c.map = m
  BY <1>8 DEF RelateWritten
<1>10. Relate!ValidatedHere
  BY <1>1, <1>2, <1>3, <1>9 DEF Relate!ValidatedHere, Relate!Editor, RelateEditorOK
<1>11. Relate!AskedHere
  BY <1>9 DEF Relate!AskedHere
<1> QED BY <1>1, <1>5, <1>6, <1>7, <1>10, <1>11
           DEF RelateSteps, RelateInv, RelateShownOK, RelateServerOK, RelateCanvasOK, RelateDraftOK, RelateDoomedOK

LEMMA RelateEditorAnsweredKeeps ==
  ASSUME RelateInv, RelateSuitable, Relate!EditorAnswered
  PROVE  RelateInv' /\ RelateSteps
<1>1. UNCHANGED <<rShown, rServer, rCanvas, rDraft, rDoomed, rSpent>>
  BY DEF Relate!EditorAnswered
<1>2. PICK c \in rCalls :
       /\ c.at # "sent" /\ rCalls' = rCalls \ {c}
       /\ rManager' = IF rManager.editor = Missing \/ rManager.editor.inst # c.by THEN rManager
                     ELSE IF c.at = "done" THEN [rManager EXCEPT !.editor = Missing, !.asked = Missing]
                     ELSE [rManager EXCEPT !.editor.status = "idle"]
  BY DEF Relate!EditorAnswered, Relate!Editor
<1>3. RelateCallsOK'
  BY <1>2 DEF RelateInv, RelateCallsOK, RelateCallOK
<1>4. rManager \in RelateManagers
  BY DEF RelateInv, RelateManagerOK
<1>5. RelateManagerOK' /\ Relate!KeptUntilDecided
  <2>1. CASE rManager' = rManager
    BY <1>1, <2>1, RelateUnmoved DEF RelateInv, RelateManagerOK, RelateEditorOK
  <2>2. CASE rManager.editor.inst = c.by /\ c.at = "done" /\ rManager' = [rManager EXCEPT !.editor = Missing, !.asked = Missing]
    <3>1. rManager' \in RelateManagers /\ rManager'.editor = Missing
      BY <1>4, <2>2 DEF RelateManagers, RelateForms
    <3>2. c \in rCalls \ rCalls'
      BY <1>2
    <3> QED BY <2>2, <3>1, <3>2 DEF RelateManagerOK, Relate!KeptUntilDecided, Relate!Editor
  <2>3. CASE rManager.editor # Missing /\ rManager' = [rManager EXCEPT !.editor.status = "idle"]
    <3>1. rManager.editor \in Relate!FormType /\ RelateEditorOK(rManager.editor)
      BY <1>4, <2>3 DEF RelateInv, RelateManagerOK, RelateManagers, RelateForms
    <3>2. PICK x : x = [rManager.editor EXCEPT !.status = "idle"]
      OBVIOUS
    <3>3. x \in Relate!FormType /\ x.inst = rManager.editor.inst /\ RelateEditorOK(x)
      BY <3>1, <3>2, RelateFormTypeIs DEF RelateEditorOK
    <3>4. rManager' = [rManager EXCEPT !.editor = x]
      BY <1>4, <2>3, <3>2 DEF RelateManagers
    <3> QED BY <1>1, <2>3, <3>3, <3>4, RelateEditedIs
  <2> QED BY <1>2, <2>1, <2>2, <2>3
<1>6. RelateSteps
  BY <1>2, <1>5, RelateQuiet DEF RelateSteps
<1> QED BY <1>1, <1>3, <1>5, <1>6
           DEF RelateInv, RelateShownOK, RelateServerOK, RelateCanvasOK, RelateDraftOK, RelateDoomedOK, RelateSpentOK

LEMMA RelateToggleKeeps ==
  ASSUME RelateInv, RelateSuitable, Relate!Toggle
  PROVE  RelateInv' /\ RelateSteps
<1>1. UNCHANGED <<rShown, rServer, rCanvas, rDraft, rDoomed>> /\ Relate!Counts
  BY DEF Relate!Toggle
<1>2. PICK r \in Relate!Known :
        /\ rManager' = [rManager EXCEPT !.busy = rManager.open]
        /\ Relate!Send("toggle", IF rManager.open THEN "manager" ELSE "inspector", r, rServer.rels[r].map, Relate!Conflicted(r))
  BY DEF Relate!Toggle
<1>3. r \in Relate!Rel /\ rServer.rels[r] # Missing
  BY DEF Relate!Known, Relate!Stored
<1>4. rServer.rels[r].map \in Relate!Mapping
  BY <1>3 DEF RelateInv, RelateServerOK, RelateServers, RelateStoredRows
<1>5. PICK i \in RelateWriters, m \in Relate!Mapping, b \in BOOLEAN :
        i = (IF rManager.open THEN "manager" ELSE "inspector") /\ m = rServer.rels[r].map /\ b = Relate!Conflicted(r)
  <2>1. Relate!Conflicted(r) \in BOOLEAN
    BY DEF Relate!Conflicted
  <2>2. (IF rManager.open THEN "manager" ELSE "inspector") \in RelateWriters
    BY DEF RelateWriters
  <2> QED BY <1>4, <2>1, <2>2
<1>6. Relate!Send("toggle", i, r, m, b)
  BY <1>2, <1>5
<1>7. m \in RelateMapOrNone /\ r \in RelateRelOrNone
  BY <1>3 DEF RelateMapOrNone, RelateRelOrNone
<1>8. RelateCallsOK'
  BY <1>3, <1>6, <1>7, RelateSendKeeps DEF RelateKinds
<1>9. RelateSpentOK'
  BY <1>1, RelateCountsKeeps
<1>10. rManager \in RelateManagers
  BY DEF RelateInv, RelateManagerOK
<1>11. rManager' \in RelateManagers /\ rManager'.editor = rManager.editor
  BY <1>2, <1>10 DEF RelateManagers
<1>12. RelateManagerOK' /\ Relate!KeptUntilDecided
  BY <1>1, <1>11, RelateUnmoved DEF RelateInv, RelateManagerOK, RelateEditorOK
<1>13. rCalls' = rCalls \cup {RelateWritten("toggle", i, r, m, b)}
  BY <1>6, RelateSendIs
<1>14. \A c \in rCalls' \ rCalls : c.kind = "toggle"
  BY <1>13 DEF RelateWritten
<1>15. RelateSteps
  BY <1>12, <1>14 DEF RelateSteps, Relate!ValidatedHere, Relate!AskedHere
<1> QED BY <1>1, <1>8, <1>9, <1>12, <1>15
           DEF RelateInv, RelateShownOK, RelateServerOK, RelateCanvasOK, RelateDraftOK, RelateDoomedOK

LEMMA RelateToggleAnsweredKeeps ==
  ASSUME RelateInv, RelateSuitable, Relate!ToggleAnswered
  PROVE  RelateInv' /\ RelateSteps
<1>1. UNCHANGED <<rShown, rServer, rDraft, rDoomed, rSpent>>
  BY DEF Relate!ToggleAnswered
<1>2. PICK c \in rCalls :
       /\ rCalls' = rCalls \ {c}
       /\ rManager' = IF c.by = "manager" /\ c.source = rShown.source THEN [rManager EXCEPT !.busy = FALSE] ELSE rManager
       /\ rCanvas' = IF c.by = "inspector" /\ c.at = "done" THEN [rCanvas EXCEPT !.edge = Relate!NoEdge] ELSE rCanvas
  BY DEF Relate!ToggleAnswered
<1>3. RelateCallsOK'
  BY <1>2 DEF RelateInv, RelateCallsOK, RelateCallOK
<1>4. rManager \in RelateManagers /\ RelateCanvasOK /\ rCanvas \in RelateCanvases
  BY DEF RelateInv, RelateManagerOK, RelateCanvasOK
<1>5. rManager' \in RelateManagers /\ rManager'.editor = rManager.editor
  BY <1>2, <1>4 DEF RelateManagers
<1>6. RelateManagerOK' /\ Relate!KeptUntilDecided
  BY <1>1, <1>5, RelateUnmoved DEF RelateInv, RelateManagerOK, RelateEditorOK
<1>7. RelateCanvasOK'
  BY <1>2, <1>4 DEF RelateCanvasOK, RelateCanvases, Relate!NoEdge, RelateRelOrNone, RelateMapOrNone
<1>8. RelateSteps
  BY <1>2, <1>6, RelateQuiet DEF RelateSteps
<1> QED BY <1>1, <1>3, <1>6, <1>7, <1>8
           DEF RelateInv, RelateShownOK, RelateServerOK, RelateDraftOK, RelateDoomedOK, RelateSpentOK

-----------------------------------------------------------------------------
(* Deletion                                                                *)

LEMMA RelateDialogKeeps ==
  ASSUME RelateInv, RelateSuitable, Relate!AskDeletion \/ Relate!CancelDeletion
  PROVE  RelateInv' /\ RelateSteps
<1>1. UNCHANGED <<rShown, rServer, rCanvas, rDraft, rManager, rCalls, rSpent>>
  BY DEF Relate!AskDeletion, Relate!CancelDeletion
<1>2. RelateDoomedOK'
  <2>1. CASE Relate!AskDeletion
    <3>1. PICK r \in Relate!Known : rDoomed' = [rel |-> r, source |-> rShown.source, snap |-> rShown.snap, busy |-> FALSE]
      BY <2>1 DEF Relate!AskDeletion
    <3>2. r \in Relate!Rel /\ rServer.rels[r] # Missing /\ rServer.rels[r].source = rShown.source
      BY DEF Relate!Known, Relate!Stored
    <3>3. r <= rServer.made
      BY <3>2 DEF RelateInv, RelateServerOK
    <3>4. rDoomed' \in RelateDeletions
      BY <3>1, <3>2 DEF RelateDeletions, RelateInv, RelateShownOK
    <3> QED BY <1>1, <3>1, <3>2, <3>3, <3>4 DEF RelateDoomedOK
  <2>2. CASE Relate!CancelDeletion
    BY <2>2 DEF Relate!CancelDeletion, RelateDoomedOK
  <2> QED BY <2>1, <2>2
<1>3. RelateSteps
  BY <1>1, RelateQuiet, RelateUnmoved DEF RelateSteps
<1> QED BY <1>1, <1>2, <1>3
           DEF RelateInv, RelateShownOK, RelateServerOK, RelateCanvasOK, RelateDraftOK, RelateManagerOK, RelateEditorOK, RelateCallsOK, RelateCallOK, RelateSpentOK

LEMMA RelateConfirmKeeps ==
  ASSUME RelateInv, RelateSuitable, Relate!ConfirmDeletion
  PROVE  RelateInv' /\ RelateSteps
<1>1. UNCHANGED <<rShown, rServer, rCanvas, rDraft, rManager>> /\ Relate!Counts /\ rDoomed # Missing
      /\ rDoomed' = [rDoomed EXCEPT !.busy = TRUE] /\ Relate!Send("delete", rDoomed.snap, rDoomed.rel, Missing, FALSE)
  BY DEF Relate!ConfirmDeletion
<1>2. rDoomed \in RelateDeletions /\ rDoomed.source = rShown.source /\ rDoomed.snap = rShown.snap /\ rDoomed.rel <= rServer.made
      /\ (rServer.rels[rDoomed.rel] # Missing => rServer.rels[rDoomed.rel].source = rDoomed.source)
  BY <1>1 DEF RelateInv, RelateDoomedOK
<1>3. rDoomed' \in RelateDeletions /\ rDoomed'.source = rDoomed.source /\ rDoomed'.snap = rDoomed.snap /\ rDoomed'.rel = rDoomed.rel
  BY <1>1, <1>2 DEF RelateDeletions
<1>4. RelateDoomedOK'
  BY <1>1, <1>2, <1>3 DEF RelateDoomedOK
<1>5. PICK i \in RelateWriters, r \in Relate!Rel : i = rDoomed.snap /\ r = rDoomed.rel
  BY <1>2 DEF RelateDeletions, RelateWriters, RelateSuitable
<1>6. PICK n \in RelateMapOrNone, b \in BOOLEAN : n = Missing /\ b = FALSE
  BY DEF RelateMapOrNone
<1>7. Relate!Send("delete", i, r, n, b) /\ r \in RelateRelOrNone
  BY <1>1, <1>5, <1>6 DEF RelateRelOrNone
<1>8. RelateCallsOK'
  BY <1>7, RelateSendKeeps DEF RelateKinds
<1>9. RelateSpentOK'
  BY <1>1, RelateCountsKeeps
<1>10. rCalls' = rCalls \cup {RelateWritten("delete", i, r, n, b)}
  BY <1>7, RelateSendIs
<1>11. \A c \in rCalls' \ rCalls : c.kind = "delete" /\ c.source = rShown.source /\ c.rel = r
  BY <1>10 DEF RelateWritten
<1>12. Relate!AskedHere
  BY <1>2, <1>5, <1>11 DEF Relate!AskedHere, Relate!Stored
<1>13. RelateSteps
  BY <1>1, <1>11, <1>12, RelateUnmoved DEF RelateSteps, Relate!ValidatedHere
<1> QED BY <1>1, <1>4, <1>8, <1>9, <1>13
           DEF RelateInv, RelateShownOK, RelateServerOK, RelateCanvasOK, RelateDraftOK, RelateManagerOK, RelateEditorOK

LEMMA RelateDeletedKeeps ==
  ASSUME RelateInv, RelateSuitable, Relate!DeletionAnswered
  PROVE  RelateInv' /\ RelateSteps
<1>1. UNCHANGED <<rShown, rServer, rDraft, rManager, rSpent>>
  BY DEF Relate!DeletionAnswered
<1>2. PICK c \in rCalls :
       /\ rCalls' = rCalls \ {c}
       /\ \/ rDoomed' = Missing /\ rCanvas' = [rCanvas EXCEPT !.edge = Relate!NoEdge]
          \/ rDoomed # Missing /\ rDoomed' = [rDoomed EXCEPT !.busy = FALSE] /\ rCanvas' = rCanvas
          \/ UNCHANGED <<rDoomed, rCanvas>>
  BY DEF Relate!DeletionAnswered
<1>3. RelateCallsOK'
  BY <1>2 DEF RelateInv, RelateCallsOK, RelateCallOK
<1>4. RelateCanvasOK /\ rCanvas \in RelateCanvases
  BY DEF RelateInv, RelateCanvasOK
<1>5. RelateCanvasOK'
  BY <1>2, <1>4 DEF RelateCanvasOK, RelateCanvases, Relate!NoEdge, RelateRelOrNone, RelateMapOrNone
<1>6. RelateDoomedOK'
  <2>1. CASE rDoomed' = Missing \/ rDoomed' = rDoomed
    BY <1>1, <2>1 DEF RelateInv, RelateDoomedOK
  <2>2. CASE rDoomed # Missing /\ rDoomed' = [rDoomed EXCEPT !.busy = FALSE]
    <3>1. rDoomed \in RelateDeletions
      BY <2>2 DEF RelateInv, RelateDoomedOK
    <3>2. rDoomed' \in RelateDeletions /\ rDoomed'.source = rDoomed.source /\ rDoomed'.snap = rDoomed.snap /\ rDoomed'.rel = rDoomed.rel
      BY <2>2, <3>1 DEF RelateDeletions
    <3> QED BY <1>1, <2>2, <3>2 DEF RelateInv, RelateDoomedOK
  <2> QED BY <1>2, <2>1, <2>2
<1>7. RelateSteps
  BY <1>1, <1>2, RelateQuiet, RelateUnmoved DEF RelateSteps
<1> QED BY <1>1, <1>3, <1>5, <1>6, <1>7
           DEF RelateInv, RelateShownOK, RelateServerOK, RelateDraftOK, RelateManagerOK, RelateEditorOK, RelateSpentOK

-----------------------------------------------------------------------------
(* A change of source or of model                                          *)

LEMMA RelateShowKeeps ==
  ASSUME RelateInv, RelateSuitable, NEW next, Relate!Show(next), next \in [source : RelateSource, snap : 0..RelateMaxMoves], rCalls' = rCalls,
         rServer' \in RelateServers, rServer'.rels = rServer.rels, rServer'.made = rServer.made
  PROVE  RelateInv' /\ RelateSteps
<1>1. RelateShownOK' /\ rShown' = next
  BY DEF Relate!Show, RelateShownOK
<1>2. RelateServerOK'
  BY DEF RelateInv, RelateServerOK
<1>3. RelateSpentOK'
  BY DEF RelateInv, Relate!Show, RelateSpentOK, RelateSpendings, RelateSuitable
<1>4. RelateCanvasOK /\ rCanvas \in RelateCanvases
  BY DEF RelateInv, RelateCanvasOK
<1>5. RelateCanvasOK'
  <2>1. PICK e \in [rel : RelateRelOrNone, map : RelateMapOrNone] :
          e = IF rCanvas.edge.rel # Missing /\ next.source # rShown.source THEN Relate!NoEdge ELSE rCanvas.edge
    BY <1>4 DEF RelateCanvases, Relate!NoEdge, RelateRelOrNone, RelateMapOrNone
  <2>2. PICK g \in RelateGestures : g = IF rCanvas.gesture.at = "drag" THEN Relate!NoGesture ELSE rCanvas.gesture
    BY <1>4 DEF RelateCanvases, Relate!NoGesture, RelateGestures, RelateFieldOrNone
  <2>3. rCanvas' = [edge |-> e, gesture |-> g]
    BY <2>1, <2>2 DEF Relate!Show
  <2>4. g.at # "none" => g.from \in RelateField
    BY <1>4, <2>2 DEF RelateCanvasOK, Relate!NoGesture
  <2> QED BY <2>3, <2>4 DEF RelateCanvasOK, RelateCanvases
<1>6. RelateDraftOK'
  <2>1. CASE rDraft # Missing /\ rDraft' = [rDraft EXCEPT !.asking = TRUE]
    <3>1. rDraft \in Relate!FormType /\ rDraft.map \in Relate!Mapping
      BY <2>1 DEF RelateInv, RelateDraftOK, RelateForms
    <3>2. rDraft' \in Relate!FormType /\ rDraft'.map = rDraft.map
      BY <2>1, <3>1, RelateFormTypeIs
    <3> QED BY <3>1, <3>2 DEF RelateDraftOK, RelateForms
  <2>2. CASE rDraft' = rDraft
    BY <2>2 DEF RelateInv, RelateDraftOK
  <2> QED BY <2>1, <2>2 DEF Relate!Show
<1>7. RelateManagerOK' /\ Relate!KeptUntilDecided
  <2>1. CASE next.source # rShown.source
    <3>1. rManager' = Relate!ClosedManager
      BY <2>1 DEF Relate!Show
    <3>2. rManager' \in RelateManagers /\ rManager'.editor = Missing
      BY <3>1 DEF Relate!ClosedManager, RelateManagers, RelateForms
    <3> QED BY <1>1, <2>1, <3>2 DEF RelateManagerOK, Relate!KeptUntilDecided
  <2>2. CASE next.source = rShown.source
    <3>1. rManager' = rManager
      BY <2>2 DEF Relate!Show
    <3> QED BY <1>1, <2>2, <3>1, RelateUnmoved DEF RelateInv, RelateManagerOK, RelateEditorOK
  <2> QED BY <2>1, <2>2
<1>8. RelateDoomedOK'
  <2>1. CASE rDoomed' = Missing
    BY <2>1 DEF RelateDoomedOK
  <2>2. CASE rDoomed # Missing /\ rDoomed' = rDoomed /\ rDoomed.source = next.source /\ rDoomed.snap = next.snap
    BY <1>1, <2>2 DEF RelateInv, RelateDoomedOK
  <2> QED BY <2>1, <2>2 DEF Relate!Show, Relate!StillDoomed
<1>9. RelateSteps
  BY <1>7, RelateQuiet DEF RelateSteps
<1> QED BY <1>1, <1>2, <1>3, <1>5, <1>6, <1>7, <1>8, <1>9 DEF RelateInv, RelateCallsOK, RelateCallOK

LEMMA RelateMovesKeeps ==
  ASSUME RelateInv, RelateSuitable, Relate!SwitchSource \/ Relate!NewModel
  PROVE  RelateInv' /\ RelateSteps
<1>1. rServer \in RelateServers /\ rShown \in [source : RelateSource, snap : 0..RelateMaxMoves] /\ rCalls' = rCalls
  BY DEF RelateInv, RelateServerOK, RelateShownOK, Relate!SwitchSource, Relate!NewModel
<1>2. rSpent.moves < RelateMaxMoves => rSpent.moves + 1 \in 0..RelateMaxMoves
  BY DEF RelateInv, RelateSpentOK, RelateSpendings, RelateSuitable
<1>3. CASE Relate!SwitchSource
  <2>1. PICK s \in RelateSource : Relate!Show([source |-> s, snap |-> rSpent.moves + 1])
    BY <1>3 DEF Relate!SwitchSource
  <2>2. PICK next : next = [source |-> s, snap |-> rSpent.moves + 1]
    OBVIOUS
  <2>3. Relate!Show(next) /\ rSpent.moves < RelateMaxMoves
    BY <2>1, <2>2 DEF Relate!Show
  <2>4. next \in [source : RelateSource, snap : 0..RelateMaxMoves]
    BY <1>2, <2>2, <2>3
  <2> QED BY <1>1, <1>3, <2>3, <2>4, RelateShowKeeps DEF Relate!SwitchSource
<1>4. CASE Relate!NewModel
  <2>1. PICK next : next = [rShown EXCEPT !.snap = rSpent.moves + 1]
    OBVIOUS
  <2>2. Relate!Show(next) /\ rSpent.moves < RelateMaxMoves
    BY <1>4, <2>1 DEF Relate!NewModel, Relate!Show
  <2>3. next \in [source : RelateSource, snap : 0..RelateMaxMoves]
    BY <1>1, <1>2, <2>1, <2>2
  <2>4. PICK m \in Relate!Mapping : rServer' = [rServer EXCEPT !.unlike =
          IF <<rShown.source, m>> \in @ THEN @ \ {<<rShown.source, m>>} ELSE @ \cup {<<rShown.source, m>>}]
    BY <1>4 DEF Relate!NewModel
  <2>5. <<rShown.source, m>> \in RelateSource \X Relate!Mapping
    BY <1>1
  <2>6. PICK u \in SUBSET (RelateSource \X Relate!Mapping) :
          u = IF <<rShown.source, m>> \in rServer.unlike THEN rServer.unlike \ {<<rShown.source, m>>} ELSE rServer.unlike \cup {<<rShown.source, m>>}
    BY <1>1, <2>5 DEF RelateServers
  <2>7. rServer' = [rServer EXCEPT !.unlike = u]
    BY <2>4, <2>6
  <2>8. rServer' \in RelateServers /\ rServer'.rels = rServer.rels /\ rServer'.made = rServer.made
    BY <1>1, <2>7 DEF RelateServers
  <2> QED BY <1>1, <2>2, <2>3, <2>8, RelateShowKeeps
<1> QED BY <1>3, <1>4

-----------------------------------------------------------------------------
(* The specification                                                       *)

LEMMA RelateStepKeeps == RelateSuitable /\ RelateInv /\ [Relate!Next]_Relate!vars => RelateInv' /\ [RelateSteps]_Relate!vars
<1> SUFFICES ASSUME RelateSuitable, RelateInv, [Relate!Next]_Relate!vars PROVE RelateInv' /\ [RelateSteps]_Relate!vars
  OBVIOUS
<1>1. CASE UNCHANGED Relate!vars
  BY <1>1
     DEF Relate!vars, RelateInv, RelateShownOK, RelateServerOK, RelateCanvasOK, RelateDraftOK, RelateManagerOK, RelateEditorOK, RelateDoomedOK, RelateCallsOK, RelateCallOK, RelateSpentOK
<1>2. CASE Relate!Next
  BY <1>2, RelateCanvasKeeps, RelateOpeningKeeps, RelateServeKeeps, RelatePopoverKeeps, RelateSubmitKeeps, RelateAnsweredKeeps, RelateOpenManagerKeeps,
     RelateAskKeeps, RelateEditKeeps, RelateCheckedKeeps, RelateEditorSubmitKeeps, RelateEditorAnsweredKeeps, RelateToggleKeeps, RelateToggleAnsweredKeeps,
     RelateDialogKeeps, RelateConfirmKeeps, RelateDeletedKeeps, RelateMovesKeeps DEF Relate!Next
<1> QED BY <1>1, <1>2

-----------------------------------------------------------------------------
(* The review of suggestions                                               *)

SuggestHistories == [Suggest!Id -> SuggestRecords \cup {Missing}]
SuggestServers == [ignored : SuggestSome, links : SuggestSome, batches : SuggestHistories]
SuggestQueues ==
  [checked : SuggestSome, attempt : SuggestBatches \cup {Missing}, last : Suggest!Id \cup {Missing}, busy : BOOLEAN, history : BOOLEAN]

-----------------------------------------------------------------------------
SuggestServerOK == qServer \in SuggestServers
SuggestKnownOK == qKnown \in SuggestRevisions
\* What was done last is on record.
SuggestQueueOK ==
  /\ qQueue \in SuggestQueues
  /\ qQueue.attempt # Missing => qQueue.attempt.id \in Suggest!Id
  /\ qQueue.last # Missing => qServer.batches[qQueue.last] # Missing
\* Whoever ticked a group saw the members it has now, and an attempt is of what is included now.
SuggestPanelOK(p) ==
  /\ p \in SuggestPanels
  /\ p.included \subseteq p.request \ (IF p.preview = Missing THEN {} ELSE p.preview.blocked)
  /\ p.reviewed \subseteq {Suggest!Group(c) : c \in SuggestCandidate}
  /\ \A g \in p.reviewed : g \cap p.included \in p.seen
  /\ p.attempt # Missing => p.attempt.id \in Suggest!Id
  /\ p.attempt # Missing /\ p.preview # Missing =>
       p.attempt.approved = p.included /\ p.attempt.revision = p.preview.revision
\* What is done is on record, and the panel waits for its batch.
SuggestSentOK ==
  /\ qSent # Missing => qSent \in SuggestCalls
  /\ qSent # Missing /\ qSent.kind \in {"quick", "confirm"} =>
       /\ qSent.batch.id \in Suggest!Id
       /\ qSent.at = "done" => qServer.batches[qSent.batch.id] # Missing
  /\ qSent # Missing /\ qSent.kind = "undo" => qServer.batches[qSent.batch] # Missing
  /\ qSent # Missing /\ qSent.kind = "confirm" => qPanel # Missing /\ qPanel.saving
SuggestInv ==
  /\ SuggestServerOK /\ SuggestKnownOK /\ SuggestQueueOK /\ (qPanel # Missing => SuggestPanelOK(qPanel)) /\ SuggestSentOK /\ qIds \in SuggestNumbers

LEMMA SuggestInvGives == SuggestInv => Suggest!TypeOK
BY
   DEF SuggestInv, Suggest!TypeOK, SuggestServerOK, SuggestServers, SuggestSome, SuggestQueueOK, SuggestQueues, SuggestPanelOK, SuggestNumbers

-----------------------------------------------------------------------------
LEMMA SuggestRevisionIs ==
  ASSUME SuggestInv
  PROVE  Suggest!Revision \in SuggestRevisions
BY DEF SuggestInv, SuggestServerOK, SuggestServers, Suggest!Revision, SuggestRevisions

LEMMA SuggestRowsAre ==
  ASSUME SuggestInv
  PROVE  Suggest!Rows \subseteq SuggestCandidate /\ Suggest!Selected \subseteq SuggestCandidate
BY DEF SuggestInv, SuggestKnownOK, SuggestRevisions, SuggestSome, Suggest!Rows, Suggest!Selected

LEMMA SuggestPreviewIs ==
  ASSUME SuggestInv, NEW action, NEW keys \in SuggestSome
  PROVE  Suggest!Preview(action, keys) \in SuggestPreviews
<1>1. {c \in keys : Suggest!Reason(action, c, Suggest!Revision)} \in SuggestSome
  BY DEF SuggestSome
<1> QED BY <1>1, SuggestRevisionIs DEF Suggest!Preview, SuggestPreviews

LEMMA SuggestBlankIs ==
  ASSUME NEW keys \in SuggestSome, SuggestSuitable
  PROVE  SuggestPanelOK(Suggest!BlankPanel(keys)) /\ ~Suggest!BlankPanel(keys).saving
BY DEF Suggest!BlankPanel, SuggestPanelOK, SuggestPanels, SuggestSome

LEMMA SuggestFreshQueueIs == Suggest!FreshQueue \in SuggestQueues /\ Suggest!FreshQueue.attempt = Missing /\ Suggest!FreshQueue.last = Missing
BY DEF Suggest!FreshQueue, SuggestQueues, SuggestSome

LEMMA SuggestStarts == SuggestSuitable /\ Suggest!Init => SuggestInv
<1> SUFFICES ASSUME SuggestSuitable, Suggest!Init PROVE SuggestInv
  OBVIOUS
<1>1. SuggestServerOK
  <2>1. PICK i \in SuggestSome : qServer = [ignored |-> i, links |-> {}, batches |-> [x \in Suggest!Id |-> Missing]]
    BY DEF Suggest!Init, SuggestSome
  <2>2. {} \in SuggestSome /\ [x \in Suggest!Id |-> Missing] \in SuggestHistories
    BY DEF SuggestSome, SuggestHistories
  <2> QED BY <2>1, <2>2 DEF SuggestServerOK, SuggestServers
<1>2. SuggestKnownOK
  BY <1>1
     DEF Suggest!Init, SuggestKnownOK, SuggestServerOK, SuggestServers, Suggest!Revision, SuggestRevisions
<1>3. Suggest!Rows \in SuggestSome
  BY <1>2 DEF SuggestKnownOK, SuggestRevisions, SuggestSome, Suggest!Rows
<1>4. qSent = Missing /\ qIds = 0
  BY DEF Suggest!Init
<1>5. SuggestQueueOK /\ (qPanel # Missing => SuggestPanelOK(qPanel))
  <2>1. CASE qQueue = Suggest!FreshQueue /\ qPanel = Missing
    BY <2>1, SuggestFreshQueueIs DEF SuggestQueueOK
  <2>2. CASE qQueue = [Suggest!FreshQueue EXCEPT !.checked = Suggest!Rows] /\ qPanel = Suggest!BlankPanel(Suggest!Rows)
    <3>1. qQueue \in SuggestQueues /\ qQueue.attempt = Missing /\ qQueue.last = Missing
      BY <1>3, <2>2, SuggestFreshQueueIs DEF SuggestQueues
    <3> QED BY <1>3, <2>2, <3>1, SuggestBlankIs DEF SuggestQueueOK
  <2> QED BY <2>1, <2>2 DEF Suggest!Init
<1> QED BY <1>1, <1>2, <1>4, <1>5 DEF SuggestInv, SuggestSentOK, SuggestNumbers, SuggestSuitable

-----------------------------------------------------------------------------
(* The selection                                                           *)

LEMMA SuggestQuietStep ==
  ASSUME qSent' = Missing \/ qSent # Missing \/ qSent'.kind # "confirm"
  PROVE  Suggest!AsReviewed
BY DEF Suggest!AsReviewed

LEMMA SuggestIdleCall ==
  ASSUME SuggestInv, ~Suggest!Saving
  PROVE  qSent # Missing => qSent.kind # "confirm"
BY DEF SuggestInv, SuggestSentOK, Suggest!Saving

\* The panel is closed, or opened anew, by a user whom no batch keeps waiting.
LEMMA SuggestChosenKeeps ==
  ASSUME SuggestInv, SuggestSuitable, ~Suggest!Saving, qServer' = qServer, qKnown' = qKnown, qSent' = qSent, qIds' = qIds,
         qQueue' \in SuggestQueues, qQueue'.attempt \in {Missing, qQueue.attempt}, qQueue'.last \in {Missing, qQueue.last},
         qPanel' = Missing \/ SuggestPanelOK(qPanel')
  PROVE  SuggestInv' /\ Suggest!AsReviewed
<1>1. qSent # Missing => qSent.kind # "confirm"
  BY SuggestIdleCall
<1>2. SuggestSentOK'
  BY <1>1 DEF SuggestInv, SuggestSentOK
<1>3. SuggestQueueOK'
  BY DEF SuggestInv, SuggestQueueOK
<1>4. Suggest!AsReviewed
  BY SuggestQuietStep
<1>5. SuggestPanelOK(qPanel') <=> SuggestPanelOK(qPanel)'
  BY DEF SuggestPanelOK
<1> QED BY <1>2, <1>3, <1>4, <1>5 DEF SuggestInv, SuggestServerOK, SuggestKnownOK

LEMMA SuggestSelectionKeeps ==
  ASSUME SuggestInv, SuggestSuitable, Suggest!Check \/ Suggest!ClearSelection \/ Suggest!SwitchTab \/ Suggest!OpenHistory \/ Suggest!Navigate
  PROVE  SuggestInv' /\ Suggest!AsReviewed
<1>1. qServer' = qServer /\ qKnown' = qKnown /\ qSent' = qSent /\ qIds' = qIds /\ qPanel' = Missing /\ ~Suggest!Saving
  BY
     DEF Suggest!Check, Suggest!ClearSelection, Suggest!SwitchTab, Suggest!OpenHistory, Suggest!Navigate, Suggest!Locked
<1>2. qQueue \in SuggestQueues
  BY DEF SuggestInv, SuggestQueueOK
<1>3. qQueue' \in SuggestQueues /\ qQueue'.attempt \in {Missing, qQueue.attempt} /\ qQueue'.last \in {Missing, qQueue.last}
  <2>1. CASE Suggest!Check
    <3>1. PICK s \in {Suggest!Rows} \cup {(qQueue.checked \cup {c}) : c \in Suggest!Rows} \cup {qQueue.checked \ {c} : c \in Suggest!Rows} :
            qQueue' = [qQueue EXCEPT !.checked = s, !.attempt = Missing, !.history = FALSE]
      BY <2>1 DEF Suggest!Check
    <3>2. s \in SuggestSome
      BY <1>2, <3>1, SuggestRowsAre DEF SuggestQueues, SuggestSome
    <3> QED BY <1>2, <3>1, <3>2 DEF SuggestQueues
  <2>2. CASE Suggest!ClearSelection
    <3>1. {} \in SuggestSome
      BY DEF SuggestSome
    <3> QED BY <1>2, <2>2, <3>1 DEF Suggest!ClearSelection, SuggestQueues
  <2>3. CASE Suggest!SwitchTab
    BY <2>3, SuggestFreshQueueIs DEF Suggest!SwitchTab
  <2>4. CASE Suggest!OpenHistory \/ Suggest!Navigate
    BY <1>2, <2>4 DEF Suggest!OpenHistory, Suggest!Navigate, SuggestQueues
  <2> QED BY <2>1, <2>2, <2>3, <2>4
<1> QED BY <1>1, <1>3, SuggestChosenKeeps

LEMMA SuggestOpenKeeps ==
  ASSUME SuggestInv, SuggestSuitable, Suggest!OpenPanel
  PROVE  SuggestInv' /\ Suggest!AsReviewed
<1>1. qServer' = qServer /\ qKnown' = qKnown /\ qSent' = qSent /\ qIds' = qIds /\ ~Suggest!Saving
      /\ qPanel' = Suggest!BlankPanel(Suggest!Selected) /\ qQueue' = [qQueue EXCEPT !.history = FALSE]
  BY DEF Suggest!OpenPanel, Suggest!Locked
<1>2. qQueue \in SuggestQueues
  BY DEF SuggestInv, SuggestQueueOK
<1>3. qQueue' \in SuggestQueues /\ qQueue'.attempt = qQueue.attempt /\ qQueue'.last = qQueue.last
  BY <1>1, <1>2 DEF SuggestQueues
<1>4. PICK keys \in SuggestSome : keys = Suggest!Selected
  BY SuggestRowsAre DEF SuggestSome
<1>5. qPanel' = Suggest!BlankPanel(keys)
  BY <1>1, <1>4
<1>6. SuggestPanelOK(Suggest!BlankPanel(keys))
  BY SuggestBlankIs
<1>7. SuggestPanelOK(qPanel')
  BY <1>5, <1>6
<1> QED BY <1>1, <1>3, <1>7, SuggestChosenKeeps

-----------------------------------------------------------------------------
(* The backend                                                             *)

\* What is on record stays on record.
SuggestKeeps(before, after) == \A i \in Suggest!Id : before.batches[i] # Missing => after.batches[i] # Missing

LEMMA SuggestAppliedIs ==
  ASSUME SuggestInv, SuggestSuitable, NEW b \in SuggestBatches, b.id \in Suggest!Id
  PROVE  Suggest!Applied(b) \in SuggestServers /\ SuggestKeeps(qServer, Suggest!Applied(b)) /\ Suggest!Applied(b).batches[b.id] # Missing
<1>1. qServer \in SuggestServers
  BY DEF SuggestInv, SuggestServerOK
<1>2. PICK x : x = [request |-> [b EXCEPT !.id = 0], undone |-> FALSE]
  OBVIOUS
<1>3. x \in SuggestRecords
  BY <1>2 DEF SuggestRecords, SuggestBatches, SuggestNumbers, SuggestSuitable
<1>4. PICK i \in SuggestSome :
        i = CASE b.action = "ignore" -> qServer.ignored \cup b.approved
              [] b.action = "restore" -> qServer.ignored \ b.approved
              [] b.action = "confirm" -> qServer.ignored
  BY <1>1 DEF SuggestServers, SuggestSome, SuggestBatches, SuggestDeeds
<1>5. PICK l \in SuggestSome : l = IF b.action = "confirm" THEN qServer.links \cup b.approved ELSE qServer.links
  BY <1>1 DEF SuggestServers, SuggestSome, SuggestBatches
<1>6. PICK h : h = [qServer.batches EXCEPT ![b.id] = x]
  OBVIOUS
<1>7. h \in SuggestHistories /\ h[b.id] # Missing /\ \A k \in Suggest!Id : qServer.batches[k] # Missing => h[k] # Missing
  BY <1>1, <1>3, <1>6 DEF SuggestServers, SuggestHistories, SuggestSuitable
<1>8. Suggest!Applied(b) = [ignored |-> i, links |-> l, batches |-> h]
  BY <1>2, <1>4, <1>5, <1>6 DEF Suggest!Applied
<1> QED BY <1>7, <1>8 DEF SuggestServers, SuggestKeeps

LEMMA SuggestUndoneIs ==
  ASSUME SuggestInv, SuggestSuitable, NEW id \in Suggest!Id, qServer.batches[id] # Missing
  PROVE  Suggest!Undone(id) \in SuggestServers /\ SuggestKeeps(qServer, Suggest!Undone(id))
<1>1. qServer \in SuggestServers /\ qServer.batches \in SuggestHistories
  BY DEF SuggestInv, SuggestServerOK, SuggestServers
<1>2. qServer.batches[id] \in SuggestRecords
  BY <1>1 DEF SuggestHistories
<1>3. PICK r \in SuggestBatches : r = qServer.batches[id].request
  BY <1>2 DEF SuggestRecords
<1>4. CASE qServer.batches[id].undone
  BY <1>1, <1>4 DEF Suggest!Undone, SuggestKeeps
<1>5. CASE ~qServer.batches[id].undone
  <2>1. PICK i \in SuggestSome :
          i = CASE r.action = "ignore" -> qServer.ignored \ r.approved
                [] r.action = "restore" -> qServer.ignored \cup r.approved
                [] r.action = "confirm" -> qServer.ignored
    BY <1>1 DEF SuggestServers, SuggestSome, SuggestBatches, SuggestDeeds
  <2>2. PICK l \in SuggestSome : l = IF r.action = "confirm" THEN qServer.links \ r.approved ELSE qServer.links
    BY <1>1 DEF SuggestServers, SuggestSome, SuggestBatches
  <2>3. PICK x : x = [qServer.batches[id] EXCEPT !.undone = TRUE]
    OBVIOUS
  <2>4. x \in SuggestRecords
    BY <1>2, <2>3 DEF SuggestRecords
  <2>5. PICK h : h = [qServer.batches EXCEPT ![id] = x]
    OBVIOUS
  <2>6. h \in SuggestHistories /\ \A k \in Suggest!Id : qServer.batches[k] # Missing => h[k] # Missing
    BY <1>1, <2>4, <2>5 DEF SuggestHistories, SuggestSuitable
  <2>7. [qServer.batches EXCEPT ![id].undone = TRUE] = h
    BY <1>1, <2>3, <2>5 DEF SuggestHistories
  <2>8. Suggest!Undone(id) = [ignored |-> i, links |-> l, batches |-> h]
    BY <1>3, <1>5, <2>1, <2>2, <2>7 DEF Suggest!Undone
  <2> QED BY <2>6, <2>8 DEF SuggestServers, SuggestKeeps
<1> QED BY <1>4, <1>5

\* The store changes, the call under way or not.
LEMMA SuggestStoreKeeps ==
  ASSUME SuggestInv, SuggestSuitable, NEW s, qServer' = s, s \in SuggestServers, SuggestKeeps(qServer, s),
         UNCHANGED <<qKnown, qQueue, qPanel, qIds>>, SuggestSentOK'
  PROVE  SuggestInv'
<1>1. SuggestQueueOK'
  BY DEF SuggestInv, SuggestQueueOK, SuggestQueues, SuggestKeeps
<1> QED BY <1>1 DEF SuggestInv, SuggestServerOK, SuggestKnownOK, SuggestPanelOK

LEMMA SuggestTakesIs ==
  ASSUME SuggestInv, NEW i \in SuggestSome
  PROVE  [qServer EXCEPT !.ignored = i] \in SuggestServers /\ SuggestKeeps(qServer, [qServer EXCEPT !.ignored = i])
BY DEF SuggestInv, SuggestServerOK, SuggestServers, SuggestKeeps

LEMMA SuggestLinksIs ==
  ASSUME SuggestInv, NEW l \in SuggestSome
  PROVE  [qServer EXCEPT !.links = l] \in SuggestServers /\ SuggestKeeps(qServer, [qServer EXCEPT !.links = l])
BY DEF SuggestInv, SuggestServerOK, SuggestServers, SuggestKeeps

LEMMA SuggestElsewhereKeeps ==
  ASSUME SuggestInv, SuggestSuitable, Suggest!Elsewhere
  PROVE  SuggestInv' /\ Suggest!AsReviewed
<1>1. UNCHANGED <<qKnown, qQueue, qPanel, qSent, qIds>>
  BY DEF Suggest!Elsewhere
<1>2. qServer' \in SuggestServers /\ SuggestKeeps(qServer, qServer')
  <2>1. PICK c \in SuggestCandidate : \/ qServer' = [qServer EXCEPT !.ignored = IF c \in @ THEN @ \ {c} ELSE @ \cup {c}]
                               \/ qServer' = [qServer EXCEPT !.links = @ \cup {c}]
    BY DEF Suggest!Elsewhere
  <2>2. qServer \in SuggestServers
    BY DEF SuggestInv, SuggestServerOK
  <2>3. PICK i \in SuggestSome : i = IF c \in qServer.ignored THEN qServer.ignored \ {c} ELSE qServer.ignored \cup {c}
    BY <2>2 DEF SuggestServers, SuggestSome
  <2>4. PICK l \in SuggestSome : l = qServer.links \cup {c}
    BY <2>2 DEF SuggestServers, SuggestSome
  <2>5. CASE qServer' = [qServer EXCEPT !.ignored = i]
    BY <2>5, SuggestTakesIs
  <2>6. CASE qServer' = [qServer EXCEPT !.links = l]
    BY <2>6, SuggestLinksIs
  <2> QED BY <2>1, <2>3, <2>4, <2>5, <2>6
<1>3. SuggestSentOK'
  <2>1. qSent # Missing /\ qSent.kind = "undo" => qSent.batch \in Suggest!Id /\ qServer.batches[qSent.batch] # Missing
    BY DEF SuggestInv, SuggestSentOK, SuggestCalls, SuggestOneKinds
  <2>2. qSent # Missing /\ qSent.kind = "undo" => qServer'.batches[qSent.batch] # Missing
    BY <1>2, <2>1 DEF SuggestKeeps
  <2>3. qSent # Missing /\ qSent.kind \in {"quick", "confirm"} /\ qSent.at = "done" => qServer'.batches[qSent.batch.id] # Missing
    BY <1>2 DEF SuggestInv, SuggestSentOK, SuggestKeeps
  <2> QED BY <1>1, <2>2, <2>3 DEF SuggestInv, SuggestSentOK
<1>4. Suggest!AsReviewed
  BY <1>1, SuggestQuietStep
<1> QED BY <1>1, <1>2, <1>3, <1>4, SuggestStoreKeeps

LEMMA SuggestServeKeeps ==
  ASSUME SuggestInv, SuggestSuitable, Suggest!Serve
  PROVE  SuggestInv' /\ Suggest!AsReviewed
<1>1. UNCHANGED <<qKnown, qQueue, qPanel, qIds>> /\ qSent # Missing
  BY DEF Suggest!Serve
<1>2. qSent \in SuggestCalls /\ qServer \in SuggestServers
  BY <1>1 DEF SuggestInv, SuggestSentOK, SuggestServerOK
<1>3. PICK a \in SuggestAts : qSent' = [qSent EXCEPT !.at = a]
  BY DEF Suggest!Serve, SuggestAts
<1>4. qSent' \in SuggestCalls /\ qSent'.kind = qSent.kind /\ qSent'.batch = qSent.batch /\ qSent'.at = a
  <2>1. CASE qSent \in [kind : {"quick", "confirm"}, batch : SuggestBatches, at : SuggestAts]
    BY <1>3, <2>1 DEF SuggestCalls
  <2>2. CASE qSent \in [kind : {"undo"}, batch : Suggest!Id, at : SuggestAts]
    BY <1>3, <2>2 DEF SuggestCalls
  <2>3. CASE qSent \in [kind : SuggestOneKinds, batch : SuggestCandidate, at : SuggestAts]
    BY <1>3, <2>3 DEF SuggestCalls
  <2> QED BY <1>2, <2>1, <2>2, <2>3 DEF SuggestCalls
<1>5. qSent.kind \in {"quick", "confirm"} => qSent.batch \in SuggestBatches /\ qSent.batch.id \in Suggest!Id
  BY <1>1, <1>2 DEF SuggestCalls, SuggestOneKinds, SuggestInv, SuggestSentOK
<1>6. qSent.kind = "undo" => qSent.batch \in Suggest!Id /\ qServer.batches[qSent.batch] # Missing
  BY <1>1, <1>2 DEF SuggestCalls, SuggestOneKinds, SuggestInv, SuggestSentOK
<1>7. qSent.kind \in SuggestOneKinds => qSent.batch \in SuggestCandidate
  BY <1>2 DEF SuggestCalls, SuggestOneKinds
<1>8. /\ qServer' \in SuggestServers /\ SuggestKeeps(qServer, qServer')
      /\ qSent.kind \in {"quick", "confirm"} /\ a = "done" => qServer'.batches[qSent.batch.id] # Missing
  <2>1. CASE qSent.kind \in {"quick", "confirm"} /\ qServer' = Suggest!Applied(qSent.batch)
    BY <1>5, <2>1, SuggestAppliedIs
  <2>2. CASE qSent.kind \in {"quick", "confirm"} /\ qServer' = qServer
             /\ qSent' = [qSent EXCEPT !.at = IF Suggest!Repeats(qSent.batch) /\ Suggest!SameRequest(qSent.batch) THEN "done" ELSE "refused"]
    <3>1. a = "done" => Suggest!Repeats(qSent.batch)
      <4>1. qSent'.at = IF Suggest!Repeats(qSent.batch) /\ Suggest!SameRequest(qSent.batch) THEN "done" ELSE "refused"
        BY <1>2, <2>2 DEF SuggestCalls
      <4> QED BY <1>4, <4>1
    <3> QED BY <1>2, <2>2, <3>1 DEF Suggest!Repeats, SuggestKeeps
  <2>3. CASE qSent.kind = "undo" /\ qServer' = Suggest!Undone(qSent.batch)
    BY <1>6, <2>3, SuggestUndoneIs
  <2>4. CASE qSent.kind = "ignore" /\ qServer' = [qServer EXCEPT !.ignored = @ \cup {qSent.batch}]
    <3>1. PICK i \in SuggestSome : i = qServer.ignored \cup {qSent.batch}
      BY <1>2, <1>7, <2>4 DEF SuggestServers, SuggestSome, SuggestOneKinds
    <3> QED BY <2>4, <3>1, SuggestTakesIs
  <2>5. CASE qSent.kind = "restore" /\ qServer' = [qServer EXCEPT !.ignored = @ \ {qSent.batch}]
    <3>1. PICK i \in SuggestSome : i = qServer.ignored \ {qSent.batch}
      BY <1>2 DEF SuggestServers, SuggestSome
    <3> QED BY <2>5, <3>1, SuggestTakesIs
  <2>6. CASE qSent.kind = "save" /\ qServer' = [qServer EXCEPT !.links = @ \cup {qSent.batch}]
    <3>1. PICK l \in SuggestSome : l = qServer.links \cup {qSent.batch}
      BY <1>2, <1>7, <2>6 DEF SuggestServers, SuggestSome, SuggestOneKinds
    <3> QED BY <2>6, <3>1, SuggestLinksIs
  <2>7. CASE qServer' = qServer /\ qSent' = [qSent EXCEPT !.at = "failed"]
    <3>1. a # "done"
      <4>1. qSent'.at = "failed"
        BY <1>2, <2>7 DEF SuggestCalls
      <4> QED BY <1>4, <4>1
    <3> QED BY <1>2, <2>7, <3>1 DEF SuggestKeeps
  <2> QED BY <2>1, <2>2, <2>3, <2>4, <2>5, <2>6, <2>7 DEF Suggest!Serve
<1>9. SuggestSentOK'
  <2>1. SuggestKeeps(qServer, qServer')
    BY <1>8
  <2>2. qSent.kind = "undo" => qServer'.batches[qSent.batch] # Missing
    BY <1>6, <2>1 DEF SuggestKeeps
  <2>3. qSent.kind = "confirm" => qPanel # Missing /\ qPanel.saving
    BY <1>1 DEF SuggestInv, SuggestSentOK
  <2> QED BY <1>1, <1>4, <1>5, <1>8, <2>2, <2>3 DEF SuggestSentOK
<1>10. Suggest!AsReviewed
  BY <1>1, SuggestQuietStep
<1> QED BY <1>1, <1>8, <1>9, <1>10, SuggestStoreKeeps

LEMMA SuggestReloadKeeps ==
  ASSUME SuggestInv, SuggestSuitable, Suggest!Reload
  PROVE  SuggestInv' /\ Suggest!AsReviewed
<1>1. UNCHANGED <<qServer, qQueue, qPanel, qSent, qIds>> /\ qKnown' = Suggest!Revision
  BY DEF Suggest!Reload
<1>2. SuggestKnownOK'
  BY <1>1, SuggestRevisionIs DEF SuggestKnownOK
<1>3. Suggest!AsReviewed
  BY <1>1, SuggestQuietStep
<1> QED BY <1>1, <1>2, <1>3 DEF SuggestInv, SuggestServerOK, SuggestQueueOK, SuggestPanelOK, SuggestSentOK

-----------------------------------------------------------------------------
(* Quick batches                                                           *)

LEMMA SuggestNewBatchIs ==
  ASSUME SuggestInv, SuggestSuitable, NEW action \in SuggestDeeds, NEW keys \in SuggestSome, NEW revision \in SuggestRevisions, NEW approved \in SuggestSome,
         qIds < SuggestMaxBatches
  PROVE  LET b == Suggest!NewBatch(action, keys, revision, approved) IN
         /\ b \in SuggestBatches /\ b.id \in Suggest!Id /\ b.approved = approved /\ b.revision = revision /\ qIds + 1 \in SuggestNumbers
<1>1. qIds \in Nat /\ qIds + 1 \in SuggestNumbers /\ qIds + 1 \in Suggest!Id
  BY DEF SuggestInv, SuggestNumbers, Suggest!Id, SuggestSuitable
<1> QED BY <1>1 DEF Suggest!NewBatch, SuggestBatches

LEMMA SuggestQuickKeeps ==
  ASSUME SuggestInv, SuggestSuitable, Suggest!QuickBatch
  PROVE  SuggestInv' /\ Suggest!AsReviewed
<1>1. UNCHANGED <<qServer, qKnown, qPanel>> /\ qSent = Missing /\ ~Suggest!Saving
  BY DEF Suggest!QuickBatch, Suggest!Locked
<1>2. PICK action \in SuggestDeeds : action = IF qTab = "inferred" THEN "ignore" ELSE "restore"
  BY DEF SuggestDeeds
<1>3. PICK keys \in SuggestSome : keys = Suggest!Selected
  BY SuggestRowsAre DEF SuggestSome
<1>4. PICK preview \in SuggestPreviews : preview = Suggest!Preview(action, keys)
  BY SuggestPreviewIs
<1>5. PICK b : b = IF Suggest!Again(qQueue.attempt, action, keys) THEN qQueue.attempt ELSE Suggest!NewBatch(action, keys, preview.revision, keys)
  OBVIOUS
<1>6. /\ \/ Suggest!Again(qQueue.attempt, action, keys) /\ qIds' = qIds
         \/ ~Suggest!Again(qQueue.attempt, action, keys) /\ qIds < SuggestMaxBatches /\ qIds' = qIds + 1
      /\ qSent' = [kind |-> "quick", batch |-> b, at |-> "sent"]
      /\ qQueue' = [qQueue EXCEPT !.attempt = b, !.busy = TRUE]
  BY <1>2, <1>3, <1>4, <1>5, Zenon DEF Suggest!QuickBatch
<1>7. qQueue \in SuggestQueues
  BY DEF SuggestInv, SuggestQueueOK
<1>8. b \in SuggestBatches /\ b.id \in Suggest!Id /\ qIds' \in SuggestNumbers
  <2>1. CASE Suggest!Again(qQueue.attempt, action, keys) /\ qIds' = qIds
    BY <1>5, <1>7, <2>1 DEF Suggest!Again, Suggest!SameAs, SuggestInv, SuggestQueueOK, SuggestQueues
  <2>2. CASE ~Suggest!Again(qQueue.attempt, action, keys) /\ qIds < SuggestMaxBatches /\ qIds' = qIds + 1
    <3>1. PICK revision \in SuggestRevisions : revision = preview.revision
      BY DEF SuggestPreviews
    <3>2. b = Suggest!NewBatch(action, keys, revision, keys)
      BY <1>5, <2>2, <3>1
    <3> QED BY <2>2, <3>2, SuggestNewBatchIs
  <2> QED BY <1>6, <2>1, <2>2
<1>9. qQueue' \in SuggestQueues /\ qQueue'.attempt = b /\ qQueue'.last = qQueue.last
  BY <1>6, <1>7, <1>8 DEF SuggestQueues
<1>10. SuggestQueueOK'
  BY <1>1, <1>8, <1>9 DEF SuggestInv, SuggestQueueOK
<1>11. qSent' \in SuggestCalls /\ qSent'.kind = "quick" /\ qSent'.batch = b /\ qSent'.at = "sent"
  BY <1>6, <1>8 DEF SuggestCalls, SuggestAts
<1>12. SuggestSentOK'
  BY <1>8, <1>11 DEF SuggestSentOK
<1>13. Suggest!AsReviewed
  BY <1>11, SuggestQuietStep
<1> QED BY <1>1, <1>8, <1>10, <1>12, <1>13 DEF SuggestInv, SuggestServerOK, SuggestKnownOK, SuggestPanelOK

LEMMA SuggestDoneIs ==
  ASSUME SuggestInv, NEW b \in SuggestBatches, b.id \in Suggest!Id
  PROVE  Suggest!Done(b) \in SuggestQueues /\ Suggest!Done(b).attempt = Missing /\ Suggest!Done(b).last = b.id
<1>1. qQueue \in SuggestQueues
  BY DEF SuggestInv, SuggestQueueOK
<1>2. PICK s \in SuggestSome : s = qQueue.checked \ b.approved
  BY <1>1 DEF SuggestQueues, SuggestSome
<1>3. Suggest!Done(b) = [qQueue EXCEPT !.checked = s, !.attempt = Missing, !.last = b.id, !.busy = FALSE, !.history = FALSE]
  BY <1>2 DEF Suggest!Done
<1> QED BY <1>1, <1>3 DEF SuggestQueues

LEMMA SuggestIdlingIs ==
  ASSUME SuggestInv
  PROVE  LET q == [qQueue EXCEPT !.busy = FALSE] IN q \in SuggestQueues /\ q.attempt = qQueue.attempt /\ q.last = qQueue.last
BY DEF SuggestInv, SuggestQueueOK, SuggestQueues

LEMMA SuggestQuickAnsweredKeeps ==
  ASSUME SuggestInv, SuggestSuitable, Suggest!QuickAnswered
  PROVE  SuggestInv' /\ Suggest!AsReviewed
<1>1. UNCHANGED <<qServer, qPanel, qIds>> /\ qSent # Missing /\ qSent.kind = "quick" /\ qSent' = Missing
  BY DEF Suggest!QuickAnswered
<1>2. qSent.batch \in SuggestBatches /\ qSent.batch.id \in Suggest!Id
      /\ (qSent.at = "done" => qServer.batches[qSent.batch.id] # Missing)
  BY <1>1 DEF SuggestInv, SuggestSentOK, SuggestCalls, SuggestOneKinds
<1>3. SuggestQueueOK' /\ SuggestKnownOK'
  <2>1. CASE qSent.at = "done" /\ qQueue' = Suggest!Done(qSent.batch) /\ qKnown' = Suggest!Revision
    BY <1>1, <1>2, <2>1, SuggestDoneIs, SuggestRevisionIs DEF SuggestQueueOK, SuggestKnownOK
  <2>2. CASE qQueue' = [qQueue EXCEPT !.busy = FALSE] /\ qKnown' = qKnown
    BY <1>1, <2>2, SuggestIdlingIs DEF SuggestInv, SuggestQueueOK, SuggestKnownOK
  <2> QED BY <2>1, <2>2 DEF Suggest!QuickAnswered
<1>4. Suggest!AsReviewed
  BY <1>1, SuggestQuietStep
<1> QED BY <1>1, <1>3, <1>4 DEF SuggestInv, SuggestServerOK, SuggestPanelOK, SuggestSentOK

LEMMA SuggestUndoKeeps ==
  ASSUME SuggestInv, SuggestSuitable, Suggest!Undo
  PROVE  SuggestInv' /\ Suggest!AsReviewed
<1>1. UNCHANGED <<qServer, qKnown, qPanel, qIds>> /\ qQueue' = [qQueue EXCEPT !.busy = TRUE]
  BY DEF Suggest!Undo
<1>2. qQueue \in SuggestQueues
  BY DEF SuggestInv, SuggestQueueOK
<1>3. PICK id \in IF qQueue.history THEN {i \in Suggest!Id : qServer.batches[i] # Missing /\ ~qServer.batches[i].undone}
                  ELSE {qQueue.last} \ {Missing} :
       qSent' = [kind |-> "undo", batch |-> id, at |-> "sent"]
  BY DEF Suggest!Undo
<1>4. id \in Suggest!Id /\ qServer.batches[id] # Missing
  BY <1>2, <1>3 DEF SuggestInv, SuggestQueueOK, SuggestQueues
<1>5. qSent' \in SuggestCalls /\ qSent'.kind = "undo" /\ qSent'.batch = id
  BY <1>3, <1>4 DEF SuggestCalls, SuggestAts
<1>6. SuggestSentOK'
  BY <1>1, <1>4, <1>5 DEF SuggestSentOK
<1>7. qQueue' \in SuggestQueues /\ qQueue'.attempt = qQueue.attempt /\ qQueue'.last = qQueue.last
  BY <1>1, <1>2 DEF SuggestQueues
<1>8. SuggestQueueOK'
  BY <1>1, <1>7 DEF SuggestInv, SuggestQueueOK
<1>9. Suggest!AsReviewed
  BY <1>5, SuggestQuietStep
<1> QED BY <1>1, <1>6, <1>8, <1>9 DEF SuggestInv, SuggestServerOK, SuggestKnownOK, SuggestPanelOK

LEMMA SuggestUndoAnsweredKeeps ==
  ASSUME SuggestInv, SuggestSuitable, Suggest!UndoAnswered
  PROVE  SuggestInv' /\ Suggest!AsReviewed
<1>1. UNCHANGED <<qServer, qIds>> /\ qSent' = Missing
  BY DEF Suggest!UndoAnswered
<1>2. SuggestQueueOK' /\ SuggestKnownOK' /\ (qPanel' = Missing \/ qPanel' = qPanel)
  <2>1. CASE qQueue' = [qQueue EXCEPT !.checked = {}, !.attempt = Missing, !.busy = FALSE, !.history = TRUE, !.last = Missing]
             /\ qKnown' = Suggest!Revision /\ qPanel' = Missing
    <3>1. {} \in SuggestSome /\ qQueue \in SuggestQueues
      BY DEF SuggestSome, SuggestInv, SuggestQueueOK
    <3>2. qQueue' \in SuggestQueues /\ qQueue'.attempt = Missing /\ qQueue'.last = Missing
      BY <2>1, <3>1 DEF SuggestQueues
    <3> QED BY <2>1, <3>2, SuggestRevisionIs DEF SuggestQueueOK, SuggestKnownOK
  <2>2. CASE qQueue' = [qQueue EXCEPT !.busy = FALSE] /\ UNCHANGED <<qKnown, qPanel>>
    BY <1>1, <2>2, SuggestIdlingIs DEF SuggestInv, SuggestQueueOK, SuggestKnownOK
  <2> QED BY <2>1, <2>2 DEF Suggest!UndoAnswered
<1>3. Suggest!AsReviewed
  BY <1>1, SuggestQuietStep
<1> QED BY <1>1, <1>2, <1>3 DEF SuggestInv, SuggestServerOK, SuggestPanelOK, SuggestSentOK

-----------------------------------------------------------------------------
(* The batch panel                                                         *)

\* Steps of the panel alone.
LEMMA SuggestPanelKeeps ==
  ASSUME SuggestInv, SuggestSuitable, UNCHANGED <<qServer, qKnown, qQueue, qSent, qIds>>, qPanel # Missing,
         NEW p, qPanel' = p, SuggestPanelOK(p), p.saving = qPanel.saving
  PROVE  SuggestInv' /\ Suggest!AsReviewed
<1>1. p # Missing
  BY DEF SuggestPanelOK, SuggestSuitable
<1>2. SuggestSentOK'
  BY <1>1 DEF SuggestInv, SuggestSentOK
<1>3. SuggestPanelOK(qPanel)'
  BY DEF SuggestPanelOK
<1>4. Suggest!AsReviewed
  BY SuggestQuietStep
<1> QED BY <1>2, <1>3, <1>4 DEF SuggestInv, SuggestServerOK, SuggestKnownOK, SuggestQueueOK

LEMMA SuggestPreviewedKeeps ==
  ASSUME SuggestInv, SuggestSuitable, Suggest!Previewed
  PROVE  SuggestInv' /\ Suggest!AsReviewed
<1>1. UNCHANGED <<qServer, qKnown, qQueue, qSent, qIds>> /\ qPanel # Missing
  BY DEF Suggest!Previewed
<1>2. SuggestPanelOK(qPanel) /\ qPanel \in SuggestPanels
  BY <1>1 DEF SuggestInv, SuggestPanelOK
<1>3. PICK keys \in SuggestSome : keys = qPanel.request
  BY <1>2 DEF SuggestPanels
<1>4. PICK v \in SuggestPreviews : v = Suggest!Preview("confirm", keys)
  BY SuggestPreviewIs
<1>5. PICK o \in SuggestSome : o = keys \ v.blocked
  BY DEF SuggestSome
<1>6. PICK p : p = [qPanel EXCEPT !.preview = v, !.included = o, !.reviewed = {}, !.attempt = Missing]
  OBVIOUS
<1>7. qPanel' = p
  BY <1>3, <1>4, <1>5, <1>6 DEF Suggest!Previewed, Suggest!Offered
<1>8. p \in SuggestPanels /\ p.request = keys /\ p.preview = v /\ p.included = o /\ p.reviewed = {} /\ p.attempt = Missing
      /\ p.saving = qPanel.saving
  BY <1>2, <1>3, <1>6 DEF SuggestPanels
<1>9. v # Missing
  BY DEF SuggestSuitable
<1>10. SuggestPanelOK(p)
  BY <1>5, <1>8, <1>9 DEF SuggestPanelOK
<1> QED BY <1>1, <1>7, <1>8, <1>10, SuggestPanelKeeps

LEMMA SuggestRefreshKeeps ==
  ASSUME SuggestInv, SuggestSuitable, Suggest!RefreshPreview
  PROVE  SuggestInv' /\ Suggest!AsReviewed
<1>1. UNCHANGED <<qServer, qKnown, qQueue, qSent, qIds>> /\ qPanel # Missing
  BY DEF Suggest!RefreshPreview
<1>2. SuggestPanelOK(qPanel) /\ qPanel \in SuggestPanels
  BY <1>1 DEF SuggestInv, SuggestPanelOK
<1>3. PICK p : p = [qPanel EXCEPT !.preview = Missing, !.included = {}, !.reviewed = {}]
  OBVIOUS
<1>4. qPanel' = p
  BY <1>3 DEF Suggest!RefreshPreview
<1>5. {} \in SuggestSome
  BY DEF SuggestSome
<1>6. p \in SuggestPanels /\ p.request = qPanel.request /\ p.preview = Missing /\ p.included = {} /\ p.reviewed = {}
      /\ p.attempt = qPanel.attempt /\ p.saving = qPanel.saving
  BY <1>2, <1>3, <1>5 DEF SuggestPanels
<1>7. SuggestPanelOK(p)
  BY <1>2, <1>6 DEF SuggestPanelOK
<1> QED BY <1>1, <1>4, <1>6, <1>7, SuggestPanelKeeps

LEMMA SuggestGroupsAre ==
  ASSUME SuggestSuitable, NEW c \in SuggestCandidate
  PROVE  /\ c \in Suggest!Group(c) /\ Suggest!Group(c) \subseteq SuggestCandidate
         /\ \A d \in SuggestCandidate : Suggest!Group(d) # Suggest!Group(c) => Suggest!Group(c) \cap Suggest!Group(d) = {}
BY DEF Suggest!Group, SuggestSuitable

\* What is included changes within one group.
LEMMA SuggestChangedIs ==
  ASSUME SuggestInv, SuggestSuitable, qPanel # Missing, qPanel.preview # Missing, NEW c \in SuggestCandidate, NEW cs \in SUBSET Suggest!Group(c), cs # {},
         NEW included \in SuggestSome, included \subseteq qPanel.request \ qPanel.preview.blocked,
         \A d \in SuggestCandidate : d \notin Suggest!Group(c) => (d \in included <=> d \in qPanel.included),
         UNCHANGED <<qServer, qKnown, qQueue, qSent, qIds>>, qPanel' = Suggest!Changed(qPanel, cs, included)
  PROVE  SuggestInv' /\ Suggest!AsReviewed
<1>1. SuggestPanelOK(qPanel) /\ qPanel \in SuggestPanels
  BY DEF SuggestInv, SuggestPanelOK
<1>2. \A d \in cs : Suggest!Group(d) = Suggest!Group(c)
  BY SuggestGroupsAre DEF Suggest!Group, SuggestSuitable
<1>3. PICK r : r = qPanel.reviewed \ {Suggest!Group(d) : d \in cs}
  OBVIOUS
<1>4. r \in SUBSET SuggestSome /\ r \subseteq qPanel.reviewed /\ Suggest!Group(c) \notin r
  BY <1>1, <1>2, <1>3 DEF SuggestPanels
<1>5. PICK p : p = [qPanel EXCEPT !.included = included, !.reviewed = r, !.attempt = Missing]
  OBVIOUS
<1>6. qPanel' = p
  BY <1>3, <1>5 DEF Suggest!Changed
<1>7. p \in SuggestPanels /\ p.request = qPanel.request /\ p.preview = qPanel.preview /\ p.included = included /\ p.reviewed = r
      /\ p.attempt = Missing /\ p.seen = qPanel.seen /\ p.saving = qPanel.saving
  BY <1>1, <1>4, <1>5 DEF SuggestPanels
<1>8. ASSUME NEW g \in r PROVE g \cap included \in qPanel.seen
  <2>1. g \in qPanel.reviewed /\ g # Suggest!Group(c)
    BY <1>4
  <2>2. PICK d \in SuggestCandidate : g = Suggest!Group(d)
    BY <1>1, <2>1 DEF SuggestPanelOK
  <2>3. g \cap Suggest!Group(c) = {} /\ g \subseteq SuggestCandidate
    BY <2>1, <2>2, SuggestGroupsAre
  <2>4. g \cap included = g \cap qPanel.included
    BY <2>3
  <2> QED BY <1>1, <2>1, <2>4 DEF SuggestPanelOK
<1>9. SuggestPanelOK(p)
  BY <1>1, <1>4, <1>7, <1>8 DEF SuggestPanelOK
<1> QED BY <1>6, <1>7, <1>9, SuggestPanelKeeps

LEMMA SuggestToggleKeeps ==
  ASSUME SuggestInv, SuggestSuitable, Suggest!ToggleIncluded
  PROVE  SuggestInv' /\ Suggest!AsReviewed
<1>1. UNCHANGED <<qServer, qKnown, qQueue, qSent, qIds>> /\ qPanel # Missing /\ qPanel.preview # Missing
  BY DEF Suggest!ToggleIncluded
<1>2. SuggestPanelOK(qPanel) /\ qPanel.request \in SuggestSome /\ qPanel.included \in SuggestSome
  BY <1>1 DEF SuggestInv, SuggestPanelOK, SuggestPanels
<1>3. PICK c \in qPanel.request \ qPanel.preview.blocked :
        \/ qPanel' = Suggest!Changed(qPanel, {c}, IF c \in qPanel.included THEN qPanel.included \ {c} ELSE qPanel.included \cup {c})
        \/ qPanel' = Suggest!Changed(qPanel, Suggest!Group(c), qPanel.included \ Suggest!Group(c))
  BY DEF Suggest!ToggleIncluded
<1>4. c \in SuggestCandidate
  BY <1>2 DEF SuggestSome
<1>5. c \in Suggest!Group(c) /\ Suggest!Group(c) \subseteq SuggestCandidate
  BY <1>4, SuggestGroupsAre
<1>6. qPanel.included \subseteq qPanel.request \ qPanel.preview.blocked
  BY <1>1, <1>2 DEF SuggestPanelOK
<1>7. CASE qPanel' = Suggest!Changed(qPanel, {c}, IF c \in qPanel.included THEN qPanel.included \ {c} ELSE qPanel.included \cup {c})
  <2>1. PICK included : included = IF c \in qPanel.included THEN qPanel.included \ {c} ELSE qPanel.included \cup {c}
    OBVIOUS
  <2>2. included \in SuggestSome /\ included \subseteq qPanel.request \ qPanel.preview.blocked
    BY <1>2, <1>4, <1>6, <2>1 DEF SuggestSome
  <2>3. \A d \in SuggestCandidate : d \notin Suggest!Group(c) => (d \in included <=> d \in qPanel.included)
    BY <1>5, <2>1
  <2>4. PICK cs \in SUBSET Suggest!Group(c) : cs = {c}
    BY <1>5
  <2>5. qPanel' = Suggest!Changed(qPanel, cs, included) /\ cs # {}
    BY <1>7, <2>1, <2>4
  <2> QED BY <1>1, <1>4, <2>2, <2>3, <2>5, SuggestChangedIs
<1>8. CASE qPanel' = Suggest!Changed(qPanel, Suggest!Group(c), qPanel.included \ Suggest!Group(c))
  <2>1. PICK included : included = qPanel.included \ Suggest!Group(c)
    OBVIOUS
  <2>2. included \in SuggestSome /\ included \subseteq qPanel.request \ qPanel.preview.blocked
    BY <1>2, <1>6, <2>1 DEF SuggestSome
  <2>3. \A d \in SuggestCandidate : d \notin Suggest!Group(c) => (d \in included <=> d \in qPanel.included)
    BY <2>1
  <2>4. PICK cs \in SUBSET Suggest!Group(c) : cs = Suggest!Group(c)
    OBVIOUS
  <2>5. qPanel' = Suggest!Changed(qPanel, cs, included) /\ cs # {}
    BY <1>5, <1>8, <2>1, <2>4
  <2> QED BY <1>1, <1>4, <2>2, <2>3, <2>5, SuggestChangedIs
<1> QED BY <1>3, <1>7, <1>8

LEMMA SuggestReviewKeeps ==
  ASSUME SuggestInv, SuggestSuitable, Suggest!ReviewGroup
  PROVE  SuggestInv' /\ Suggest!AsReviewed
<1>1. UNCHANGED <<qServer, qKnown, qQueue, qSent, qIds>> /\ qPanel # Missing
  BY DEF Suggest!ReviewGroup
<1>2. SuggestPanelOK(qPanel) /\ qPanel \in SuggestPanels
  BY <1>1 DEF SuggestInv, SuggestPanelOK
<1>3. PICK g \in Suggest!Active(qPanel) :
       qPanel' = IF g \in qPanel.reviewed THEN [qPanel EXCEPT !.reviewed = @ \ {g}]
                ELSE [qPanel EXCEPT !.reviewed = @ \cup {g}, !.seen = @ \cup {g \cap qPanel.included}]
  BY DEF Suggest!ReviewGroup
<1>4. PICK c \in SuggestCandidate : g = Suggest!Group(c)
  BY <1>2 DEF Suggest!Active, SuggestPanels, SuggestSome
<1>5. g \in SuggestSome /\ g \cap qPanel.included \in SuggestSome
  BY <1>4, SuggestGroupsAre DEF SuggestSome
<1>6. CASE g \in qPanel.reviewed
  <2>1. PICK r \in SUBSET SuggestSome : r = qPanel.reviewed \ {g}
    BY <1>2 DEF SuggestPanels
  <2>2. PICK p : p = [qPanel EXCEPT !.reviewed = r]
    OBVIOUS
  <2>3. qPanel' = p
    BY <1>3, <1>6, <2>1, <2>2
  <2>4. p \in SuggestPanels /\ p.request = qPanel.request /\ p.preview = qPanel.preview /\ p.included = qPanel.included /\ p.reviewed = r
        /\ p.attempt = qPanel.attempt /\ p.seen = qPanel.seen /\ p.saving = qPanel.saving
    BY <1>2, <2>1, <2>2 DEF SuggestPanels
  <2>5. SuggestPanelOK(p)
    BY <1>2, <2>1, <2>4 DEF SuggestPanelOK
  <2> QED BY <1>1, <2>3, <2>4, <2>5, SuggestPanelKeeps
<1>7. CASE g \notin qPanel.reviewed
  <2>1. PICK r \in SUBSET SuggestSome : r = qPanel.reviewed \cup {g}
    BY <1>2, <1>5 DEF SuggestPanels
  <2>2. PICK n \in SUBSET SuggestSome : n = qPanel.seen \cup {g \cap qPanel.included}
    BY <1>2, <1>5 DEF SuggestPanels
  <2>3. PICK p : p = [qPanel EXCEPT !.reviewed = r, !.seen = n]
    OBVIOUS
  <2>4. qPanel' = p
    BY <1>3, <1>7, <2>1, <2>2, <2>3
  <2>5. p \in SuggestPanels /\ p.request = qPanel.request /\ p.preview = qPanel.preview /\ p.included = qPanel.included /\ p.reviewed = r
        /\ p.attempt = qPanel.attempt /\ p.seen = n /\ p.saving = qPanel.saving
    BY <1>2, <2>1, <2>2, <2>3 DEF SuggestPanels
  <2>6. \A h \in r : h \cap qPanel.included \in n
    BY <1>2, <2>1, <2>2 DEF SuggestPanelOK
  <2>7. r \subseteq {Suggest!Group(d) : d \in SuggestCandidate}
    BY <1>2, <1>4, <2>1 DEF SuggestPanelOK
  <2>8. SuggestPanelOK(p)
    BY <1>2, <2>5, <2>6, <2>7 DEF SuggestPanelOK
  <2> QED BY <1>1, <2>4, <2>5, <2>8, SuggestPanelKeeps
<1> QED BY <1>6, <1>7

LEMMA SuggestConfirmKeeps ==
  ASSUME SuggestInv, SuggestSuitable, Suggest!ConfirmBatch
  PROVE  SuggestInv' /\ Suggest!AsReviewed
<1>1. UNCHANGED <<qServer, qKnown, qQueue>> /\ qSent = Missing /\ qPanel # Missing /\ Suggest!Ready(qPanel)
  BY DEF Suggest!ConfirmBatch
<1>2. SuggestPanelOK(qPanel) /\ qPanel \in SuggestPanels /\ qPanel.preview \in SuggestPreviews
  BY <1>1 DEF SuggestInv, SuggestPanelOK, SuggestPanels, Suggest!Ready
<1>3. PICK keys \in SuggestSome : keys = qPanel.request
  BY <1>2 DEF SuggestPanels
<1>4. PICK revision \in SuggestRevisions : revision = qPanel.preview.revision
  BY <1>2 DEF SuggestPreviews
<1>5. PICK included \in SuggestSome : included = qPanel.included
  BY <1>2 DEF SuggestPanels
<1>6. PICK b : b = IF Suggest!Again(qPanel.attempt, "confirm", keys) THEN qPanel.attempt ELSE Suggest!NewBatch("confirm", keys, revision, included)
  OBVIOUS
<1>7. /\ \/ Suggest!Again(qPanel.attempt, "confirm", keys) /\ qIds' = qIds
         \/ ~Suggest!Again(qPanel.attempt, "confirm", keys) /\ qIds < SuggestMaxBatches /\ qIds' = qIds + 1
      /\ qSent' = [kind |-> "confirm", batch |-> b, at |-> "sent"]
      /\ qPanel' = [qPanel EXCEPT !.attempt = b, !.saving = TRUE]
  BY <1>3, <1>4, <1>5, <1>6, Zenon DEF Suggest!ConfirmBatch
<1>8. b \in SuggestBatches /\ b.id \in Suggest!Id /\ qIds' \in SuggestNumbers /\ b.approved = included /\ b.revision = revision
  <2>1. CASE Suggest!Again(qPanel.attempt, "confirm", keys) /\ qIds' = qIds
    <3>1. qPanel.attempt # Missing /\ b = qPanel.attempt
      BY <1>6, <2>1 DEF Suggest!Again, Suggest!SameAs
    <3>2. qPanel.attempt \in SuggestBatches /\ qPanel.attempt.id \in Suggest!Id /\ qPanel.preview # Missing
      BY <1>1, <1>2, <3>1 DEF SuggestPanelOK, SuggestPanels, Suggest!Ready
    <3>3. b.approved = included /\ b.revision = revision
      BY <1>2, <1>4, <1>5, <3>1, <3>2 DEF SuggestPanelOK
    <3> QED BY <2>1, <3>1, <3>2, <3>3 DEF SuggestInv
  <2>2. CASE ~Suggest!Again(qPanel.attempt, "confirm", keys) /\ qIds < SuggestMaxBatches /\ qIds' = qIds + 1
    <3>1. PICK deed \in SuggestDeeds : deed = "confirm"
      BY DEF SuggestDeeds
    <3>2. b = Suggest!NewBatch(deed, keys, revision, included)
      BY <1>6, <2>2, <3>1
    <3> QED BY <2>2, <3>2, SuggestNewBatchIs
  <2> QED BY <1>7, <2>1, <2>2
<1>9. qPanel' \in SuggestPanels /\ qPanel'.request = qPanel.request /\ qPanel'.preview = qPanel.preview /\ qPanel'.included = qPanel.included
      /\ qPanel'.reviewed = qPanel.reviewed /\ qPanel'.seen = qPanel.seen /\ qPanel'.attempt = b /\ qPanel'.saving
  BY <1>2, <1>7, <1>8 DEF SuggestPanels
<1>10. SuggestPanelOK(qPanel)'
  BY <1>2, <1>4, <1>5, <1>8, <1>9 DEF SuggestPanelOK
<1>11. qSent' \in SuggestCalls /\ qSent'.kind = "confirm" /\ qSent'.batch = b /\ qSent'.at = "sent"
  BY <1>7, <1>8 DEF SuggestCalls, SuggestAts
<1>12. qPanel' # Missing
  BY <1>9 DEF SuggestSuitable
<1>13. SuggestSentOK'
  BY <1>8, <1>9, <1>11, <1>12 DEF SuggestSentOK
<1>14. Suggest!AsReviewed
  <2>1. qSent'.batch.approved = qPanel.included /\ qSent'.batch.revision = qPanel.preview.revision
    BY <1>4, <1>5, <1>8, <1>11
  <2>2. ASSUME NEW c \in qPanel.included PROVE Suggest!Group(c) \cap qPanel.included \in qPanel.seen
    <3>1. Suggest!Group(c) \in qPanel.reviewed
      BY <1>1 DEF Suggest!Ready, Suggest!Active
    <3> QED BY <1>2, <3>1 DEF SuggestPanelOK
  <2> QED BY <2>1, <2>2 DEF Suggest!AsReviewed
<1> QED BY <1>1, <1>8, <1>10, <1>13, <1>14 DEF SuggestInv, SuggestServerOK, SuggestKnownOK, SuggestQueueOK

LEMMA SuggestBatchAnsweredKeeps ==
  ASSUME SuggestInv, SuggestSuitable, Suggest!BatchAnswered
  PROVE  SuggestInv' /\ Suggest!AsReviewed
<1>1. UNCHANGED <<qServer, qIds>> /\ qSent # Missing /\ qSent.kind = "confirm" /\ qSent' = Missing
  BY DEF Suggest!BatchAnswered
<1>2. qSent.batch \in SuggestBatches /\ qSent.batch.id \in Suggest!Id /\ qPanel # Missing
      /\ (qSent.at = "done" => qServer.batches[qSent.batch.id] # Missing)
  BY <1>1 DEF SuggestInv, SuggestSentOK, SuggestCalls, SuggestOneKinds
<1>3. SuggestQueueOK' /\ SuggestKnownOK' /\ (qPanel' # Missing => SuggestPanelOK(qPanel)')
  <2>1. CASE qSent.at = "done" /\ qPanel' = Missing /\ qQueue' = Suggest!Done(qSent.batch) /\ qKnown' = Suggest!Revision
    BY <1>1, <1>2, <2>1, SuggestDoneIs, SuggestRevisionIs DEF SuggestQueueOK, SuggestKnownOK
  <2>2. CASE qPanel' = [qPanel EXCEPT !.saving = FALSE] /\ UNCHANGED <<qQueue, qKnown>>
    <3>1. SuggestPanelOK(qPanel) /\ qPanel \in SuggestPanels
      BY <1>2 DEF SuggestInv, SuggestPanelOK
    <3>2. qPanel' \in SuggestPanels /\ qPanel'.request = qPanel.request /\ qPanel'.preview = qPanel.preview /\ qPanel'.included = qPanel.included
          /\ qPanel'.reviewed = qPanel.reviewed /\ qPanel'.seen = qPanel.seen /\ qPanel'.attempt = qPanel.attempt
      BY <2>2, <3>1 DEF SuggestPanels
    <3>3. SuggestPanelOK(qPanel)'
      BY <3>1, <3>2 DEF SuggestPanelOK
    <3> QED BY <1>1, <2>2, <3>3 DEF SuggestInv, SuggestQueueOK, SuggestKnownOK
  <2> QED BY <2>1, <2>2 DEF Suggest!BatchAnswered
<1>4. Suggest!AsReviewed
  BY <1>1, SuggestQuietStep
<1> QED BY <1>1, <1>3, <1>4 DEF SuggestInv, SuggestServerOK, SuggestSentOK

-----------------------------------------------------------------------------
(* One candidate                                                           *)

LEMMA SuggestOneKeeps ==
  ASSUME SuggestInv, SuggestSuitable, Suggest!EditForm \/ Suggest!ConfirmOne \/ Suggest!Mutate
  PROVE  SuggestInv' /\ Suggest!AsReviewed
<1>1. UNCHANGED <<qServer, qKnown, qPanel, qIds>>
  BY DEF Suggest!EditForm, Suggest!ConfirmOne, Suggest!Mutate
<1>2. qQueue' = qQueue \/ qQueue' = [qQueue EXCEPT !.busy = TRUE]
  BY DEF Suggest!EditForm, Suggest!ConfirmOne, Suggest!Mutate
<1>3. SuggestQueueOK'
  <2>1. qQueue \in SuggestQueues
    BY DEF SuggestInv, SuggestQueueOK
  <2>2. qQueue' \in SuggestQueues /\ qQueue'.attempt = qQueue.attempt /\ qQueue'.last = qQueue.last
    BY <1>2, <2>1 DEF SuggestQueues
  <2> QED BY <1>1, <2>2 DEF SuggestInv, SuggestQueueOK
<1>4. SuggestSentOK' /\ Suggest!AsReviewed
  <2>1. CASE Suggest!EditForm
    <3>1. qSent' = qSent
      BY <2>1 DEF Suggest!EditForm
    <3> QED BY <1>1, <3>1, SuggestQuietStep DEF SuggestInv, SuggestSentOK
  <2>2. CASE Suggest!ConfirmOne \/ Suggest!Mutate
    <3>1. PICK kind \in SuggestOneKinds, c \in Suggest!Rows : qSent' = [kind |-> kind, batch |-> c, at |-> "sent"]
      BY <2>2 DEF Suggest!ConfirmOne, Suggest!Mutate, SuggestOneKinds
    <3>2. c \in SuggestCandidate
      BY SuggestRowsAre
    <3>3. qSent' \in SuggestCalls /\ qSent'.kind = kind
      BY <3>1, <3>2 DEF SuggestCalls, SuggestAts
    <3> QED BY <3>3, SuggestQuietStep DEF SuggestSentOK, SuggestOneKinds
  <2> QED BY <2>1, <2>2
<1> QED BY <1>1, <1>3, <1>4 DEF SuggestInv, SuggestServerOK, SuggestKnownOK, SuggestPanelOK

LEMMA SuggestOneAnsweredKeeps ==
  ASSUME SuggestInv, SuggestSuitable, Suggest!OneAnswered
  PROVE  SuggestInv' /\ Suggest!AsReviewed
<1>1. UNCHANGED <<qServer, qPanel, qIds>> /\ qSent' = Missing /\ qQueue' = [qQueue EXCEPT !.busy = FALSE]
  BY DEF Suggest!OneAnswered
<1>2. qKnown' \in {qKnown, Suggest!Revision}
  BY DEF Suggest!OneAnswered
<1>3. SuggestQueueOK' /\ SuggestKnownOK'
  BY <1>1, <1>2, SuggestIdlingIs, SuggestRevisionIs DEF SuggestInv, SuggestQueueOK, SuggestKnownOK
<1>4. Suggest!AsReviewed
  BY <1>1, SuggestQuietStep
<1> QED BY <1>1, <1>3, <1>4 DEF SuggestInv, SuggestServerOK, SuggestPanelOK, SuggestSentOK

-----------------------------------------------------------------------------
(* The specification                                                       *)

LEMMA SuggestStepKeeps == SuggestSuitable /\ SuggestInv /\ [Suggest!Next]_Suggest!vars => SuggestInv' /\ [Suggest!AsReviewed]_Suggest!vars
<1> SUFFICES ASSUME SuggestSuitable, SuggestInv, [Suggest!Next]_Suggest!vars PROVE SuggestInv' /\ [Suggest!AsReviewed]_Suggest!vars
  OBVIOUS
<1>1. CASE UNCHANGED Suggest!vars
  BY <1>1
     DEF Suggest!vars, SuggestInv, SuggestServerOK, SuggestKnownOK, SuggestQueueOK, SuggestPanelOK, SuggestSentOK
<1>2. CASE Suggest!Next
  BY <1>2, SuggestSelectionKeeps, SuggestServeKeeps, SuggestElsewhereKeeps, SuggestReloadKeeps, SuggestQuickKeeps, SuggestQuickAnsweredKeeps, SuggestUndoKeeps,
     SuggestUndoAnsweredKeeps, SuggestOpenKeeps, SuggestPreviewedKeeps, SuggestRefreshKeeps, SuggestToggleKeeps, SuggestReviewKeeps, SuggestConfirmKeeps,
     SuggestBatchAnsweredKeeps, SuggestOneKeeps, SuggestOneAnsweredKeeps DEF Suggest!Next
<1> QED BY <1>1, <1>2

-----------------------------------------------------------------------------
(* The exported files                                                      *)

\* What the module of the files lists and counts with is the library's.
LEMMA FilesCounts == ASSUME NEW S PROVE Files!Cardinality(S) = Cardinality(S)
  BY Zenon DEF Cardinality, Files!Cardinality

LEMMA FilesInjective == ASSUME NEW s PROVE Files!IsInjective(s) <=> IsInjective(s)
  BY Zenon DEF IsInjective, Files!IsInjective

\* SetToSeq lists a finite set, each element once.
LEMMA FilesListOf ==
  ASSUME NEW S, IsFiniteSet(S)
  PROVE  /\ Files!SetToSeq(S) \in Seq(S) /\ Files!ToSet(Files!SetToSeq(S)) = S
         /\ Files!IsInjective(Files!SetToSeq(S))
<1> DEFINE n == Cardinality(S)
<1>1. n \in Nat /\ ExistsBijection(1..n, S)
  BY FS_CardinalityType
<1>2. PICK g \in Bijection(1..n, S) : TRUE
  BY <1>1 DEF ExistsBijection
<1>3. g \in [1..n -> S] /\ Files!IsInjective(g)
  BY <1>2, FilesInjective DEF Bijection, Injection
<1>4. Files!Cardinality(S) = n
  BY FilesCounts
<1>5. Files!SetToSeq(S) \in [1..n -> S] /\ Files!IsInjective(Files!SetToSeq(S))
  BY <1>3, <1>4 DEF Files!SetToSeq
<1> DEFINE f == Files!SetToSeq(S)
<1> HIDE DEF f
<1>6. IsFiniteSet(1..n) /\ Cardinality(1..n) = n
  BY <1>1, FS_Interval
<1>7. f \in Injection(1..n, S)
  <2>1. f \in [1..n -> S] /\ Files!IsInjective(f)
    BY <1>5 DEF f
  <2> QED BY <2>1, FilesInjective DEF Injection
<1>8. f \in Surjection(1..n, S)
  BY <1>6, <1>7, FS_Injection
<1>9. \A x \in S : \E i \in 1..n : f[i] = x
  BY <1>8 DEF Surjection
<1>10. f \in [1..n -> S]
  BY <1>7 DEF Injection
<1>11. f \in Seq(S)
  BY <1>1, <1>10, SMT
<1>12. Files!ToSet(f) = S
  BY <1>9, <1>10 DEF Files!ToSet
<1> QED BY <1>5, <1>11, <1>12 DEF f

\* As many different elements of S as S has are all of S.
LEMMA FilesFullList ==
  ASSUME NEW S, IsFiniteSet(S), NEW s \in Seq(S), Files!IsInjective(s), Len(s) = Files!Cardinality(S)
  PROVE  Files!ToSet(s) = S
<1>1. Len(s) \in Nat /\ s \in [1..Len(s) -> S] /\ DOMAIN s = 1..Len(s)
  OBVIOUS
<1>2. IsFiniteSet(1..Len(s)) /\ Cardinality(1..Len(s)) = Len(s)
  BY <1>1, FS_Interval
<1>3. IsInjective(s) /\ Len(s) = Cardinality(S)
  BY FilesInjective, FilesCounts
<1>4. s \in Injection(1..Len(s), S)
  BY <1>1, <1>3 DEF Injection
<1>5. s \in Surjection(1..Len(s), S)
  BY <1>2, <1>3, <1>4, FS_Injection
<1> QED BY <1>1, <1>5 DEF Surjection, Files!ToSet

LEMMA FilesJoined ==
  ASSUME NEW T, NEW s \in Seq(T), NEW t \in Seq(T), Files!IsInjective(s), Files!IsInjective(t), Files!ToSet(s) \cap Files!ToSet(t) = {}
  PROVE  s \o t \in Seq(T) /\ Files!IsInjective(s \o t) /\ Files!ToSet(s \o t) = Files!ToSet(s) \cup Files!ToSet(t)
<1>1. s \o t \in Seq(T) /\ Len(s \o t) = Len(s) + Len(t) /\ Len(s) \in Nat /\ Len(t) \in Nat
  OBVIOUS
<1>2. \A i \in 1..Len(s \o t) : (s \o t)[i] = IF i <= Len(s) THEN s[i] ELSE t[i - Len(s)]
  OBVIOUS
<1>3. DOMAIN s = 1..Len(s) /\ DOMAIN t = 1..Len(t) /\ DOMAIN (s \o t) = 1..(Len(s) + Len(t))
  OBVIOUS
<1>4. \A i \in 1..Len(s), j \in 1..Len(t) : s[i] # t[j]
  BY <1>3 DEF Files!ToSet
<1>5. Files!IsInjective(s \o t)
  <2> SUFFICES ASSUME NEW a \in 1..(Len(s) + Len(t)), NEW b \in 1..(Len(s) + Len(t)), (s \o t)[a] = (s \o t)[b]
               PROVE  a = b
    BY <1>3 DEF Files!IsInjective
  <2>1. CASE a <= Len(s) /\ b <= Len(s)
    BY <1>1, <1>2, <1>3, <2>1 DEF Files!IsInjective
  <2>2. CASE a > Len(s) /\ b > Len(s)
    BY <1>1, <1>2, <1>3, <2>2 DEF Files!IsInjective
  <2>3. CASE a <= Len(s) /\ b > Len(s)
    <3>1. s[a] = t[b - Len(s)] /\ a \in 1..Len(s) /\ b - Len(s) \in 1..Len(t)
      BY <1>1, <1>2, <2>3
    <3> QED BY <1>4, <3>1
  <2>4. CASE a > Len(s) /\ b <= Len(s)
    <3>1. s[b] = t[a - Len(s)] /\ b \in 1..Len(s) /\ a - Len(s) \in 1..Len(t)
      BY <1>1, <1>2, <2>4
    <3> QED BY <1>4, <3>1
  <2> QED BY <1>1, <2>1, <2>2, <2>3, <2>4
<1>6. Files!ToSet(s \o t) \subseteq Files!ToSet(s) \cup Files!ToSet(t)
  <2> SUFFICES ASSUME NEW i \in 1..(Len(s) + Len(t)) PROVE (s \o t)[i] \in Files!ToSet(s) \cup Files!ToSet(t)
    BY <1>3 DEF Files!ToSet
  <2>1. CASE i <= Len(s)
    BY <1>1, <1>2, <1>3, <2>1 DEF Files!ToSet
  <2>2. CASE i > Len(s)
    <3>1. i - Len(s) \in 1..Len(t) /\ (s \o t)[i] = t[i - Len(s)]
      BY <1>1, <1>2, <2>2
    <3> QED BY <1>3, <3>1 DEF Files!ToSet
  <2> QED BY <1>1, <2>1, <2>2
<1>7. Files!ToSet(s) \subseteq Files!ToSet(s \o t)
  <2> SUFFICES ASSUME NEW i \in 1..Len(s) PROVE s[i] \in Files!ToSet(s \o t)
    BY <1>3 DEF Files!ToSet
  <2>1. i \in 1..(Len(s) + Len(t)) /\ (s \o t)[i] = s[i]
    BY <1>1, <1>2
  <2> QED BY <1>3, <2>1 DEF Files!ToSet
<1>8. Files!ToSet(t) \subseteq Files!ToSet(s \o t)
  <2> SUFFICES ASSUME NEW i \in 1..Len(t) PROVE t[i] \in Files!ToSet(s \o t)
    BY <1>3 DEF Files!ToSet
  <2>1. Len(s) + i \in 1..(Len(s) + Len(t)) /\ (s \o t)[Len(s) + i] = t[i]
    BY <1>1, <1>2
  <2> QED BY <1>3, <2>1 DEF Files!ToSet
<1> QED BY <1>1, <1>5, <1>6, <1>7, <1>8

LEMMA FilesNothingListed == Files!IsInjective(<<>>) /\ Files!ToSet(<<>>) = {}
BY DEF Files!IsInjective, Files!ToSet

-----------------------------------------------------------------------------
FilesReading == {"mount", "edges", "labels", "tables"}

\* What an export has asked for, read and has still to read.
FilesAskedOK(j) ==
  /\ IsFiniteSet(j.asked.tables) /\ IsFiniteSet(j.asked.rels)
  /\ Files!ToSet(j.tables) \subseteq j.asked.tables
FilesReadOK(j) ==
  /\ j.phase \in FilesReading => j.kind = "diagram"
  /\ j.kind = "diagram" /\ j.phase \in FilesReading \cup {"paint"} =>
       /\ j.todo.tables \cap Files!ToSet(j.tables) = {} /\ j.todo.tables \cup Files!ToSet(j.tables) = j.asked.tables
       /\ Files!ToSet(j.rels) \subseteq j.asked.rels
       /\ Files!IsInjective(j.tables) /\ Files!IsInjective(j.rels)
\* A file, or an export that is about to be one, holds all it is about, once.
FilesHoldsAll(j) ==
  /\ j.kind = "viewer" => /\ Files!Cardinality(j.asked.tables) <= FilesViewerTables
                          /\ Files!Cardinality(j.asked.rels) <= FilesViewerRels
  /\ Files!IsInjective(j.tables) /\ Files!IsInjective(j.rels)
  /\ j.culled \/ /\ Files!ToSet(j.tables) = j.asked.tables
                 /\ Files!ToSet(j.rels) = {r \in j.asked.rels : j.kind = "viewer" => Files!Within(r, j.asked.tables)}
FilesSound(j) == j \in FilesJobSet /\ FilesAskedOK(j) /\ FilesReadOK(j) /\ (j.phase \in {"settle", "encode"} => FilesHoldsAll(j))
\* An export that is current is of the scope on the page.
FilesOfScope(j) == IF j.kind = "diagram" THEN j.scope = fScope ELSE j.scope.model = fScope.model
FilesFits(j) == j.gen <= Files!GenOf(j.kind) /\ (Files!Current(j) => FilesOfScope(j))

FilesPageOK ==
  /\ fScope \in FilesScopes /\ fGens \in [canvas : Nat, header : Nat]
  /\ fLinks \in FilesStateable \cup {Missing} /\ fReady \in BOOLEAN
FilesSurfaceOK == fRendering \in BOOLEAN /\ fSurface \in FilesDrawings
FilesJobsOK == fJobs \in Seq(FilesJobSet \cup {Missing}) /\ \A i \in DOMAIN fJobs : fJobs[i] # Missing => FilesSound(fJobs[i]) /\ FilesFits(fJobs[i])
\* Someone draws on this canvas, or it is empty and open.
FilesDrawnOK ==
  \/ \E i \in DOMAIN fJobs : Files!At(i, FilesReading) /\ fJobs[i].scope.mount = fScope.mount
  \/ ~fRendering /\ fSurface = Files!Empty
FilesInv == FilesPageOK /\ FilesSurfaceOK /\ FilesJobsOK /\ FilesDrawnOK /\ Files!DeliveredIsWhole

LEMMA FilesInvGives == FilesSuitable /\ FilesInv => Files!TypeOK /\ Files!DeliveredIsWhole /\ Files!CanvasIsGivenBack
<1> SUFFICES ASSUME FilesSuitable, FilesInv PROVE Files!TypeOK /\ Files!DeliveredIsWhole /\ Files!CanvasIsGivenBack
  OBVIOUS
<1>1. Files!CanvasIsGivenBack
  BY DEF FilesInv, FilesDrawnOK, Files!CanvasIsGivenBack, FilesReading
<1>2. fScope \in FilesScopes /\ (fLinks = Missing \/ fLinks \subseteq FilesRel) /\ fReady \in BOOLEAN /\ fRendering \in BOOLEAN /\ fSurface \in FilesDrawings
  BY DEF FilesInv, FilesPageOK, FilesSurfaceOK, FilesSuitable
<1>3. \A i \in DOMAIN fJobs : fJobs[i] # Missing =>
        fJobs[i].phase \in Files!Phases /\ fJobs[i].gen <= Files!GenOf(fJobs[i].kind) /\ Files!ToSet(fJobs[i].tables) \subseteq fJobs[i].asked.tables
  BY DEF FilesInv, FilesJobsOK, FilesSound, FilesAskedOK, FilesFits, FilesJobSet
<1> QED BY <1>1, <1>2, <1>3 DEF Files!TypeOK, FilesScopes, FilesDrawings, FilesInv

LEMMA FilesStarts == Files!Init => FilesInv
<1> SUFFICES ASSUME Files!Init PROVE FilesInv
  OBVIOUS
<1>1. FilesPageOK
  <2>1. fScope \in FilesScopes
    BY DEF Files!Init, FilesScopes
  <2>2. fGens \in [canvas : Nat, header : Nat]
    BY DEF Files!Init
  <2>3. fLinks \in FilesStateable \cup {Missing} /\ fReady \in BOOLEAN
    BY DEF Files!Init
  <2> QED BY <2>1, <2>2, <2>3 DEF FilesPageOK
<1>2. FilesSurfaceOK /\ FilesDrawnOK
  BY DEF Files!Init, FilesSurfaceOK, FilesDrawnOK, FilesDrawings, Files!Empty
<1>3. FilesJobsOK /\ Files!DeliveredIsWhole
  BY DEF Files!Init, FilesJobsOK, Files!DeliveredIsWhole
<1> QED BY <1>1, <1>2, <1>3 DEF FilesInv

-----------------------------------------------------------------------------
(* What is shown                                                           *)

LEMMA FilesShownIs ==
  ASSUME FilesSuitable, FilesPageOK
  PROVE  /\ Files!Shown \in SUBSET FilesTable /\ IsFiniteSet(Files!Shown)
         /\ Files!Stated \in SUBSET FilesRel /\ IsFiniteSet(Files!Stated)
         /\ IsFiniteSet(FilesHas[fScope.model]) /\ FilesHas[fScope.model] \in SUBSET FilesTable
<1>1. fScope.model \in FilesModel
  BY DEF FilesPageOK, FilesScopes
<1>2. IsFiniteSet(FilesHas[fScope.model]) /\ FilesHas[fScope.model] \in SUBSET FilesTable
  BY <1>1 DEF FilesSuitable
<1>3. Files!Shown \in SUBSET FilesHas[fScope.model]
  BY DEF Files!Shown
<1>4. IsFiniteSet(Files!Shown)
  BY <1>2, <1>3, FS_Subset
<1>5. IsFiniteSet({})
  BY FS_EmptySet
<1>6. Files!Stated \in SUBSET FilesRel /\ IsFiniteSet(Files!Stated)
  BY <1>5 DEF Files!Stated, FilesPageOK, FilesSuitable
<1> QED BY <1>2, <1>3, <1>4, <1>6

LEMMA FilesDrawingIs ==
  ASSUME FilesSuitable, FilesPageOK
  PROVE  /\ Files!Drawing \in FilesDrawings /\ Files!Drawing.tables = Files!Shown /\ IsFiniteSet(Files!Drawing.tables) /\ IsFiniteSet(Files!Drawing.rels)
<1>1. PICK R : R = {r \in Files!Stated : Files!Within(r, Files!Shown)}
  OBVIOUS
<1>2. R \in SUBSET Files!Stated
  BY <1>1
<1>3. IsFiniteSet(R) /\ R \in SUBSET FilesRel
  BY <1>2, FilesShownIs, FS_Subset
<1>4. Files!Drawing = [tables |-> Files!Shown, rels |-> R]
  BY <1>1 DEF Files!Drawing
<1> QED BY <1>3, <1>4, FilesShownIs DEF FilesDrawings

-----------------------------------------------------------------------------
(* The page                                                                *)

LEMMA FilesNewCanvasIs ==
  ASSUME FilesPageOK, Files!NewCanvas
  PROVE  fGens' \in [canvas : Nat, header : Nat] /\ fGens'.canvas = fGens.canvas + 1 /\ fGens'.header = fGens.header
<1>1. fGens \in [canvas : Nat, header : Nat]
  BY DEF FilesPageOK
<1> QED BY <1>1 DEF Files!NewCanvas

\* The page shows another scope, or the same one.
FilesMoves ==
  /\ fGens'.canvas >= fGens.canvas /\ fGens'.header >= fGens.header
  /\ fGens'.canvas = fGens.canvas => fScope' = fScope
  /\ fGens'.header = fGens.header => fScope'.model = fScope.model

LEMMA FilesNewCanvasMoves ==
  ASSUME FilesPageOK, Files!NewCanvas, fScope'.model = fScope.model
  PROVE  FilesMoves /\ fGens' \in [canvas : Nat, header : Nat]
<1>1. PICK a \in Nat, b \in Nat : a = fGens.canvas /\ b = fGens.header
  BY DEF FilesPageOK
<1>2. fGens'.canvas = a + 1 /\ fGens'.header = b
  BY <1>1, FilesNewCanvasIs
<1>3. fGens'.canvas >= a /\ fGens'.header >= b /\ fGens'.canvas # a
  BY <1>1, <1>2
<1> QED BY <1>1, <1>3, FilesNewCanvasIs DEF FilesMoves

LEMMA FilesSameGensMove ==
  ASSUME FilesPageOK, UNCHANGED <<fGens, fScope>>
  PROVE  FilesMoves
<1>1. PICK a \in Nat, b \in Nat : a = fGens.canvas /\ b = fGens.header
  BY DEF FilesPageOK
<1> QED BY <1>1 DEF FilesMoves

\* A new scope is a new generation of whatever was of the old one.
LEMMA FilesPageKeeps ==
  ASSUME FilesInv, UNCHANGED <<fJobs, fSent>>, FilesPageOK', FilesSurfaceOK', FilesDrawnOK', FilesMoves
  PROVE  FilesInv'
<1>1. \A i \in DOMAIN fJobs : fJobs[i] # Missing => FilesSound(fJobs[i])
  BY DEF FilesInv, FilesJobsOK
<1>2. ASSUME NEW i \in DOMAIN fJobs, fJobs[i] # Missing PROVE FilesFits(fJobs[i])'
  <2>1. FilesSound(fJobs[i]) /\ FilesFits(fJobs[i])
    BY <1>2 DEF FilesInv, FilesJobsOK
  <2>2. PICK j \in FilesJobSet : j = fJobs[i]
    BY <2>1 DEF FilesSound
  <2>3. j.gen \in Nat /\ j.kind \in FilesKinds
    BY DEF FilesJobSet
  <2>4. fGens \in [canvas : Nat, header : Nat] /\ fGens' \in [canvas : Nat, header : Nat]
    BY DEF FilesInv, FilesPageOK
  <2>5. j.gen <= Files!GenOf(j.kind) /\ (j.gen = Files!GenOf(j.kind) => FilesOfScope(j))
    BY <2>1, <2>2 DEF FilesFits, Files!Current
  <2>6. CASE j.kind = "diagram"
    <3>1. j.gen <= fGens.canvas /\ (j.gen = fGens.canvas => j.scope = fScope)
      BY <2>5, <2>6 DEF Files!GenOf, FilesOfScope
    <3>2. j.gen <= fGens'.canvas /\ (j.gen = fGens'.canvas => j.scope = fScope')
      BY <2>3, <2>4, <3>1 DEF FilesMoves
    <3> QED BY <1>2, <2>2, <2>6, <3>2 DEF FilesFits, Files!Current, Files!GenOf, FilesOfScope
  <2>7. CASE j.kind # "diagram"
    <3>1. j.gen <= fGens.header /\ (j.gen = fGens.header => j.scope.model = fScope.model)
      BY <2>5, <2>7 DEF Files!GenOf, FilesOfScope
    <3>2. j.gen <= fGens'.header /\ (j.gen = fGens'.header => j.scope.model = fScope'.model)
      BY <2>3, <2>4, <3>1 DEF FilesMoves
    <3> QED BY <1>2, <2>2, <2>7, <3>2 DEF FilesFits, Files!Current, Files!GenOf, FilesOfScope
  <2> QED BY <2>6, <2>7
<1>3. FilesJobsOK'
  BY <1>1, <1>2 DEF FilesInv, FilesJobsOK, FilesSound, FilesAskedOK, FilesReadOK, FilesHoldsAll
<1> QED BY <1>3 DEF FilesInv, Files!DeliveredIsWhole

LEMMA FilesMovesKeep ==
  ASSUME FilesInv, FilesSuitable, Files!Narrow \/ Files!Search \/ Files!ReadLinks \/ Files!LayOut \/ (\E m \in FilesModel : Files!LoadModel(m))
  PROVE  FilesInv'
<1>1. UNCHANGED <<fJobs, fSent, fRendering, fSurface>>
  BY DEF Files!Narrow, Files!Search, Files!ReadLinks, Files!LayOut, Files!LoadModel
<1>2. FilesPageOK
  BY DEF FilesInv
<1>3. FilesPageOK' /\ fScope'.mount = fScope.mount /\ FilesMoves
  <2>0. fScope \in FilesScopes /\ fGens \in [canvas : Nat, header : Nat]
    BY <1>2 DEF FilesPageOK
  <2>1. CASE Files!Narrow \/ Files!Search
    <3>1. fScope' \in FilesScopes /\ fScope'.mount = fScope.mount /\ fScope'.model = fScope.model
      BY <2>0, <2>1 DEF Files!Narrow, Files!Search, FilesScopes
    <3>2. Files!NewCanvas /\ fLinks' = fLinks /\ fReady' = FALSE
      BY <2>1 DEF Files!Narrow, Files!Search
    <3>3. fGens' \in [canvas : Nat, header : Nat] /\ FilesMoves
      BY <1>2, <3>1, <3>2, FilesNewCanvasMoves
    <3> QED BY <1>2, <3>1, <3>2, <3>3 DEF FilesPageOK
  <2>2. CASE Files!ReadLinks \/ Files!LayOut
    <3>1. UNCHANGED <<fGens, fScope>> /\ fLinks' \in FilesStateable \cup {Missing} /\ fReady' \in BOOLEAN
      BY <1>2, <2>2 DEF Files!ReadLinks, Files!LayOut, FilesPageOK
    <3>2. FilesMoves
      BY <1>2, <3>1, FilesSameGensMove
    <3> QED BY <1>2, <3>1, <3>2 DEF FilesPageOK
  <2>3. CASE \E m \in FilesModel : Files!LoadModel(m)
    <3>1. PICK m \in FilesModel : Files!LoadModel(m)
      BY <2>3
    <3>2. fScope' = [fScope EXCEPT !.model = m]
      BY <3>1 DEF Files!LoadModel
    <3>3. fScope' \in FilesScopes /\ fScope'.mount = fScope.mount
      BY <2>0, <3>2 DEF FilesScopes
    <3>4. PICK a \in Nat, b \in Nat : a = fGens.canvas /\ b = fGens.header
      BY <2>0
    <3>5. fGens' = [canvas |-> a + 1, header |-> b + 1]
      BY <3>1, <3>4 DEF Files!LoadModel
    <3>6. fGens' \in [canvas : Nat, header : Nat] /\ fGens'.canvas = a + 1 /\ fGens'.header = b + 1
      BY <3>5
    <3>7. FilesMoves
      BY <3>4, <3>6 DEF FilesMoves
    <3>8. fLinks' = Missing /\ fReady' = FALSE
      BY <3>1 DEF Files!LoadModel
    <3> QED BY <3>3, <3>6, <3>7, <3>8 DEF FilesPageOK
  <2> QED BY <2>1, <2>2, <2>3
<1>4. FilesSurfaceOK'
  BY <1>1 DEF FilesInv, FilesSurfaceOK
<1>5. FilesDrawnOK'
  BY <1>1, <1>3 DEF FilesInv, FilesDrawnOK, Files!At
<1> QED BY <1>1, <1>3, <1>4, <1>5, FilesPageKeeps

LEMMA FilesRemountKeeps ==
  ASSUME FilesInv, FilesSuitable, Files!Remount
  PROVE  FilesInv'
<1>1. UNCHANGED <<fJobs, fSent>> /\ FilesPageOK
  BY DEF Files!Remount, FilesInv
<1>2. FilesPageOK' /\ FilesMoves
  <2>1. fScope \in FilesScopes
    BY <1>1 DEF FilesPageOK
  <2>2. fScope' = [fScope EXCEPT !.mount = @ + 1]
    BY DEF Files!Remount
  <2>3. fScope' \in FilesScopes /\ fScope'.model = fScope.model
    BY <2>1, <2>2 DEF FilesScopes
  <2>4. Files!NewCanvas /\ fLinks' = fLinks /\ fReady' = FALSE
    BY DEF Files!Remount
  <2>5. fGens' \in [canvas : Nat, header : Nat] /\ FilesMoves
    BY <1>1, <2>3, <2>4, FilesNewCanvasMoves
  <2> QED BY <1>1, <2>3, <2>4, <2>5 DEF FilesPageOK
<1>3. FilesSurfaceOK' /\ FilesDrawnOK'
  BY DEF Files!Remount, FilesSurfaceOK, FilesDrawnOK, FilesDrawings, Files!Empty
<1> QED BY <1>1, <1>2, <1>3, FilesPageKeeps

-----------------------------------------------------------------------------
(* The exports                                                             *)

\* While the page stays, what the jobs are tells whether they are as they should be.
LEMMA FilesSameJobs ==
  ASSUME fJobs' \in Seq(FilesJobSet \cup {Missing}), UNCHANGED <<fScope, fGens>>,
         \A i \in DOMAIN fJobs' : fJobs'[i] # Missing => FilesSound(fJobs'[i]) /\ FilesFits(fJobs'[i])
  PROVE  FilesJobsOK'
<1>1. ASSUME NEW i \in DOMAIN fJobs', fJobs'[i] # Missing PROVE FilesSound(fJobs[i])' /\ FilesFits(fJobs[i])'
  <2>1. FilesSound(fJobs'[i]) /\ FilesFits(fJobs'[i])
    BY <1>1
  <2>2. FilesSound(fJobs[i])'
    BY <2>1 DEF FilesSound, FilesAskedOK, FilesReadOK, FilesHoldsAll
  <2>3. FilesFits(fJobs[i])'
    BY <2>1 DEF FilesFits, Files!Current, Files!GenOf, FilesOfScope
  <2> QED BY <2>2, <2>3
<1> QED BY <1>1 DEF FilesJobsOK

LEMMA FilesClickKeeps ==
  ASSUME FilesInv, FilesSuitable, UNCHANGED <<Files!canvas, fRendering, fSurface, fSent>>,
         NEW j \in FilesJobSet, fJobs' = Append(fJobs, j), FilesSound(j), FilesFits(j)
  PROVE  FilesInv'
<1>1. fJobs \in Seq(FilesJobSet \cup {Missing}) /\ fJobs' \in Seq(FilesJobSet \cup {Missing})
  BY DEF FilesInv, FilesJobsOK
<1>2. DOMAIN fJobs = 1..Len(fJobs) /\ DOMAIN fJobs' = 1..(Len(fJobs) + 1) /\ Len(fJobs) \in Nat
      /\ \A i \in DOMAIN fJobs' : fJobs'[i] = IF i = Len(fJobs) + 1 THEN j ELSE fJobs[i]
  BY <1>1
<1>3. \A i \in DOMAIN fJobs' : i \in DOMAIN fJobs \/ i = Len(fJobs) + 1
  BY <1>2
<1>4. \A i \in DOMAIN fJobs : i \in DOMAIN fJobs' /\ fJobs'[i] = fJobs[i]
  BY <1>2
<1>5. UNCHANGED <<fScope, fGens, fLinks, fReady>>
  BY DEF Files!canvas
<1>6. \A i \in DOMAIN fJobs' : fJobs'[i] # Missing => FilesSound(fJobs'[i]) /\ FilesFits(fJobs'[i])
  BY <1>2, <1>3 DEF FilesInv, FilesJobsOK
<1>7. FilesJobsOK'
  BY <1>1, <1>5, <1>6, FilesSameJobs
<1>8. FilesDrawnOK'
  BY <1>4, <1>5 DEF FilesInv, FilesDrawnOK, Files!At
<1> QED BY <1>5, <1>7, <1>8 DEF FilesInv, FilesPageOK, FilesSurfaceOK, Files!DeliveredIsWhole

LEMMA FilesClickDiagramKeeps ==
  ASSUME FilesInv, FilesSuitable, Files!ClickDiagram
  PROVE  FilesInv'
<1>1. PICK d \in FilesDrawings : d = Files!Drawing /\ IsFiniteSet(d.tables) /\ IsFiniteSet(d.rels)
  BY FilesDrawingIs DEF FilesInv
<1>2. PICK b \in BOOLEAN : b = Files!Dense(Files!Shown)
  <2>1. Files!Dense(Files!Shown) \in BOOLEAN
    BY DEF Files!Dense
  <2> QED BY <2>1
<1>3. PICK j : j = [kind |-> "diagram", gen |-> fGens.canvas, scope |-> fScope, phase |-> "paint",
                    asked |-> d, dense |-> b, todo |-> d, tables |-> <<>>, rels |-> <<>>, culled |-> FALSE]
  OBVIOUS
<1>4. fJobs' = Append(fJobs, j) /\ UNCHANGED <<Files!canvas, fRendering, fSurface, fSent>>
  BY <1>1, <1>2, <1>3 DEF Files!ClickDiagram
<1>5. j \in FilesJobSet
  BY <1>3 DEF FilesInv, FilesPageOK, FilesJobSet, FilesKinds, Files!Phases
<1>6. FilesSound(j)
  BY <1>1, <1>3, <1>5, FilesNothingListed DEF FilesSound, FilesAskedOK, FilesReadOK, FilesReading
<1>7. FilesFits(j)
  BY <1>3 DEF FilesInv, FilesPageOK, FilesFits, Files!Current, Files!GenOf, FilesOfScope
<1> QED BY <1>4, <1>5, <1>6, <1>7, FilesClickKeeps

LEMMA FilesClickReportKeeps ==
  ASSUME FilesInv, FilesSuitable, NEW kind \in Files!Report, Files!ClickReport(kind)
  PROVE  FilesInv'
<1>1. fLinks \in SUBSET FilesRel /\ IsFiniteSet(fLinks)
  BY DEF FilesInv, FilesPageOK, Files!ClickReport, FilesSuitable
<1>2. PICK d : d = [tables |-> FilesHas[fScope.model], rels |-> fLinks]
  OBVIOUS
<1>3. d \in FilesDrawings /\ IsFiniteSet(d.tables) /\ IsFiniteSet(d.rels)
  BY <1>1, <1>2, FilesShownIs DEF FilesDrawings, FilesInv
<1>4. PICK j : j = [kind |-> kind, gen |-> fGens.header, scope |-> fScope, phase |-> "paint",
                    asked |-> d, dense |-> FALSE, todo |-> Files!Empty, tables |-> <<>>, rels |-> <<>>, culled |-> FALSE]
  OBVIOUS
<1>5. fJobs' = Append(fJobs, j) /\ UNCHANGED <<Files!canvas, fRendering, fSurface, fSent>>
  BY <1>2, <1>4 DEF Files!ClickReport
<1>6. Files!Empty \in FilesDrawings /\ kind \in FilesKinds /\ kind # "diagram"
  BY DEF Files!Empty, FilesDrawings, FilesKinds, Files!Report
<1>7. j \in FilesJobSet
  BY <1>3, <1>4, <1>6 DEF FilesInv, FilesPageOK, FilesJobSet, Files!Phases
<1>8. FilesSound(j)
  BY <1>3, <1>4, <1>6, <1>7, FilesNothingListed DEF FilesSound, FilesAskedOK, FilesReadOK, FilesReading
<1>9. FilesFits(j)
  BY <1>4, <1>6 DEF FilesInv, FilesPageOK, FilesFits, Files!Current, Files!GenOf, FilesOfScope
<1> QED BY <1>5, <1>7, <1>8, <1>9, FilesClickKeeps

-----------------------------------------------------------------------------
(* A step of one export                                                    *)

LEMMA FilesJobKeeps ==
  ASSUME FilesInv, UNCHANGED Files!canvas, NEW i \in DOMAIN fJobs, NEW x, fJobs' = [fJobs EXCEPT ![i] = x],
         x = Missing \/ (FilesSound(x) /\ FilesFits(x)), FilesSurfaceOK', FilesDrawnOK', Files!DeliveredIsWhole'
  PROVE  FilesInv'
<1>1. fJobs \in Seq(FilesJobSet \cup {Missing}) /\ x \in FilesJobSet \cup {Missing}
  BY DEF FilesInv, FilesJobsOK, FilesSound
<1>2. fJobs' \in Seq(FilesJobSet \cup {Missing}) /\ DOMAIN fJobs' = DOMAIN fJobs
      /\ \A k \in DOMAIN fJobs : fJobs'[k] = IF k = i THEN x ELSE fJobs[k]
  BY <1>1
<1>3. UNCHANGED <<fScope, fGens, fLinks, fReady>>
  BY DEF Files!canvas
<1>4. \A k \in DOMAIN fJobs' : fJobs'[k] # Missing => FilesSound(fJobs'[k]) /\ FilesFits(fJobs'[k])
  BY <1>2 DEF FilesInv, FilesJobsOK
<1>5. FilesJobsOK'
  BY <1>2, <1>3, <1>4, FilesSameJobs
<1> QED BY <1>3, <1>5 DEF FilesInv, FilesPageOK

\* An export that stays on its canvas, or was never on this one.
LEMMA FilesStaysDrawn ==
  ASSUME FilesInv, UNCHANGED <<Files!canvas, fRendering, fSurface>>, NEW i \in DOMAIN fJobs, NEW x, fJobs' = [fJobs EXCEPT ![i] = x],
         Files!At(i, FilesReading) /\ fJobs[i].scope.mount = fScope.mount => x # Missing /\ x.phase \in FilesReading /\ x.scope = fJobs[i].scope
  PROVE  FilesSurfaceOK' /\ FilesDrawnOK'
<1>1. UNCHANGED fScope
  BY DEF Files!canvas
<1>2. DOMAIN fJobs' = DOMAIN fJobs /\ \A k \in DOMAIN fJobs : fJobs'[k] = IF k = i THEN x ELSE fJobs[k]
  OBVIOUS
<1>3. CASE ~fRendering /\ fSurface = Files!Empty
  BY <1>3 DEF FilesInv, FilesSurfaceOK, FilesDrawnOK
<1>4. CASE \E k \in DOMAIN fJobs : Files!At(k, FilesReading) /\ fJobs[k].scope.mount = fScope.mount
  <2>1. PICK k \in DOMAIN fJobs : Files!At(k, FilesReading) /\ fJobs[k].scope.mount = fScope.mount
    BY <1>4
  <2>2. fJobs'[k] # Missing /\ fJobs'[k].phase \in FilesReading /\ fJobs'[k].scope.mount = fScope.mount
    BY <1>2, <2>1 DEF Files!At
  <2> QED BY <1>1, <1>2, <2>2 DEF FilesInv, FilesSurfaceOK, FilesDrawnOK, Files!At
<1> QED BY <1>3, <1>4 DEF FilesInv, FilesDrawnOK

\* An export that draws on this canvas.
LEMMA FilesDraws ==
  ASSUME FilesInv, UNCHANGED Files!canvas, NEW i \in DOMAIN fJobs, NEW x, fJobs' = [fJobs EXCEPT ![i] = x],
         x # Missing, x.phase \in FilesReading, x.scope = fScope
  PROVE  FilesDrawnOK'
<1>1. UNCHANGED fScope
  BY DEF Files!canvas
<1>2. DOMAIN fJobs' = DOMAIN fJobs /\ fJobs'[i] = x
  OBVIOUS
<1> QED BY <1>1, <1>2 DEF FilesDrawnOK, Files!At

\* An export that gives the canvas back.
LEMMA FilesRestoreDrawn ==
  ASSUME FilesInv, UNCHANGED Files!canvas, NEW i \in DOMAIN fJobs, NEW j, NEW phase, Files!Restore(i, j, phase), j.scope = fJobs[i].scope
  PROVE  FilesSurfaceOK' /\ FilesDrawnOK'
<1>1. CASE j.scope.mount = fScope.mount
  <2>1. fRendering' = FALSE /\ fSurface' = Files!Empty
    BY <1>1 DEF Files!Restore
  <2>2. Files!Empty \in FilesDrawings
    BY DEF Files!Empty, FilesDrawings
  <2>3. FilesSurfaceOK'
    BY <2>1, <2>2 DEF FilesSurfaceOK
  <2>4. FilesDrawnOK'
    BY <2>1 DEF FilesDrawnOK
  <2> QED BY <2>3, <2>4
<1>2. CASE j.scope.mount # fScope.mount
  <2>1. UNCHANGED <<fRendering, fSurface>>
    BY <1>2 DEF Files!Restore
  <2>2. PICK x : x = [j EXCEPT !.phase = phase]
    OBVIOUS
  <2>3. fJobs' = [fJobs EXCEPT ![i] = x]
    BY <2>2 DEF Files!Restore, Files!Set
  <2> QED BY <1>2, <2>1, <2>3, FilesStaysDrawn
<1> QED BY <1>1, <1>2

\* Another phase of the same export.
FilesPhased(j, phase) == [j EXCEPT !.phase = phase]

LEMMA FilesPhasedIs ==
  ASSUME NEW j \in FilesJobSet, NEW phase \in Files!Phases
  PROVE  LET x == FilesPhased(j, phase) IN
         /\ x \in FilesJobSet /\ x.phase = phase /\ x.kind = j.kind /\ x.gen = j.gen /\ x.scope = j.scope /\ x.asked = j.asked
         /\ x.todo = j.todo /\ x.tables = j.tables /\ x.rels = j.rels /\ x.culled = j.culled
BY DEF FilesPhased, FilesJobSet

LEMMA FilesPhasedFits ==
  ASSUME NEW j \in FilesJobSet, NEW phase \in Files!Phases, FilesFits(j)
  PROVE  FilesFits(FilesPhased(j, phase))
BY FilesPhasedIs DEF FilesFits, Files!Current, FilesOfScope

LEMMA FilesJobIs ==
  ASSUME FilesInv, NEW i \in DOMAIN fJobs, fJobs[i] # Missing
  PROVE  FilesSound(fJobs[i]) /\ FilesFits(fJobs[i]) /\ fJobs[i] \in FilesJobSet
BY DEF FilesInv, FilesJobsOK, FilesSound

LEMMA FilesQuitKeeps ==
  ASSUME FilesInv, FilesSuitable, UNCHANGED <<Files!canvas, fSent>>, NEW i \in DOMAIN fJobs, fJobs[i] # Missing, Files!Quit(i)
  PROVE  FilesInv'
<1>1. PICK j \in FilesJobSet : j = fJobs[i] /\ FilesSound(j) /\ FilesFits(j)
  BY FilesJobIs
<1>2. PICK quit \in Files!Phases : quit = "quit"
  BY DEF Files!Phases
<1>3. Files!Restore(i, j, quit)
  BY <1>1, <1>2 DEF Files!Quit
<1>4. FilesSurfaceOK' /\ FilesDrawnOK'
  BY <1>1, <1>3, FilesRestoreDrawn
<1>5. fJobs' = [fJobs EXCEPT ![i] = FilesPhased(j, quit)]
  BY <1>3 DEF Files!Restore, Files!Set, FilesPhased
<1>6. FilesSound(FilesPhased(j, quit))
  BY <1>1, <1>2, FilesPhasedIs DEF FilesSound, FilesAskedOK, FilesReadOK, FilesReading
<1>7. FilesFits(FilesPhased(j, quit))
  BY <1>1, FilesPhasedFits
<1>8. Files!DeliveredIsWhole'
  BY DEF FilesInv, Files!DeliveredIsWhole
<1> QED BY <1>4, <1>5, <1>6, <1>7, <1>8, FilesJobKeeps

LEMMA FilesEndKeeps ==
  ASSUME FilesInv, UNCHANGED <<Files!canvas, fRendering, fSurface>>, NEW i \in DOMAIN fJobs, ~Files!At(i, FilesReading), Files!End(i), Files!DeliveredIsWhole'
  PROVE  FilesInv'
<1>1. fJobs' = [fJobs EXCEPT ![i] = Missing]
  BY DEF Files!End, Files!Set
<1>2. FilesSurfaceOK' /\ FilesDrawnOK'
  BY <1>1, FilesStaysDrawn
<1> QED BY <1>1, <1>2, FilesJobKeeps

\* The export goes on to another phase, on the surface or before and after it.
LEMMA FilesToKeeps ==
  ASSUME FilesInv, FilesSuitable, UNCHANGED <<Files!canvas, fSurface, fSent>>, fRendering' \in BOOLEAN, NEW i \in DOMAIN fJobs, fJobs[i] # Missing,
         NEW phase \in Files!Phases, Files!To(i, phase), FilesSound(FilesPhased(fJobs[i], phase)),
         \/ phase \in FilesReading /\ fJobs[i].scope = fScope
         \/ ~Files!At(i, FilesReading) /\ fRendering' = fRendering
  PROVE  FilesInv'
<1>1. PICK j \in FilesJobSet : j = fJobs[i] /\ FilesFits(j)
  BY FilesJobIs
<1>2. PICK x : x = FilesPhased(j, phase)
  OBVIOUS
<1>3. fJobs' = [fJobs EXCEPT ![i] = x]
  BY <1>1, <1>2 DEF Files!To, Files!Set, FilesPhased
<1>4. FilesSound(x) /\ FilesFits(x) /\ x.scope = j.scope /\ x.phase = phase /\ x \in FilesJobSet
  BY <1>1, <1>2, FilesPhasedIs, FilesPhasedFits
<1>5. x # Missing
  BY <1>4 DEF FilesSuitable
<1>6. FilesSurfaceOK'
  BY DEF FilesInv, FilesSurfaceOK
<1>7. FilesDrawnOK'
  <2>1. CASE phase \in FilesReading /\ fJobs[i].scope = fScope
    BY <1>1, <1>3, <1>4, <1>5, <2>1, FilesDraws
  <2>2. CASE ~Files!At(i, FilesReading) /\ fRendering' = fRendering
    BY <1>3, <2>2, FilesStaysDrawn
  <2> QED BY <2>1, <2>2
<1>8. Files!DeliveredIsWhole'
  BY DEF FilesInv, Files!DeliveredIsWhole
<1> QED BY <1>3, <1>4, <1>6, <1>7, <1>8, FilesJobKeeps

\* What is handed over is as the export holds it, and of the scope on the page.
LEMMA FilesSendKeeps ==
  ASSUME FilesInv, FilesSuitable, UNCHANGED <<Files!canvas, fRendering, fSurface>>, NEW i \in DOMAIN fJobs, ~Files!At(i, FilesReading),
         NEW j \in FilesJobSet, Files!Send(i, j), FilesHoldsAll(j), FilesFits(j), Files!Current(j)
  PROVE  FilesInv'
<1>1. PICK e \in FilesDrawings : e = Files!Empty
  BY DEF Files!Empty, FilesDrawings
<1>2. PICK x : x = [j EXCEPT !.phase = "saving", !.tables = <<>>, !.rels = <<>>, !.asked = e]
  OBVIOUS
<1>3. fJobs' = [fJobs EXCEPT ![i] = x]
  BY <1>1, <1>2 DEF Files!Send, Files!Set
<1>4. x \in FilesJobSet /\ x.phase = "saving" /\ x.tables = <<>> /\ x.asked = e /\ x.kind = j.kind /\ x.gen = j.gen /\ x.scope = j.scope
  <2>1. PICK phase \in Files!Phases : phase = "saving"
    BY DEF Files!Phases
  <2>20. <<>> \in Seq(FilesTable) /\ <<>> \in Seq(FilesRel)
    OBVIOUS
  <2>2. PICK no \in Seq(FilesTable) : no = <<>>
    BY <2>20, Zenon
  <2>3. PICK none \in Seq(FilesRel) : none = <<>>
    BY <2>20, Zenon
  <2>4. x = [[[[j EXCEPT !.phase = phase] EXCEPT !.tables = no] EXCEPT !.rels = none] EXCEPT !.asked = e]
    BY <1>2, <2>1, <2>2, <2>3, Zenon
  <2>5. FilesPhased(j, phase) = [j EXCEPT !.phase = phase]
    BY DEF FilesPhased
  <2>6. PICK p \in FilesJobSet : p = FilesPhased(j, phase) /\ p.phase = phase /\ p.kind = j.kind /\ p.gen = j.gen /\ p.scope = j.scope
    BY FilesPhasedIs
  <2>7. PICK q : q = [p EXCEPT !.tables = no]
    OBVIOUS
  <2>8. q \in FilesJobSet /\ q.phase = phase /\ q.tables = no /\ q.kind = j.kind /\ q.gen = j.gen /\ q.scope = j.scope
    BY <2>6, <2>7 DEF FilesJobSet
  <2>9. PICK r : r = [q EXCEPT !.rels = none]
    OBVIOUS
  <2>10. r \in FilesJobSet /\ r.phase = phase /\ r.tables = no /\ r.kind = j.kind /\ r.gen = j.gen /\ r.scope = j.scope
    BY <2>8, <2>9 DEF FilesJobSet
  <2>11. x = [r EXCEPT !.asked = e]
    BY <2>4, <2>5, <2>6, <2>7, <2>9
  <2>12. x \in FilesJobSet /\ x.phase = phase /\ x.tables = no /\ x.asked = e /\ x.kind = j.kind /\ x.gen = j.gen /\ x.scope = j.scope
    BY <2>10, <2>11 DEF FilesJobSet
  <2> QED BY <2>1, <2>2, <2>12
<1>5. IsFiniteSet(e.tables) /\ IsFiniteSet(e.rels) /\ e.tables = {}
  <2>1. e.tables = {} /\ e.rels = {}
    BY <1>1 DEF Files!Empty
  <2> QED BY <2>1, FS_EmptySet
<1>6. FilesSound(x)
  BY <1>4, <1>5, FilesNothingListed DEF FilesSound, FilesAskedOK, FilesReadOK, FilesReading
<1>7. FilesFits(x)
  BY <1>4 DEF FilesFits, Files!Current, FilesOfScope
<1>8. FilesSurfaceOK' /\ FilesDrawnOK'
  BY <1>3, FilesStaysDrawn
<1>9. FilesOfScope(j)
  BY DEF FilesFits
<1>10. PICK file : file = [kind |-> j.kind, tables |-> j.tables, rels |-> j.rels, asked |-> j.asked,
                           culled |-> j.culled, scope |-> j.scope, shown |-> fScope]
  OBVIOUS
<1>11. fSent' = file
  BY <1>10 DEF Files!Send
<1>12. file.kind = j.kind /\ file.tables = j.tables /\ file.rels = j.rels /\ file.asked = j.asked
       /\ file.culled = j.culled /\ file.scope = j.scope /\ file.shown = fScope
  BY <1>10
<1>13. FilesHoldsAll(file) /\ (IF file.kind = "diagram" THEN file.scope = file.shown ELSE file.scope.model = file.shown.model)
  BY <1>9, <1>12 DEF FilesHoldsAll, FilesOfScope
<1>14. Files!DeliveredIsWhole'
  BY <1>11, <1>13 DEF Files!DeliveredIsWhole, FilesHoldsAll, Files!Within
<1> QED BY <1>3, <1>6, <1>7, <1>8, <1>14, FilesJobKeeps

\* What an export holds of the tables and the relations it lists.
FilesListed(j, t, r) == [[j EXCEPT !.tables = t] EXCEPT !.rels = r]

LEMMA FilesListedIs ==
  ASSUME NEW j \in FilesJobSet, NEW t \in Seq(FilesTable), NEW r \in Seq(FilesRel)
  PROVE  LET x == FilesListed(j, t, r) IN
         /\ x \in FilesJobSet /\ x.phase = j.phase /\ x.kind = j.kind /\ x.gen = j.gen /\ x.scope = j.scope /\ x.asked = j.asked
         /\ x.todo = j.todo /\ x.tables = t /\ x.rels = r /\ x.culled = j.culled
<1>1. PICK p : p = [j EXCEPT !.tables = t]
  OBVIOUS
<1>2. /\ p \in FilesJobSet /\ p.phase = j.phase /\ p.kind = j.kind /\ p.gen = j.gen /\ p.scope = j.scope /\ p.asked = j.asked
      /\ p.todo = j.todo /\ p.tables = t /\ p.rels = j.rels /\ p.culled = j.culled
  BY <1>1 DEF FilesJobSet
<1>3. PICK x : x = [p EXCEPT !.rels = r]
  OBVIOUS
<1>4. /\ x \in FilesJobSet /\ x.phase = p.phase /\ x.kind = p.kind /\ x.gen = p.gen /\ x.scope = p.scope /\ x.asked = p.asked
      /\ x.todo = p.todo /\ x.tables = p.tables /\ x.rels = r /\ x.culled = p.culled
  BY <1>2, <1>3 DEF FilesJobSet
<1>5. x = FilesListed(j, t, r)
  BY <1>1, <1>3 DEF FilesListed
<1> QED BY <1>2, <1>4, <1>5

LEMMA FilesListIn ==
  ASSUME NEW T, NEW S \in SUBSET T, IsFiniteSet(S)
  PROVE  Files!SetToSeq(S) \in Seq(T) /\ Files!ToSet(Files!SetToSeq(S)) = S /\ Files!IsInjective(Files!SetToSeq(S))
<1>1. PICK s : s = Files!SetToSeq(S)
  OBVIOUS
<1>2. s \in Seq(S) /\ Files!ToSet(s) = S /\ Files!IsInjective(s)
  BY <1>1, FilesListOf
<1>3. s \in Seq(T)
  BY <1>2
<1> QED BY <1>1, <1>2, <1>3

LEMMA FilesSupersededKeeps ==
  ASSUME FilesInv, FilesSuitable, NEW i \in DOMAIN fJobs, Files!Superseded(i)
  PROVE  FilesInv'
<1>1. ~Files!At(i, FilesReading) /\ Files!End(i) /\ UNCHANGED <<Files!canvas, fRendering, fSurface, fSent>>
  BY DEF Files!Superseded, Files!At, FilesReading
<1>2. Files!DeliveredIsWhole'
  BY <1>1 DEF FilesInv, Files!DeliveredIsWhole
<1> QED BY <1>1, <1>2, FilesEndKeeps

LEMMA FilesBeginDrawingKeeps ==
  ASSUME FilesInv, FilesSuitable, NEW i \in DOMAIN fJobs, Files!BeginDrawing(i)
  PROVE  FilesInv'
<1>1. PICK j \in FilesJobSet : j = fJobs[i] /\ FilesSound(j) /\ FilesFits(j) /\ fJobs[i] # Missing
  BY FilesJobIs DEF Files!BeginDrawing, Files!Begins, Files!At
<1>2. j.phase = "paint" /\ j.kind = "diagram" /\ Files!Current(j)
  BY <1>1 DEF Files!BeginDrawing, Files!Begins, Files!At
<1>3. j.scope = fScope
  BY <1>1, <1>2 DEF FilesFits, FilesOfScope
<1>4. PICK mount \in Files!Phases : mount = "mount"
  BY DEF Files!Phases
<1>5. mount \in FilesReading
  BY <1>4 DEF FilesReading
<1>6. FilesSound(FilesPhased(j, mount))
  BY <1>1, <1>2, <1>4, FilesPhasedIs DEF FilesSound, FilesAskedOK, FilesReadOK, FilesReading
<1>7. Files!To(i, mount) /\ UNCHANGED <<Files!canvas, fSurface, fSent>> /\ fRendering' \in BOOLEAN
  BY <1>4 DEF Files!BeginDrawing
<1> QED BY <1>1, <1>3, <1>5, <1>6, <1>7, FilesToKeeps

LEMMA FilesOverlongKeeps ==
  ASSUME FilesInv, FilesSuitable, UNCHANGED <<Files!canvas, fRendering, fSurface, fSent>>, NEW i \in DOMAIN fJobs, ~Files!At(i, FilesReading), Files!End(i)
  PROVE  FilesInv'
<1>1. Files!DeliveredIsWhole'
  BY DEF FilesInv, Files!DeliveredIsWhole
<1> QED BY <1>1, FilesEndKeeps

LEMMA FilesMakeReportKeeps ==
  ASSUME FilesInv, FilesSuitable, NEW i \in DOMAIN fJobs, Files!MakeReport(i)
  PROVE  FilesInv'
<1>1. PICK j \in FilesJobSet : j = fJobs[i] /\ FilesSound(j) /\ FilesFits(j)
  BY FilesJobIs DEF Files!MakeReport, Files!Begins, Files!At
<1>2. j.kind = "report" /\ Files!Current(j) /\ ~Files!At(i, FilesReading) /\ UNCHANGED <<Files!canvas, fRendering, fSurface>>
  BY <1>1 DEF Files!MakeReport, Files!Begins, Files!At, FilesReading
<1>3. CASE Files!Overlong(i)
  BY <1>2, <1>3, FilesOverlongKeeps DEF Files!Overlong
<1>4. CASE Files!Send(i, Files!Dictionary(fJobs[i]))
  <2>1. j.asked \in FilesDrawings /\ IsFiniteSet(j.asked.tables) /\ IsFiniteSet(j.asked.rels)
    BY <1>1 DEF FilesJobSet, FilesSound, FilesAskedOK
  <2>2. PICK t \in Seq(FilesTable) : t = Files!SetToSeq(j.asked.tables) /\ Files!ToSet(t) = j.asked.tables /\ Files!IsInjective(t)
    BY <2>1, FilesListIn DEF FilesDrawings
  <2>3. PICK r \in Seq(FilesRel) : r = Files!SetToSeq(j.asked.rels) /\ Files!ToSet(r) = j.asked.rels /\ Files!IsInjective(r)
    BY <2>1, FilesListIn DEF FilesDrawings
  <2>4. PICK x \in FilesJobSet : /\ x = FilesListed(j, t, r) /\ x.phase = j.phase /\ x.kind = j.kind /\ x.gen = j.gen
                            /\ x.scope = j.scope /\ x.asked = j.asked /\ x.tables = t /\ x.rels = r
    BY FilesListedIs
  <2>5. x = Files!Dictionary(fJobs[i])
    BY <1>1, <2>2, <2>3, <2>4 DEF Files!Dictionary, FilesListed
  <2>6. FilesHoldsAll(x)
    BY <1>2, <2>2, <2>3, <2>4 DEF FilesHoldsAll
  <2>7. FilesFits(x) /\ Files!Current(x)
    BY <1>1, <1>2, <2>4 DEF FilesFits, Files!Current, FilesOfScope
  <2> QED BY <1>2, <1>4, <2>5, <2>6, <2>7, FilesSendKeeps
<1> QED BY <1>3, <1>4 DEF Files!MakeReport

LEMMA FilesMakeViewerKeeps ==
  ASSUME FilesInv, FilesSuitable, NEW i \in DOMAIN fJobs, Files!MakeViewer(i)
  PROVE  FilesInv'
<1>1. PICK j \in FilesJobSet : j = fJobs[i] /\ FilesSound(j) /\ FilesFits(j)
  BY FilesJobIs DEF Files!MakeViewer, Files!Begins, Files!At
<1>2. j.kind = "viewer" /\ ~Files!At(i, FilesReading) /\ UNCHANGED <<Files!canvas, fRendering, fSurface, fSent>>
  BY <1>1 DEF Files!MakeViewer, Files!Begins, Files!At, FilesReading
<1>3. CASE Files!TooLarge(j)
  <2>1. Files!End(i)
    BY <1>1, <1>3 DEF Files!MakeViewer
  <2> QED BY <1>2, <2>1, FilesOverlongKeeps
<1>4. CASE ~Files!TooLarge(j)
  <2>1. j.asked \in FilesDrawings /\ IsFiniteSet(j.asked.tables) /\ IsFiniteSet(j.asked.rels)
    BY <1>1 DEF FilesJobSet, FilesSound, FilesAskedOK
  <2>2. PICK t \in Seq(FilesTable) : t = Files!SetToSeq(j.asked.tables) /\ Files!ToSet(t) = j.asked.tables /\ Files!IsInjective(t)
    BY <2>1, FilesListIn DEF FilesDrawings
  <2>3. PICK R : R = {r \in j.asked.rels : Files!Within(r, j.asked.tables)}
    OBVIOUS
  <2>4. R \in SUBSET FilesRel /\ IsFiniteSet(R)
    <3>1. R \in SUBSET j.asked.rels
      BY <2>3
    <3> QED BY <2>1, <3>1, FS_Subset DEF FilesDrawings
  <2>5. PICK r \in Seq(FilesRel) : r = Files!SetToSeq(R) /\ Files!ToSet(r) = R /\ Files!IsInjective(r)
    BY <2>4, FilesListIn
  <2>6. PICK y \in FilesJobSet : /\ y = FilesListed(j, t, r) /\ y.phase = j.phase /\ y.kind = j.kind /\ y.gen = j.gen
                            /\ y.scope = j.scope /\ y.asked = j.asked /\ y.tables = t /\ y.rels = r
    BY FilesListedIs
  <2>7. y = Files!ViewerModel(fJobs[i])
    BY <1>1, <2>2, <2>3, <2>5, <2>6 DEF Files!ViewerModel, FilesListed
  <2>8. PICK encode \in Files!Phases : encode = "encode"
    BY DEF Files!Phases
  <2>9. PICK x \in FilesJobSet : /\ x = FilesPhased(y, encode) /\ x.phase = encode /\ x.kind = y.kind /\ x.gen = y.gen
                            /\ x.scope = y.scope /\ x.asked = y.asked /\ x.tables = y.tables /\ x.rels = y.rels
    BY FilesPhasedIs
  <2>10. fJobs' = [fJobs EXCEPT ![i] = x]
    BY <1>1, <1>4, <2>7, <2>8, <2>9 DEF Files!MakeViewer, Files!Set, FilesPhased
  <2>11. Files!Cardinality(j.asked.tables) <= FilesViewerTables /\ Files!Cardinality(j.asked.rels) <= FilesViewerRels
    BY <1>4, <2>1, FS_CardinalityType, FilesCounts DEF Files!TooLarge, FilesSuitable
  <2>12. FilesHoldsAll(x)
    BY <1>2, <2>2, <2>3, <2>5, <2>6, <2>9, <2>11 DEF FilesHoldsAll
  <2>13. FilesSound(x)
    BY <1>2, <2>1, <2>2, <2>6, <2>8, <2>9, <2>12 DEF FilesSound, FilesAskedOK, FilesReadOK, FilesReading
  <2>14. FilesFits(x)
    BY <1>1, <2>6, <2>9 DEF FilesFits, Files!Current, FilesOfScope
  <2>15. FilesSurfaceOK' /\ FilesDrawnOK'
    BY <1>2, <2>10, FilesStaysDrawn
  <2>16. Files!DeliveredIsWhole'
    BY <1>2 DEF FilesInv, Files!DeliveredIsWhole
  <2> QED BY <1>2, <2>10, <2>13, <2>14, <2>15, <2>16, FilesJobKeeps
<1> QED BY <1>3, <1>4

LEMMA FilesRestoreKeeps ==
  ASSUME FilesInv, FilesSuitable, UNCHANGED <<Files!canvas, fSent>>, NEW i \in DOMAIN fJobs, NEW j \in FilesJobSet, NEW phase \in Files!Phases,
         Files!Restore(i, j, phase), j.scope = fJobs[i].scope, FilesSound(FilesPhased(j, phase)), FilesFits(j)
  PROVE  FilesInv'
<1>1. FilesSurfaceOK' /\ FilesDrawnOK'
  BY FilesRestoreDrawn
<1>2. fJobs' = [fJobs EXCEPT ![i] = FilesPhased(j, phase)]
  BY DEF Files!Restore, Files!Set, FilesPhased
<1>3. FilesFits(FilesPhased(j, phase))
  BY FilesPhasedFits
<1>4. Files!DeliveredIsWhole'
  BY DEF FilesInv, Files!DeliveredIsWhole
<1>5. PICK x : x = FilesPhased(j, phase)
  OBVIOUS
<1> QED BY <1>1, <1>2, <1>3, <1>4, <1>5, FilesJobKeeps

\* What a small diagram is read as.
FilesRead(j, d, c) == [[j EXCEPT !.asked = d] EXCEPT !.culled = c]

LEMMA FilesReadIs ==
  ASSUME NEW j \in FilesJobSet, NEW d \in FilesDrawings, NEW c \in BOOLEAN
  PROVE  LET x == FilesRead(j, d, c) IN
         /\ x \in FilesJobSet /\ x.phase = j.phase /\ x.kind = j.kind /\ x.gen = j.gen /\ x.scope = j.scope /\ x.asked = d
         /\ x.todo = j.todo /\ x.tables = j.tables /\ x.rels = j.rels /\ x.culled = c
<1>1. PICK p : p = [j EXCEPT !.asked = d]
  OBVIOUS
<1>2. /\ p \in FilesJobSet /\ p.phase = j.phase /\ p.kind = j.kind /\ p.gen = j.gen /\ p.scope = j.scope /\ p.asked = d
      /\ p.todo = j.todo /\ p.tables = j.tables /\ p.rels = j.rels /\ p.culled = j.culled
  BY <1>1 DEF FilesJobSet
<1>3. PICK x : x = [p EXCEPT !.culled = c]
  OBVIOUS
<1>4. /\ x \in FilesJobSet /\ x.phase = p.phase /\ x.kind = p.kind /\ x.gen = p.gen /\ x.scope = p.scope /\ x.asked = p.asked
      /\ x.todo = p.todo /\ x.tables = p.tables /\ x.rels = p.rels /\ x.culled = c
  BY <1>2, <1>3 DEF FilesJobSet
<1>5. x = FilesRead(j, d, c)
  BY <1>1, <1>3 DEF FilesRead
<1> QED BY <1>2, <1>4, <1>5

LEMMA FilesReadInPlaceKeeps ==
  ASSUME FilesInv, FilesSuitable, NEW i \in DOMAIN fJobs, Files!ReadInPlace(i)
  PROVE  FilesInv'
<1>1. PICK j \in FilesJobSet : j = fJobs[i] /\ FilesSound(j) /\ FilesFits(j) /\ fJobs[i] # Missing
  BY FilesJobIs DEF Files!ReadInPlace, Files!At
<1>2. j.phase = "mount" /\ j.kind = "diagram" /\ UNCHANGED <<Files!canvas, fSent>>
  BY <1>1 DEF Files!ReadInPlace, Files!At, FilesSound, FilesReadOK, FilesReading
<1>3. CASE Files!Quit(i)
  BY <1>1, <1>2, <1>3, FilesQuitKeeps
<1>4. CASE \E T \in IF Files!Dense(Files!Shown) THEN (SUBSET Files!Shown) \ {{}} ELSE {Files!Shown} :
             LET R == {r \in Files!Drawing.rels : Files!Within(r, T)} IN
             Files!Restore(i, [j EXCEPT !.tables = Files!SetToSeq(T), !.rels = Files!SetToSeq(R), !.asked = Files!Drawing,
                                  !.culled = Files!Dense(Files!Shown)], "settle")
  <2>1. PICK T \in IF Files!Dense(Files!Shown) THEN (SUBSET Files!Shown) \ {{}} ELSE {Files!Shown} :
             LET R == {r \in Files!Drawing.rels : Files!Within(r, T)} IN
             Files!Restore(i, [j EXCEPT !.tables = Files!SetToSeq(T), !.rels = Files!SetToSeq(R), !.asked = Files!Drawing,
                                  !.culled = Files!Dense(Files!Shown)], "settle")
    BY <1>4
  <2>2. PICK d \in FilesDrawings : d = Files!Drawing /\ d.tables = Files!Shown /\ IsFiniteSet(d.tables) /\ IsFiniteSet(d.rels)
    BY FilesDrawingIs DEF FilesInv
  <2>3. Files!Dense(Files!Shown) \in BOOLEAN
    BY DEF Files!Dense
  <2>4. PICK c \in BOOLEAN : c = Files!Dense(Files!Shown)
    BY <2>3
  <2>5. T \in SUBSET Files!Shown /\ (~c => T = Files!Shown)
    BY <2>1, <2>4
  <2>6. T \in SUBSET FilesTable /\ IsFiniteSet(T)
    BY <2>2, <2>5, FS_Subset DEF FilesDrawings
  <2>7. PICK R : R = {r \in d.rels : Files!Within(r, T)}
    OBVIOUS
  <2>8. R \in SUBSET d.rels
    BY <2>7
  <2>9. R \in SUBSET FilesRel /\ IsFiniteSet(R)
    BY <2>2, <2>8, FS_Subset DEF FilesDrawings
  <2>10. PICK t \in Seq(FilesTable) : t = Files!SetToSeq(T) /\ Files!ToSet(t) = T /\ Files!IsInjective(t)
    BY <2>6, FilesListIn
  <2>11. PICK r \in Seq(FilesRel) : r = Files!SetToSeq(R) /\ Files!ToSet(r) = R /\ Files!IsInjective(r)
    BY <2>9, FilesListIn
  <2>12. PICK y \in FilesJobSet : /\ y = FilesListed(j, t, r) /\ y.phase = j.phase /\ y.kind = j.kind /\ y.gen = j.gen
                             /\ y.scope = j.scope /\ y.tables = t /\ y.rels = r
    BY FilesListedIs
  <2>13. PICK x \in FilesJobSet : /\ x = FilesRead(y, d, c) /\ x.phase = y.phase /\ x.kind = y.kind /\ x.gen = y.gen
                             /\ x.scope = y.scope /\ x.asked = d /\ x.tables = y.tables /\ x.rels = y.rels /\ x.culled = c
    BY FilesReadIs
  <2>14. x = [j EXCEPT !.tables = Files!SetToSeq(T), !.rels = Files!SetToSeq(R), !.asked = Files!Drawing, !.culled = Files!Dense(Files!Shown)]
    <3>1. x = [[[[j EXCEPT !.tables = t] EXCEPT !.rels = r] EXCEPT !.asked = d] EXCEPT !.culled = c]
      BY <2>12, <2>13 DEF FilesListed, FilesRead
    <3>2. [j EXCEPT !.tables = t, !.rels = r, !.asked = d, !.culled = c]
            = [[[[j EXCEPT !.tables = t] EXCEPT !.rels = r] EXCEPT !.asked = d] EXCEPT !.culled = c]
      OBVIOUS
    <3> QED BY <2>2, <2>4, <2>10, <2>11, <3>1, <3>2
  <2>15. PICK settle \in Files!Phases : settle = "settle"
    BY DEF Files!Phases
  <2>16. Files!Restore(i, x, settle)
    BY <2>1, <2>2, <2>7, <2>14, <2>15
  <2>17. PICK z \in FilesJobSet : /\ z = FilesPhased(x, settle) /\ z.phase = settle /\ z.kind = x.kind /\ z.gen = x.gen
                             /\ z.scope = x.scope /\ z.asked = x.asked /\ z.tables = x.tables /\ z.rels = x.rels
                             /\ z.culled = x.culled
    BY FilesPhasedIs
  <2>18. ~c => R = d.rels
    <3>1. SUFFICES ASSUME ~c PROVE R = d.rels
      OBVIOUS
    <3>2. T = Files!Shown
      BY <2>5, <3>1
    <3> QED BY <2>2, <2>7, <3>2 DEF Files!Drawing
  <2>19. FilesHoldsAll(z)
    BY <1>2, <2>2, <2>5, <2>10, <2>11, <2>12, <2>13, <2>17, <2>18 DEF FilesHoldsAll
  <2>20. FilesAskedOK(z)
    BY <2>2, <2>5, <2>10, <2>12, <2>13, <2>17 DEF FilesAskedOK
  <2>21. FilesSound(z)
    BY <2>15, <2>17, <2>19, <2>20 DEF FilesSound, FilesReadOK, FilesReading
  <2>22. FilesFits(x)
    BY <1>1, <2>12, <2>13 DEF FilesFits, Files!Current, FilesOfScope
  <2>23. x.scope = fJobs[i].scope
    BY <1>1, <2>12, <2>13
  <2> QED BY <1>2, <2>16, <2>17, <2>21, <2>22, <2>23, FilesRestoreKeeps
<1> QED BY <1>1, <1>3, <1>4 DEF Files!ReadInPlace

LEMMA FilesStartSurfaceKeeps ==
  ASSUME FilesInv, FilesSuitable, NEW i \in DOMAIN fJobs, Files!StartSurface(i)
  PROVE  FilesInv'
<1>1. PICK j \in FilesJobSet : j = fJobs[i] /\ FilesSound(j) /\ FilesFits(j) /\ fJobs[i] # Missing
  BY FilesJobIs DEF Files!StartSurface, Files!At
<1>2. j.phase = "mount" /\ j.scope = fScope
  BY <1>1 DEF Files!StartSurface, Files!At, Files!StillOpen
<1>3. PICK edges \in Files!Phases : edges = "edges"
  BY DEF Files!Phases
<1>4. edges \in FilesReading
  BY <1>3 DEF FilesReading
<1>5. FilesSound(FilesPhased(j, edges))
  BY <1>1, <1>2, <1>3, FilesPhasedIs DEF FilesSound, FilesAskedOK, FilesReadOK, FilesReading
<1>6. Files!To(i, edges) /\ UNCHANGED <<Files!canvas, fSurface, fSent>> /\ fRendering' \in BOOLEAN
  BY <1>3 DEF Files!StartSurface, FilesInv, FilesSurfaceOK
<1> QED BY <1>1, <1>2, <1>4, <1>5, <1>6, FilesToKeeps

LEMMA FilesEdgesDoneKeeps ==
  ASSUME FilesInv, FilesSuitable, NEW i \in DOMAIN fJobs, Files!EdgesDone(i)
  PROVE  FilesInv'
<1>1. PICK j \in FilesJobSet : j = fJobs[i] /\ FilesSound(j) /\ FilesFits(j) /\ fJobs[i] # Missing
  BY FilesJobIs DEF Files!EdgesDone, Files!At
<1>2. j.phase = "edges" /\ j.scope = fScope
  BY <1>1 DEF Files!EdgesDone, Files!At, Files!StillOpen
<1>3. PICK tables \in Files!Phases : tables = "tables"
  BY DEF Files!Phases
<1>4. tables \in FilesReading
  BY <1>3 DEF FilesReading
<1>5. FilesSound(FilesPhased(j, tables))
  BY <1>1, <1>2, <1>3, FilesPhasedIs DEF FilesSound, FilesAskedOK, FilesReadOK, FilesReading
<1>6. Files!To(i, tables) /\ UNCHANGED <<Files!canvas, fSurface, fSent>> /\ fRendering' \in BOOLEAN
  BY <1>3 DEF Files!EdgesDone, FilesInv, FilesSurfaceOK
<1> QED BY <1>1, <1>2, <1>4, <1>5, <1>6, FilesToKeeps

LEMMA FilesAbandonKeeps ==
  ASSUME FilesInv, FilesSuitable, NEW i \in DOMAIN fJobs, Files!Abandon(i)
  PROVE  FilesInv'
BY FilesQuitKeeps DEF Files!Abandon, Files!At

\* An export that goes on drawing on the surface.
LEMMA FilesOnSurface ==
  ASSUME FilesInv, FilesSuitable, UNCHANGED <<Files!canvas, fRendering, fSent>>, NEW i \in DOMAIN fJobs, NEW x \in FilesJobSet,
         fJobs' = [fJobs EXCEPT ![i] = x], x.phase \in FilesReading, x.scope = fScope, FilesSound(x), FilesFits(x), fSurface' \in FilesDrawings
  PROVE  FilesInv'
<1>1. FilesSurfaceOK'
  BY DEF FilesInv, FilesSurfaceOK
<1>2. x # Missing
  BY DEF FilesSuitable
<1>3. FilesDrawnOK'
  BY <1>2, FilesDraws
<1>4. Files!DeliveredIsWhole'
  BY DEF FilesInv, Files!DeliveredIsWhole
<1> QED BY <1>1, <1>3, <1>4, FilesJobKeeps

\* What is still to be drawn of the relations and of the tables.
FilesWithout(j, S) == [j EXCEPT !.todo.rels = @ \ S]
FilesWithoutTables(j, T) == [j EXCEPT !.todo.tables = @ \ T]

LEMMA FilesWithoutIs ==
  ASSUME NEW j \in FilesJobSet, NEW S
  PROVE  LET x == FilesWithout(j, S) IN
         /\ x \in FilesJobSet /\ x.phase = j.phase /\ x.kind = j.kind /\ x.gen = j.gen /\ x.scope = j.scope /\ x.asked = j.asked
         /\ x.todo.tables = j.todo.tables /\ x.tables = j.tables /\ x.rels = j.rels
<1>1. PICK d \in FilesDrawings : d = j.todo
  BY DEF FilesJobSet
<1>2. PICK e : e = [d EXCEPT !.rels = @ \ S]
  OBVIOUS
<1>3. e \in FilesDrawings /\ e.tables = d.tables
  BY <1>2 DEF FilesDrawings
<1>4. PICK x : x = [j EXCEPT !.todo = e]
  OBVIOUS
<1>5. /\ x \in FilesJobSet /\ x.phase = j.phase /\ x.kind = j.kind /\ x.gen = j.gen /\ x.scope = j.scope /\ x.asked = j.asked
      /\ x.todo = e /\ x.tables = j.tables /\ x.rels = j.rels
  BY <1>3, <1>4 DEF FilesJobSet
<1>6. x = FilesWithout(j, S)
  BY <1>1, <1>2, <1>4 DEF FilesWithout
<1> QED BY <1>1, <1>3, <1>5, <1>6

LEMMA FilesWithoutTablesIs ==
  ASSUME NEW j \in FilesJobSet, NEW T
  PROVE  LET x == FilesWithoutTables(j, T) IN
         /\ x \in FilesJobSet /\ x.phase = j.phase /\ x.kind = j.kind /\ x.gen = j.gen /\ x.scope = j.scope /\ x.asked = j.asked
         /\ x.todo.tables = j.todo.tables \ T /\ x.tables = j.tables /\ x.rels = j.rels
<1>1. PICK d \in FilesDrawings : d = j.todo
  BY DEF FilesJobSet
<1>2. PICK e : e = [d EXCEPT !.tables = @ \ T]
  OBVIOUS
<1>3. e \in FilesDrawings /\ e.tables = d.tables \ T
  BY <1>2 DEF FilesDrawings
<1>4. PICK x : x = [j EXCEPT !.todo = e]
  OBVIOUS
<1>5. /\ x \in FilesJobSet /\ x.phase = j.phase /\ x.kind = j.kind /\ x.gen = j.gen /\ x.scope = j.scope /\ x.asked = j.asked
      /\ x.todo = e /\ x.tables = j.tables /\ x.rels = j.rels
  BY <1>3, <1>4 DEF FilesJobSet
<1>6. x = FilesWithoutTables(j, T)
  BY <1>1, <1>2, <1>4 DEF FilesWithoutTables
<1> QED BY <1>1, <1>3, <1>5, <1>6

\* A job on the surface is a diagram, and what it has read is as it should be.
FilesDrawn(j) == j.kind = "diagram" /\ j.phase \in FilesReading /\ j.scope = fScope /\ FilesAskedOK(j) /\ FilesReadOK(j) /\ FilesFits(j)

LEMMA FilesAppendKeeps ==
  ASSUME FilesInv, FilesSuitable, UNCHANGED <<Files!canvas, fSent>>, NEW i \in DOMAIN fJobs, fJobs[i] # Missing, NEW j \in FilesJobSet, FilesDrawn(j),
         NEW S, Files!AppendEdges(i, j, S), fJobs'[i].phase = "edges" => fSurface' \in FilesDrawings
  PROVE  FilesInv'
<1>1. CASE S \subseteq j.asked.rels /\ S \cap Files!ToSet(j.rels) = {}
  <2>1. IsFiniteSet(j.asked.rels) /\ j.asked \in FilesDrawings
    BY DEF FilesDrawn, FilesAskedOK, FilesJobSet
  <2>2. S \in SUBSET FilesRel /\ IsFiniteSet(S)
    BY <1>1, <2>1, FS_Subset DEF FilesDrawings
  <2>3. PICK s \in Seq(FilesRel) : s = Files!SetToSeq(S) /\ Files!ToSet(s) = S /\ Files!IsInjective(s)
    BY <2>2, FilesListIn
  <2>4. PICK u \in Seq(FilesRel) : u = j.rels
    BY DEF FilesJobSet
  <2>5. Files!IsInjective(u) /\ Files!ToSet(u) \subseteq j.asked.rels
    BY <2>4 DEF FilesDrawn, FilesReadOK
  <2>6. u \o s \in Seq(FilesRel) /\ Files!IsInjective(u \o s) /\ Files!ToSet(u \o s) = Files!ToSet(u) \cup Files!ToSet(s)
    <3>1. Files!ToSet(u) \cap Files!ToSet(s) = {}
      BY <1>1, <2>3, <2>4
    <3> QED BY <2>3, <2>5, <3>1, FilesJoined
  <2>7. PICK r \in Seq(FilesRel) : r = u \o s /\ Files!IsInjective(r) /\ Files!ToSet(r) = Files!ToSet(u) \cup Files!ToSet(s)
    BY <2>6
  <2>8. PICK edges \in Files!Phases : edges = "edges"
    BY DEF Files!Phases
  <2>9. PICK y : y = [j EXCEPT !.rels = r]
    OBVIOUS
  <2>10. /\ y \in FilesJobSet /\ y.phase = j.phase /\ y.kind = j.kind /\ y.gen = j.gen /\ y.scope = j.scope /\ y.asked = j.asked
         /\ y.todo = j.todo /\ y.tables = j.tables /\ y.rels = r
    BY <2>9 DEF FilesJobSet
  <2>11. PICK x \in FilesJobSet : /\ x = FilesPhased(y, edges) /\ x.phase = edges /\ x.kind = y.kind /\ x.gen = y.gen
                             /\ x.scope = y.scope /\ x.asked = y.asked /\ x.todo = y.todo /\ x.tables = y.tables /\ x.rels = y.rels
    BY <2>10, FilesPhasedIs
  <2>12. fJobs' = [fJobs EXCEPT ![i] = x] /\ UNCHANGED fRendering
    <3>1. x = [[j EXCEPT !.rels = r] EXCEPT !.phase = edges]
      BY <2>9, <2>11 DEF FilesPhased
    <3>2. fJobs' = [fJobs EXCEPT ![i] = [j EXCEPT !.rels = j.rels \o Files!SetToSeq(S), !.phase = "edges"]] /\ UNCHANGED fRendering
      BY <1>1 DEF Files!AppendEdges, Files!Set
    <3>3. fJobs' = [fJobs EXCEPT ![i] = [j EXCEPT !.rels = r, !.phase = edges]]
      BY <2>3, <2>4, <2>7, <2>8, <3>2
    <3> QED BY <3>1, <3>2, <3>3
  <2>13. FilesAskedOK(x)
    BY <2>10, <2>11 DEF FilesAskedOK, FilesDrawn
  <2>14. FilesReadOK(x)
    BY <1>1, <2>3, <2>4, <2>5, <2>7, <2>8, <2>10, <2>11 DEF FilesReadOK, FilesDrawn
  <2>15. FilesSound(x) /\ x.phase \in FilesReading
    BY <2>8, <2>11, <2>13, <2>14 DEF FilesSound, FilesReading
  <2>16. FilesFits(x) /\ x.scope = fScope
    BY <2>10, <2>11 DEF FilesFits, Files!Current, FilesOfScope, FilesDrawn
  <2>17. fSurface' \in FilesDrawings
    <3>1. fJobs'[i] = x
      BY <2>12
    <3> QED BY <2>8, <2>11, <3>1
  <2> QED BY <2>12, <2>15, <2>16, <2>17, FilesOnSurface
<1>2. CASE ~(S \subseteq j.asked.rels /\ S \cap Files!ToSet(j.rels) = {})
  <2>1. Files!Quit(i)
    BY <1>2 DEF Files!AppendEdges
  <2> QED BY <2>1, FilesQuitKeeps
<1> QED BY <1>1, <1>2

LEMMA FilesLabelsMeasuredKeeps ==
  ASSUME FilesInv, FilesSuitable, NEW i \in DOMAIN fJobs, Files!LabelsMeasured(i)
  PROVE  FilesInv'
<1>1. PICK j \in FilesJobSet : j = fJobs[i] /\ FilesSound(j) /\ FilesFits(j) /\ fJobs[i] # Missing
  BY FilesJobIs DEF Files!LabelsMeasured, Files!At
<1>2. j.phase = "labels" /\ j.scope = fScope /\ UNCHANGED <<Files!canvas, fSent>>
  BY <1>1 DEF Files!LabelsMeasured, Files!At, Files!StillOpen
<1>3. CASE Files!Quit(i)
  BY <1>1, <1>2, <1>3, FilesQuitKeeps
<1>4. CASE Files!AppendEdges(i, j, fSurface.rels) /\ (fJobs'[i].phase = "edges" => UNCHANGED fSurface)
  <2>1. FilesDrawn(j)
    BY <1>1, <1>2 DEF FilesSound, FilesReadOK, FilesDrawn, FilesReading
  <2>2. fSurface \in FilesDrawings
    BY DEF FilesInv, FilesSurfaceOK
  <2> QED BY <1>1, <1>2, <1>4, <2>1, <2>2, FilesAppendKeeps
<1> QED BY <1>1, <1>3, <1>4 DEF Files!LabelsMeasured

LEMMA FilesDrawEdgesKeeps ==
  ASSUME FilesInv, FilesSuitable, NEW i \in DOMAIN fJobs, Files!DrawEdges(i)
  PROVE  FilesInv'
<1>1. PICK j \in FilesJobSet : j = fJobs[i] /\ FilesSound(j) /\ FilesFits(j) /\ fJobs[i] # Missing
  BY FilesJobIs DEF Files!DrawEdges, Files!At
<1>2. j.phase = "edges" /\ j.scope = fScope /\ UNCHANGED <<Files!canvas, fSent>>
  BY <1>1 DEF Files!DrawEdges, Files!At, Files!StillOpen
<1>3. CASE Files!Quit(i)
  BY <1>1, <1>2, <1>3, FilesQuitKeeps
<1>4. CASE ~Files!Quit(i)
  <2>1. PICK S \in SUBSET j.todo.rels : LET k == [j EXCEPT !.todo.rels = @ \ S] IN
          \/ /\ Files!AppendEdges(i, k, S)
             /\ (fJobs'[i].phase = "edges" => fSurface' = [tables |-> {}, rels |-> S])
          \/ /\ Files!Set(i, [k EXCEPT !.phase = "labels"])
             /\ fSurface' = [tables |-> {}, rels |-> S] /\ UNCHANGED fRendering
    BY <1>1, <1>4 DEF Files!DrawEdges
  <2>2. PICK k \in FilesJobSet : /\ k = FilesWithout(j, S) /\ k.phase = j.phase /\ k.kind = j.kind /\ k.gen = j.gen /\ k.scope = j.scope
                            /\ k.asked = j.asked /\ k.todo.tables = j.todo.tables /\ k.tables = j.tables /\ k.rels = j.rels
    BY FilesWithoutIs
  <2>3. FilesDrawn(k)
    <3>1. FilesAskedOK(k)
      BY <1>1, <2>2 DEF FilesSound, FilesAskedOK
    <3>2. FilesReadOK(k) /\ k.kind = "diagram" /\ k.phase \in FilesReading
      BY <1>1, <1>2, <2>2 DEF FilesSound, FilesReadOK, FilesReading
    <3>3. FilesFits(k)
      BY <1>1, <2>2 DEF FilesFits, Files!Current, FilesOfScope
    <3> QED BY <1>2, <2>2, <3>1, <3>2, <3>3 DEF FilesDrawn
  <2>4. PICK d : d = [tables |-> {}, rels |-> S]
    OBVIOUS
  <2>5. d \in FilesDrawings
    <3>1. j.todo \in FilesDrawings
      BY DEF FilesJobSet
    <3> QED BY <2>4, <3>1 DEF FilesDrawings
  <2>6. CASE Files!AppendEdges(i, k, S) /\ (fJobs'[i].phase = "edges" => fSurface' = d)
    BY <1>1, <1>2, <2>3, <2>5, <2>6, FilesAppendKeeps
  <2>7. CASE Files!Set(i, [k EXCEPT !.phase = "labels"]) /\ fSurface' = d /\ UNCHANGED fRendering
    <3>1. PICK labels \in Files!Phases : labels = "labels"
      BY DEF Files!Phases
    <3>2. PICK x \in FilesJobSet : /\ x = FilesPhased(k, labels) /\ x.phase = labels /\ x.kind = k.kind /\ x.gen = k.gen
                              /\ x.scope = k.scope /\ x.asked = k.asked /\ x.todo = k.todo /\ x.tables = k.tables /\ x.rels = k.rels
      BY FilesPhasedIs
    <3>3. fJobs' = [fJobs EXCEPT ![i] = x]
      BY <2>7, <3>1, <3>2 DEF Files!Set, FilesPhased
    <3>4. FilesSound(x) /\ x.phase \in FilesReading
      BY <2>3, <3>1, <3>2 DEF FilesSound, FilesAskedOK, FilesReadOK, FilesDrawn, FilesReading
    <3>5. FilesFits(x) /\ x.scope = fScope
      BY <2>3, <3>2 DEF FilesFits, Files!Current, FilesOfScope, FilesDrawn
    <3> QED BY <1>2, <2>5, <2>7, <3>3, <3>4, <3>5, FilesOnSurface
  <2> QED BY <2>1, <2>2, <2>4, <2>6, <2>7 DEF FilesWithout
<1> QED BY <1>3, <1>4

LEMMA FilesDrawTablesKeeps ==
  ASSUME FilesInv, FilesSuitable, NEW i \in DOMAIN fJobs, Files!DrawTables(i)
  PROVE  FilesInv'
<1>1. PICK j \in FilesJobSet : j = fJobs[i] /\ FilesSound(j) /\ FilesFits(j) /\ fJobs[i] # Missing
  BY FilesJobIs DEF Files!DrawTables, Files!At
<1>2. j.phase = "tables" /\ j.scope = fScope /\ UNCHANGED <<Files!canvas, fSent>>
  BY <1>1 DEF Files!DrawTables, Files!At, Files!StillOpen
<1>3. CASE Files!Quit(i)
  BY <1>1, <1>2, <1>3, FilesQuitKeeps
<1>4. CASE ~Files!Quit(i)
  <2>1. PICK T \in SUBSET j.todo.tables :
          /\ Files!Set(i, [j EXCEPT !.todo.tables = @ \ T, !.tables = @ \o Files!SetToSeq(T)])
          /\ fSurface' = [tables |-> T, rels |-> {}] /\ UNCHANGED fRendering
    BY <1>1, <1>4 DEF Files!DrawTables
  <2>2. j.kind = "diagram" /\ FilesReadOK(j) /\ FilesAskedOK(j) /\ j.asked \in FilesDrawings /\ j.todo \in FilesDrawings
    BY <1>1, <1>2 DEF FilesSound, FilesReadOK, FilesReading, FilesJobSet
  <2>3. j.todo.tables \cap Files!ToSet(j.tables) = {} /\ j.todo.tables \cup Files!ToSet(j.tables) = j.asked.tables /\ Files!IsInjective(j.tables)
        /\ IsFiniteSet(j.asked.tables)
    BY <1>2, <2>2 DEF FilesReadOK, FilesAskedOK, FilesReading
  <2>4. T \in SUBSET j.asked.tables /\ T \in SUBSET FilesTable
    BY <2>2, <2>3 DEF FilesDrawings
  <2>5. IsFiniteSet(T)
    BY <2>3, <2>4, FS_Subset
  <2>6. PICK s \in Seq(FilesTable) : s = Files!SetToSeq(T) /\ Files!ToSet(s) = T /\ Files!IsInjective(s)
    BY <2>4, <2>5, FilesListIn
  <2>7. PICK u \in Seq(FilesTable) : u = j.tables
    BY DEF FilesJobSet
  <2>8. u \o s \in Seq(FilesTable) /\ Files!IsInjective(u \o s) /\ Files!ToSet(u \o s) = Files!ToSet(u) \cup Files!ToSet(s)
    <3>1. Files!ToSet(u) \cap Files!ToSet(s) = {} /\ Files!IsInjective(u)
      BY <2>3, <2>6, <2>7
    <3> QED BY <2>6, <3>1, FilesJoined
  <2>9. PICK t \in Seq(FilesTable) : t = u \o s /\ Files!IsInjective(t) /\ Files!ToSet(t) = Files!ToSet(u) \cup T
    BY <2>6, <2>8
  <2>10. PICK y \in FilesJobSet : /\ y = FilesWithoutTables(j, T) /\ y.phase = j.phase /\ y.kind = j.kind /\ y.gen = j.gen
                             /\ y.scope = j.scope /\ y.asked = j.asked /\ y.todo.tables = j.todo.tables \ T /\ y.rels = j.rels
    BY FilesWithoutTablesIs
  <2>11. PICK x : x = [y EXCEPT !.tables = t]
    OBVIOUS
  <2>12. /\ x \in FilesJobSet /\ x.phase = y.phase /\ x.kind = y.kind /\ x.gen = y.gen /\ x.scope = y.scope /\ x.asked = y.asked
         /\ x.todo = y.todo /\ x.tables = t /\ x.rels = y.rels
    BY <2>10, <2>11 DEF FilesJobSet
  <2>13. fJobs' = [fJobs EXCEPT ![i] = x]
    <3>1. x = [[j EXCEPT !.todo.tables = @ \ T] EXCEPT !.tables = t]
      BY <2>10, <2>11 DEF FilesWithoutTables
    <3>2. fJobs' = [fJobs EXCEPT ![i] = [j EXCEPT !.todo.tables = @ \ T, !.tables = j.tables \o Files!SetToSeq(T)]]
      BY <2>1 DEF Files!Set
    <3>3. fJobs' = [fJobs EXCEPT ![i] = [j EXCEPT !.todo.tables = @ \ T, !.tables = t]]
      BY <2>6, <2>7, <2>9, <3>2
    <3> QED BY <3>1, <3>3
  <2>14. FilesAskedOK(x)
    BY <2>2, <2>3, <2>4, <2>7, <2>9, <2>10, <2>12 DEF FilesAskedOK
  <2>15. FilesReadOK(x)
    BY <1>2, <2>2, <2>3, <2>4, <2>7, <2>9, <2>10, <2>12 DEF FilesReadOK
  <2>16. FilesSound(x) /\ x.phase \in FilesReading
    BY <1>2, <2>10, <2>12, <2>14, <2>15 DEF FilesSound, FilesReading
  <2>17. FilesFits(x) /\ x.scope = fScope
    BY <1>1, <1>2, <2>10, <2>12 DEF FilesFits, Files!Current, FilesOfScope
  <2>18. fSurface' \in FilesDrawings /\ UNCHANGED fRendering
    BY <2>1, <2>4 DEF FilesDrawings
  <2> QED BY <1>2, <2>12, <2>13, <2>16, <2>17, <2>18, FilesOnSurface
<1> QED BY <1>3, <1>4

LEMMA FilesFinishKeeps ==
  ASSUME FilesInv, FilesSuitable, NEW i \in DOMAIN fJobs, Files!Finish(i)
  PROVE  FilesInv'
<1>1. PICK j \in FilesJobSet : j = fJobs[i] /\ FilesSound(j) /\ FilesFits(j) /\ fJobs[i] # Missing
  BY FilesJobIs DEF Files!Finish, Files!At
<1>2. j.phase = "tables" /\ j.todo.tables = {} /\ UNCHANGED <<Files!canvas, fSent>>
  BY <1>1 DEF Files!Finish, Files!At
<1>3. CASE Files!Quit(i)
  BY <1>1, <1>2, <1>3, FilesQuitKeeps
<1>4. CASE Len(j.rels) = Files!Cardinality(j.asked.rels) /\ Files!Restore(i, j, "settle")
  <2>1. j.kind = "diagram" /\ FilesReadOK(j) /\ FilesAskedOK(j)
    BY <1>1, <1>2 DEF FilesSound, FilesReadOK, FilesReading
  <2>2. /\ Files!ToSet(j.tables) = j.asked.tables /\ Files!ToSet(j.rels) \subseteq j.asked.rels
        /\ Files!IsInjective(j.tables) /\ Files!IsInjective(j.rels) /\ IsFiniteSet(j.asked.rels)
    BY <1>2, <2>1 DEF FilesReadOK, FilesAskedOK, FilesReading
  <2>3. Files!ToSet(j.rels) = j.asked.rels
    <3>1. PICK r \in Seq(FilesRel) : r = j.rels
      BY DEF FilesJobSet
    <3>2. r \in Seq(j.asked.rels)
      <4>1. \A n \in 1..Len(r) : r[n] \in j.asked.rels
        BY <2>2, <3>1 DEF Files!ToSet
      <4> QED BY <4>1
    <3> QED BY <1>4, <2>2, <3>1, <3>2, FilesFullList
  <2>4. PICK settle \in Files!Phases : settle = "settle"
    BY DEF Files!Phases
  <2>5. PICK x \in FilesJobSet : /\ x = FilesPhased(j, settle) /\ x.phase = settle /\ x.kind = j.kind /\ x.gen = j.gen
                            /\ x.scope = j.scope /\ x.asked = j.asked /\ x.tables = j.tables /\ x.rels = j.rels
    BY FilesPhasedIs
  <2>6. FilesHoldsAll(x)
    BY <2>1, <2>2, <2>3, <2>5 DEF FilesHoldsAll
  <2>7. FilesSound(x)
    BY <2>1, <2>4, <2>5, <2>6 DEF FilesSound, FilesAskedOK, FilesReadOK, FilesReading
  <2>8. Files!Restore(i, j, settle)
    BY <1>4, <2>4
  <2> QED BY <1>1, <1>2, <2>5, <2>7, <2>8, FilesRestoreKeeps
<1> QED BY <1>1, <1>3, <1>4 DEF Files!Finish, Files!Oversize

LEMMA FilesSettledKeeps ==
  ASSUME FilesInv, FilesSuitable, NEW i \in DOMAIN fJobs, Files!Settled(i)
  PROVE  FilesInv'
<1>1. PICK j \in FilesJobSet : j = fJobs[i] /\ FilesSound(j) /\ FilesFits(j) /\ fJobs[i] # Missing
  BY FilesJobIs DEF Files!Settled, Files!At
<1>2. UNCHANGED <<Files!canvas, fRendering, fSurface, fSent>> /\ ~Files!At(i, FilesReading)
  BY <1>1 DEF Files!Settled, Files!At, FilesReading
<1>3. CASE Files!At(i, {"settle"}) /\ Files!To(i, "encode")
  <2>1. PICK encode \in Files!Phases : encode = "encode"
    BY DEF Files!Phases
  <2>2. PICK x \in FilesJobSet : /\ x = FilesPhased(j, encode) /\ x.phase = encode /\ x.kind = j.kind /\ x.gen = j.gen
                            /\ x.scope = j.scope /\ x.asked = j.asked /\ x.tables = j.tables /\ x.rels = j.rels /\ x.culled = j.culled
    BY FilesPhasedIs
  <2>3. FilesHoldsAll(j) /\ FilesAskedOK(j)
    BY <1>1, <1>3 DEF FilesSound, Files!At
  <2>4. FilesHoldsAll(x)
    BY <2>2, <2>3 DEF FilesHoldsAll
  <2>5. FilesSound(x)
    BY <2>1, <2>2, <2>3, <2>4 DEF FilesSound, FilesAskedOK, FilesReadOK, FilesReading
  <2>6. Files!To(i, encode) /\ fRendering' \in BOOLEAN
    BY <1>2, <1>3, <2>1 DEF FilesInv, FilesSurfaceOK
  <2> QED BY <1>1, <1>2, <2>2, <2>5, <2>6, FilesToKeeps
<1>4. CASE Files!End(i)
  BY <1>2, <1>4, FilesOverlongKeeps
<1> QED BY <1>3, <1>4 DEF Files!Settled

LEMMA FilesEncodedKeeps ==
  ASSUME FilesInv, FilesSuitable, NEW i \in DOMAIN fJobs, Files!Encoded(i)
  PROVE  FilesInv'
<1>1. PICK j \in FilesJobSet : j = fJobs[i] /\ FilesSound(j) /\ FilesFits(j)
  BY FilesJobIs DEF Files!Encoded, Files!At
<1>2. UNCHANGED <<Files!canvas, fRendering, fSurface>> /\ ~Files!At(i, FilesReading) /\ j.phase = "encode"
  BY <1>1 DEF Files!Encoded, Files!At, FilesReading
<1>3. CASE Files!Current(j) /\ Files!Send(i, j)
  <2>1. FilesHoldsAll(j)
    BY <1>1, <1>2 DEF FilesSound
  <2> QED BY <1>1, <1>2, <1>3, <2>1, FilesSendKeeps
<1>4. CASE Files!End(i) /\ UNCHANGED fSent
  BY <1>2, <1>4, FilesOverlongKeeps
<1> QED BY <1>1, <1>3, <1>4 DEF Files!Encoded, Files!NoImage

LEMMA FilesReceiptKeeps ==
  ASSUME FilesInv, FilesSuitable, NEW i \in DOMAIN fJobs, Files!Receipt(i)
  PROVE  FilesInv'
<1>1. UNCHANGED <<Files!canvas, fRendering, fSurface>> /\ ~Files!At(i, FilesReading) /\ Files!End(i)
  BY DEF Files!Receipt, Files!At, FilesReading
<1>2. Files!DeliveredIsWhole'
  BY DEF Files!Receipt, Files!DeliveredIsWhole
<1> QED BY <1>1, <1>2, FilesEndKeeps

LEMMA FilesStepKeeps == FilesSuitable /\ FilesInv /\ [Files!Next]_Files!vars => FilesInv'
<1> SUFFICES ASSUME FilesSuitable, FilesInv, [Files!Next]_Files!vars PROVE FilesInv'
  OBVIOUS
<1>1. CASE UNCHANGED Files!vars
  <2>1. UNCHANGED <<fJobs, fSent, fRendering, fSurface, fScope, fGens, fLinks, fReady>>
    BY <1>1 DEF Files!vars, Files!canvas
  <2>2. FilesPageOK' /\ FilesSurfaceOK' /\ FilesDrawnOK' /\ FilesMoves
    BY <2>1, FilesSameGensMove DEF FilesInv, FilesPageOK, FilesSurfaceOK, FilesDrawnOK, Files!At
  <2> QED BY <2>1, <2>2, FilesPageKeeps
<1>2. CASE Files!Narrow \/ Files!Search \/ Files!ReadLinks \/ Files!LayOut \/ (\E m \in FilesModel : Files!LoadModel(m))
  BY <1>2, FilesMovesKeep
<1>3. CASE Files!Remount
  BY <1>3, FilesRemountKeeps
<1>4. CASE Files!ClickDiagram
  BY <1>4, FilesClickDiagramKeeps
<1>5. CASE \E kind \in Files!Report : Files!ClickReport(kind)
  BY <1>5, FilesClickReportKeeps
<1>6. ASSUME NEW i \in DOMAIN fJobs,
             \/ Files!Superseded(i) \/ Files!BeginDrawing(i) \/ Files!MakeReport(i) \/ Files!MakeViewer(i)
             \/ Files!ReadInPlace(i) \/ Files!StartSurface(i) \/ Files!Abandon(i)
      PROVE  FilesInv'
  BY <1>6, FilesSupersededKeeps, FilesBeginDrawingKeeps, FilesMakeReportKeeps, FilesMakeViewerKeeps, FilesReadInPlaceKeeps, FilesStartSurfaceKeeps, FilesAbandonKeeps
<1>7. ASSUME NEW i \in DOMAIN fJobs,
             \/ Files!DrawEdges(i) \/ Files!LabelsMeasured(i) \/ Files!EdgesDone(i) \/ Files!DrawTables(i)
             \/ Files!Finish(i) \/ Files!Settled(i) \/ Files!Encoded(i) \/ Files!Receipt(i)
      PROVE  FilesInv'
  BY <1>7, FilesDrawEdgesKeeps, FilesLabelsMeasuredKeeps, FilesEdgesDoneKeeps, FilesDrawTablesKeeps, FilesFinishKeeps, FilesSettledKeeps, FilesEncodedKeeps, FilesReceiptKeeps
<1> QED BY <1>1, <1>2, <1>3, <1>4, <1>5, <1>6, <1>7 DEF Files!Next

-----------------------------------------------------------------------------
(* The theorems                                                            *)

\* The editing of relationships keeps its types: a gesture began at a field, the editor asks only
\* of a mapping, and a deletion is of the source on the canvas.
THEOREM RelateTypeCorrect == Relate!Spec => []Relate!TypeOK
<1>1. Relate!Init => RelateInv
  BY CanvasIsSuited, RelateStarts
<1>2. RelateInv /\ [Relate!Next]_Relate!vars => RelateInv'
  BY CanvasIsSuited, RelateStepKeeps
<1>3. RelateInv => Relate!TypeOK
  BY RelateInvGives
<1> QED BY <1>1, <1>2, <1>3, PTL DEF Relate!Spec

\* No step of the editing sends what was not validated in the source on the canvas, deletes what was
\* asked for elsewhere, or takes from the user what was edited and neither saved nor discarded.
THEOREM RelateReviewed == Relate!Spec => Relate!SentAsReviewed /\ Relate!DeletedWhereAsked /\ Relate!EditsAreKept
<1>1. Relate!Init => RelateInv
  BY CanvasIsSuited, RelateStarts
<1>2. RelateInv /\ [Relate!Next]_Relate!vars => RelateInv' /\ [RelateSteps]_Relate!vars
  BY CanvasIsSuited, RelateStepKeeps
<1>3. [RelateSteps]_Relate!vars =>
        [Relate!ValidatedHere]_Relate!vars /\ [Relate!AskedHere]_Relate!vars /\ [Relate!KeptUntilDecided]_Relate!vars
  BY DEF RelateSteps
<1> QED BY <1>1, <1>2, <1>3, PTL
      DEF Relate!Spec, Relate!SentAsReviewed, Relate!DeletedWhereAsked, Relate!EditsAreKept

\* The review queue keeps its types: what was done last is on record, and the panel's attempt is of
\* what it includes now.
THEOREM SuggestTypeCorrect == Suggest!Spec => []Suggest!TypeOK
<1>1. Suggest!Init => SuggestInv
  BY CanvasIsSuited, SuggestStarts
<1>2. SuggestInv /\ [Suggest!Next]_Suggest!vars => SuggestInv'
  BY CanvasIsSuited, SuggestStepKeeps
<1>3. SuggestInv => Suggest!TypeOK
  BY SuggestInvGives
<1> QED BY <1>1, <1>2, <1>3, PTL DEF Suggest!Spec

\* A batch of confirmations asks for what is included when it is sent, for the revision the panel
\* shows, and only for groups reviewed with the members they have.
THEOREM SuggestReviewed == Suggest!Spec => Suggest!ApprovedIsReviewed
<1>1. Suggest!Init => SuggestInv
  BY CanvasIsSuited, SuggestStarts
<1>2. SuggestInv /\ [Suggest!Next]_Suggest!vars => SuggestInv' /\ [Suggest!AsReviewed]_Suggest!vars
  BY CanvasIsSuited, SuggestStepKeeps
<1> QED BY <1>1, <1>2, PTL DEF Suggest!Spec, Suggest!ApprovedIsReviewed

\* What is written about relationships, one by one or in batches, is what was reviewed.
THEOREM EditsReviewed == Relate!Spec /\ Suggest!Spec => EditsAreReviewed
BY RelateReviewed, SuggestReviewed DEF EditsAreReviewed

\* The exports keep their types: what an export has read of its tables is among those it asked for,
\* and none is newer than the page.
THEOREM FilesTypeCorrect == Files!Spec => []Files!TypeOK
<1>1. Files!Init => FilesInv
  BY FilesStarts
<1>2. FilesInv /\ [Files!Next]_Files!vars => FilesInv'
  BY CanvasIsSuited, FilesStepKeeps
<1>3. FilesInv => Files!TypeOK
  BY CanvasIsSuited, FilesInvGives
<1> QED BY <1>1, <1>2, <1>3, PTL DEF Files!Spec

\* A file that leaves the program holds every table and every relation it is about once and is of the
\* scope on the page, and a canvas no export draws on is empty and takes input.
THEOREM FilesAreWhole == Files!Spec => []DeliveredIsWhole
<1>1. Files!Init => FilesInv
  BY FilesStarts
<1>2. FilesInv /\ [Files!Next]_Files!vars => FilesInv'
  BY CanvasIsSuited, FilesStepKeeps
<1>3. FilesInv => DeliveredIsWhole
  BY CanvasIsSuited, FilesInvGives DEF DeliveredIsWhole
<1> QED BY <1>1, <1>2, <1>3, PTL DEF Files!Spec

-----------------------------------------------------------------------------
(***************************************************************************)
(* The canvas and its layouts                                              *)
(*                                                                         *)
(* What the user arranges on the canvas stays, is undone exactly and is    *)
(* what the device ends up with, for any tables, views and histories and   *)
(* however the worker, the frames and the device are interleaved with it.  *)
(*                                                                         *)
(* The argument has three parts.  The frames of the history form a chain   *)
(* that ends in the frame on the canvas, and each edit holds exactly what  *)
(* changed between its two frames; nothing but an edit moves a table once  *)
(* the first layout has been drawn, except an initial layout the user      *)
(* repeats.  In a permanent view the frame on the canvas is the one kept   *)
(* for the view.  And the last write queued for a view is the frame kept   *)
(* for it, so that the device has it when the queue is empty.              *)
(***************************************************************************)

Spot == [at : Place, pinned : BOOLEAN]
Change == [before : Spot, after : Spot, moved : BOOLEAN, fixed : BOOLEAN]
Changes == UNION {[S -> Change] : S \in SUBSET Table}
Scope == [key : Key, temporary : BOOLEAN]
Write == [key : Key, layout : Layouts, scope : Scope, latest : BOOLEAN]
Past == [past : Seq(Changes), future : Seq(Changes), frames : Seq(Layouts),
         ahead : Seq(Layouts), replaced : BOOLEAN]

Here == Shown(scope, members)
Laid == scope.temporary \/ loaded
\* The frame the next edit will be compared with.
Base == IF gesture # None THEN gesture ELSE nodes

\* Two frames with the same tables fixed at the same places.
Agree(A, B) ==
  /\ DOMAIN A = DOMAIN B
  /\ \A t \in DOMAIN A : A[t].pinned = B[t].pinned /\ (A[t].pinned => A[t].at = B[t].at)
Steady(A, B) == \A t \in DOMAIN A : A[t].pinned /\ B[t].pinned => A[t].at = B[t].at
Loose(A) == \A t \in DOMAIN A : ~A[t].pinned

\* The edit holds what changed from one frame to the next.
Leads(e, A, B) ==
  /\ DOMAIN A = DOMAIN B /\ DOMAIN e = Changed(A, B) /\ Steady(A, B)
  /\ \A t \in DOMAIN e :
       /\ e[t].before = A[t] /\ e[t].after = B[t]
       /\ e[t].moved = (A[t].at # B[t].at) /\ e[t].fixed = (A[t].pinned # B[t].pinned)
Joins(e, A, B, back) == IF back THEN Leads(e, B, A) ELSE Leads(e, A, B)
Linked(edits, frames, end, back) ==
  /\ Len(frames) = Len(edits)
  /\ \A i \in 1 .. Len(edits) :
       Joins(edits[i], Append(frames, end)[i], Append(frames, end)[i + 1], back)

Shapes ==
  /\ scope \in Scope /\ members \in [Key -> SUBSET Table]
  /\ loaded \in BOOLEAN /\ ready \in BOOLEAN /\ fitting \in BOOLEAN
  /\ nodes \in Layouts /\ prior \in [scope : {prior.scope}, fitted : BOOLEAN]
  /\ initial # None => initial \in [nodes : Layouts, kept : SUBSET Table]
  /\ auto # None => auto \in [targets : SUBSET Table, before : Layouts, fresh : BOOLEAN]
  /\ drag \subseteq Table /\ gesture \in {None} \cup Layouts
  /\ history \in Past
  /\ Len(history.past) = Len(history.frames) /\ Len(history.future) = Len(history.ahead)
  /\ Len(history.past) + Len(history.future) <= HistoryLimit
  /\ cache \in [Key -> {None} \cup Layouts] /\ stored \in [Key -> {None} \cup Layouts]
  /\ queue \in Seq(Write)
  /\ feedback.phase \in {"idle", "running", "success", "error"}

\* Nothing is drawn, edited or under way before the layouts of the view are known.
Laying ==
  /\ Laid => DOMAIN nodes = Here /\ prior.scope = <<scope, loaded>>
  /\ (ready \/ fitting \/ initial # None \/ gesture # None \/ drag # {} \/ ~NothingDone) => Laid
  /\ ready => prior.fitted

\* Before the first layout has been drawn nothing was ever fixed.
Untouched ==
  ~prior.fitted =>
    /\ NothingDone /\ gesture = None /\ drag = {}
    /\ Loose(nodes) /\ (initial # None => Loose(initial.nodes))
    /\ \A k \in Key : (cache[k] # None => Loose(cache[k])) /\ (stored[k] # None => Loose(stored[k]))
    /\ \A i \in DOMAIN queue : Loose(queue[i].layout)

\* What the worker is asked for begins with the frame on the canvas.
Pending ==
  initial # None =>
    /\ DOMAIN initial.nodes = Here
    /\ (~history.replaced /\ NothingDone) => Agree(initial.nodes, nodes)
Asked ==
  (auto # None /\ auto.fresh) =>
    /\ ready /\ gesture = None /\ DOMAIN auto.before = Here
    /\ ~history.replaced =>
         /\ Agree(auto.before, nodes) /\ \A t \in auto.targets \cap DOMAIN nodes : ~nodes[t].pinned
         /\ ~NothingDone => auto.before = nodes
Gesturing ==
  gesture # None => DOMAIN gesture = Here /\ (~history.replaced => Agree(gesture, nodes))

Chain ==
  ~history.replaced =>
    /\ Linked(history.past, history.frames, Base, FALSE)
    /\ Linked(history.future, history.ahead, Base, TRUE)

\* The frame on the canvas is the one kept for the view.
Kept == (Persistent /\ gesture = None /\ ~NothingDone) => cache[scope.key] = nodes

\* The last write queued for a view is the frame kept for it.
LastFor(k, i) ==
  queue[i].key = k /\ queue[i].layout = cache[k] /\ \A j \in DOMAIN queue : j > i => queue[j].key # k
Queued ==
  \A k \in Key : cache[k] # None =>
    \/ \E i \in DOMAIN queue : LastFor(k, i)
    \/ (\A i \in DOMAIN queue : queue[i].key # k) /\ (k \in failed \/ stored[k] = cache[k])

DiagramInv ==
  Shapes /\ Laying /\ Untouched /\ Pending /\ Asked /\ Gesturing /\ Chain /\ Kept /\ Queued
-----------------------------------------------------------------------------
(* Frames                                                                  *)

LEMMA LayoutFacts ==
  ASSUME NEW A \in Layouts
  PROVE  A \in [DOMAIN A -> Spot] /\ DOMAIN A \subseteq Table /\ A # None
<1>1. PICK S \in SUBSET Table : A \in Frames(S)
  BY DEF Layouts
<1>2. A # None
  BY NoneIsNoLayout
<1> QED BY <1>1, <1>2 DEF Frames, Spot

LEMMA IsLayout ==
  ASSUME NEW S \in SUBSET Table, NEW A \in [S -> Spot]
  PROVE  A \in Layouts /\ DOMAIN A = S
BY DEF Layouts, Frames, Spot

LEMMA ChangesFacts ==
  ASSUME NEW e \in Changes
  PROVE  e \in [DOMAIN e -> Change] /\ DOMAIN e \subseteq Table
<1>1. PICK S \in SUBSET Table : e \in [S -> Change]
  BY DEF Changes
<1> QED BY <1>1

LEMMA Same ==
  ASSUME NEW A \in Layouts, NEW B \in Layouts, DOMAIN A = DOMAIN B, Changed(A, B) = {}
  PROVE  A = B
BY LayoutFacts DEF Changed

\* An edit applied backwards gives the frame before it, and forwards the one after it.
LEMMA PatchBack ==
  ASSUME nodes \in Layouts, NEW A \in Layouts, NEW e, Leads(e, A, nodes)
  PROVE  Patched(e, "before") = A
<1> DEFINE P == Patched(e, "before")
<1>1. A \in [DOMAIN nodes -> Spot] /\ nodes \in [DOMAIN nodes -> Spot]
  BY LayoutFacts DEF Leads
<1>2. ASSUME NEW t \in DOMAIN nodes PROVE P[t] = A[t]
  <2>1. A[t] = [at |-> A[t].at, pinned |-> A[t].pinned]
    BY <1>1 DEF Spot
  <2>2. CASE t \notin DOMAIN e
    <3>1. P[t] = nodes[t] BY <2>2 DEF Patched
    <3>2. A[t] = nodes[t] BY <2>2, <1>1 DEF Leads, Changed
    <3> QED BY <3>1, <3>2
  <2>3. CASE t \in DOMAIN e
    <3>1. P[t] = [at |-> IF e[t].moved THEN e[t].before.at ELSE nodes[t].at,
                  pinned |-> IF e[t].fixed THEN e[t].before.pinned ELSE nodes[t].pinned]
      BY <2>3 DEF Patched
    <3>2. /\ e[t].before = A[t] /\ e[t].moved = (A[t].at # nodes[t].at)
          /\ e[t].fixed = (A[t].pinned # nodes[t].pinned)
      BY <2>3 DEF Leads
    <3>3. (IF e[t].moved THEN e[t].before.at ELSE nodes[t].at) = A[t].at
      BY <3>2
    <3>4. (IF e[t].fixed THEN e[t].before.pinned ELSE nodes[t].pinned) = A[t].pinned
      BY <3>2
    <3> QED BY <3>1, <3>3, <3>4, <2>1
  <2> QED BY <2>2, <2>3
<1>3. P = [t \in DOMAIN nodes |-> P[t]]
  BY DEF Patched
<1> QED BY <1>1, <1>2, <1>3

LEMMA PatchOn ==
  ASSUME nodes \in Layouts, NEW A \in Layouts, NEW e, Leads(e, nodes, A)
  PROVE  Patched(e, "after") = A
<1> DEFINE P == Patched(e, "after")
<1>1. A \in [DOMAIN nodes -> Spot] /\ nodes \in [DOMAIN nodes -> Spot]
  BY LayoutFacts DEF Leads
<1>2. ASSUME NEW t \in DOMAIN nodes PROVE P[t] = A[t]
  <2>1. A[t] = [at |-> A[t].at, pinned |-> A[t].pinned]
    BY <1>1 DEF Spot
  <2>2. CASE t \notin DOMAIN e
    <3>1. P[t] = nodes[t] BY <2>2 DEF Patched
    <3>2. A[t] = nodes[t] BY <2>2, <1>1 DEF Leads, Changed
    <3> QED BY <3>1, <3>2
  <2>3. CASE t \in DOMAIN e
    <3>1. P[t] = [at |-> IF e[t].moved THEN e[t].after.at ELSE nodes[t].at,
                  pinned |-> IF e[t].fixed THEN e[t].after.pinned ELSE nodes[t].pinned]
      BY <2>3 DEF Patched
    <3>2. /\ e[t].after = A[t] /\ e[t].moved = (nodes[t].at # A[t].at)
          /\ e[t].fixed = (nodes[t].pinned # A[t].pinned)
      BY <2>3 DEF Leads
    <3>3. (IF e[t].moved THEN e[t].after.at ELSE nodes[t].at) = A[t].at
      BY <3>2
    <3>4. (IF e[t].fixed THEN e[t].after.pinned ELSE nodes[t].pinned) = A[t].pinned
      BY <3>2
    <3> QED BY <3>1, <3>3, <3>4, <2>1
  <2> QED BY <2>2, <2>3
<1>3. P = [t \in DOMAIN nodes |-> P[t]]
  BY DEF Patched
<1> QED BY <1>1, <1>2, <1>3

LEMMA PatchIsLayout ==
  ASSUME nodes \in Layouts, NEW e \in Changes, NEW side \in {"before", "after"}
  PROVE  Patched(e, side) \in Layouts /\ DOMAIN Patched(e, side) = DOMAIN nodes
<1>1. nodes \in [DOMAIN nodes -> Spot] /\ DOMAIN nodes \subseteq Table
  BY LayoutFacts
<1>2. e \in [DOMAIN e -> Change]
  BY ChangesFacts
<1>3. ASSUME NEW t \in DOMAIN nodes PROVE Patched(e, side)[t] \in Spot
  <2>1. CASE t \notin DOMAIN e
    BY <1>1, <2>1 DEF Patched
  <2>2. CASE t \in DOMAIN e
    <3>1. e[t].before \in Spot /\ e[t].after \in Spot
      BY <1>2, <2>2 DEF Change
    <3>2. e[t][side] \in Spot
      BY <3>1
    <3>3. e[t][side].at \in Place /\ e[t][side].pinned \in BOOLEAN
          /\ nodes[t].at \in Place /\ nodes[t].pinned \in BOOLEAN
      BY <3>2, <1>1 DEF Spot
    <3> QED BY <2>2, <3>3 DEF Patched, Spot
  <2> QED BY <2>1, <2>2
<1>4. Patched(e, side) \in [DOMAIN nodes -> Spot]
  BY <1>3 DEF Patched
<1> QED BY <1>1, <1>4, IsLayout

LEMMA AgreeFacts ==
  ASSUME NEW A \in Layouts, NEW B \in Layouts, NEW C \in Layouts
  PROVE  /\ Agree(A, A)
         /\ Agree(A, B) => Steady(A, B)
         /\ Agree(A, B) /\ Agree(B, C) => Agree(A, C)
         /\ Agree(A, B) => Agree(B, A)
BY DEF Agree, Steady

-----------------------------------------------------------------------------
(* Chains                                                                  *)

LEMMA LastFront ==
  ASSUME NEW edits \in Seq(Changes), NEW frames \in Seq(Layouts), Len(frames) = Len(edits),
         edits # <<>>
  PROVE  /\ Last(edits) \in Changes /\ Last(frames) \in Layouts
         /\ Front(edits) \in Seq(Changes) /\ Front(frames) \in Seq(Layouts)
         /\ Len(Front(edits)) = Len(edits) - 1 /\ Len(Front(frames)) = Len(edits) - 1
<1>1. Len(edits) \in Nat /\ Len(edits) > 0
  OBVIOUS
<1> QED BY <1>1 DEF Last, Front

LEMMA Appended ==
  ASSUME NEW edits \in Seq(Changes), NEW frames \in Seq(Layouts), NEW e \in Changes, NEW A \in Layouts
  PROVE  /\ Append(edits, e) \in Seq(Changes) /\ Append(frames, A) \in Seq(Layouts)
         /\ Len(Append(edits, e)) = Len(edits) + 1 /\ Len(Append(frames, A)) = Len(frames) + 1
         /\ Append(edits, e) # <<>>
<1>1. Len(edits) \in Nat /\ Len(Append(edits, e)) = Len(edits) + 1
  OBVIOUS
<1>2. Len(Append(edits, e)) # 0
  BY <1>1
<1> QED BY <1>1, <1>2

LEMMA LinkedGrows ==
  ASSUME NEW edits \in Seq(Changes), NEW frames \in Seq(Layouts), NEW A \in Layouts,
         NEW B \in Layouts, NEW e \in Changes, NEW back \in BOOLEAN,
         Linked(edits, frames, A, back), Joins(e, A, B, back)
  PROVE  Linked(Append(edits, e), Append(frames, A), B, back)
<1> DEFINE n == Len(edits)
           G == Append(frames, A)
           H == Append(G, B)
           E == Append(edits, e)
<1>1. n \in Nat /\ Len(frames) = n /\ Len(G) = n + 1 /\ Len(E) = n + 1 /\ G \in Seq(Layouts)
  BY DEF Linked
<1>2. \A i \in 1 .. n + 1 : H[i] = G[i]
  BY <1>1
<1>3. H[n + 2] = B /\ G[n + 1] = A
  BY <1>1
<1>4. \A i \in 1 .. n : E[i] = edits[i]
  BY <1>1
<1>5. E[n + 1] = e
  BY <1>1
<1>6. \A i \in 1 .. n : Joins(edits[i], G[i], G[i + 1], back)
  BY DEF Linked
<1> HIDE DEF H, G, E, n
<1>7. ASSUME NEW i \in 1 .. n + 1 PROVE Joins(E[i], H[i], H[i + 1], back)
  <2>1. CASE i = n + 1
    <3>1. E[i] = e /\ H[i] = A /\ H[i + 1] = B
      BY <2>1, <1>1, <1>2, <1>3, <1>5
    <3> QED BY <3>1
  <2>2. CASE i # n + 1
    <3>1. i \in 1 .. n /\ i + 1 \in 1 .. n + 1
      BY <2>2, <1>1
    <3>2. E[i] = edits[i] /\ H[i] = G[i] /\ H[i + 1] = G[i + 1]
      BY <3>1, <1>2, <1>4
    <3> QED BY <3>1, <3>2, <1>6
  <2> QED BY <2>1, <2>2
<1> QED BY <1>1, <1>7 DEF Linked, H, G, E

LEMMA LinkedEnd ==
  ASSUME NEW edits \in Seq(Changes), NEW frames \in Seq(Layouts), NEW B \in Layouts,
         NEW back \in BOOLEAN, Linked(edits, frames, B, back), edits # <<>>
  PROVE  /\ frames # <<>> /\ Last(frames) \in Layouts /\ Last(edits) \in Changes
         /\ Front(edits) \in Seq(Changes) /\ Front(frames) \in Seq(Layouts)
         /\ Len(Front(edits)) = Len(edits) - 1 /\ Len(Front(frames)) = Len(edits) - 1
         /\ Joins(Last(edits), Last(frames), B, back)
         /\ Linked(Front(edits), Front(frames), Last(frames), back)
<1> DEFINE n == Len(edits)
           G == Append(frames, B)
           H == Append(Front(frames), Last(frames))
<1>1. n \in Nat /\ n > 0 /\ Len(frames) = n
  BY DEF Linked
<1>2. \A i \in 1 .. n : Joins(edits[i], G[i], G[i + 1], back)
  BY DEF Linked
<1>3. frames # <<>> /\ Last(frames) \in Layouts /\ Last(edits) \in Changes
      /\ Last(frames) = frames[n] /\ Last(edits) = edits[n]
  BY <1>1 DEF Last
<1>4. Front(edits) \in Seq(Changes) /\ Len(Front(edits)) = n - 1
      /\ \A i \in 1 .. n - 1 : Front(edits)[i] = edits[i]
  BY <1>1 DEF Front
<1>5. Front(frames) \in Seq(Layouts) /\ Len(Front(frames)) = n - 1
      /\ \A i \in 1 .. n - 1 : Front(frames)[i] = frames[i]
  BY <1>1 DEF Front
<1>6. G[n] = frames[n] /\ G[n + 1] = B /\ \A i \in 1 .. n : G[i] = frames[i]
  BY <1>1
<1>7. H[n] = frames[n] /\ \A i \in 1 .. n - 1 : H[i] = frames[i]
  BY <1>1, <1>3, <1>5
<1> HIDE DEF G, H, n
<1>8. Joins(Last(edits), Last(frames), B, back)
  <2>1. Joins(edits[n], G[n], G[n + 1], back)
    BY <1>1, <1>2
  <2> QED BY <2>1, <1>3, <1>6
<1>9. ASSUME NEW i \in 1 .. n - 1 PROVE Joins(Front(edits)[i], H[i], H[i + 1], back)
  <2>1. i \in 1 .. n /\ i + 1 \in 1 .. n
    BY <1>1
  <2>2. H[i] = G[i] /\ H[i + 1] = G[i + 1]
    BY <1>1, <1>6, <1>7, <2>1
  <2>3. Joins(edits[i], G[i], G[i + 1], back)
    BY <2>1, <1>2
  <2> QED BY <2>2, <2>3, <1>4
<1>10. Linked(Front(edits), Front(frames), Last(frames), back)
  BY <1>4, <1>5, <1>9 DEF Linked, H
<1> QED BY <1>1, <1>3, <1>4, <1>5, <1>8, <1>10 DEF n

\* The oldest edit is forgotten together with the frame before it.
LEMMA LinkedLatest ==
  ASSUME NEW edits \in Seq(Changes), NEW frames \in Seq(Layouts), NEW B \in Layouts,
         NEW back \in BOOLEAN, Linked(edits, frames, B, back)
  PROVE  Linked(Latest(edits), Latest(frames), B, back)
<1> DEFINE n == Len(edits)
           G == Append(frames, B)
           H == Append(Tail(frames), B)
<1>1. n \in Nat /\ Len(frames) = n /\ HistoryLimit \in Nat \ {0}
  BY SomethingIsUndone DEF Linked
<1>2. CASE n <= HistoryLimit
  BY <1>1, <1>2 DEF Latest
<1>3. CASE n > HistoryLimit
  <2>1. Latest(edits) = Tail(edits) /\ Latest(frames) = Tail(frames) /\ n > 0
    BY <1>1, <1>3 DEF Latest
  <2>2. Tail(edits) \in Seq(Changes) /\ Len(Tail(edits)) = n - 1
        /\ \A i \in 1 .. n - 1 : Tail(edits)[i] = edits[i + 1]
    BY <1>1, <2>1
  <2>3. Tail(frames) \in Seq(Layouts) /\ Len(Tail(frames)) = n - 1
        /\ \A i \in 1 .. n - 1 : Tail(frames)[i] = frames[i + 1]
    BY <1>1, <2>1
  <2>4. \A i \in 1 .. n : Joins(edits[i], G[i], G[i + 1], back)
    BY DEF Linked
  <2>5. G[n + 1] = B /\ \A i \in 1 .. n : G[i] = frames[i]
    BY <1>1
  <2>6. H[n] = B /\ \A i \in 1 .. n - 1 : H[i] = frames[i + 1]
    BY <2>1, <2>3, <1>1
  <2> HIDE DEF n, G, H
  <2>7. ASSUME NEW i \in 1 .. n - 1 PROVE Joins(Tail(edits)[i], H[i], H[i + 1], back)
    <3>1. i + 1 \in 1 .. n
      BY <1>1
    <3>2. H[i] = G[i + 1]
      BY <3>1, <2>5, <2>6
    <3>3. H[i + 1] = G[i + 2]
      <4>1. CASE i = n - 1 BY <4>1, <2>5, <2>6, <1>1
      <4>2. CASE i # n - 1
        <5>1. i + 1 \in 1 .. n - 1 /\ i + 2 \in 1 .. n BY <4>2, <1>1
        <5>2. H[i + 1] = frames[(i + 1) + 1] /\ G[i + 2] = frames[i + 2] BY <5>1, <2>5, <2>6
        <5>3. (i + 1) + 1 = i + 2 BY <1>1
        <5> QED BY <5>2, <5>3
      <4> QED BY <4>1, <4>2
    <3>4. Joins(edits[i + 1], G[i + 1], G[(i + 1) + 1], back)
      BY <3>1, <2>4
    <3>5. (i + 1) + 1 = i + 2
      BY <1>1
    <3> QED BY <3>2, <3>3, <3>4, <3>5, <2>2
  <2>8. Linked(Tail(edits), Tail(frames), B, back)
    BY <2>2, <2>3, <2>7 DEF Linked, H
  <2> QED BY <2>1, <2>8
<1> QED BY <1>1, <1>2, <1>3

LEMMA LinkedNone ==
  ASSUME NEW B, NEW back
  PROVE  Linked(<<>>, <<>>, B, back)
BY DEF Linked

-----------------------------------------------------------------------------
(* Parts of a step                                                         *)

\* A table that is fixed before and after the step stays where it is.
PinStep ==
  (<<scope, loaded>>' = <<scope, loaded>> /\ DOMAIN nodes' = DOMAIN nodes /\ ~history'.replaced) =>
    \A t \in DOMAIN nodes : nodes[t].pinned /\ nodes'[t].pinned => nodes'[t].at = nodes[t].at

\* What a save does to what is kept and queued.
Writes(next) ==
  IF Persistent
  THEN /\ cache' = [cache EXCEPT ![scope.key] = next]
       /\ queue' = Append([i \in DOMAIN queue |-> [queue[i] EXCEPT !.latest = FALSE]],
                          [key |-> scope.key, layout |-> next, scope |-> scope, latest |-> TRUE])
  ELSE UNCHANGED <<cache, queue>>

LEMMA SaveWrites ==
  ASSUME NEW next, DOMAIN next = Here, Save(next) \/ Keep(next),
         feedback.phase \in {"idle", "running", "success", "error"}
  PROVE  Writes(next) /\ feedback'.phase \in {"idle", "running", "success", "error"}
<1>1. CASE scope.temporary /\ Keep(next)
  <2>1. UNCHANGED <<cache, queue>> /\ feedback' = [scope |-> scope, phase |-> "success", retry |-> "none"]
    BY <1>1 DEF Keep
  <2>2. ~Persistent
    BY <1>1 DEF Persistent
  <2> QED BY <2>1, <2>2 DEF Writes
<1>2. CASE Save(next)
  <2>1. CASE Persistent
    <3>1. DOMAIN next = Shown(scope, members)
      BY DEF Here
    <3>2. Writes(next)
      BY <1>2, <2>1, <3>1 DEF Save, Writes
    <3>3. feedback' = [scope |-> scope, phase |-> "running", retry |-> "none"]
      BY <1>2, <2>1, <3>1 DEF Save
    <3> QED BY <3>2, <3>3
  <2>2. CASE ~Persistent
    BY <1>2, <2>2 DEF Save, Writes
  <2> QED BY <2>1, <2>2
<1> QED BY <1>1, <1>2 DEF Keep

LEMMA Revised ==
  ASSUME Shapes, Revise
  PROVE  /\ Asked'
         /\ auto' # None => auto' \in [targets : SUBSET Table, before : Layouts, fresh : BOOLEAN]
<1>1. CASE auto = None
  BY <1>1 DEF Revise, Asked
<1>2. CASE auto # None
  <2>1. auto \in [targets : SUBSET Table, before : Layouts, fresh : BOOLEAN]
    BY <1>2 DEF Shapes
  <2>2. auto' = [auto EXCEPT !.fresh = FALSE]
    BY <1>2 DEF Revise
  <2>3. auto'.fresh = FALSE /\ auto' \in [targets : SUBSET Table, before : Layouts, fresh : BOOLEAN]
    BY <2>1, <2>2
  <2> QED BY <2>3 DEF Asked
<1> QED BY <1>1, <1>2

\* The entries of the queue, none of them the latest any more.
LEMMA Outdated ==
  ASSUME queue \in Seq(Write), NEW q, q = [i \in DOMAIN queue |-> [queue[i] EXCEPT !.latest = FALSE]]
  PROVE  /\ q \in Seq(Write) /\ Len(q) = Len(queue) /\ DOMAIN q = DOMAIN queue
         /\ \A i \in DOMAIN queue : q[i].key = queue[i].key /\ q[i].layout = queue[i].layout
<1>1. DOMAIN queue = 1 .. Len(queue) /\ Len(queue) \in Nat
  OBVIOUS
<1>2. ASSUME NEW i \in DOMAIN queue
      PROVE  q[i] \in Write /\ q[i].key = queue[i].key /\ q[i].layout = queue[i].layout
  <2>1. queue[i] \in Write
    BY <1>1
  <2>2. q[i] = [queue[i] EXCEPT !.latest = FALSE]
    OBVIOUS
  <2> QED BY <2>1, <2>2 DEF Write
<1>3. q \in [1 .. Len(queue) -> Write]
  BY <1>1, <1>2
<1>4. q \in Seq(Write) /\ Len(q) = Len(queue)
  BY <1>1, <1>3
<1> QED BY <1>1, <1>2, <1>4

LEMMA WritesKeep ==
  ASSUME Shapes, Queued, NEW next \in Layouts, Writes(next), stored' = stored, failed' = failed
  PROVE  /\ cache' \in [Key -> {None} \cup Layouts] /\ queue' \in Seq(Write)
         /\ Queued'
         /\ Persistent => cache'[scope.key] = next
         /\ \A k \in Key : cache'[k] \in {cache[k], next}
         /\ \A i \in DOMAIN queue' :
              queue'[i].layout = next \/ \E j \in DOMAIN queue : queue'[i].layout = queue[j].layout
<1> DEFINE key == scope.key
           entry == [key |-> key, layout |-> next, scope |-> scope, latest |-> TRUE]
<1>0. /\ cache \in [Key -> {None} \cup Layouts] /\ queue \in Seq(Write) /\ scope \in Scope
      /\ DOMAIN queue = 1 .. Len(queue) /\ Len(queue) \in Nat
  BY DEF Shapes
<1>1. CASE ~Persistent
  BY <1>1, <1>0 DEF Writes, Queued, LastFor
<1>2. CASE Persistent
  <2>1. key \in Key /\ entry \in Write /\ entry.key = key /\ entry.layout = next
    BY <1>0 DEF Scope, Write
  <2>2. cache' = [cache EXCEPT ![key] = next]
    BY <1>2 DEF Writes
  <2>3. PICK q : q = [i \in DOMAIN queue |-> [queue[i] EXCEPT !.latest = FALSE]]
    OBVIOUS
  <2>4. /\ q \in Seq(Write) /\ Len(q) = Len(queue) /\ DOMAIN q = DOMAIN queue
        /\ \A i \in DOMAIN queue : q[i].key = queue[i].key /\ q[i].layout = queue[i].layout
    BY <1>0, <2>3, Outdated
  <2>5. queue' = Append(q, entry)
    BY <1>2, <2>3 DEF Writes
  <2>0. PICK n : n = Len(queue)
    OBVIOUS
  <2> HIDE DEF entry, key
  <2>6. /\ queue' \in Seq(Write) /\ DOMAIN queue' = 1 .. n + 1 /\ queue'[n + 1] = entry
        /\ \A i \in 1 .. n : queue'[i] = q[i]
    BY <2>1, <2>4, <2>5, <1>0, <2>0
  <2>7. cache' \in [Key -> {None} \cup Layouts] /\ cache'[key] = next
        /\ \A k \in Key \ {key} : cache'[k] = cache[k]
    BY <2>1, <2>2, <1>0
  <2>8. \A i \in 1 .. n : queue'[i].key = queue[i].key /\ queue'[i].layout = queue[i].layout
    BY <2>4, <2>6, <1>0, <2>0
  <2>9. Queued'
    <3>1. SUFFICES ASSUME NEW k \in Key, cache'[k] # None
                   PROVE  \/ \E i \in DOMAIN queue' : LastFor(k, i)'
                          \/ /\ \A i \in DOMAIN queue' : queue'[i].key # k
                             /\ k \in failed' \/ stored'[k] = cache'[k]
      BY DEF Queued
    <3>2. CASE k = key
      <4>1. n + 1 \in DOMAIN queue' /\ \A j \in DOMAIN queue' : ~(j > n + 1)
        BY <2>6, <1>0, <2>0
      <4>2. queue'[n + 1].key = k /\ queue'[n + 1].layout = cache'[k]
        BY <3>2, <2>1, <2>6, <2>7
      <4>3. LastFor(k, n + 1)'
        BY <4>1, <4>2 DEF LastFor
      <4> QED BY <4>1, <4>3
    <3>3. CASE k # key
      <4>1. cache'[k] = cache[k] /\ cache[k] # None
        BY <3>1, <3>3, <2>7
      <4>2. CASE \E i \in DOMAIN queue : LastFor(k, i)
        <5>1. PICK i \in DOMAIN queue : LastFor(k, i)
          BY <4>2
        <5>2. i \in 1 .. n /\ i \in DOMAIN queue'
          BY <1>0, <2>6, <2>0
        <5>3. ASSUME NEW j \in DOMAIN queue', j > i PROVE queue'[j].key # k
          <6>1. CASE j = n + 1 BY <6>1, <2>1, <2>6, <3>3
          <6>2. CASE j # n + 1
            <7>1. j \in 1 .. n BY <6>2, <2>6, <1>0, <2>0
            <7> QED BY <7>1, <5>1, <5>3, <2>8, <1>0, <2>0 DEF LastFor
          <6> QED BY <6>1, <6>2
        <5>4. queue'[i].key = k /\ queue'[i].layout = cache'[k]
          BY <5>1, <5>2, <2>8, <4>1 DEF LastFor
        <5> QED BY <5>2, <5>3, <5>4 DEF LastFor
      <4>3. CASE (\A i \in DOMAIN queue : queue[i].key # k) /\ (k \in failed \/ stored[k] = cache[k])
        <5>1. ASSUME NEW j \in DOMAIN queue' PROVE queue'[j].key # k
          <6>1. CASE j = n + 1 BY <6>1, <2>1, <2>6, <3>3
          <6>2. CASE j # n + 1
            <7>1. j \in 1 .. n BY <6>2, <2>6, <1>0, <2>0
            <7> QED BY <7>1, <4>3, <2>8, <1>0, <2>0
          <6> QED BY <6>1, <6>2
        <5> QED BY <5>1, <4>3, <4>1
      <4> QED BY <4>1, <4>2, <4>3 DEF Queued
    <3> QED BY <3>2, <3>3
  <2>10. ASSUME NEW i \in DOMAIN queue'
         PROVE  queue'[i].layout = next \/ \E j \in DOMAIN queue : queue'[i].layout = queue[j].layout
    <3>1. CASE i = n + 1 BY <3>1, <2>1, <2>6
    <3>2. CASE i # n + 1
      <4>1. i \in 1 .. n BY <3>2, <2>6, <1>0, <2>0
      <4> QED BY <4>1, <2>8, <1>0, <2>0
    <3> QED BY <3>1, <3>2
  <2>11. \A k \in Key : cache'[k] \in {cache[k], next}
    BY <2>1, <2>7
  <2> QED BY <2>6, <2>7, <2>9, <2>10, <2>11, <2>1 DEF key
<1> QED BY <1>1, <1>2

\* The edit that Record makes.
LEMMA EditLeads ==
  ASSUME NEW A \in Layouts, NEW B \in Layouts, DOMAIN A = DOMAIN B,
         NEW e, e = [t \in Changed(A, B) |->
                       [before |-> A[t], after |-> B[t],
                        moved |-> A[t].at # B[t].at, fixed |-> A[t].pinned # B[t].pinned]]
  PROVE  e \in Changes /\ (Steady(A, B) => Leads(e, A, B))
<1>1. A \in [DOMAIN A -> Spot] /\ B \in [DOMAIN A -> Spot] /\ DOMAIN A \subseteq Table
  BY LayoutFacts
<1>2. Changed(A, B) \subseteq DOMAIN A /\ Changed(A, B) \in SUBSET Table
  BY <1>1 DEF Changed
<1>3. ASSUME NEW t \in Changed(A, B)
      PROVE  e[t] \in Change
  <2>1. A[t] \in Spot /\ B[t] \in Spot
    BY <1>1, <1>2
  <2>2. (A[t].at # B[t].at) \in BOOLEAN /\ (A[t].pinned # B[t].pinned) \in BOOLEAN
    OBVIOUS
  <2>3. e[t] = [before |-> A[t], after |-> B[t],
                moved |-> A[t].at # B[t].at, fixed |-> A[t].pinned # B[t].pinned]
    OBVIOUS
  <2> QED BY <2>1, <2>2, <2>3 DEF Change
<1>4. e \in [Changed(A, B) -> Change]
  BY <1>3
<1>5. e \in Changes
  BY <1>2, <1>4 DEF Changes
<1>6. DOMAIN e = Changed(A, B)
  OBVIOUS
<1> QED BY <1>5, <1>6 DEF Leads

LEMMA LatestFacts ==
  ASSUME NEW S, NEW s \in Seq(S), Len(s) <= HistoryLimit + 1, s # <<>>
  PROVE  Latest(s) \in Seq(S) /\ Latest(s) # <<>> /\ Len(Latest(s)) <= HistoryLimit
<1>1. HistoryLimit \in Nat \ {0} /\ Len(s) \in Nat
  BY SomethingIsUndone
<1>2. CASE Len(s) > HistoryLimit
  <2>1. Tail(s) \in Seq(S) /\ Len(Tail(s)) = Len(s) - 1
    BY <1>1, <1>2
  <2>2. Len(Tail(s)) # 0
    BY <1>1, <1>2, <2>1
  <2>3. Tail(s) # <<>>
    BY <2>2
  <2>4. Len(s) - 1 <= HistoryLimit
    BY <1>1
  <2> QED BY <1>2, <2>1, <2>3, <2>4 DEF Latest
<1>3. CASE ~(Len(s) > HistoryLimit)
  BY <1>1, <1>3 DEF Latest
<1> QED BY <1>2, <1>3

LEMMA Recorded ==
  ASSUME Shapes, NEW A \in Layouts, NEW B \in Layouts, DOMAIN A = DOMAIN B, Record(A, B)
  PROVE  /\ history' \in Past
         /\ Len(history'.past) = Len(history'.frames) /\ Len(history'.future) = Len(history'.ahead)
         /\ Len(history'.past) + Len(history'.future) <= HistoryLimit
         /\ history'.replaced = history.replaced
         /\ NothingDone' => NothingDone /\ A = B
         /\ (/\ Steady(A, B) /\ Linked(history.past, history.frames, A, FALSE)
             /\ Linked(history.future, history.ahead, A, TRUE)) =>
              /\ Linked(history'.past, history'.frames, B, FALSE)
              /\ Linked(history'.future, history'.ahead, B, TRUE)
<1>0. /\ history \in Past /\ history.past \in Seq(Changes) /\ history.future \in Seq(Changes)
      /\ history.frames \in Seq(Layouts) /\ history.ahead \in Seq(Layouts) /\ history.replaced \in BOOLEAN
      /\ Len(history.past) = Len(history.frames) /\ Len(history.future) = Len(history.ahead)
      /\ Len(history.past) + Len(history.future) <= HistoryLimit
      /\ HistoryLimit \in Nat
  BY SomethingIsUndone DEF Shapes, Past
<1>1. CASE Changed(A, B) = {}
  <2>1. history' = history
    BY <1>1 DEF Record
  <2>2. A = B
    BY <1>1, Same
  <2> QED BY <2>1, <2>2, <1>0 DEF NothingDone
<1>2. CASE Changed(A, B) # {}
  <2>1. PICK e : e = [t \in Changed(A, B) |->
                       [before |-> A[t], after |-> B[t],
                        moved |-> A[t].at # B[t].at, fixed |-> A[t].pinned # B[t].pinned]]
    OBVIOUS
  <2>2. e \in Changes /\ (Steady(A, B) => Leads(e, A, B))
    BY <2>1, EditLeads
  <2>3. history' = [past |-> Latest(Append(history.past, e)), future |-> <<>>,
                    frames |-> Latest(Append(history.frames, A)),
                    ahead |-> <<>>, replaced |-> history.replaced]
    BY <1>2, <2>1 DEF Record
  <2>4. PICK P : P = Append(history.past, e)
    OBVIOUS
  <2>5. PICK F : F = Append(history.frames, A)
    OBVIOUS
  <2>6. P \in Seq(Changes) /\ F \in Seq(Layouts) /\ P # <<>> /\ F # <<>>
        /\ Len(P) = Len(F) /\ Len(P) <= HistoryLimit + 1
    <3>1. P \in Seq(Changes) /\ Len(P) = Len(history.past) + 1
      BY <1>0, <2>2, <2>4
    <3>2. F \in Seq(Layouts) /\ Len(F) = Len(history.frames) + 1
      BY <1>0, <2>5
    <3>3. Len(history.past) \in Nat /\ Len(history.future) \in Nat
      BY <1>0
    <3>4. Len(P) # 0 /\ Len(F) # 0 /\ Len(P) <= HistoryLimit + 1
      <4>1. /\ Len(history.past) = Len(history.frames)
            /\ Len(history.past) + Len(history.future) <= HistoryLimit /\ HistoryLimit \in Nat
        BY <1>0
      <4>2. \A a, b, c \in Nat : a + b <= c => a + 1 <= c + 1 /\ a + 1 # 0
        OBVIOUS
      <4>3. Len(history.past) + 1 <= HistoryLimit + 1 /\ Len(history.past) + 1 # 0
        BY <3>3, <4>1, <4>2, Zenon
      <4> QED BY <3>1, <3>2, <4>1, <4>3
    <3> QED BY <3>1, <3>2, <3>4, <1>0
  <2>7. /\ Latest(P) \in Seq(Changes) /\ Latest(P) # <<>> /\ Len(Latest(P)) <= HistoryLimit
        /\ Latest(F) \in Seq(Layouts) /\ Latest(F) # <<>>
    BY <2>6, LatestFacts
  <2>8. Len(Latest(P)) = Len(Latest(F))
    BY <2>6 DEF Latest
  <2>9. /\ history'.past = Latest(P) /\ history'.frames = Latest(F) /\ history'.future = <<>>
        /\ history'.ahead = <<>> /\ history'.replaced = history.replaced
    BY <2>3, <2>4, <2>5
  <2>10. history' \in Past
    <3>1. <<>> \in Seq(Changes) /\ <<>> \in Seq(Layouts)
      OBVIOUS
    <3> QED BY <3>1, <2>3, <2>4, <2>5, <2>7, <1>0 DEF Past
  <2>11. ~NothingDone'
    BY <2>7, <2>9 DEF NothingDone
  <2>12. Len(Latest(P)) + Len(<<>>) <= HistoryLimit
    BY <2>7, <1>0
  <2>13. ASSUME Steady(A, B), Linked(history.past, history.frames, A, FALSE)
         PROVE  Linked(history'.past, history'.frames, B, FALSE)
    <3>1. Joins(e, A, B, FALSE)
      BY <2>2, <2>13 DEF Joins
    <3>2. Linked(P, F, B, FALSE)
      BY <3>1, <2>2, <2>4, <2>5, <2>13, <1>0, LinkedGrows
    <3> QED BY <3>2, <2>6, <2>9, LinkedLatest
  <2>14. Linked(history'.future, history'.ahead, B, TRUE)
    BY <2>9, LinkedNone
  <2> QED BY <2>8, <2>9, <2>10, <2>11, <2>12, <2>13, <2>14
<1> QED BY <1>1, <1>2

\* A step that leaves a frame in place of the one on the canvas, with the history that goes with
\* it, ends any gesture and saves the frame.
LEMMA FrameStep ==
  ASSUME DiagramInv, Laid, prior.fitted, UNCHANGED <<view, initial, stored>>,
         Asked',
         auto' # None => auto' \in [targets : SUBSET Table, before : Layouts, fresh : BOOLEAN],
         drag' \subseteq Table, gesture' = None,
         nodes' \in Layouts, DOMAIN nodes' = DOMAIN nodes,
         history' \in Past,
         Len(history'.past) = Len(history'.frames), Len(history'.future) = Len(history'.ahead),
         Len(history'.past) + Len(history'.future) <= HistoryLimit,
         history'.replaced = history.replaced,
         NothingDone' => NothingDone,
         (~history.replaced /\ NothingDone') => Agree(nodes, nodes'),
         ~history.replaced => /\ Linked(history'.past, history'.frames, nodes', FALSE)
                              /\ Linked(history'.future, history'.ahead, nodes', TRUE),
         Save(nodes') \/ Keep(nodes')
  PROVE  DiagramInv'
<1>1. /\ UNCHANGED <<scope, members, loaded, ready, prior, fitting, failed>>
      /\ Here' = Here /\ Laid' = Laid /\ Persistent' = Persistent /\ Base' = nodes'
  BY DEF view, Here, Laid, Persistent, Base
<1>2. DOMAIN nodes = Here /\ prior.scope = <<scope, loaded>> /\ (ready => prior.fitted)
  BY DEF DiagramInv, Laying
<1>3. Shapes /\ Queued /\ feedback.phase \in {"idle", "running", "success", "error"}
  BY DEF DiagramInv, Shapes
<1>4. Writes(nodes') /\ feedback'.phase \in {"idle", "running", "success", "error"}
  BY <1>2, <1>3, SaveWrites
<1>5. /\ cache' \in [Key -> {None} \cup Layouts] /\ queue' \in Seq(Write) /\ Queued'
      /\ Persistent => cache'[scope.key] = nodes'
  <2>1. stored' = stored /\ failed' = failed
    BY <1>1
  <2> QED BY <1>3, <1>4, <2>1, WritesKeep
<1>6. Shapes'
  BY <1>1, <1>3, <1>4, <1>5 DEF Shapes
<1>7. Laying'
  BY <1>1, <1>2 DEF Laying
<1>8. Untouched'
  BY <1>1 DEF Untouched
<1>9. Pending'
  <2>1. SUFFICES ASSUME initial' # None
                 PROVE  /\ DOMAIN initial'.nodes = Here
                        /\ (~history.replaced /\ NothingDone') => Agree(initial'.nodes, nodes')
    BY <1>1 DEF Pending
  <2>2. initial' = initial /\ initial # None /\ initial.nodes \in Layouts /\ nodes \in Layouts
    BY <2>1 DEF DiagramInv, Shapes
  <2>3. DOMAIN initial.nodes = Here
        /\ ((~history.replaced /\ NothingDone) => Agree(initial.nodes, nodes))
    BY <2>2 DEF DiagramInv, Pending
  <2> QED BY <2>2, <2>3, AgreeFacts
<1>10. Gesturing' /\ Chain'
  BY <1>1 DEF Gesturing, Chain
<1>11. Kept'
  BY <1>1, <1>5 DEF Kept
<1> QED BY <1>5, <1>6, <1>7, <1>8, <1>9, <1>10, <1>11 DEF DiagramInv

\* A step that only saves the frame on the canvas again, or says something.
LEMMA SameFrame ==
  ASSUME DiagramInv, UNCHANGED <<view, nodes, initial, gesture, history, stored>>,
         drag' \subseteq drag, Asked',
         auto' # None => auto' \in [targets : SUBSET Table, before : Layouts, fresh : BOOLEAN],
         feedback'.phase \in {"idle", "running", "success", "error"},
         \/ UNCHANGED <<cache, queue>>
         \/ Writes(nodes)
  PROVE  DiagramInv'
<1>1. /\ UNCHANGED <<scope, members, loaded, ready, prior, fitting, failed>>
      /\ Here' = Here /\ Laid' = Laid /\ Persistent' = Persistent /\ Base' = Base
      /\ NothingDone' = NothingDone
  BY DEF view, Here, Laid, Persistent, Base, NothingDone
<1>2. Shapes /\ Queued /\ nodes \in Layouts /\ drag' \subseteq Table
  BY DEF DiagramInv, Shapes
<1>3. /\ cache' \in [Key -> {None} \cup Layouts] /\ queue' \in Seq(Write) /\ Queued'
      /\ cache' = cache \/ (Persistent => cache'[scope.key] = nodes)
      /\ \A k \in Key : cache'[k] \in {cache[k], nodes}
      /\ \A i \in DOMAIN queue' :
           queue'[i].layout = nodes \/ \E j \in DOMAIN queue : queue'[i].layout = queue[j].layout
  <2>1. CASE UNCHANGED <<cache, queue>>
    BY <1>1, <1>2, <2>1 DEF Queued, LastFor, Shapes
  <2>2. CASE Writes(nodes)
    <3>1. stored' = stored /\ failed' = failed
      BY <1>1
    <3> QED BY <1>2, <2>2, <3>1, WritesKeep
  <2> QED BY <2>1, <2>2
<1>4. Shapes'
  BY <1>1, <1>2, <1>3 DEF Shapes
<1>5. Laying'
  BY <1>1 DEF DiagramInv, Laying
<1>6. Untouched'
  <2>1. SUFFICES ASSUME ~prior.fitted PROVE Untouched'
    BY <1>1 DEF Untouched
  <2>2. /\ NothingDone /\ gesture = None /\ drag = {}
        /\ Loose(nodes) /\ (initial # None => Loose(initial.nodes))
        /\ \A k \in Key : (cache[k] # None => Loose(cache[k])) /\ (stored[k] # None => Loose(stored[k]))
        /\ \A i \in DOMAIN queue : Loose(queue[i].layout)
    BY <2>1 DEF DiagramInv, Untouched
  <2>3. \A k \in Key : cache'[k] # None => Loose(cache'[k])
    BY <2>2, <1>3
  <2>4. \A i \in DOMAIN queue' : Loose(queue'[i].layout)
    BY <2>2, <1>3
  <2>5. drag' = {} /\ stored' = stored /\ nodes' = nodes /\ gesture' = gesture /\ initial' = initial
    BY <2>2
  <2>6. Loose(nodes)' /\ (initial' # None => Loose(initial.nodes)')
    BY <2>2, <2>5 DEF Loose
  <2>7. \A k \in Key : (cache'[k] # None => Loose(cache[k])') /\ (stored'[k] # None => Loose(stored[k])')
    BY <2>2, <2>3, <2>5 DEF Loose
  <2>8. \A i \in DOMAIN queue' : Loose(queue[i].layout)'
    BY <2>4 DEF Loose
  <2> QED BY <2>2, <2>5, <2>6, <2>7, <2>8, <1>1 DEF Untouched
<1>7. Pending' /\ Gesturing' /\ Chain'
  BY <1>1 DEF DiagramInv, Pending, Gesturing, Chain, Agree
<1>8. Kept'
  BY <1>1, <1>3 DEF DiagramInv, Kept
<1> QED BY <1>3, <1>4, <1>5, <1>6, <1>7, <1>8 DEF DiagramInv

-----------------------------------------------------------------------------
(* Edits                                                                   *)

LEMMA PlacedFacts ==
  ASSUME nodes \in Layouts, NEW S, NEW p \in Place
  PROVE  /\ Placed(S, p) \in Layouts /\ DOMAIN Placed(S, p) = DOMAIN nodes
         /\ Agree(nodes, Placed(S, p))
<1>1. nodes \in [DOMAIN nodes -> Spot] /\ DOMAIN nodes \subseteq Table
  BY LayoutFacts
<1>2. ASSUME NEW t \in DOMAIN nodes
      PROVE  /\ Placed(S, p)[t] \in Spot /\ Placed(S, p)[t].pinned = nodes[t].pinned
             /\ nodes[t].pinned => Placed(S, p)[t].at = nodes[t].at
  <2>1. nodes[t] \in Spot
    BY <1>1
  <2>2. CASE t \in Movable(S)
    <3>1. Placed(S, p)[t] = [nodes[t] EXCEPT !.at = p] /\ ~nodes[t].pinned
      BY <2>2 DEF Placed, Movable
    <3> QED BY <3>1, <2>1 DEF Spot
  <2>3. CASE t \notin Movable(S)
    BY <2>1, <2>3 DEF Placed
  <2> QED BY <2>2, <2>3
<1>3. Placed(S, p) \in [DOMAIN nodes -> Spot]
  BY <1>2 DEF Placed
<1>4. DOMAIN Placed(S, p) = DOMAIN nodes
  BY DEF Placed
<1> QED BY <1>1, <1>2, <1>3, <1>4, IsLayout DEF Agree

\* An edit of the frame on the canvas, recorded.
LEMMA EditStep ==
  ASSUME DiagramInv, Free, Revise, UNCHANGED <<view, initial, drag, gesture, stored>>,
         nodes' \in Layouts, DOMAIN nodes' = DOMAIN nodes, Steady(nodes, nodes'),
         Record(nodes, nodes'), Save(nodes') \/ Keep(nodes')
  PROVE  DiagramInv' /\ PinStep
<1>1. Shapes /\ nodes \in Layouts /\ gesture = None /\ Laid /\ prior.fitted /\ Base = nodes
      /\ drag \subseteq Table
  BY DEF DiagramInv, Shapes, Laying, Free, Editable, Base, Laid
<1>2. PICK N : N = nodes'
  OBVIOUS
<1>3. /\ history' \in Past
      /\ Len(history'.past) = Len(history'.frames) /\ Len(history'.future) = Len(history'.ahead)
      /\ Len(history'.past) + Len(history'.future) <= HistoryLimit
      /\ history'.replaced = history.replaced
      /\ NothingDone' => NothingDone /\ nodes = N
      /\ (/\ Steady(nodes, N) /\ Linked(history.past, history.frames, nodes, FALSE)
          /\ Linked(history.future, history.ahead, nodes, TRUE)) =>
           /\ Linked(history'.past, history'.frames, N, FALSE)
           /\ Linked(history'.future, history'.ahead, N, TRUE)
  BY <1>1, <1>2, Recorded
<1>4. Asked' /\ (auto' # None => auto' \in [targets : SUBSET Table, before : Layouts, fresh : BOOLEAN])
  BY <1>1, Revised
<1>5. ~history.replaced => /\ Linked(history.past, history.frames, nodes, FALSE)
                           /\ Linked(history.future, history.ahead, nodes, TRUE)
  BY <1>1 DEF DiagramInv, Chain
<1>6. NothingDone' => Agree(nodes, nodes')
  BY <1>1, <1>2, <1>3, AgreeFacts
<1>7. gesture' = None /\ drag' \subseteq Table /\ UNCHANGED <<view, initial, stored>>
  BY <1>1
<1>8. DiagramInv'
  BY <1>1, <1>2, <1>3, <1>4, <1>5, <1>6, <1>7, FrameStep
<1>9. PinStep
  BY DEF PinStep, Steady
<1> QED BY <1>8, <1>9

LEMMA NudgeKeeps ==
  ASSUME DiagramInv, NEW S \in SUBSET Table, NEW p \in Chosen, Nudge(S, p) \/ Arrange(S, p)
  PROVE  DiagramInv' /\ PinStep
<1>1. /\ Free /\ Revise /\ UNCHANGED <<view, initial, drag, gesture, stored>>
      /\ nodes' = Placed(S, p) /\ Record(nodes, nodes') /\ (Save(nodes') \/ Keep(nodes'))
  BY DEF Nudge, Arrange
<1>2. nodes \in Layouts /\ p \in Place
  BY DEF DiagramInv, Shapes, Chosen, Place
<1>3. nodes' \in Layouts /\ DOMAIN nodes' = DOMAIN nodes /\ Agree(nodes, nodes')
  BY <1>1, <1>2, PlacedFacts
<1>4. Steady(nodes, nodes')
  BY <1>2, <1>3, AgreeFacts
<1> QED BY <1>1, <1>3, <1>4, EditStep

LEMMA FixKeeps ==
  ASSUME DiagramInv, NEW S \in SUBSET Table, NEW on \in BOOLEAN, Fix(S, on)
  PROVE  DiagramInv' /\ PinStep
<1>1. /\ Free /\ Revise /\ UNCHANGED <<view, initial, drag, gesture, stored>>
      /\ nodes' = [t \in DOMAIN nodes |-> IF t \in S THEN [nodes[t] EXCEPT !.pinned = on] ELSE nodes[t]]
      /\ Record(nodes, nodes') /\ Keep(nodes')
  BY DEF Fix
<1>2. nodes \in Layouts /\ nodes \in [DOMAIN nodes -> Spot] /\ DOMAIN nodes \subseteq Table
  BY LayoutFacts DEF DiagramInv, Shapes
<1>3. ASSUME NEW t \in DOMAIN nodes PROVE nodes'[t] \in Spot /\ nodes'[t].at = nodes[t].at
  <2>1. nodes[t] \in Spot /\ nodes'[t] = IF t \in S THEN [nodes[t] EXCEPT !.pinned = on] ELSE nodes[t]
    BY <1>1, <1>2
  <2> QED BY <2>1 DEF Spot
<1>4. nodes' \in [DOMAIN nodes -> Spot]
  BY <1>1, <1>3
<1>5. nodes' \in Layouts /\ DOMAIN nodes' = DOMAIN nodes
  BY <1>2, <1>4, IsLayout
<1>6. Steady(nodes, nodes')
  BY <1>3 DEF Steady
<1> QED BY <1>1, <1>5, <1>6, EditStep

LEMMA SaysKeep ==
  ASSUME DiagramInv, ArrangeFails \/ MoveViewport \/ RetrySave \/ AutoFails
  PROVE  DiagramInv' /\ PinStep
<1>1. /\ Shapes /\ Asked /\ queue \in Seq(Write) /\ nodes \in Layouts /\ DiagramInv
      /\ (auto # None => auto \in [targets : SUBSET Table, before : Layouts, fresh : BOOLEAN])
      /\ feedback.phase \in {"idle", "running", "success", "error"}
  BY DEF DiagramInv, Shapes
<1>2. ASSUME UNCHANGED <<nodes, history>> PROVE PinStep
  BY <1>2 DEF PinStep
<1>3. CASE ArrangeFails
  <2>1. /\ UNCHANGED <<view, nodes, initial, auto, drag, gesture, history, cache, stored>>
        /\ queue' = [i \in DOMAIN queue |-> [queue[i] EXCEPT !.latest = FALSE]]
        /\ feedback' = [scope |-> scope, phase |-> "error", retry |-> "arrange"]
    BY <1>3 DEF ArrangeFails, Say
  <2>2. feedback'.phase \in {"idle", "running", "success", "error"}
    BY <2>1
  <2>3. /\ queue' \in Seq(Write) /\ DOMAIN queue' = DOMAIN queue
        /\ \A i \in DOMAIN queue : queue'[i].key = queue[i].key /\ queue'[i].layout = queue[i].layout
    BY <1>1, <2>1, Outdated
  <2>4. UNCHANGED <<scope, members, loaded, ready, prior, fitting, failed>> /\ Here' = Here /\ Laid' = Laid
        /\ Persistent' = Persistent /\ Base' = Base /\ NothingDone' = NothingDone
    BY <2>1 DEF view, Here, Laid, Persistent, Base, NothingDone
  <2>5. Shapes'
    BY <1>1, <2>1, <2>2, <2>3, <2>4 DEF Shapes
  <2>6. Queued'
    <3>1. ASSUME NEW k \in Key, NEW i \in DOMAIN queue, LastFor(k, i) PROVE LastFor(k, i)'
      BY <3>1, <2>1, <2>3 DEF LastFor
    <3> QED BY <3>1, <2>1, <2>3, <2>4 DEF DiagramInv, Queued
  <2>7. Laying' /\ Pending' /\ Asked' /\ Gesturing' /\ Chain' /\ Kept'
    BY <2>1, <2>4 DEF DiagramInv, Laying, Pending, Asked, Gesturing, Chain, Kept, Agree
  <2>8. Untouched'
    BY <2>1, <2>3, <2>4 DEF DiagramInv, Untouched, Loose
  <2> QED BY <2>1, <2>5, <2>6, <2>7, <2>8, <1>2 DEF DiagramInv
<1>4. CASE MoveViewport \/ RetrySave
  <2>1. /\ UNCHANGED <<view, nodes, initial, auto, drag, gesture, history, stored>>
        /\ Save(nodes)
    BY <1>4 DEF MoveViewport, RetrySave
  <2>2. Laid /\ DOMAIN nodes = Here
    BY <1>4, <1>1 DEF MoveViewport, RetrySave, DiagramInv, Laying, Offered, Editable
  <2>3. Writes(nodes) /\ feedback'.phase \in {"idle", "running", "success", "error"}
    BY <1>1, <2>1, <2>2, SaveWrites
  <2>4. Asked'
    <3>1. UNCHANGED <<scope, members, loaded, ready, prior, fitting, failed>> /\ Here' = Here
          /\ NothingDone' = NothingDone
      BY <2>1 DEF view, Here, NothingDone
    <3> QED BY <1>1, <2>1, <3>1 DEF Asked, Agree
  <2>5. drag' \subseteq drag /\ auto' = auto
    BY <2>1
  <2> QED BY <1>1, <1>2, <2>1, <2>3, <2>4, <2>5, SameFrame
<1>5. CASE AutoFails
  <2>1. /\ UNCHANGED <<view, nodes, initial, drag, gesture, history, cache, queue, stored>>
        /\ auto' = None /\ (Say("error", "auto") \/ UNCHANGED feedback)
    BY <1>5 DEF AutoFails
  <2>2. Asked' /\ drag' \subseteq drag /\ feedback'.phase \in {"idle", "running", "success", "error"}
    BY <1>1, <2>1 DEF Asked, Say
  <2> QED BY <1>1, <1>2, <2>1, <2>2, SameFrame
<1> QED BY <1>3, <1>4, <1>5

LEMMA RequestKeeps ==
  ASSUME DiagramInv, NEW S \in SUBSET Table, RequestLayout(S)
  PROVE  DiagramInv' /\ PinStep
<1>1. /\ Free /\ UNCHANGED <<view, nodes, initial, drag, gesture, history, cache, queue, stored>>
      /\ auto' = [targets |-> Movable(S), before |-> nodes, fresh |-> TRUE]
      /\ feedback' = [scope |-> scope, phase |-> "running", retry |-> "none"]
  BY DEF RequestLayout, Say
<1>2. /\ nodes \in Layouts /\ DOMAIN nodes \subseteq Table
      /\ ready /\ gesture = None /\ Laid /\ DOMAIN nodes = Here /\ Agree(nodes, nodes)
  <2>1. nodes \in Layouts
    BY DEF DiagramInv, Shapes
  <2>2. DOMAIN nodes \subseteq Table /\ Agree(nodes, nodes)
    BY <2>1, LayoutFacts, AgreeFacts
  <2> QED BY <1>1, <2>1, <2>2 DEF DiagramInv, Laying, Free, Editable
<1>3. /\ auto'.targets = Movable(S) /\ auto'.before = nodes /\ Movable(S) \in SUBSET Table
      /\ \A t \in Movable(S) : ~nodes[t].pinned
  BY <1>1, <1>2 DEF Movable
<1>4. auto' \in [targets : SUBSET Table, before : Layouts, fresh : BOOLEAN]
  BY <1>1, <1>2, <1>3
<1>5. Asked'
  <2>1. /\ ready' = ready /\ gesture' = gesture /\ history' = history /\ nodes' = nodes /\ Here' = Here
        /\ NothingDone' = NothingDone
    BY <1>1 DEF view, Here, NothingDone
  <2>2. Agree(nodes, nodes)' /\ Agree(auto.before, nodes)'
    BY <1>2, <1>3, <2>1 DEF Agree
  <2> QED BY <1>2, <1>3, <2>1, <2>2 DEF Asked
<1>6. feedback'.phase \in {"idle", "running", "success", "error"} /\ drag' \subseteq drag
  BY <1>1
<1>7. DiagramInv'
  BY <1>1, <1>4, <1>5, <1>6, SameFrame
<1> QED BY <1>1, <1>7 DEF PinStep

\* Steps under the pointer: the history is untouched, and the frame the gesture began with is kept.
LEMMA PointerStep ==
  ASSUME DiagramInv, Laid, prior.fitted, Revise,
         UNCHANGED <<view, initial, history, cache, queue, stored, feedback>>,
         drag' \subseteq Table, gesture' = Base \/ (gesture' = gesture /\ nodes' = nodes),
         nodes' \in Layouts, Agree(nodes, nodes'), nodes' # nodes => gesture' = Base
  PROVE  DiagramInv' /\ PinStep
<1>1. /\ UNCHANGED <<scope, members, loaded, ready, prior, fitting, failed>>
      /\ Here' = Here /\ Laid' = Laid /\ Persistent' = Persistent /\ NothingDone' = NothingDone
  BY DEF view, Here, Laid, Persistent, NothingDone
<1>2. Shapes /\ nodes \in Layouts /\ gesture \in {None} \cup Layouts /\ Base \in Layouts /\ Base # None
      /\ DOMAIN nodes = Here /\ DOMAIN Base = Here
  <2>1. Shapes /\ nodes \in Layouts /\ gesture \in {None} \cup Layouts /\ DOMAIN nodes = Here
    BY DEF DiagramInv, Shapes, Laying
  <2>2. Base \in Layouts /\ DOMAIN Base = Here
    BY <2>1 DEF Base, DiagramInv, Gesturing
  <2> QED BY <2>1, <2>2, LayoutFacts
<1>3. Base' = Base /\ gesture' \in {None} \cup Layouts
  <2>1. CASE gesture' = Base
    BY <2>1, <1>2 DEF Base
  <2>2. CASE gesture' = gesture /\ nodes' = nodes
    BY <2>2, <1>2 DEF Base
  <2> QED BY <2>1, <2>2
<1>4. ~history.replaced => Agree(Base, nodes')
  <2>1. ASSUME ~history.replaced PROVE Agree(Base, nodes)
    BY <2>1, <1>2, AgreeFacts DEF Base, DiagramInv, Gesturing
  <2> QED BY <2>1, <1>2, AgreeFacts
<1>5. Asked' /\ (auto' # None => auto' \in [targets : SUBSET Table, before : Layouts, fresh : BOOLEAN])
  BY <1>2, Revised
<1>6. Shapes'
  BY <1>1, <1>2, <1>3, <1>5 DEF Shapes
<1>7. DOMAIN nodes' = Here
  BY <1>2 DEF Agree
<1>8. Laying' /\ Untouched'
  BY <1>1, <1>7 DEF DiagramInv, Laying, Untouched
<1>9. Pending'
  <2>1. SUFFICES ASSUME initial # None
                 PROVE  /\ DOMAIN initial.nodes = Here
                        /\ (~history.replaced /\ NothingDone) => Agree(initial.nodes, nodes')
    BY <1>1 DEF Pending
  <2>2. initial.nodes \in Layouts
    BY <2>1, <1>2 DEF Shapes
  <2> QED BY <2>1, <2>2, <1>2, AgreeFacts DEF DiagramInv, Pending
<1>10. Gesturing'
  <2>1. SUFFICES ASSUME gesture' # None
                 PROVE  DOMAIN gesture' = Here /\ (~history.replaced => Agree(gesture', nodes'))
    BY <1>1 DEF Gesturing
  <2>2. gesture' = Base
    BY <2>1, <1>3 DEF Base
  <2> QED BY <2>2, <1>2, <1>4
<1>11. Chain'
  BY <1>1, <1>3 DEF DiagramInv, Chain
<1>12. Kept'
  BY <1>1, <1>2 DEF DiagramInv, Kept
<1>13. Queued'
  BY <1>1 DEF DiagramInv, Queued, LastFor
<1>14. PinStep
  BY DEF PinStep, Agree
<1> QED BY <1>5, <1>6, <1>8, <1>9, <1>10, <1>11, <1>12, <1>13, <1>14 DEF DiagramInv

LEMMA BeginDragKeeps ==
  ASSUME DiagramInv, NEW S \in SUBSET Table, BeginDrag(S)
  PROVE  DiagramInv' /\ PinStep
<1>1. /\ Laid /\ prior.fitted /\ Revise /\ nodes' = nodes /\ drag' \subseteq Table /\ gesture' = Base
      /\ UNCHANGED <<view, initial, history, cache, queue, stored, feedback>>
  BY DEF BeginDrag, Editable, Laid, DiagramInv, Laying, Base
<1>2. nodes' \in Layouts /\ Agree(nodes, nodes')
  BY <1>1, AgreeFacts DEF DiagramInv, Shapes
<1> QED BY <1>1, <1>2, PointerStep

LEMMA DragKeeps ==
  ASSUME DiagramInv, NEW p \in Chosen, Drag(p)
  PROVE  DiagramInv' /\ PinStep
<1>1. /\ Revise /\ nodes' = Placed(drag, p) /\ drag' = drag /\ gesture' = Base
      /\ UNCHANGED <<view, initial, history, cache, queue, stored, feedback>>
  BY DEF Drag, Base
<1>2. drag # {}
  BY DEF Drag, Movable
<1>3. Laid /\ prior.fitted /\ nodes \in Layouts /\ drag \subseteq Table
  BY <1>2 DEF DiagramInv, Laying, Untouched, Shapes
<1>4. nodes' \in Layouts /\ Agree(nodes, nodes')
  BY <1>1, <1>3, PlacedFacts DEF Chosen, Place
<1>5. drag' \subseteq Table /\ (nodes' # nodes => gesture' = Base)
  BY <1>1, <1>3
<1> QED BY <1>1, <1>3, <1>4, <1>5, PointerStep

\* The table is let go: the gesture becomes one edit.
LEMMA DropKeeps ==
  ASSUME DiagramInv, Drop
  PROVE  DiagramInv' /\ PinStep
<1>1. /\ drag' = {} /\ Revise /\ gesture' = None /\ Save(nodes) /\ nodes' = nodes
      /\ (IF gesture = None THEN UNCHANGED history ELSE Record(gesture, nodes))
      /\ UNCHANGED <<view, initial, stored>>
  BY DEF Drop
<1>2. Shapes /\ Laid /\ prior.fitted /\ nodes \in Layouts
  BY DEF Drop, DiagramInv, Laying, Untouched, Shapes
<1>3. Asked' /\ (auto' # None => auto' \in [targets : SUBSET Table, before : Layouts, fresh : BOOLEAN])
  BY <1>1, <1>2, Revised
<1>4. Agree(nodes, nodes')
  BY <1>1, <1>2, AgreeFacts
<1>5. /\ history' \in Past
      /\ Len(history'.past) = Len(history'.frames) /\ Len(history'.future) = Len(history'.ahead)
      /\ Len(history'.past) + Len(history'.future) <= HistoryLimit
      /\ history'.replaced = history.replaced
      /\ NothingDone' => NothingDone
      /\ ~history.replaced => /\ Linked(history'.past, history'.frames, nodes, FALSE)
                              /\ Linked(history'.future, history'.ahead, nodes, TRUE)
  <2>1. CASE gesture = None
    <3>1. history' = history /\ Base = nodes
      BY <1>1, <2>1 DEF Base
    <3> QED BY <3>1 DEF DiagramInv, Shapes, Chain, NothingDone
  <2>2. CASE gesture # None
    <3>1. gesture \in Layouts /\ DOMAIN gesture = DOMAIN nodes /\ Base = gesture
      BY <2>2, <1>2 DEF DiagramInv, Shapes, Gesturing, Laying, Base
    <3>2. PICK A : A = gesture
      OBVIOUS
    <3>3. PICK B : B = nodes
      OBVIOUS
    <3>4. /\ history' \in Past
          /\ Len(history'.past) = Len(history'.frames) /\ Len(history'.future) = Len(history'.ahead)
          /\ Len(history'.past) + Len(history'.future) <= HistoryLimit
          /\ history'.replaced = history.replaced
          /\ NothingDone' => NothingDone /\ A = B
          /\ (/\ Steady(A, B) /\ Linked(history.past, history.frames, A, FALSE)
              /\ Linked(history.future, history.ahead, A, TRUE)) =>
               /\ Linked(history'.past, history'.frames, B, FALSE)
               /\ Linked(history'.future, history'.ahead, B, TRUE)
      <4>1. A \in Layouts /\ B \in Layouts /\ DOMAIN A = DOMAIN B /\ Record(A, B)
        BY <1>1, <1>2, <2>2, <3>1, <3>2, <3>3
      <4> QED BY <1>2, <4>1, Recorded
    <3>5. ~history.replaced => Steady(A, B)
      BY <2>2, <1>2, <3>1, <3>2, <3>3, AgreeFacts DEF DiagramInv, Gesturing
    <3>6. ~history.replaced => /\ Linked(history.past, history.frames, A, FALSE)
                               /\ Linked(history.future, history.ahead, A, TRUE)
      BY <3>1, <3>2 DEF DiagramInv, Chain
    <3> QED BY <3>3, <3>4, <3>5, <3>6
  <2> QED BY <2>1, <2>2
<1>6. /\ drag' \subseteq Table /\ nodes' \in Layouts /\ DOMAIN nodes' = DOMAIN nodes /\ Save(nodes')
  BY <1>1, <1>2
<1>7. DiagramInv'
  BY <1>1, <1>2, <1>3, <1>4, <1>5, <1>6, FrameStep
<1> QED BY <1>1, <1>7 DEF PinStep

-----------------------------------------------------------------------------
(* Undo and redo                                                           *)

LEMMA HistoryFacts ==
  ASSUME DiagramInv
  PROVE  /\ Shapes /\ history \in Past
         /\ history.past \in Seq(Changes) /\ history.future \in Seq(Changes)
         /\ history.frames \in Seq(Layouts) /\ history.ahead \in Seq(Layouts)
         /\ history.replaced \in BOOLEAN
         /\ Len(history.past) = Len(history.frames) /\ Len(history.future) = Len(history.ahead)
         /\ Len(history.past) + Len(history.future) <= HistoryLimit
         /\ nodes \in Layouts
BY DEF DiagramInv, Shapes, Past

LEMMA UndoKeeps ==
  ASSUME DiagramInv, Undo
  PROVE  /\ DiagramInv' /\ PinStep
         /\ ~history.replaced => nodes' = Last(history.frames)
<1> DEFINE e == Last(history.past)
           F == Last(history.frames)
<1>1. /\ Free /\ history.past # <<>> /\ Revise /\ nodes' = Patched(e, "before") /\ Keep(nodes')
      /\ history' = [past |-> Front(history.past), future |-> Append(history.future, e),
                     frames |-> Front(history.frames), ahead |-> Append(history.ahead, nodes),
                     replaced |-> history.replaced]
      /\ UNCHANGED <<view, initial, drag, gesture, stored>>
  BY DEF Undo
<1>2. /\ Shapes /\ history \in Past
      /\ history.past \in Seq(Changes) /\ history.future \in Seq(Changes)
      /\ history.frames \in Seq(Layouts) /\ history.ahead \in Seq(Layouts)
      /\ history.replaced \in BOOLEAN
      /\ Len(history.past) = Len(history.frames) /\ Len(history.future) = Len(history.ahead)
      /\ Len(history.past) + Len(history.future) <= HistoryLimit
      /\ nodes \in Layouts
  BY HistoryFacts
<1>3. gesture = None /\ Laid /\ prior.fitted /\ Base = nodes /\ drag \subseteq Table
  BY <1>1, <1>2 DEF DiagramInv, Laying, Free, Editable, Base, Shapes
<1>4. Asked' /\ (auto' # None => auto' \in [targets : SUBSET Table, before : Layouts, fresh : BOOLEAN])
  BY <1>1, <1>2, Revised
<1>5. e \in Changes /\ F \in Layouts
      /\ Front(history.past) \in Seq(Changes) /\ Front(history.frames) \in Seq(Layouts)
      /\ Len(Front(history.past)) = Len(history.past) - 1
      /\ Len(Front(history.frames)) = Len(history.past) - 1
  BY <1>1, <1>2, LastFront
<1>6. Append(history.future, e) \in Seq(Changes) /\ Append(history.ahead, nodes) \in Seq(Layouts)
      /\ Len(Append(history.future, e)) = Len(history.future) + 1
      /\ Len(Append(history.ahead, nodes)) = Len(history.ahead) + 1
      /\ Append(history.future, e) # <<>>
  BY <1>2, <1>5, Appended
<1> HIDE DEF e, F
<1>7. /\ history'.past = Front(history.past) /\ history'.future = Append(history.future, e)
      /\ history'.frames = Front(history.frames) /\ history'.ahead = Append(history.ahead, nodes)
      /\ history'.replaced = history.replaced
  BY <1>1
<1>8. history' \in Past
  BY <1>1, <1>2, <1>5, <1>6 DEF Past
<1>9. /\ Len(history'.past) = Len(history'.frames) /\ Len(history'.future) = Len(history'.ahead)
      /\ Len(history'.past) + Len(history'.future) <= HistoryLimit
  <2>1. Len(history.past) \in Nat /\ Len(history.future) \in Nat
    BY <1>2
  <2>2. Len(history'.past) = Len(history.past) - 1 /\ Len(history'.future) = Len(history.future) + 1
    BY <1>5, <1>6, <1>7
  <2>3. Len(history'.past) + Len(history'.future) = Len(history.past) + Len(history.future)
    <3>1. \A a, b \in Nat : (a - 1) + (b + 1) = a + b /\ (a + 1) + (b - 1) = a + b
      OBVIOUS
    <3> QED BY <2>1, <2>2, <3>1, Zenon
  <2> QED BY <2>3, <1>2, <1>5, <1>6, <1>7
<1>10. ~NothingDone'
  BY <1>6, <1>7 DEF NothingDone
<1>11. nodes' \in Layouts /\ DOMAIN nodes' = DOMAIN nodes
  BY <1>1, <1>2, <1>5, PatchIsLayout
<1>12. ASSUME ~history.replaced
       PROVE  /\ nodes' = F /\ Steady(nodes, nodes')
              /\ Linked(history'.past, history'.frames, nodes', FALSE)
              /\ Linked(history'.future, history'.ahead, nodes', TRUE)
  <2>1. /\ Linked(history.past, history.frames, nodes, FALSE)
        /\ Linked(history.future, history.ahead, nodes, TRUE)
    BY <1>12, <1>3 DEF DiagramInv, Chain
  <2>2. Joins(e, F, nodes, FALSE) /\ Linked(Front(history.past), Front(history.frames), F, FALSE)
    BY <2>1, <1>1, <1>2, LinkedEnd DEF e, F
  <2>3. Leads(e, F, nodes) /\ Joins(e, nodes, F, TRUE)
    BY <2>2 DEF Joins
  <2>4. nodes' = F
    BY <2>3, <1>1, <1>2, <1>5, PatchBack
  <2>5. Steady(nodes, F)
    BY <2>3 DEF Leads, Steady
  <2>6. Linked(Append(history.future, e), Append(history.ahead, nodes), F, TRUE)
    BY <2>1, <2>3, <1>2, <1>5, LinkedGrows
  <2> QED BY <2>2, <2>4, <2>5, <2>6, <1>7
<1>13. gesture' = None /\ drag' \subseteq Table /\ UNCHANGED <<view, initial, stored>>
  BY <1>1, <1>3
<1>14. DiagramInv'
  BY <1>1, <1>3, <1>4, <1>7, <1>8, <1>9, <1>10, <1>11, <1>12, <1>13, FrameStep
<1>15. PinStep
  BY <1>7, <1>12 DEF PinStep, Steady
<1> QED BY <1>12, <1>14, <1>15 DEF F

LEMMA RedoKeeps ==
  ASSUME DiagramInv, Redo
  PROVE  /\ DiagramInv' /\ PinStep
         /\ ~history.replaced => nodes' = Last(history.ahead)
<1> DEFINE e == Last(history.future)
           F == Last(history.ahead)
<1>1. /\ Free /\ history.future # <<>> /\ Revise /\ nodes' = Patched(e, "after") /\ Keep(nodes')
      /\ history' = [past |-> Append(history.past, e), future |-> Front(history.future),
                     frames |-> Append(history.frames, nodes), ahead |-> Front(history.ahead),
                     replaced |-> history.replaced]
      /\ UNCHANGED <<view, initial, drag, gesture, stored>>
  BY DEF Redo
<1>2. /\ Shapes /\ history \in Past
      /\ history.past \in Seq(Changes) /\ history.future \in Seq(Changes)
      /\ history.frames \in Seq(Layouts) /\ history.ahead \in Seq(Layouts)
      /\ history.replaced \in BOOLEAN
      /\ Len(history.past) = Len(history.frames) /\ Len(history.future) = Len(history.ahead)
      /\ Len(history.past) + Len(history.future) <= HistoryLimit
      /\ nodes \in Layouts
  BY HistoryFacts
<1>3. gesture = None /\ Laid /\ prior.fitted /\ Base = nodes /\ drag \subseteq Table
  BY <1>1, <1>2 DEF DiagramInv, Laying, Free, Editable, Base, Shapes
<1>4. Asked' /\ (auto' # None => auto' \in [targets : SUBSET Table, before : Layouts, fresh : BOOLEAN])
  BY <1>1, <1>2, Revised
<1>5. e \in Changes /\ F \in Layouts
      /\ Front(history.future) \in Seq(Changes) /\ Front(history.ahead) \in Seq(Layouts)
      /\ Len(Front(history.future)) = Len(history.future) - 1
      /\ Len(Front(history.ahead)) = Len(history.future) - 1
  BY <1>1, <1>2, LastFront
<1>6. Append(history.past, e) \in Seq(Changes) /\ Append(history.frames, nodes) \in Seq(Layouts)
      /\ Len(Append(history.past, e)) = Len(history.past) + 1
      /\ Len(Append(history.frames, nodes)) = Len(history.frames) + 1
      /\ Append(history.past, e) # <<>>
  BY <1>2, <1>5, Appended
<1> HIDE DEF e, F
<1>7. /\ history'.past = Append(history.past, e) /\ history'.future = Front(history.future)
      /\ history'.frames = Append(history.frames, nodes) /\ history'.ahead = Front(history.ahead)
      /\ history'.replaced = history.replaced
  BY <1>1
<1>8. history' \in Past
  BY <1>1, <1>2, <1>5, <1>6 DEF Past
<1>9. /\ Len(history'.past) = Len(history'.frames) /\ Len(history'.future) = Len(history'.ahead)
      /\ Len(history'.past) + Len(history'.future) <= HistoryLimit
  <2>1. Len(history.past) \in Nat /\ Len(history.future) \in Nat
    BY <1>2
  <2>2. Len(history'.past) = Len(history.past) + 1 /\ Len(history'.future) = Len(history.future) - 1
    BY <1>5, <1>6, <1>7
  <2>3. Len(history'.past) + Len(history'.future) = Len(history.past) + Len(history.future)
    <3>1. \A a, b \in Nat : (a - 1) + (b + 1) = a + b /\ (a + 1) + (b - 1) = a + b
      OBVIOUS
    <3> QED BY <2>1, <2>2, <3>1, Zenon
  <2> QED BY <2>3, <1>2, <1>5, <1>6, <1>7
<1>10. ~NothingDone'
  BY <1>6, <1>7 DEF NothingDone
<1>11. nodes' \in Layouts /\ DOMAIN nodes' = DOMAIN nodes
  BY <1>1, <1>2, <1>5, PatchIsLayout
<1>12. ASSUME ~history.replaced
       PROVE  /\ nodes' = F /\ Steady(nodes, nodes')
              /\ Linked(history'.past, history'.frames, nodes', FALSE)
              /\ Linked(history'.future, history'.ahead, nodes', TRUE)
  <2>1. /\ Linked(history.past, history.frames, nodes, FALSE)
        /\ Linked(history.future, history.ahead, nodes, TRUE)
    BY <1>12, <1>3 DEF DiagramInv, Chain
  <2>2. Joins(e, F, nodes, TRUE) /\ Linked(Front(history.future), Front(history.ahead), F, TRUE)
    BY <2>1, <1>1, <1>2, LinkedEnd DEF e, F
  <2>3. Leads(e, nodes, F) /\ Joins(e, nodes, F, FALSE)
    BY <2>2 DEF Joins
  <2>4. nodes' = F
    BY <2>3, <1>1, <1>2, <1>5, PatchOn
  <2>5. Steady(nodes, F)
    BY <2>3 DEF Leads
  <2>6. Linked(Append(history.past, e), Append(history.frames, nodes), F, FALSE)
    BY <2>1, <2>3, <1>2, <1>5, LinkedGrows
  <2> QED BY <2>2, <2>4, <2>5, <2>6, <1>7
<1>13. gesture' = None /\ drag' \subseteq Table /\ UNCHANGED <<view, initial, stored>>
  BY <1>1, <1>3
<1>14. DiagramInv'
  BY <1>1, <1>3, <1>4, <1>7, <1>8, <1>9, <1>10, <1>11, <1>12, <1>13, FrameStep
<1>15. PinStep
  BY <1>7, <1>12 DEF PinStep, Steady
<1> QED BY <1>12, <1>14, <1>15 DEF F

-----------------------------------------------------------------------------
(* The worker answers                                                      *)

LEMMA LinkedEmpty ==
  ASSUME Shapes, NothingDone, NEW B
  PROVE  /\ Linked(history.past, history.frames, B, FALSE)
         /\ Linked(history.future, history.ahead, B, TRUE)
<1>1. Len(history.past) = 0 /\ Len(history.future) = 0
  BY DEF NothingDone
<1>2. Len(history.frames) = Len(history.past) /\ Len(history.ahead) = Len(history.future)
  BY DEF Shapes
<1> QED BY <1>1, <1>2 DEF Linked

LEMMA AutoAnswersKeeps ==
  ASSUME DiagramInv, AutoAnswers
  PROVE  DiagramInv' /\ PinStep
<1>1. /\ auto # None /\ auto' = None /\ UNCHANGED <<view, initial, drag, gesture, stored>>
      /\ Asked' /\ drag' \subseteq drag
  BY DEF AutoAnswers, Asked
<1>2. /\ Shapes /\ nodes \in Layouts /\ drag \subseteq Table
      /\ auto \in [targets : SUBSET Table, before : Layouts, fresh : BOOLEAN]
      /\ feedback.phase \in {"idle", "running", "success", "error"}
  BY <1>1 DEF DiagramInv, Shapes
<1>3. CASE ~auto.fresh
  <2>1. UNCHANGED <<nodes, history, cache, queue, feedback>>
    BY <1>3 DEF AutoAnswers
  <2>2. DiagramInv'
    BY <1>1, <1>2, <2>1, SameFrame
  <2> QED BY <2>1, <2>2 DEF PinStep
<1>4. CASE auto.fresh
  <2> DEFINE next == [t \in DOMAIN nodes |->
                        IF t \in auto.targets THEN [nodes[t] EXCEPT !.at = "auto"] ELSE nodes[t]]
  <2>1. nodes' = next /\ Keep(next) /\ Record(auto.before, next)
    BY <1>4 DEF AutoAnswers
  <2>2. nodes \in [DOMAIN nodes -> Spot] /\ DOMAIN nodes \subseteq Table
    BY <1>2, LayoutFacts
  <2>3. ASSUME NEW t \in DOMAIN nodes
        PROVE  /\ next[t] \in Spot /\ next[t].pinned = nodes[t].pinned
               /\ t \notin auto.targets => next[t] = nodes[t]
    <3>1. nodes[t] \in Spot
      BY <2>2
    <3> QED BY <3>1 DEF Spot, Place
  <2>4. next \in [DOMAIN nodes -> Spot]
    BY <2>3
  <2>5. next \in Layouts /\ DOMAIN next = DOMAIN nodes
    BY <2>2, <2>4, IsLayout
  <2> HIDE DEF next
  <2>6. /\ ready /\ gesture = None /\ DOMAIN auto.before = Here
        /\ ~history.replaced =>
             /\ Agree(auto.before, nodes) /\ \A t \in auto.targets \cap DOMAIN nodes : ~nodes[t].pinned
             /\ ~NothingDone => auto.before = nodes
    BY <1>1, <1>4 DEF DiagramInv, Asked
  <2>7. Laid /\ prior.fitted /\ DOMAIN nodes = Here /\ Base = nodes
    BY <2>6 DEF DiagramInv, Laying, Base
  <2>8. PICK A : A = auto.before
    OBVIOUS
  <2>9. PICK N : N = next
    OBVIOUS
  <2>10. A \in Layouts /\ N \in Layouts /\ DOMAIN A = DOMAIN N
    BY <1>2, <2>5, <2>6, <2>7, <2>8, <2>9
  <2>11. /\ history' \in Past
         /\ Len(history'.past) = Len(history'.frames) /\ Len(history'.future) = Len(history'.ahead)
         /\ Len(history'.past) + Len(history'.future) <= HistoryLimit
         /\ history'.replaced = history.replaced
         /\ NothingDone' => NothingDone /\ A = N
         /\ (/\ Steady(A, N) /\ Linked(history.past, history.frames, A, FALSE)
             /\ Linked(history.future, history.ahead, A, TRUE)) =>
              /\ Linked(history'.past, history'.frames, N, FALSE)
              /\ Linked(history'.future, history'.ahead, N, TRUE)
    <3>1. Record(A, N)
      BY <2>1, <2>8, <2>9
    <3> QED BY <1>2, <2>10, <3>1, Recorded
  <2>12. ASSUME ~history.replaced
         PROVE  /\ Agree(nodes, N) /\ Steady(A, N)
                /\ Linked(history.past, history.frames, A, FALSE)
                /\ Linked(history.future, history.ahead, A, TRUE)
    <3>1. Agree(nodes, N)
      BY <2>3, <2>5, <2>6, <2>9, <2>12 DEF Agree
    <3>2. Steady(A, N)
      BY <3>1, <2>6, <2>8, <2>10, <2>12, <1>2, AgreeFacts
    <3>3. CASE NothingDone
      BY <3>1, <3>2, <3>3, <1>2, LinkedEmpty
    <3>4. CASE ~NothingDone
      <4>1. A = Base
        BY <3>4, <2>6, <2>7, <2>8, <2>12
      <4> QED BY <4>1, <3>1, <3>2, <2>12 DEF DiagramInv, Chain
    <3> QED BY <3>3, <3>4
  <2>13. nodes' \in Layouts /\ DOMAIN nodes' = DOMAIN nodes /\ nodes' = N /\ Keep(nodes')
         /\ gesture' = None /\ drag' \subseteq Table /\ UNCHANGED <<view, initial, stored>>
    BY <1>1, <1>2, <2>1, <2>5, <2>6, <2>9
  <2>14. DiagramInv'
    BY <1>1, <2>7, <2>11, <2>12, <2>13, FrameStep
  <2>15. PinStep
    BY <2>11, <2>12, <2>13 DEF PinStep, Agree
  <2> QED BY <2>14, <2>15
<1> QED BY <1>3, <1>4

LEMMA ArrangedFacts ==
  ASSUME NEW job, job \in [nodes : Layouts, kept : SUBSET Table]
  PROVE  /\ Arranged(job) \in Layouts /\ DOMAIN Arranged(job) = DOMAIN job.nodes
         /\ Agree(job.nodes, Arranged(job))
<1> DEFINE J == job.nodes
<1>1. J \in [DOMAIN J -> Spot] /\ DOMAIN J \subseteq Table
  BY LayoutFacts
<1>2. ASSUME NEW t \in DOMAIN J
      PROVE  /\ Arranged(job)[t] \in Spot /\ Arranged(job)[t].pinned = J[t].pinned
             /\ J[t].pinned => Arranged(job)[t].at = J[t].at
  <2>1. J[t] \in Spot
    BY <1>1
  <2> QED BY <2>1 DEF Spot, Place, Arranged
<1>3. Arranged(job) \in [DOMAIN J -> Spot] /\ DOMAIN Arranged(job) = DOMAIN J
  BY <1>2 DEF Arranged
<1> QED BY <1>1, <1>2, <1>3, IsLayout DEF Agree

LEMMA InitialAnswersKeeps ==
  ASSUME DiagramInv, InitialAnswers
  PROVE  DiagramInv' /\ PinStep
<1>1. PICK N : N = Arranged(initial)
  OBVIOUS
<1>2. /\ initial # None /\ nodes' = N /\ initial' = None /\ fitting' = TRUE /\ Save(N)
      /\ history' = [history EXCEPT !.replaced = @ \/ ~NothingDone]
      /\ UNCHANGED <<scope, members, loaded, failed, ready, prior, auto, drag, gesture, stored, spent>>
  BY <1>1 DEF InitialAnswers
<1>3. /\ Shapes /\ history \in Past /\ nodes \in Layouts /\ Queued
      /\ initial \in [nodes : Layouts, kept : SUBSET Table] /\ initial.nodes \in Layouts
      /\ feedback.phase \in {"idle", "running", "success", "error"}
      /\ gesture \in {None} \cup Layouts
      /\ (auto # None => auto \in [targets : SUBSET Table, before : Layouts, fresh : BOOLEAN])
  BY <1>2 DEF DiagramInv, Shapes
<1>4. N \in Layouts /\ DOMAIN N = DOMAIN initial.nodes /\ Agree(initial.nodes, N)
  BY <1>1, <1>3, ArrangedFacts
<1>5. /\ Laid /\ DOMAIN nodes = Here /\ prior.scope = <<scope, loaded>> /\ DOMAIN N = Here
      /\ (~history.replaced /\ NothingDone) => Agree(initial.nodes, nodes)
  BY <1>2, <1>4 DEF DiagramInv, Laying, Pending
<1>6. /\ Here' = Here /\ Laid' = Laid /\ Persistent' = Persistent
  BY <1>2 DEF Here, Laid, Persistent
<1>7. /\ history' \in Past /\ history'.past = history.past /\ history'.future = history.future
      /\ history'.frames = history.frames /\ history'.ahead = history.ahead
      /\ history'.replaced = (history.replaced \/ ~NothingDone)
  <2>1. (history.replaced \/ ~NothingDone) \in BOOLEAN
    OBVIOUS
  <2> QED BY <1>2, <1>3, <2>1 DEF Past
<1>8. NothingDone' = NothingDone
  BY <1>7 DEF NothingDone
<1>9. ~history'.replaced => ~history.replaced /\ NothingDone /\ Agree(nodes, N)
  BY <1>3, <1>4, <1>5, <1>7, AgreeFacts
<1>10. Writes(N) /\ feedback'.phase \in {"idle", "running", "success", "error"}
  BY <1>2, <1>3, <1>5, SaveWrites
<1>11. /\ cache' \in [Key -> {None} \cup Layouts] /\ queue' \in Seq(Write) /\ Queued'
       /\ Persistent => cache'[scope.key] = N
       /\ \A k \in Key : cache'[k] \in {cache[k], N}
       /\ \A i \in DOMAIN queue' :
            queue'[i].layout = N \/ \E j \in DOMAIN queue : queue'[i].layout = queue[j].layout
  <2>1. stored' = stored /\ failed' = failed
    BY <1>2
  <2> QED BY <1>3, <1>4, <1>10, <2>1, WritesKeep
<1>12. Shapes'
  BY <1>2, <1>3, <1>4, <1>7, <1>10, <1>11 DEF Shapes
<1>13. Laying'
  BY <1>2, <1>5, <1>6 DEF DiagramInv, Laying
<1>14. Untouched'
  <2>1. SUFFICES ASSUME ~prior.fitted PROVE Untouched'
    BY <1>2 DEF Untouched
  <2>2. /\ NothingDone /\ gesture = None /\ drag = {} /\ Loose(initial.nodes)
        /\ \A k \in Key : (cache[k] # None => Loose(cache[k])) /\ (stored[k] # None => Loose(stored[k]))
        /\ \A i \in DOMAIN queue : Loose(queue[i].layout)
    BY <2>1, <1>2 DEF DiagramInv, Untouched
  <2>3. Loose(N)
    BY <2>2, <1>4 DEF Loose, Agree
  <2>4. /\ \A k \in Key : cache'[k] # None => Loose(cache'[k])
        /\ \A i \in DOMAIN queue' : Loose(queue'[i].layout)
    BY <2>2, <2>3, <1>11
  <2>5. /\ \A k \in Key : (cache'[k] # None => Loose(cache[k])') /\ (stored'[k] # None => Loose(stored[k])')
        /\ \A i \in DOMAIN queue' : Loose(queue[i].layout)'
        /\ Loose(nodes)'
    BY <2>2, <2>3, <2>4, <1>2 DEF Loose
  <2> QED BY <2>2, <2>5, <1>2, <1>8 DEF Untouched
<1>15. Pending'
  BY <1>2 DEF Pending
<1>16. Asked'
  <2>1. SUFFICES ASSUME auto # None, auto.fresh
                 PROVE  /\ ready /\ gesture = None /\ DOMAIN auto.before = Here
                        /\ ~history'.replaced =>
                             /\ Agree(auto.before, N)
                             /\ \A t \in auto.targets \cap DOMAIN N : ~N[t].pinned
                             /\ ~NothingDone => auto.before = N
    <3>1. /\ auto' = auto /\ ready' = ready /\ gesture' = gesture /\ nodes' = N
      BY <1>2
    <3>2. Agree(auto.before, N) => Agree(auto.before, nodes)'
      BY <3>1 DEF Agree
    <3> QED BY <3>1, <3>2, <1>6, <1>8 DEF Asked
  <2>2. /\ ready /\ gesture = None /\ DOMAIN auto.before = Here /\ auto.before \in Layouts
        /\ ~history.replaced =>
             /\ Agree(auto.before, nodes) /\ \A t \in auto.targets \cap DOMAIN nodes : ~nodes[t].pinned
    BY <2>1, <1>3 DEF DiagramInv, Asked
  <2>3. ~history'.replaced => \A t \in auto.targets \cap DOMAIN N : ~N[t].pinned
    BY <2>2, <1>9 DEF Agree
  <2>4. ~history'.replaced => Agree(auto.before, N)
    BY <2>2, <1>3, <1>4, <1>9, AgreeFacts
  <2> QED BY <2>2, <2>3, <2>4, <1>9
<1>17. Gesturing'
  <2>1. SUFFICES ASSUME gesture # None
                 PROVE  DOMAIN gesture = Here /\ (~history'.replaced => Agree(gesture, N))
    <3>1. Agree(gesture, N) => Agree(gesture, nodes)'
      BY <1>2 DEF Agree
    <3> QED BY <3>1, <1>2, <1>6 DEF Gesturing
  <2>2. gesture \in Layouts /\ DOMAIN gesture = Here /\ (~history.replaced => Agree(gesture, nodes))
    BY <2>1, <1>3 DEF DiagramInv, Gesturing
  <2> QED BY <2>2, <1>3, <1>4, <1>9, AgreeFacts
<1>18. Chain'
  <2>1. PICK B : B = Base'
    OBVIOUS
  <2>2. ~history'.replaced => /\ Linked(history.past, history.frames, B, FALSE)
                              /\ Linked(history.future, history.ahead, B, TRUE)
    BY <1>3, <1>9, LinkedEmpty
  <2> QED BY <2>1, <2>2, <1>7 DEF Chain
<1>19. Kept'
  BY <1>2, <1>6, <1>11 DEF Kept
<1>20. PinStep
  BY <1>2, <1>9 DEF PinStep, Agree
<1> QED BY <1>11, <1>12, <1>13, <1>14, <1>15, <1>16, <1>17, <1>18, <1>19, <1>20 DEF DiagramInv

LEMMA DrawnKeeps ==
  ASSUME DiagramInv, InitialFails \/ Fitted
  PROVE  DiagramInv' /\ PinStep
<1>1. /\ UNCHANGED <<scope, members, loaded, failed, nodes, auto, drag, gesture, history, cache, queue,
                     stored>>
      /\ initial' \in {initial, None}
      /\ fitting' \in BOOLEAN /\ Laid
      /\ ready' \in BOOLEAN /\ (ready => ready') /\ (ready' => prior'.fitted)
      /\ prior'.scope = prior.scope /\ prior' \in [scope : {prior.scope}, fitted : BOOLEAN]
      /\ (prior.fitted => prior'.fitted)
      /\ (feedback' = feedback \/ Say("error", "restore"))
  <2>1. CASE InitialFails
    BY <2>1 DEF InitialFails, DiagramInv, Shapes, Laying
  <2>2. CASE Fitted
    <3>1. prior' = [prior EXCEPT !.fitted = TRUE] /\ fitting /\ fitting' = FALSE /\ ready' = TRUE
          /\ initial' = initial /\ feedback' = feedback
          /\ UNCHANGED <<scope, members, loaded, failed, nodes, auto, drag, gesture, history, cache,
                         queue, stored>>
      BY <2>2 DEF Fitted
    <3>2. prior \in [scope : {prior.scope}, fitted : BOOLEAN]
      BY DEF DiagramInv, Shapes
    <3>3. prior'.fitted = TRUE /\ prior'.scope = prior.scope
          /\ prior' \in [scope : {prior.scope}, fitted : BOOLEAN]
      BY <3>1, <3>2
    <3>4. Laid
      BY <3>1 DEF DiagramInv, Laying
    <3> QED BY <3>1, <3>3, <3>4
  <2> QED BY <2>1, <2>2
<1>2. /\ Here' = Here /\ Laid' = Laid /\ Persistent' = Persistent /\ Base' = Base
      /\ NothingDone' = NothingDone
  BY <1>1 DEF Here, Laid, Persistent, Base, NothingDone
<1>3. Shapes'
  <2>1. Shapes /\ feedback'.phase \in {"idle", "running", "success", "error"}
    <3>1. Say("error", "restore") => feedback'.phase = "error"
      BY DEF Say
    <3>2. Shapes /\ feedback.phase \in {"idle", "running", "success", "error"}
      BY DEF DiagramInv, Shapes
    <3> QED BY <3>1, <3>2, <1>1
  <2>2. initial' # None => initial' \in [nodes : Layouts, kept : SUBSET Table]
    BY <1>1, <2>1 DEF Shapes
  <2>3. prior' \in [scope : {prior'.scope}, fitted : BOOLEAN]
    BY <1>1
  <2> QED BY <1>1, <2>1, <2>2, <2>3 DEF Shapes
<1>4. Laying'
  BY <1>1, <1>2 DEF DiagramInv, Laying
<1>6. Untouched'
  <2>1. CASE prior'.fitted
    BY <2>1 DEF Untouched
  <2>2. CASE ~prior'.fitted
    <3>1. ~prior.fitted
      BY <2>2, <1>1
    <3> QED BY <3>1, <1>1, <1>2 DEF DiagramInv, Untouched, Loose
  <2> QED BY <2>1, <2>2
<1>7. Pending' /\ Gesturing'
  BY <1>1, <1>2 DEF DiagramInv, Pending, Gesturing, Agree
<1>8. Asked'
  BY <1>1, <1>2 DEF DiagramInv, Asked, Agree
<1>9. Chain' /\ Kept'
  BY <1>1, <1>2 DEF DiagramInv, Chain, Kept
<1>10. Queued'
  BY <1>1 DEF DiagramInv, Queued, LastFor
<1>5. PinStep
  BY <1>1 DEF PinStep
<1> QED BY <1>3, <1>4, <1>5, <1>6, <1>7, <1>8, <1>9, <1>10 DEF DiagramInv

-----------------------------------------------------------------------------
(* The layout effect                                                       *)

LEMMA Restored ==
  ASSUME NEW A \in Layouts, NEW T \in SUBSET Table, T \subseteq DOMAIN A,
         NEW N, N = [t \in T |-> A[t]]
  PROVE  /\ N \in Layouts /\ DOMAIN N = T
         /\ Loose(A) => Loose(N)
         /\ T = DOMAIN A => N = A
<1>1. A \in [DOMAIN A -> Spot]
  BY LayoutFacts
<1>2. N \in [T -> Spot]
  BY <1>1
<1> QED BY <1>1, <1>2, IsLayout DEF Loose

LEMMA EffectGives ==
  ASSUME Shapes, NEW s \in Scope, NEW m \in [Key -> SUBSET Table], NEW l \in BOOLEAN,
         NEW again \in BOOLEAN, Effect(s, m, l, again, nodes)
  PROVE  /\ nodes' \in Layouts /\ fitting' \in BOOLEAN
         /\ prior' \in [scope : {prior'.scope}, fitted : BOOLEAN] /\ prior'.fitted = prior.fitted
         /\ initial' # None => /\ initial' \in [nodes : Layouts, kept : SUBSET Table]
                               /\ initial'.nodes = nodes'
         /\ ~(s.temporary \/ l) => /\ UNCHANGED <<nodes, prior>>
                                   /\ initial' = None /\ fitting' = FALSE
         /\ (s.temporary \/ l) => prior'.scope = <<s, l>> /\ DOMAIN nodes' = Shown(s, m)
         /\ (/\ s.temporary \/ l
             /\ again /\ prior.fitted /\ Shown(s, m) \subseteq DOMAIN nodes) =>
              nodes' = [t \in Shown(s, m) |-> nodes[t]] /\ initial' = None
         /\ (/\ ~s.temporary /\ l /\ ~again
             /\ cache[s.key] \in Layouts /\ DOMAIN cache[s.key] = Shown(s, m)) =>
              nodes' = cache[s.key]
         /\ (/\ Loose(nodes)
             /\ \A k \in Key : (cache[k] # None => Loose(cache[k])) /\ (stored[k] # None => Loose(stored[k]))) =>
              Loose(nodes')
<1>1. PICK T : T = Shown(s, m)
  OBVIOUS
<1>2. PICK positions : positions = Stored(s.key, l)
  OBVIOUS
<1>3. PICK inherited : inherited = IF positions # None THEN positions ELSE Known(All, l)
  OBVIOUS
<1>4. PICK placed : placed = [t \in T |-> IF /\ inherited # None /\ t \in DOMAIN inherited
                                             /\ (s.temporary => inherited[t].pinned)
                                          THEN inherited[t] ELSE Unplaced]
  OBVIOUS
<1>5. /\ nodes \in Layouts /\ prior \in [scope : {prior.scope}, fitted : BOOLEAN]
      /\ cache \in [Key -> {None} \cup Layouts] /\ stored \in [Key -> {None} \cup Layouts]
  BY DEF Shapes
<1>6. s.key \in Key /\ All \in Key /\ s.temporary \in BOOLEAN
  BY DEF Scope, Key
<1>7. T \in SUBSET Table
  BY <1>1, <1>6 DEF Shown
<1>8. positions \in {None} \cup Layouts /\ inherited \in {None} \cup Layouts
  BY <1>2, <1>3, <1>5, <1>6 DEF Stored, Known
<1> DEFINE Seen == \A k \in Key : /\ cache[k] # None => Loose(cache[k])
                                  /\ stored[k] # None => Loose(stored[k])
<1>9. Seen => (positions # None => Loose(positions)) /\ (inherited # None => Loose(inherited))
  BY <1>2, <1>3, <1>6 DEF Stored, Known
<1>10. placed \in Layouts /\ DOMAIN placed = T /\ (Seen => Loose(placed))
  <2>1. Unplaced \in Spot /\ ~Unplaced.pinned
    BY DEF Unplaced, Spot, Place
  <2>2. inherited # None => inherited \in [DOMAIN inherited -> Spot]
    BY <1>8, LayoutFacts
  <2>3. placed \in [T -> Spot]
    BY <1>4, <2>1, <2>2
  <2>4. placed \in Layouts /\ DOMAIN placed = T
    BY <1>7, <2>3, IsLayout
  <2>5. Seen => Loose(placed)
    BY <1>4, <1>9, <2>1, <2>4 DEF Loose
  <2> QED BY <2>4, <2>5
<1> HIDE DEF Seen
<1>11. CASE ~s.temporary /\ ~l
  <2>1. UNCHANGED <<nodes, prior>> /\ initial' = None /\ fitting' = FALSE
    BY <1>11 DEF Effect
  <2> QED BY <2>1, <1>5, <1>11
<1>12. CASE s.temporary \/ l
  <2>1. prior' = [prior EXCEPT !.scope = <<s, l>>]
    BY <1>12, <1>6 DEF Effect
  <2>2. prior' \in [scope : {prior'.scope}, fitted : BOOLEAN] /\ prior'.fitted = prior.fitted
        /\ prior'.scope = <<s, l>>
    BY <2>1, <1>5
  <2>3. \/ /\ again /\ prior.fitted /\ T \subseteq DOMAIN nodes
           /\ nodes' = [t \in T |-> nodes[t]] /\ initial' = None /\ fitting' = TRUE
        \/ /\ ~(again /\ prior.fitted /\ T \subseteq DOMAIN nodes)
           /\ ~s.temporary /\ Complete(positions, T)
           /\ nodes' = [t \in T |-> positions[t]] /\ initial' = None /\ fitting' = TRUE
        \/ /\ ~(again /\ prior.fitted /\ T \subseteq DOMAIN nodes)
           /\ ~(~s.temporary /\ Complete(positions, T))
           /\ nodes' = placed
           /\ initial' = [nodes |-> placed,
                          kept |-> IF s.temporary \/ positions = None THEN {}
                                   ELSE T \cap DOMAIN positions]
           /\ fitting' = FALSE
    BY <1>12, <1>6, <1>1, <1>2, <1>3, <1>4 DEF Effect
  <2>4. CASE /\ again /\ prior.fitted /\ T \subseteq DOMAIN nodes
             /\ nodes' = [t \in T |-> nodes[t]] /\ initial' = None /\ fitting' = TRUE
    <3>1. nodes' \in Layouts /\ DOMAIN nodes' = T /\ (Loose(nodes) => Loose(nodes'))
      BY <2>4, <1>5, <1>7, Restored
    <3> QED BY <2>2, <2>4, <3>1, <1>1, <1>12
  <2>5. CASE /\ ~(again /\ prior.fitted /\ T \subseteq DOMAIN nodes)
             /\ ~s.temporary /\ Complete(positions, T)
             /\ nodes' = [t \in T |-> positions[t]] /\ initial' = None /\ fitting' = TRUE
    <3>1. positions \in Layouts /\ positions # None /\ T \subseteq DOMAIN positions
      BY <2>5, <1>8 DEF Complete
    <3>2. nodes' \in Layouts /\ DOMAIN nodes' = T /\ (Loose(positions) => Loose(nodes'))
          /\ (T = DOMAIN positions => nodes' = positions)
      BY <2>5, <3>1, <1>7, Restored
    <3>3. cache[s.key] \in Layouts => positions = cache[s.key]
      BY <1>2, LayoutFacts DEF Stored
    <3>4. (cache[s.key] \in Layouts /\ DOMAIN cache[s.key] = T) => nodes' = cache[s.key]
      BY <3>2, <3>3
    <3> QED BY <2>2, <2>5, <3>1, <3>2, <3>4, <1>1, <1>9, <1>12 DEF Seen
  <2>6. CASE /\ ~(again /\ prior.fitted /\ T \subseteq DOMAIN nodes)
             /\ ~(~s.temporary /\ Complete(positions, T))
             /\ nodes' = placed
             /\ initial' = [nodes |-> placed,
                            kept |-> IF s.temporary \/ positions = None THEN {}
                                     ELSE T \cap DOMAIN positions]
             /\ fitting' = FALSE
    <3>1. initial' \in [nodes : Layouts, kept : SUBSET Table] /\ initial'.nodes = nodes'
      <4>1. (IF s.temporary \/ positions = None THEN {} ELSE T \cap DOMAIN positions) \in SUBSET Table
        BY <1>7
      <4> QED BY <4>1, <2>6, <1>10
    <3>2. cache[s.key] \in Layouts => positions = cache[s.key] /\ positions # None
      BY <1>2, LayoutFacts DEF Stored
    <3>3. ~(/\ ~s.temporary /\ l /\ ~again
            /\ cache[s.key] \in Layouts /\ DOMAIN cache[s.key] = T)
      BY <2>6, <3>2 DEF Complete
    <3> QED BY <2>2, <2>6, <3>1, <3>3, <1>1, <1>10, <1>12 DEF Seen
  <2> QED BY <2>3, <2>4, <2>5, <2>6
<1> QED BY <1>6, <1>11, <1>12

LEMMA PresentKeeps ==
  ASSUME DiagramInv, NEW s \in Scope, NEW m \in [Key -> SUBSET Table], NEW l \in BOOLEAN,
         Present(s, m, l), drag = {} \/ s.temporary \/ l
  PROVE  DiagramInv' /\ PinStep
<1> DEFINE T == Shown(s, m)
           again == prior.scope = <<s, l>>
           unmoved == s = scope /\ T = Here /\ l = loaded
<1>1. /\ scope' = s /\ members' = m /\ loaded' = l /\ ready' = FALSE
      /\ Effect(s, m, l, again, nodes) /\ Revise
      /\ UNCHANGED <<drag, cache, queue, stored, failed, feedback>>
      /\ unmoved => UNCHANGED <<history, gesture>>
      /\ ~unmoved => history' = Emptied /\ gesture' = None
  BY DEF Present, Here
<1>2. Shapes /\ nodes \in Layouts /\ gesture \in {None} \cup Layouts
  BY DEF DiagramInv, Shapes
<1>3. PICK a \in BOOLEAN : a = again
  OBVIOUS
<1>4. /\ nodes' \in Layouts /\ fitting' \in BOOLEAN
      /\ prior' \in [scope : {prior'.scope}, fitted : BOOLEAN] /\ prior'.fitted = prior.fitted
      /\ initial' # None => /\ initial' \in [nodes : Layouts, kept : SUBSET Table]
                            /\ initial'.nodes = nodes'
      /\ ~(s.temporary \/ l) => /\ UNCHANGED <<nodes, prior>>
                                /\ initial' = None /\ fitting' = FALSE
      /\ (s.temporary \/ l) => prior'.scope = <<s, l>> /\ DOMAIN nodes' = T
      /\ (/\ s.temporary \/ l
          /\ a /\ prior.fitted /\ T \subseteq DOMAIN nodes) =>
           nodes' = [t \in T |-> nodes[t]] /\ initial' = None
      /\ (/\ Loose(nodes)
          /\ \A k \in Key : (cache[k] # None => Loose(cache[k])) /\ (stored[k] # None => Loose(stored[k]))) =>
           Loose(nodes')
  <2>1. Effect(s, m, l, a, nodes)
    BY <1>1, <1>3
  <2> QED BY <1>2, <2>1, EffectGives
<1>5. Asked' /\ (auto' # None => auto' \in [targets : SUBSET Table, before : Layouts, fresh : BOOLEAN])
  BY <1>1, <1>2, Revised
<1>6. Here' = T /\ (Laid' <=> (s.temporary \/ l))
  BY <1>1 DEF Here, Laid
<1>7. ASSUME unmoved, Laid, prior.fitted
      PROVE  nodes' = nodes /\ initial' = None
  <2>1. DOMAIN nodes = T /\ a /\ (s.temporary \/ l)
    BY <1>7, <1>3 DEF DiagramInv, Laying, Laid
  <2>2. nodes' = [t \in T |-> nodes[t]] /\ initial' = None
    BY <2>1, <1>4, <1>7
  <2> QED BY <2>1, <2>2, <1>2, LayoutFacts
<1>8. /\ ~prior.fitted => NothingDone /\ gesture = None /\ drag = {}
      /\ ~Laid => NothingDone /\ gesture = None
  BY DEF DiagramInv, Untouched, Laying
<1>9. /\ history' \in Past
      /\ Len(history'.past) = Len(history'.frames) /\ Len(history'.future) = Len(history'.ahead)
      /\ Len(history'.past) + Len(history'.future) <= HistoryLimit
      /\ (~unmoved => NothingDone') /\ (unmoved => NothingDone' = NothingDone)
  <2>1. CASE unmoved
    BY <2>1, <1>1, <1>2 DEF Shapes, NothingDone
  <2>2. CASE ~unmoved
    <3>1. /\ history'.past = <<>> /\ history'.future = <<>> /\ history'.frames = <<>>
          /\ history'.ahead = <<>> /\ history' = Emptied
      BY <2>2, <1>1 DEF Emptied
    <3>2. Emptied \in Past
      <4>1. <<>> \in Seq(Changes) /\ <<>> \in Seq(Layouts)
        OBVIOUS
      <4> QED BY <4>1 DEF Emptied, Past
    <3>3. Len(<<>>) + Len(<<>>) <= HistoryLimit
      BY SomethingIsUndone
    <3> QED BY <2>2, <3>1, <3>2, <3>3 DEF NothingDone
  <2> QED BY <2>1, <2>2
<1>10. gesture' \in {None} \cup Layouts /\ (gesture' # None => unmoved /\ gesture' = gesture)
  BY <1>1, <1>2
<1> HIDE DEF unmoved
<1>11. Shapes'
  BY <1>1, <1>2, <1>4, <1>5, <1>9, <1>10 DEF Shapes
<1>12. Laying'
  <2>1. Laid' => DOMAIN nodes' = Here' /\ prior'.scope = <<scope', loaded'>>
    BY <1>1, <1>4, <1>6
  <2>2. (fitting' \/ initial' # None) => Laid'
    BY <1>4, <1>6
  <2>3. unmoved => (Laid' <=> Laid)
    BY <1>6 DEF unmoved, Laid
  <2>4. (gesture' # None \/ ~NothingDone') => Laid'
    BY <2>3, <1>8, <1>9, <1>10
  <2>5. drag' # {} => Laid'
    BY <1>1, <1>6
  <2> QED BY <2>1, <2>2, <2>4, <2>5, <1>1 DEF Laying
<1>13. Untouched'
  <2>1. SUFFICES ASSUME ~prior.fitted PROVE Untouched'
    BY <1>4 DEF Untouched
  <2>2. /\ NothingDone /\ gesture = None /\ drag = {} /\ Loose(nodes)
        /\ \A k \in Key : (cache[k] # None => Loose(cache[k])) /\ (stored[k] # None => Loose(stored[k]))
        /\ \A i \in DOMAIN queue : Loose(queue[i].layout)
    BY <2>1 DEF DiagramInv, Untouched
  <2>3. NothingDone' /\ gesture' = None /\ drag' = {} /\ Loose(nodes')
    BY <2>2, <1>1, <1>4, <1>9, <1>10
  <2>4. Loose(nodes)' /\ (initial' # None => Loose(initial.nodes)')
    BY <2>3, <1>4 DEF Loose
  <2>5. /\ \A k \in Key : (cache'[k] # None => Loose(cache[k])') /\ (stored'[k] # None => Loose(stored[k])')
        /\ \A i \in DOMAIN queue' : Loose(queue[i].layout)'
    BY <2>2, <1>1 DEF Loose
  <2> QED BY <2>3, <2>4, <2>5 DEF Untouched
<1>14. Pending'
  <2>1. SUFFICES ASSUME initial' # None
                 PROVE  DOMAIN initial'.nodes = Here' /\ Agree(initial'.nodes, nodes')
    BY DEF Pending, Agree
  <2>2. initial'.nodes = nodes' /\ DOMAIN nodes' = Here'
    BY <2>1, <1>4, <1>6
  <2> QED BY <2>2, <1>4, AgreeFacts
<1>15. Gesturing'
  <2>1. SUFFICES ASSUME gesture' # None PROVE Gesturing'
    BY DEF Gesturing
  <2>2. unmoved /\ gesture' = gesture /\ history' = history /\ Laid /\ prior.fitted /\ Here' = Here
    BY <2>1, <1>1, <1>6, <1>8, <1>10 DEF unmoved
  <2>3. nodes' = nodes
    BY <2>2, <1>7
  <2> QED BY <2>2, <2>3 DEF DiagramInv, Gesturing, Agree
<1>16. Chain'
  <2>1. PICK B : B = Base'
    OBVIOUS
  <2>2. CASE ~unmoved
    <3>1. /\ history'.past = <<>> /\ history'.future = <<>> /\ history'.frames = <<>>
          /\ history'.ahead = <<>>
      BY <2>2, <1>1 DEF Emptied
    <3>2. Linked(<<>>, <<>>, B, FALSE) /\ Linked(<<>>, <<>>, B, TRUE)
      BY LinkedNone
    <3> QED BY <2>1, <3>1, <3>2 DEF Chain
  <2>3. CASE unmoved /\ Laid /\ prior.fitted
    <3>1. nodes' = nodes /\ history' = history /\ gesture' = gesture
      BY <2>3, <1>1, <1>7
    <3> QED BY <3>1 DEF DiagramInv, Chain, Base
  <2>4. CASE unmoved /\ ~(Laid /\ prior.fitted)
    <3>1. NothingDone /\ history' = history
      BY <2>4, <1>1, <1>8
    <3>2. Linked(history.past, history.frames, B, FALSE) /\ Linked(history.future, history.ahead, B, TRUE)
      BY <3>1, <1>2, LinkedEmpty
    <3> QED BY <2>1, <3>1, <3>2 DEF Chain
  <2> QED BY <2>2, <2>3, <2>4
<1>17. Kept'
  <2>1. SUFFICES ASSUME Persistent', gesture' = None, ~NothingDone' PROVE cache'[scope'.key] = nodes'
    BY DEF Kept
  <2>2. unmoved /\ ~NothingDone /\ Laid /\ prior.fitted
    BY <2>1, <1>8, <1>9
  <2>3. nodes' = nodes /\ gesture' = gesture /\ cache' = cache /\ scope' = scope /\ loaded' = loaded
    BY <2>2, <1>1, <1>7 DEF unmoved
  <2> QED BY <2>1, <2>2, <2>3 DEF DiagramInv, Kept, Persistent
<1>18. Queued'
  BY <1>1 DEF DiagramInv, Queued, LastFor
<1>19. PinStep
  <2>1. SUFFICES ASSUME s = scope, l = loaded, DOMAIN nodes' = DOMAIN nodes,
                        NEW t \in DOMAIN nodes, nodes[t].pinned
                 PROVE  nodes'[t].at = nodes[t].at
    BY <1>1 DEF PinStep
  <2>2. CASE ~Laid
    BY <2>1, <2>2, <1>4 DEF Laid
  <2>3. CASE Laid
    <3>1. prior.fitted
      BY <2>1 DEF DiagramInv, Untouched, Loose
    <3>2. a /\ DOMAIN nodes' = T /\ (s.temporary \/ l)
      BY <2>1, <2>3, <1>3, <1>4 DEF DiagramInv, Laying, Laid
    <3> QED BY <2>1, <3>1, <3>2, <1>4
  <2> QED BY <2>2, <2>3
<1> QED BY <1>5, <1>11, <1>12, <1>13, <1>14, <1>15, <1>16, <1>17, <1>18, <1>19 DEF DiagramInv

\* A save ends: the oldest write leaves the queue, and a layout taken over is laid out again.
LEMMA QueueEnds ==
  ASSUME DiagramInv, NEW ok \in BOOLEAN, queue # <<>>, queue' = Tail(queue), cache' = cache,
         stored' = (IF ok THEN [stored EXCEPT ![Head(queue).key] = Head(queue).layout] ELSE stored),
         failed' = (IF ok THEN failed \ {Head(queue).key} ELSE failed \cup {Head(queue).key})
  PROVE  /\ Queued' /\ queue' \in Seq(Write) /\ stored' \in [Key -> {None} \cup Layouts]
         /\ \A i \in DOMAIN queue' : \E j \in DOMAIN queue : queue'[i] = queue[j]
         /\ \A k \in Key : stored'[k] = stored[k] \/ \E j \in DOMAIN queue : stored'[k] = queue[j].layout
<1>1. queue \in Seq(Write) /\ stored \in [Key -> {None} \cup Layouts]
  BY DEF DiagramInv, Shapes
<1>2. PICK n : n = Len(queue)
  OBVIOUS
<1>3. /\ n \in Nat /\ n > 0 /\ DOMAIN queue = 1 .. n
      /\ queue' \in Seq(Write) /\ DOMAIN queue' = 1 .. n - 1
      /\ \A i \in 1 .. n - 1 : queue'[i] = queue[i + 1]
      /\ Head(queue) = queue[1] /\ queue[1] \in Write /\ 1 \in 1 .. n
  BY <1>1, <1>2
<1>4. PICK h : h = queue[1]
  OBVIOUS
<1>5. h.key \in Key /\ h.layout \in Layouts
  BY <1>3, <1>4 DEF Write
<1>6. /\ stored' \in [Key -> {None} \cup Layouts]
      /\ \A k \in Key \ {h.key} : stored'[k] = stored[k]
      /\ stored'[h.key] = IF ok THEN h.layout ELSE stored[h.key]
  BY <1>1, <1>3, <1>4, <1>5
<1>7. /\ \A k \in Key \ {h.key} : k \in failed' <=> k \in failed
      /\ ~ok => h.key \in failed'
  BY <1>3, <1>4
<1>8. Queued'
  <2>1. SUFFICES ASSUME NEW k \in Key, cache[k] # None
                 PROVE  \/ \E i \in DOMAIN queue' : LastFor(k, i)'
                        \/ /\ \A i \in DOMAIN queue' : queue'[i].key # k
                           /\ k \in failed' \/ stored'[k] = cache[k]
    BY DEF Queued
  <2>2. CASE \E i \in DOMAIN queue : LastFor(k, i)
    <3>1. PICK i \in 1 .. n : LastFor(k, i)
      BY <2>2, <1>3
    <3>2. queue[i].key = k /\ queue[i].layout = cache[k] /\ \A j \in 1 .. n : j > i => queue[j].key # k
      BY <3>1, <1>3 DEF LastFor
    <3>3. CASE i = 1
      <4>1. h.key = k /\ h.layout = cache[k]
        BY <3>2, <3>3, <1>4
      <4>2. ASSUME NEW j \in DOMAIN queue' PROVE queue'[j].key # k
        <5>1. j + 1 \in 1 .. n /\ j + 1 > 1 /\ queue'[j] = queue[j + 1]
          BY <4>2, <1>3
        <5> QED BY <5>1, <3>2, <3>3
      <4> QED BY <4>1, <4>2, <1>6, <1>7
    <3>4. CASE i # 1
      <4>1. PICK c : c = i - 1
        OBVIOUS
      <4>2. c \in 1 .. n - 1 /\ c \in DOMAIN queue' /\ queue'[c] = queue[i] /\ c + 1 = i
        BY <3>4, <4>1, <1>3
      <4>3. ASSUME NEW j \in DOMAIN queue', j > c PROVE queue'[j].key # k
        <5>1. j + 1 \in 1 .. n /\ j + 1 > i /\ queue'[j] = queue[j + 1]
          BY <4>2, <4>3, <1>3
        <5> QED BY <5>1, <3>2
      <4>4. LastFor(k, c)'
        BY <4>2, <4>3, <3>2 DEF LastFor
      <4> QED BY <4>2, <4>4
    <3> QED BY <3>3, <3>4
  <2>3. CASE (\A i \in DOMAIN queue : queue[i].key # k) /\ (k \in failed \/ stored[k] = cache[k])
    <3>1. k # h.key
      BY <2>3, <1>3, <1>4
    <3>2. ASSUME NEW j \in DOMAIN queue' PROVE queue'[j].key # k
      <4>1. j + 1 \in 1 .. n /\ queue'[j] = queue[j + 1]
        BY <3>2, <1>3
      <4> QED BY <4>1, <2>3, <1>3
    <3> QED BY <3>1, <3>2, <2>3, <1>6, <1>7
  <2> QED BY <2>1, <2>2, <2>3 DEF DiagramInv, Queued
<1>9. ASSUME NEW i \in DOMAIN queue' PROVE \E j \in DOMAIN queue : queue'[i] = queue[j]
  <2>1. i + 1 \in 1 .. n /\ queue'[i] = queue[i + 1]
    BY <1>9, <1>3
  <2> QED BY <2>1, <1>3
<1>10. ASSUME NEW k \in Key
       PROVE  stored'[k] = stored[k] \/ \E j \in DOMAIN queue : stored'[k] = queue[j].layout
  BY <1>3, <1>4, <1>5, <1>6
<1> QED BY <1>3, <1>6, <1>8, <1>9, <1>10

LEMMA SavedKeeps ==
  ASSUME DiagramInv, NEW ok \in BOOLEAN, Saved(ok)
  PROVE  DiagramInv' /\ PinStep
<1>1. /\ queue # <<>> /\ queue' = Tail(queue)
      /\ stored' = (IF ok THEN [stored EXCEPT ![Head(queue).key] = Head(queue).layout] ELSE stored)
      /\ failed' = (IF ok THEN failed \ {Head(queue).key} ELSE failed \cup {Head(queue).key})
      /\ \/ Effect(scope, members, loaded, prior.scope = <<scope, loaded>>, nodes)
         \/ UNCHANGED <<nodes, prior, initial, fitting>>
      /\ UNCHANGED <<scope, members, loaded, ready, auto, drag, gesture, history, cache, spent>>
  BY DEF Saved
<1>2. /\ Shapes /\ nodes \in Layouts /\ scope \in Scope /\ members \in [Key -> SUBSET Table]
      /\ loaded \in BOOLEAN
      /\ initial # None => initial \in [nodes : Layouts, kept : SUBSET Table]
      /\ prior \in [scope : {prior.scope}, fitted : BOOLEAN] /\ fitting \in BOOLEAN
  BY DEF DiagramInv, Shapes
<1>3. feedback'.phase \in {"idle", "running", "success", "error"}
  <2>1. feedback' = feedback \/ feedback'.phase \in {"success", "error"}
    BY DEF Saved
  <2> QED BY <2>1 DEF DiagramInv, Shapes
<1>4. /\ Queued' /\ queue' \in Seq(Write) /\ stored' \in [Key -> {None} \cup Layouts]
      /\ \A i \in DOMAIN queue' : \E j \in DOMAIN queue : queue'[i] = queue[j]
      /\ \A k \in Key : stored'[k] = stored[k] \/ \E j \in DOMAIN queue : stored'[k] = queue[j].layout
  BY <1>1, QueueEnds
<1>5. Here' = Here /\ (Laid' <=> Laid) /\ (Persistent' <=> Persistent) /\ NothingDone' = NothingDone
  BY <1>1 DEF Here, Laid, Persistent, NothingDone
<1>6. (Laid => DOMAIN nodes = Here /\ prior.scope = <<scope, loaded>>)
      /\ (fitting \/ initial # None => Laid)
  BY DEF DiagramInv, Laying
<1>7. ~prior.fitted =>
        /\ NothingDone /\ gesture = None /\ drag = {}
        /\ Loose(nodes) /\ (initial # None => Loose(initial.nodes))
        /\ \A k \in Key : (cache[k] # None => Loose(cache[k])) /\ (stored[k] # None => Loose(stored[k]))
        /\ \A i \in DOMAIN queue : Loose(queue[i].layout)
  BY DEF DiagramInv, Untouched
<1>8. /\ nodes' \in Layouts /\ fitting' \in BOOLEAN
      /\ prior' \in [scope : {prior'.scope}, fitted : BOOLEAN] /\ prior'.fitted = prior.fitted
      /\ Laid => DOMAIN nodes' = Here /\ prior'.scope = <<scope, loaded>>
      /\ fitting' \/ initial' # None => Laid
      /\ prior.fitted \/ ~Laid => nodes' = nodes
      /\ initial' # None => /\ initial' \in [nodes : Layouts, kept : SUBSET Table]
                            /\ (initial' = initial /\ nodes' = nodes) \/ initial'.nodes = nodes'
      /\ ~prior.fitted => Loose(nodes') /\ (initial' # None => Loose(initial'.nodes))
  <2>1. CASE UNCHANGED <<nodes, prior, initial, fitting>>
    BY <2>1, <1>2, <1>6, <1>7
  <2>2. CASE Effect(scope, members, loaded, prior.scope = <<scope, loaded>>, nodes)
    <3>1. PICK a \in BOOLEAN : a = (prior.scope = <<scope, loaded>>)
      OBVIOUS
    <3>2. /\ nodes' \in Layouts /\ fitting' \in BOOLEAN
          /\ prior' \in [scope : {prior'.scope}, fitted : BOOLEAN] /\ prior'.fitted = prior.fitted
          /\ initial' # None => /\ initial' \in [nodes : Layouts, kept : SUBSET Table]
                                /\ initial'.nodes = nodes'
          /\ ~(scope.temporary \/ loaded) => /\ UNCHANGED <<nodes, prior>>
                                             /\ initial' = None /\ fitting' = FALSE
          /\ (scope.temporary \/ loaded) =>
               prior'.scope = <<scope, loaded>> /\ DOMAIN nodes' = Shown(scope, members)
          /\ (/\ scope.temporary \/ loaded
              /\ a /\ prior.fitted /\ Shown(scope, members) \subseteq DOMAIN nodes) =>
               nodes' = [t \in Shown(scope, members) |-> nodes[t]] /\ initial' = None
          /\ (/\ Loose(nodes)
              /\ \A k \in Key : (cache[k] # None => Loose(cache[k])) /\ (stored[k] # None => Loose(stored[k]))) =>
               Loose(nodes')
      <4>1. Effect(scope, members, loaded, a, nodes)
        BY <2>2, <3>1
      <4> QED BY <1>2, <4>1, EffectGives
    <3>3. ASSUME prior.fitted, Laid PROVE nodes' = nodes
      <4>1. nodes' = [t \in Here |-> nodes[t]] /\ DOMAIN nodes = Here
        BY <3>1, <3>2, <3>3, <1>6 DEF Laid, Here
      <4> QED BY <4>1, <1>2, LayoutFacts
    <3> QED BY <3>2, <3>3, <1>7 DEF Laid, Here
  <2> QED BY <1>1, <2>1, <2>2
<1>9. Shapes'
  BY <1>1, <1>2, <1>3, <1>4, <1>8 DEF Shapes
<1>10. Laying'
  BY <1>1, <1>5, <1>8 DEF DiagramInv, Laying
<1>11. Untouched'
  <2>1. SUFFICES ASSUME ~prior.fitted PROVE Untouched'
    BY <1>8 DEF Untouched
  <2>2. /\ \A k \in Key : cache'[k] # None => Loose(cache'[k])
        /\ \A k \in Key : stored'[k] # None => Loose(stored'[k])
        /\ \A i \in DOMAIN queue' : Loose(queue'[i].layout)
    <3>1. \A i \in DOMAIN queue' : Loose(queue'[i].layout)
      BY <2>1, <1>4, <1>7
    <3>2. \A k \in Key : stored'[k] # None => Loose(stored'[k])
      BY <2>1, <1>4, <1>7
    <3> QED BY <3>1, <3>2, <2>1, <1>1, <1>7
  <2>3. /\ \A k \in Key : (cache'[k] # None => Loose(cache[k])') /\ (stored'[k] # None => Loose(stored[k])')
        /\ \A i \in DOMAIN queue' : Loose(queue[i].layout)'
    BY <2>2 DEF Loose
  <2>4. Loose(nodes)' /\ (initial' # None => Loose(initial.nodes)')
    BY <2>1, <1>8 DEF Loose
  <2> QED BY <2>1, <2>3, <2>4, <1>1, <1>5, <1>7 DEF Untouched
<1>12. Pending'
  <2>1. SUFFICES ASSUME initial' # None
                 PROVE  /\ DOMAIN initial'.nodes = Here
                        /\ (~history.replaced /\ NothingDone) => Agree(initial'.nodes, nodes')
    BY <1>1, <1>5 DEF Pending, Agree
  <2>2. CASE initial' = initial /\ nodes' = nodes
    BY <2>1, <2>2 DEF DiagramInv, Pending
  <2>3. CASE initial'.nodes = nodes'
    BY <2>1, <2>3, <1>8, AgreeFacts
  <2> QED BY <2>1, <2>2, <2>3, <1>8
<1>13. Asked'
  <2>1. CASE prior.fitted
    BY <2>1, <1>1, <1>5, <1>8 DEF DiagramInv, Asked, Agree
  <2>2. CASE ~prior.fitted
    <3>1. ~ready
      BY <2>2 DEF DiagramInv, Laying
    <3> QED BY <3>1, <1>1 DEF DiagramInv, Asked
  <2> QED BY <2>1, <2>2
<1>14. Gesturing'
  <2>1. SUFFICES ASSUME gesture # None PROVE Gesturing'
    BY <1>1 DEF Gesturing
  <2>2. nodes' = nodes
    BY <2>1, <1>7, <1>8
  <2> QED BY <2>2, <1>1, <1>5 DEF DiagramInv, Gesturing, Agree
<1>15. Chain'
  <2>1. CASE prior.fitted
    <3>1. Base' = Base /\ history' = history
      BY <2>1, <1>1, <1>8 DEF Base
    <3> QED BY <3>1 DEF DiagramInv, Chain
  <2>2. CASE ~prior.fitted
    <3>1. PICK B : B = Base'
      OBVIOUS
    <3>2. Linked(history.past, history.frames, B, FALSE) /\ Linked(history.future, history.ahead, B, TRUE)
      BY <2>2, <1>2, <1>7, LinkedEmpty
    <3> QED BY <3>1, <3>2, <1>1 DEF Chain
  <2> QED BY <2>1, <2>2
<1>16. Kept'
  <2>1. SUFFICES ASSUME Persistent, gesture = None, ~NothingDone PROVE cache[scope.key] = nodes'
    BY <1>1, <1>5 DEF Kept
  <2>2. nodes' = nodes
    BY <2>1, <1>7, <1>8
  <2> QED BY <2>1, <2>2 DEF DiagramInv, Kept
<1>17. PinStep
  <2>1. CASE prior.fitted \/ ~Laid
    BY <2>1, <1>8 DEF PinStep
  <2>2. CASE ~prior.fitted
    BY <2>2, <1>7 DEF PinStep, Loose
  <2> QED BY <2>1, <2>2
<1> QED BY <1>4, <1>9, <1>10, <1>11, <1>12, <1>13, <1>14, <1>15, <1>16, <1>17 DEF DiagramInv

\* The user repeats an initial layout that failed.
LEMMA RetryRestoreKeeps ==
  ASSUME DiagramInv, RetryRestore
  PROVE  DiagramInv' /\ PinStep
<1>1. /\ Editable /\ gesture = None /\ feedback' = Quiet
      /\ Effect(scope, members, loaded, FALSE, nodes)
      /\ history' = [history EXCEPT !.replaced = @ \/ nodes' # nodes]
      /\ UNCHANGED <<scope, members, loaded, failed, ready, auto, drag, gesture, cache, queue, stored>>
  BY DEF RetryRestore, Offered
<1>2. /\ Shapes /\ nodes \in Layouts /\ scope \in Scope /\ members \in [Key -> SUBSET Table]
      /\ loaded \in BOOLEAN /\ history \in Past
  BY DEF DiagramInv, Shapes
<1>3. ready /\ Laid /\ prior.fitted /\ DOMAIN nodes = Here /\ prior.scope = <<scope, loaded>>
  BY <1>1 DEF DiagramInv, Laying, Editable
<1>4. /\ nodes' \in Layouts /\ fitting' \in BOOLEAN
      /\ prior' \in [scope : {prior'.scope}, fitted : BOOLEAN] /\ prior'.fitted = prior.fitted
      /\ initial' # None => /\ initial' \in [nodes : Layouts, kept : SUBSET Table]
                            /\ initial'.nodes = nodes'
      /\ prior'.scope = <<scope, loaded>> /\ DOMAIN nodes' = Here
      /\ (/\ ~scope.temporary /\ loaded
          /\ cache[scope.key] \in Layouts /\ DOMAIN cache[scope.key] = Here) =>
           nodes' = cache[scope.key]
  <2>1. PICK a \in BOOLEAN : a = FALSE
    OBVIOUS
  <2>2. /\ nodes' \in Layouts /\ fitting' \in BOOLEAN
        /\ prior' \in [scope : {prior'.scope}, fitted : BOOLEAN] /\ prior'.fitted = prior.fitted
        /\ initial' # None => /\ initial' \in [nodes : Layouts, kept : SUBSET Table]
                              /\ initial'.nodes = nodes'
        /\ (scope.temporary \/ loaded) =>
             prior'.scope = <<scope, loaded>> /\ DOMAIN nodes' = Shown(scope, members)
        /\ (/\ ~scope.temporary /\ loaded /\ ~a
            /\ cache[scope.key] \in Layouts /\ DOMAIN cache[scope.key] = Shown(scope, members)) =>
             nodes' = cache[scope.key]
    <3>1. Effect(scope, members, loaded, a, nodes)
      BY <1>1, <2>1
    <3> QED BY <1>2, <3>1, EffectGives
  <2> QED BY <2>1, <2>2, <1>3 DEF Laid, Here
<1>5. /\ history' \in Past /\ history'.past = history.past /\ history'.future = history.future
      /\ history'.frames = history.frames /\ history'.ahead = history.ahead
      /\ history'.replaced = (history.replaced \/ nodes' # nodes)
  <2>1. (history.replaced \/ nodes' # nodes) \in BOOLEAN
    BY <1>2 DEF Past
  <2> QED BY <1>1, <1>2, <2>1 DEF Past
<1>6. Here' = Here /\ (Laid' <=> Laid) /\ (Persistent' <=> Persistent) /\ NothingDone' = NothingDone
  BY <1>1, <1>5 DEF Here, Laid, Persistent, NothingDone
<1>7. feedback'.phase = "idle"
  BY <1>1 DEF Quiet
<1>8. Shapes'
  BY <1>1, <1>2, <1>4, <1>5, <1>7 DEF Shapes
<1>9. Laying'
  BY <1>1, <1>3, <1>4, <1>6 DEF Laying
<1>10. Untouched'
  BY <1>3, <1>4 DEF Untouched
<1>11. Pending'
  <2>1. SUFFICES ASSUME initial' # None
                 PROVE  DOMAIN initial'.nodes = Here /\ Agree(initial'.nodes, nodes')
    BY <1>6 DEF Pending, Agree
  <2> QED BY <2>1, <1>4, AgreeFacts
<1>12. Asked'
  <2>1. CASE nodes' = nodes
    BY <2>1, <1>1, <1>5, <1>6 DEF DiagramInv, Asked, Agree
  <2>2. CASE nodes' # nodes
    <3>1. history'.replaced
      BY <2>2, <1>5
    <3> QED BY <3>1, <1>1, <1>6 DEF DiagramInv, Asked
  <2> QED BY <2>1, <2>2
<1>13. Gesturing'
  BY <1>1 DEF Gesturing
<1>14. Chain'
  <2>1. SUFFICES ASSUME nodes' = nodes, ~history.replaced PROVE Chain'
    BY <1>5 DEF Chain
  <2>2. Base' = Base
    BY <2>1, <1>1 DEF Base
  <2> QED BY <2>1, <2>2, <1>5 DEF DiagramInv, Chain
<1>15. Kept'
  <2>1. SUFFICES ASSUME Persistent, ~NothingDone PROVE cache[scope.key] = nodes'
    BY <1>1, <1>6 DEF Kept
  <2>2. cache[scope.key] = nodes
    BY <2>1, <1>1 DEF DiagramInv, Kept
  <2> QED BY <2>1, <2>2, <1>2, <1>3, <1>4 DEF Persistent
<1>16. Queued'
  BY <1>1 DEF DiagramInv, Queued, LastFor
<1>17. PinStep
  BY <1>5 DEF PinStep
<1> QED BY <1>8, <1>9, <1>10, <1>11, <1>12, <1>13, <1>14, <1>15, <1>16, <1>17 DEF DiagramInv

-----------------------------------------------------------------------------
(* The theorems                                                            *)

LEMMA NavigateKeeps ==
  ASSUME DiagramInv, Navigate
  PROVE  DiagramInv' /\ PinStep
<1>1. /\ scope \in Scope /\ members \in [Key -> SUBSET Table] /\ loaded \in BOOLEAN
      /\ scope.key \in Key /\ scope.temporary \in BOOLEAN
      /\ (drag # {} => Laid)
  BY DEF DiagramInv, Shapes, Laying, Scope
<1>2. CASE drag = {} /\ \E k \in Key : ShowView(k)
  <2>1. PICK k \in Key : ShowView(k)
    BY <1>2
  <2>2. Present([key |-> k, temporary |-> FALSE], members, loaded)
    BY <2>1 DEF ShowView
  <2>3. [key |-> k, temporary |-> FALSE] \in Scope
    BY DEF Scope
  <2> QED BY <1>1, <1>2, <2>2, <2>3, PresentKeeps
<1>3. CASE drag = {} /\ \E k \in View, S \in (SUBSET Table) \ {{}} : EditView(k, S)
  <2>1. PICK k \in View, S \in (SUBSET Table) \ {{}} : EditView(k, S)
    BY <1>3
  <2>2. Present(scope, [members EXCEPT ![k] = S], loaded)
    BY <2>1 DEF EditView
  <2>3. [members EXCEPT ![k] = S] \in [Key -> SUBSET Table]
    BY <1>1
  <2> QED BY <1>1, <1>3, <2>2, <2>3, PresentKeeps
<1>4. CASE drag = {} /\ (Reduce \/ Restore)
  <2>1. PICK on \in BOOLEAN : Present([scope EXCEPT !.temporary = on], members, loaded)
    BY <1>4 DEF Reduce, Restore
  <2>2. [scope EXCEPT !.temporary = on] \in Scope
    BY <1>1 DEF Scope
  <2> QED BY <1>1, <1>4, <2>1, <2>2, PresentKeeps
<1>5. CASE RefreshModel
  <2>1. Present(scope, members, loaded)
    BY <1>5 DEF RefreshModel
  <2>2. drag = {} \/ scope.temporary \/ loaded
    BY <1>1 DEF Laid
  <2> QED BY <1>1, <2>1, <2>2, PresentKeeps
<1> QED BY <1>2, <1>3, <1>4, <1>5 DEF Navigate

LEMMA LayoutsLoadKeeps ==
  ASSUME DiagramInv, LayoutsLoad
  PROVE  DiagramInv' /\ PinStep
<1>1. scope \in Scope /\ members \in [Key -> SUBSET Table] /\ TRUE \in BOOLEAN
  BY DEF DiagramInv, Shapes
<1>2. PICK l \in BOOLEAN : l = TRUE
  OBVIOUS
<1>3. Present(scope, members, l) /\ l
  BY <1>2 DEF LayoutsLoad
<1> QED BY <1>1, <1>3, PresentKeeps

LEMMA NextKeeps ==
  ASSUME DiagramInv, Next
  PROVE  /\ DiagramInv' /\ PinStep
         /\ ~history.replaced => /\ Undo => nodes' = Last(history.frames)
                                 /\ Redo => nodes' = Last(history.ahead)
<1>1. ASSUME Navigate PROVE DiagramInv' /\ PinStep
  BY <1>1, NavigateKeeps
<1>2. ASSUME Edit PROVE DiagramInv' /\ PinStep
  BY <1>2, NudgeKeeps, BeginDragKeeps, RequestKeeps, FixKeeps, DragKeeps, SaysKeep, UndoKeeps, RedoKeeps,
     RetryRestoreKeeps DEF Edit
<1>3. ASSUME Progress PROVE DiagramInv' /\ PinStep
  BY <1>3, LayoutsLoadKeeps, InitialAnswersKeeps, DrawnKeeps, AutoAnswersKeeps, SaysKeep, DropKeeps,
     SavedKeeps DEF Progress
<1> QED BY <1>1, <1>2, <1>3, UndoKeeps, RedoKeeps DEF Next

LEMMA InitHolds == Init => DiagramInv
<1> SUFFICES ASSUME Init PROVE DiagramInv
  OBVIOUS
<1>1. /\ scope = [key |-> All, temporary |-> FALSE] /\ loaded = FALSE
      /\ members = [k \in Key |-> Table] /\ ready = FALSE /\ fitting = FALSE
      /\ nodes = [t \in Table |-> Unplaced]
      /\ prior = [scope |-> None, fitted |-> FALSE]
      /\ initial = None /\ auto = None /\ drag = {} /\ gesture = None
      /\ history = Emptied /\ cache = [k \in Key |-> None] /\ queue = <<>> /\ feedback = Quiet
  BY DEF Init
<1>2. All \in Key
  BY DEF Key
<1>3. nodes \in Layouts /\ Loose(nodes)
  <2>1. nodes \in [Table -> Spot] /\ Loose(nodes)
    BY <1>1 DEF Unplaced, Spot, Place, Loose
  <2> QED BY <2>1, IsLayout
<1>4. \A k \in Key : stored[k] = None \/ (stored[k] \in Layouts /\ Loose(stored[k]))
  <2>1. PICK W \in {None, [t \in Table |-> [at |-> "left", pinned |-> FALSE]]} :
          stored = [k \in Key |-> IF k = All THEN W ELSE None]
    BY DEF Init
  <2>2. W = None \/ (W \in [Table -> Spot] /\ Loose(W))
    <3>1. PICK V : V = [t \in Table |-> [at |-> "left", pinned |-> FALSE]]
      OBVIOUS
    <3>2. [at |-> "left", pinned |-> FALSE] \in Spot
      BY DEF Spot, Place
    <3>3. V \in [Table -> Spot] /\ Loose(V)
      BY <3>1, <3>2 DEF Loose
    <3> QED BY <2>1, <3>1, <3>3
  <2>3. W = None \/ (W \in Layouts /\ Loose(W))
    BY <2>2, IsLayout
  <2> QED BY <2>1, <2>3
<1>5. stored \in [Key -> {None} \cup Layouts]
  <2>1. \E W : stored = [k \in Key |-> IF k = All THEN W ELSE None]
    BY DEF Init
  <2> QED BY <2>1, <1>4
<1>6. /\ history.past = <<>> /\ history.future = <<>> /\ history.frames = <<>> /\ history.ahead = <<>>
      /\ history.replaced = FALSE /\ history \in Past
  <2>1. <<>> \in Seq(Changes) /\ <<>> \in Seq(Layouts)
    OBVIOUS
  <2> QED BY <2>1, <1>1 DEF Emptied, Past
<1>7. Shapes
  <2>1. scope \in Scope /\ members \in [Key -> SUBSET Table] /\ queue \in Seq(Write)
        /\ cache \in [Key -> {None} \cup Layouts]
    BY <1>1, <1>2 DEF Scope
  <2>2. prior \in [scope : {prior.scope}, fitted : BOOLEAN] /\ feedback.phase = "idle"
    BY <1>1 DEF Quiet
  <2>3. Len(<<>>) + Len(<<>>) <= HistoryLimit
    BY SomethingIsUndone
  <2> QED BY <1>1, <1>3, <1>5, <1>6, <2>1, <2>2, <2>3 DEF Shapes
<1>8. NothingDone /\ ~Laid
  BY <1>1, <1>6 DEF NothingDone, Laid
<1>9. Laying /\ Pending /\ Asked /\ Gesturing /\ Kept
  BY <1>1, <1>8 DEF Laying, Pending, Asked, Gesturing, Kept
<1>10. Untouched
  BY <1>1, <1>3, <1>4, <1>8 DEF Untouched
<1>11. Chain
  BY <1>6, LinkedNone DEF Chain
<1>12. Queued
  BY <1>1 DEF Queued
<1> QED BY <1>7, <1>9, <1>10, <1>11, <1>12 DEF DiagramInv

\* The canvas keeps the invariant.
THEOREM DiagramInductive == Spec => []DiagramInv
<1>1. DiagramInv /\ [Next]_vars => DiagramInv'
  <2>1. ASSUME DiagramInv, UNCHANGED vars PROVE DiagramInv'
    <3>1. /\ Here' = Here /\ (Laid' <=> Laid) /\ Base' = Base /\ (Persistent' <=> Persistent)
          /\ NothingDone' = NothingDone
      BY <2>1 DEF vars, Here, Laid, Base, Persistent, NothingDone
    <3>2. Shapes'
      BY <2>1 DEF vars, DiagramInv, Shapes
    <3>3. Laying' /\ Untouched' /\ Pending' /\ Gesturing'
      BY <2>1, <3>1 DEF vars, DiagramInv, Laying, Untouched, Pending, Gesturing, Agree, Loose
    <3>4. Asked' /\ Chain' /\ Kept'
      BY <2>1, <3>1 DEF vars, DiagramInv, Asked, Agree, Chain, Kept
    <3>5. Queued'
      BY <2>1 DEF vars, DiagramInv, Queued, LastFor
    <3> QED BY <3>2, <3>3, <3>4, <3>5 DEF DiagramInv
  <2> QED BY <2>1, NextKeeps
<1> QED BY <1>1, InitHolds, PTL DEF Spec

THEOREM TypesOfDiagram == Spec => []TypeOK
<1>1. DiagramInv => TypeOK
  <2> SUFFICES ASSUME DiagramInv PROVE TypeOK
    OBVIOUS
  <2>1. /\ scope \in Scope /\ loaded \in BOOLEAN /\ ready \in BOOLEAN /\ fitting \in BOOLEAN
        /\ nodes \in Layouts /\ drag \subseteq Table /\ gesture \in {None} \cup Layouts
        /\ cache \in [Key -> {None} \cup Layouts] /\ stored \in [Key -> {None} \cup Layouts]
        /\ Len(history.past) = Len(history.frames) /\ Len(history.future) = Len(history.ahead)
        /\ Len(history.past) + Len(history.future) <= HistoryLimit
        /\ feedback.phase \in {"idle", "running", "success", "error"}
    BY DEF DiagramInv, Shapes
  <2> QED BY <2>1 DEF TypeOK, Scope
<1> QED BY <1>1, DiagramInductive, PTL

\* What the user last arranged in a permanent view is on the device once every write has ended,
\* unless the last write of the view failed.
THEOREM EditsAreAlwaysSaved == Spec => []EditsAreSaved
<1>1. DiagramInv => EditsAreSaved
  <2> SUFFICES ASSUME DiagramInv, Persistent, gesture = None, queue = <<>>, ~NothingDone,
                      scope.key \notin failed
               PROVE  stored[scope.key] = nodes
    BY DEF EditsAreSaved
  <2>1. cache[scope.key] = nodes /\ scope.key \in Key /\ nodes # None
    BY LayoutFacts DEF DiagramInv, Kept, Shapes, Scope
  <2> QED BY <2>1 DEF DiagramInv, Queued
<1> QED BY <1>1, DiagramInductive, PTL

LEMMA OnlyShownIsWritten ==
  ASSUME DiagramInv, [Next]_vars, Len(queue') > Len(queue)
  PROVE  ~scope'.temporary /\ DOMAIN Last(queue').layout = members'[scope'.key]
<1>1. queue \in Seq(Write)
  BY DEF DiagramInv, Shapes
<1>2. ASSUME NEW next, Save(next) \/ Keep(next), scope' = scope, members' = members
      PROVE  ~scope'.temporary /\ DOMAIN Last(queue').layout = members'[scope'.key]
  <2>1. /\ ~scope.temporary /\ DOMAIN next = Shown(scope, members)
        /\ queue' = Append([i \in DOMAIN queue |-> [queue[i] EXCEPT !.latest = FALSE]],
                           [key |-> scope.key, layout |-> next, scope |-> scope, latest |-> TRUE])
    <3>1. ~(queue' = queue)
      BY <1>1
    <3>2. ASSUME Save(next) PROVE Persistent /\ DOMAIN next = Shown(scope, members)
      BY <3>1, <3>2 DEF Save
    <3>3. Save(next)
      BY <1>2, <3>1 DEF Keep
    <3> QED BY <3>2, <3>3 DEF Save, Persistent
  <2>2. PICK q : q = [i \in DOMAIN queue |-> [queue[i] EXCEPT !.latest = FALSE]]
    OBVIOUS
  <2>3. PICK w : w = [key |-> scope.key, layout |-> next, scope |-> scope, latest |-> TRUE]
    OBVIOUS
  <2>4. Len(q) \in Nat /\ q \in Seq(Write)
    BY <1>1, <2>2, Outdated
  <2>5. Last(Append(q, w)) = w
    BY <2>4 DEF Last
  <2> QED BY <1>2, <2>1, <2>2, <2>3, <2>5 DEF Shown
<1>3. \E next : (Save(next) \/ Keep(next)) /\ scope' = scope /\ members' = members
  <2>1. ~(Len(queue') = Len(queue)) /\ queue' # queue
    BY <1>1
  <2>2. ~UNCHANGED vars
    BY <2>1 DEF vars
  <2>3. ~Navigate
    BY <2>1 DEF Navigate, ShowView, EditView, Reduce, Restore, RefreshModel, Present
  <2>4. CASE Edit
    <3>1. ASSUME NEW S \in SUBSET Table, NEW p \in Chosen, Nudge(S, p) \/ Arrange(S, p)
          PROVE  (Save(nodes') \/ Keep(nodes')) /\ scope' = scope /\ members' = members
      BY <3>1 DEF Nudge, Arrange, view
    <3>2. ASSUME NEW S \in SUBSET Table, NEW on \in BOOLEAN, Fix(S, on)
          PROVE  Keep(nodes') /\ scope' = scope /\ members' = members
      BY <3>2 DEF Fix, view
    <3>3. ASSUME NEW S \in SUBSET Table PROVE ~BeginDrag(S) /\ ~RequestLayout(S)
      BY <2>1 DEF BeginDrag, RequestLayout
    <3>4. ASSUME NEW p \in Chosen PROVE ~Drag(p)
      BY <2>1 DEF Drag
    <3>5. ~ArrangeFails
      <4>1. SUFFICES ASSUME ArrangeFails PROVE Len(queue') = Len(queue)
        BY <2>1
      <4>2. queue' = [i \in DOMAIN queue |-> [queue[i] EXCEPT !.latest = FALSE]]
        BY <4>1 DEF ArrangeFails
      <4> QED BY <4>2, <1>1, Outdated
    <3>6. ~RetryRestore
      BY <2>1 DEF RetryRestore
    <3>7. ASSUME MoveViewport \/ RetrySave
          PROVE  Save(nodes) /\ scope' = scope /\ members' = members
      BY <3>7 DEF MoveViewport, RetrySave, view
    <3>8. ASSUME Undo \/ Redo
          PROVE  (\E next : Keep(next)) /\ scope' = scope /\ members' = members
      BY <3>8 DEF Undo, Redo, view
    <3> QED BY <2>4, <3>1, <3>2, <3>3, <3>4, <3>5, <3>6, <3>7, <3>8 DEF Edit
  <2>5. CASE Progress
    <3>1. ~LayoutsLoad /\ ~InitialFails /\ ~Fitted /\ ~AutoFails
      BY <2>1 DEF LayoutsLoad, Present, InitialFails, Fitted, AutoFails
    <3>2. ASSUME InitialAnswers
          PROVE  Save(Arranged(initial)) /\ scope' = scope /\ members' = members
      BY <3>2 DEF InitialAnswers
    <3>3. ASSUME AutoAnswers
          PROVE  (\E next : Keep(next)) /\ scope' = scope /\ members' = members
      BY <3>3, <2>1 DEF AutoAnswers, view
    <3>4. ASSUME Drop PROVE Save(nodes) /\ scope' = scope /\ members' = members
      BY <3>4 DEF Drop, view
    <3>5. ASSUME NEW ok \in BOOLEAN PROVE ~Saved(ok)
      <4>1. SUFFICES ASSUME Saved(ok) PROVE Len(queue') <= Len(queue)
        BY <1>1
      <4>2. queue # <<>> /\ queue' = Tail(queue)
        BY <4>1 DEF Saved
      <4> QED BY <4>2, <1>1
    <3> QED BY <2>5, <3>1, <3>2, <3>3, <3>4, <3>5 DEF Progress
  <2> QED BY <2>2, <2>3, <2>4, <2>5 DEF Next
<1> QED BY <1>2, <1>3

\* What is fixed stays, undo and redo return the frames before and after the edit, and only what
\* a permanent view shows is written for it.
THEOREM ArrangementAlwaysStays == Spec => ArrangementStays
<1>1. DiagramInv /\ [Next]_vars =>
        [<<scope, loaded>>' = <<scope, loaded>> /\ DOMAIN nodes' = DOMAIN nodes /\ ~history'.replaced =>
           \A t \in DOMAIN nodes : nodes[t].pinned /\ nodes'[t].pinned => nodes'[t].at = nodes[t].at]_vars
  BY NextKeeps DEF PinStep
<1>2. DiagramInv /\ [Next]_vars =>
        [~history.replaced => /\ Undo => nodes' = Last(history.frames)
                              /\ Redo => nodes' = Last(history.ahead)]_vars
  BY NextKeeps
<1>3. DiagramInv /\ [Next]_vars =>
        [Len(queue') > Len(queue) =>
           ~scope'.temporary /\ DOMAIN Last(queue').layout = members'[scope'.key]]_vars
  BY OnlyShownIsWritten
<1> QED BY <1>1, <1>2, <1>3, DiagramInductive, PTL
      DEF Spec, ArrangementStays, PinnedStay, UndoReturns, TemporaryStaysAside
=============================================================================
