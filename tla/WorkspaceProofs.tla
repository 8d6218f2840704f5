--------------------------- MODULE WorkspaceProofs ---------------------------
(***************************************************************************)
(* What the page shows belongs to the snapshot on it, and ends on the      *)
(* newest of what was read and written, for any sources and views and any  *)
(* number of snapshots, readings and writes under way.                     *)
(*                                                                         *)
(* Two numbers order the answers.  A session stands for one snapshot       *)
(* object on the page, so what carries the present session carries the     *)
(* source of that snapshot; a request stands for one reading, so the       *)
(* present request is the reading that began last.                         *)
(***************************************************************************)
EXTENDS Workspace, TLAPS

Placement == [source : Source, id : Nat]
NamedView == [source : Source, name : View \cup {Domain}]
Memory == [source : Source, view : {None} \cup NamedView]
Derived == [notes : Nat, latest : Nat]
Statements == [source : Source \cup {None}, notes : Nat, views : SUBSET View,
               knowledge : {None} \cup Derived]
Rendering == [from : Source \cup {None}, preview : BOOLEAN, view : {None} \cup NamedView]

Page == [snapshot : {None} \cup Placement, preview : BOOLEAN, view : {None} \cup NamedView,
         remembered : {None} \cup Memory, left : {None} \cup NamedView,
         preferred : [Source -> {None} \cup View], shown : Statements,
         shownFor : Nat, settled : Nat]
Store == [Source -> [latest : Nat, notes : Nat, views : SUBSET View]]
Read == [session : Nat, request : Nat, source : Source, preview : BOOLEAN,
         answer : {None} \cup Statements]
Sent == [kind : {"note", "save", "delete", "create"}, name : View \cup Nat, source : Source,
         id : Nat, session : Nat, view : {None} \cup NamedView, listed : SUBSET View, done : Nat]
Way == [kind : {"open", "startup", "history", "refresh", "return"}, source : Source, id : Nat,
        current : BOOLEAN, closure : {None} \cup Rendering, session : Nat]

Shapes ==
  /\ page \in Page /\ store \in Store
  /\ session \in Nat /\ request \in Nat /\ spent \in Nat
  /\ acked \in [Source -> Nat]
  /\ reads \subseteq Read /\ writes \subseteq Sent /\ fetches \subseteq Way

\* The snapshot on the page is one the backend stored.
Located ==
  /\ page.snapshot # None => session > 0 /\ page.snapshot.id <= store[page.snapshot.source].latest
  /\ page.shownFor <= session

\* The view in use and the view that is remembered are of the source on the page.
ViewsFit ==
  /\ page.view # None => page.snapshot # None /\ page.view.source = page.snapshot.source
  /\ (page.remembered # None /\ page.remembered.view # None) =>
       page.remembered.view.source = page.remembered.source
  /\ (page.remembered # None /\ page.snapshot # None) =>
       page.remembered.source = page.snapshot.source

\* Whatever may still put a snapshot on the page knows the source it was begun on.
FetchOK(f) ==
  /\ f.session <= session
  /\ f.kind # "return" =>
       /\ f.closure # None
       /\ f.closure.view # None => f.closure.view.source = f.closure.from
  /\ f.kind \in {"open", "startup"} => f.closure.from # f.source
  /\ (f.kind \in {"refresh", "history"} /\ f.current) =>
       /\ page.snapshot # None
       /\ f.source = page.snapshot.source
       /\ f.closure.from = f.source
  /\ (f.kind = "return" /\ f.session = session) =>
       page.snapshot # None /\ f.source = page.snapshot.source
  /\ Current(f) => f.id <= store[f.source].latest

\* A reading of the present session is one of the present source, and the last one misses nothing
\* of which the page has been told.
ReadOK(r) ==
  /\ r.session <= session /\ r.request <= request
  /\ r.session = session => page.snapshot # None /\ r.source = page.snapshot.source
  /\ r.answer # None =>
       /\ r.answer.source = r.source /\ r.answer.knowledge # None
       /\ r.answer.knowledge.notes = r.answer.notes
       /\ IsCurrent(r) => /\ acked[r.source] <= r.answer.notes
                          /\ page.snapshot.id <= r.answer.knowledge.latest

WriteOK(w) ==
  /\ w.session <= session
  /\ w.session = session => page.snapshot # None /\ w.source = page.snapshot.source
  /\ w.kind # "note" => w.name \in View
  /\ w.kind = "note" => w.done <= store[w.source].notes

Fitting ==
  /\ \A f \in fetches : FetchOK(f)
  /\ \A r \in reads : ReadOK(r)
  /\ \A w \in writes : WriteOK(w)
  /\ \A s \in Source : acked[s] <= store[s].notes

\* No committed note of this source waits to be told to the page.
Told(s) == \A w \in writes : w.kind = "note" /\ w.source = s => w.done = 0

\* When the page has been told of every note, the last reading brings them all; and either it is
\* still under way, or the page shows them all.
Fresh ==
  (page.snapshot # None /\ Told(page.snapshot.source)) =>
    /\ \A r \in reads : IsCurrent(r) /\ r.answer # None =>
         r.answer.notes = store[page.snapshot.source].notes
    /\ \/ \E r \in reads : IsCurrent(r)
       \/ page.shownFor = session => page.shown.notes = store[page.snapshot.source].notes

WorkspaceInv ==
  Shapes /\ Located /\ ViewsFit /\ Fitting /\ Fresh /\ ShownBelongs /\ KnowledgeIsCurrent
-----------------------------------------------------------------------------
(* Steps that change one thing only                                        *)

LEMMA FetchesOnly ==
  ASSUME WorkspaceInv, UNCHANGED <<store, page, session, request, reads, writes, acked>>,
         spent' \in Nat, fetches' \subseteq Way, \A f \in fetches' : FetchOK(f)
  PROVE  WorkspaceInv'
<1>1. Shapes' /\ Located' /\ ViewsFit' /\ Fresh' /\ ShownBelongs' /\ KnowledgeIsCurrent'
  BY DEF WorkspaceInv, Shapes, Located, ViewsFit, Fresh, Told, IsCurrent, ShownBelongs,
         KnowledgeIsCurrent, SourceOf
<1>2. Fitting'
  BY DEF WorkspaceInv, Fitting, FetchOK, ReadOK, WriteOK, IsCurrent, Current
<1> QED BY <1>1, <1>2 DEF WorkspaceInv

LEMMA WritesOnly ==
  ASSUME WorkspaceInv, UNCHANGED <<store, page, session, request, reads, fetches, acked>>,
         spent' \in Nat, writes' \subseteq Sent, \A w \in writes' : WriteOK(w),
         \A s \in Source : Told(s)' => Told(s)
  PROVE  WorkspaceInv'
<1>1. Shapes' /\ Located' /\ ViewsFit' /\ ShownBelongs' /\ KnowledgeIsCurrent'
  BY DEF WorkspaceInv, Shapes, Located, ViewsFit, ShownBelongs, KnowledgeIsCurrent, SourceOf
<1>2. Fitting'
  BY DEF WorkspaceInv, Fitting, FetchOK, ReadOK, WriteOK, IsCurrent, Current
<1>3. page.snapshot # None => page.snapshot.source \in Source
  BY DEF WorkspaceInv, Shapes, Page, Placement
<1>4. Fresh'
  BY <1>3 DEF WorkspaceInv, Fresh, IsCurrent
<1> QED BY <1>1, <1>2, <1>4 DEF WorkspaceInv

-----------------------------------------------------------------------------
(* The snapshot on its way to the page                                     *)

LEMMA ClosureFits ==
  ASSUME WorkspaceInv
  PROVE  /\ Closure \in Rendering /\ Closure # None
         /\ Closure.from = SourceOf(page)
         /\ Closure.view # None => Closure.view.source = Closure.from
<1>1. Closure \in Rendering
  BY DEF WorkspaceInv, Shapes, Page, Placement, Closure, Rendering, SourceOf
<1>2. Closure # None
  BY <1>1, NothingIsNoRecord DEF Rendering, NamedView
<1>3. page.view # None => page.view.source = SourceOf(page)
  BY DEF WorkspaceInv, ViewsFit, SourceOf
<1> QED BY <1>1, <1>2, <1>3 DEF Closure

LEMMA SourcesAreNoNone ==
  ASSUME WorkspaceInv
  PROVE  /\ None \notin Source
         /\ page.snapshot # None => page.snapshot \in Placement /\ page.snapshot.source \in Source
                                    /\ page.snapshot.id \in Nat
         /\ page.snapshot = None <=> SourceOf(page) = None
BY NothingIsApart DEF WorkspaceInv, Shapes, Page, Placement, SourceOf

\* A request that leaves the page begins at the listing, or at the snapshot asked for.
LEMMA FetchIsOnItsWay ==
  ASSUME WorkspaceInv, NEW kind \in {"open", "startup", "history", "refresh", "return"},
         NEW s \in Source, NEW id \in Nat
  PROVE  Fetch(kind, s, id) \in Way
<1> DEFINE c == IF kind = "return" THEN None ELSE Closure
           n == IF kind = "return" THEN session ELSE 0
<1>1. c \in {None} \cup Rendering
  BY ClosureFits
<1>2. n \in Nat
  BY DEF WorkspaceInv, Shapes
<1>3. Fetch(kind, s, id) = [kind |-> kind, source |-> s, id |-> id, current |-> TRUE,
                            closure |-> c, session |-> n]
  BY DEF Fetch
<1> HIDE DEF c, n
<1> QED BY <1>1, <1>2, <1>3 DEF Way

LEMMA BeginOpenKeeps ==
  ASSUME WorkspaceInv, NEW s \in Source, BeginOpen(s)
  PROVE  WorkspaceInv'
<1> DEFINE f == Fetch("open", s, 0)
<1>1. f \in Way
  BY FetchIsOnItsWay
<1>2. f.kind = "open" /\ f.source = s /\ f.id = 0 /\ f.closure = Closure /\ f.session = 0
  BY DEF Fetch
<1>3. FetchOK(f)
  <2>1. s # SourceOf(page)
    BY DEF BeginOpen
  <2>2. store \in Store /\ session \in Nat
    BY DEF WorkspaceInv, Shapes
  <2>3. 0 <= store[s].latest
    BY <2>2 DEF Store
  <2> HIDE DEF f
  <2> QED BY <1>2, <2>1, <2>2, <2>3, ClosureFits DEF FetchOK
<1> HIDE DEF f
<1>4. UNCHANGED <<store, page, session, request, reads, writes, acked, spent>>
      /\ fetches' \subseteq fetches \cup {f}
  BY DEF BeginOpen, f
<1> QED BY <1>1, <1>3, <1>4, FetchesOnly DEF WorkspaceInv, Shapes, Fitting
LEMMA BeginHistoryKeeps ==
  ASSUME WorkspaceInv, NEW id \in 1..MaxCaptures, BeginHistory(id)
  PROVE  WorkspaceInv'
<1> DEFINE f == Fetch("history", SourceOf(page), id)
<1>1. page.snapshot # None /\ id \in 1..store[SourceOf(page)].latest
  BY DEF BeginHistory
<1>2. /\ SourceOf(page) \in Source /\ SourceOf(page) = page.snapshot.source
      /\ store[SourceOf(page)].latest \in Nat
  BY <1>1, SourcesAreNoNone DEF SourceOf, WorkspaceInv, Shapes, Store
<1>3. id \in Nat /\ id <= store[SourceOf(page)].latest
  BY <1>1, <1>2
<1>4. f \in Way
  BY <1>2, <1>3, FetchIsOnItsWay
<1>5. /\ f.kind = "history" /\ f.source = SourceOf(page) /\ f.id = id /\ f.closure = Closure
      /\ f.session = 0
  BY DEF Fetch
<1>6. FetchOK(f)
  <2>1. session \in Nat
    BY DEF WorkspaceInv, Shapes
  <2> HIDE DEF f
  <2> QED BY <1>1, <1>2, <1>3, <1>5, <2>1, ClosureFits DEF FetchOK
<1> HIDE DEF f
<1>7. UNCHANGED <<store, page, session, request, reads, writes, acked, spent>>
      /\ fetches' \subseteq fetches \cup {f}
  BY DEF BeginHistory, f
<1> QED BY <1>4, <1>6, <1>7, FetchesOnly DEF WorkspaceInv, Shapes, Fitting

LEMMA BeginRefreshKeeps ==
  ASSUME WorkspaceInv, BeginRefresh
  PROVE  WorkspaceInv'
<1> DEFINE f == Fetch("refresh", SourceOf(page), 0)
<1>1. page.snapshot # None
  BY DEF BeginRefresh
<1>2. /\ SourceOf(page) \in Source /\ SourceOf(page) = page.snapshot.source
      /\ store[SourceOf(page)].latest \in Nat
  BY <1>1, SourcesAreNoNone DEF SourceOf, WorkspaceInv, Shapes, Store
<1>3. f \in Way
  BY <1>2, FetchIsOnItsWay
<1>4. /\ f.kind = "refresh" /\ f.source = SourceOf(page) /\ f.id = 0 /\ f.closure = Closure
      /\ f.session = 0
  BY DEF Fetch
<1>5. FetchOK(f)
  <2>1. session \in Nat
    BY DEF WorkspaceInv, Shapes
  <2> HIDE DEF f
  <2> QED BY <1>1, <1>2, <1>4, <2>1, ClosureFits DEF FetchOK
<1> HIDE DEF f
<1>6. UNCHANGED <<store, page, session, request, reads, writes, acked, spent>>
      /\ fetches' \subseteq fetches \cup {f}
  BY DEF BeginRefresh, f
<1> QED BY <1>3, <1>5, <1>6, FetchesOnly DEF WorkspaceInv, Shapes, Fitting

LEMMA BeginReturnKeeps ==
  ASSUME WorkspaceInv, BeginReturn
  PROVE  WorkspaceInv'
<1> DEFINE f == Fetch("return", SourceOf(page), 0)
<1>1. page.snapshot # None
  BY DEF BeginReturn
<1>2. /\ SourceOf(page) \in Source /\ SourceOf(page) = page.snapshot.source
      /\ store[SourceOf(page)].latest \in Nat
  BY <1>1, SourcesAreNoNone DEF SourceOf, WorkspaceInv, Shapes, Store
<1>3. f \in Way
  BY <1>2, FetchIsOnItsWay
<1>4. f.kind = "return" /\ f.source = SourceOf(page) /\ f.id = 0 /\ f.session = session
  BY DEF Fetch
<1>5. FetchOK(f)
  <2>1. session \in Nat
    BY DEF WorkspaceInv, Shapes
  <2> HIDE DEF f
  <2> QED BY <1>1, <1>2, <1>4, <2>1 DEF FetchOK
<1> HIDE DEF f
<1>6. UNCHANGED <<store, page, session, request, reads, writes, acked, spent>>
      /\ fetches' \subseteq fetches \cup {f}
  BY DEF BeginReturn, f
<1> QED BY <1>3, <1>5, <1>6, FetchesOnly DEF WorkspaceInv, Shapes, Fitting

\* A snapshot that is found goes on with its request.
LEMMA Found ==
  ASSUME NEW f \in Way, NEW n \in Nat
  PROVE  LET g == [f EXCEPT !.id = n]
         IN  /\ g \in Way /\ g.id = n
             /\ g.kind = f.kind /\ g.source = f.source /\ g.current = f.current
             /\ g.closure = f.closure /\ g.session = f.session
BY DEF Way

LEMMA ListedKeeps ==
  ASSUME WorkspaceInv, NEW f \in fetches, Listed(f)
  PROVE  WorkspaceInv'
<1> DEFINE n == store[f.source].latest
           g == [f EXCEPT !.id = n]
<1>1. f \in Way /\ FetchOK(f) /\ store \in Store
  BY DEF WorkspaceInv, Shapes, Fitting
<1>2. n \in Nat
  BY <1>1 DEF Way, Store
<1>3. /\ UNCHANGED <<store, page, session, request, reads, writes, acked, spent>>
      /\ fetches' \subseteq (fetches \ {f}) \cup {g}
  BY DEF Listed
<1>4. /\ g \in Way /\ g.id = n
      /\ g.kind = f.kind /\ g.source = f.source /\ g.current = f.current
      /\ g.closure = f.closure /\ g.session = f.session
  BY <1>1, <1>2, Found
<1> HIDE DEF g
<1>5. FetchOK(g)
  BY <1>1, <1>2, <1>4 DEF FetchOK, Current
<1> HIDE DEF n
<1> QED BY <1>3, <1>4, <1>5, FetchesOnly DEF WorkspaceInv, Shapes, Fitting

LEMMA RefreshCapturedKeeps ==
  ASSUME WorkspaceInv, NEW f \in fetches, RefreshCaptured(f)
  PROVE  WorkspaceInv'
<1> DEFINE n == store[f.source].latest + 1
           moved == [f EXCEPT !.id = n]
<1>1. f \in Way /\ FetchOK(f) /\ store \in Store /\ f.source \in Source
  BY DEF WorkspaceInv, Shapes, Fitting, Way
<1>2. CASE fetches' = fetches \ {f} /\ store' = store
  BY <1>2, FetchesOnly DEF WorkspaceInv, Shapes, Fitting, RefreshCaptured
<1>3. CASE /\ store' = [store EXCEPT ![f.source].latest = @ + 1]
           /\ fetches' = (fetches \ {f}) \cup {[f EXCEPT !.id = store'[f.source].latest]}
  <2>1. UNCHANGED <<page, session, request, reads, writes, acked, spent>>
    BY DEF RefreshCaptured
  <2>2. n \in Nat /\ n >= store[f.source].latest
    BY <1>1 DEF Store
  <2>3. store' \in Store
    <3>1. store[f.source] \in [latest : Nat, notes : Nat, views : SUBSET View]
      BY <1>1 DEF Store
    <3>2. [store[f.source] EXCEPT !.latest = @ + 1] \in [latest : Nat, notes : Nat, views : SUBSET View]
      BY <3>1
    <3> QED BY <1>1, <1>3, <3>2 DEF Store
  <2>4. \A s \in Source : /\ store'[s].latest >= store[s].latest
                          /\ store'[s].notes = store[s].notes
                          /\ s = f.source => store'[s].latest = n
    BY <1>1, <1>3 DEF Store
  <2>5. fetches' = (fetches \ {f}) \cup {moved}
    BY <1>1, <1>3, <2>4
  <2>6. PICK g \in Way : /\ fetches' = (fetches \ {f}) \cup {g} /\ g.id = store'[f.source].latest
                         /\ g.kind = f.kind /\ g.source = f.source /\ g.current = f.current
                         /\ g.closure = f.closure /\ g.session = f.session
    <3>1. /\ moved \in Way /\ moved.id = n
          /\ moved.kind = f.kind /\ moved.source = f.source /\ moved.current = f.current
          /\ moved.closure = f.closure /\ moved.session = f.session
      BY <1>1, <2>2, Found
    <3> HIDE DEF moved, n
    <3> QED BY <1>1, <2>4, <2>5, <3>1
  <2>7. \A s \in Source : store[s].latest \in Nat /\ store'[s].latest \in Nat
                          /\ store[s].notes \in Nat
    BY <1>1, <2>3 DEF Store
  <2>8. \A h \in fetches' : h \in Way /\ FetchOK(h)'
    <3>1. ASSUME NEW h \in fetches PROVE h \in Way /\ FetchOK(h)'
      <4>1. h \in Way /\ FetchOK(h) /\ h.source \in Source /\ h.id \in Nat
        BY DEF WorkspaceInv, Shapes, Fitting, Way
      <4> QED BY <2>1, <2>4, <2>7, <4>1 DEF FetchOK, Current
    <3>2. FetchOK(g)'
      BY <1>1, <2>1, <2>4, <2>6, <2>7 DEF FetchOK, Current
    <3> QED BY <2>5, <2>6, <3>1, <3>2
  <2>9. Shapes' /\ ViewsFit' /\ ShownBelongs' /\ KnowledgeIsCurrent'
    BY <2>1, <2>3, <2>8 DEF WorkspaceInv, Shapes, ViewsFit, ShownBelongs, KnowledgeIsCurrent,
       SourceOf
  <2>10. Located' /\ Fresh'
    BY <2>1, <2>4, <2>7, SourcesAreNoNone DEF WorkspaceInv, Located, Fresh, Told, IsCurrent
  <2>11. \A r \in reads' : ReadOK(r)'
    BY <2>1 DEF WorkspaceInv, Fitting, ReadOK, IsCurrent
  <2>12. \A w \in writes' : WriteOK(w)'
    <3>1. \A w \in writes : w.source \in Source
      BY DEF WorkspaceInv, Shapes, Sent
    <3> QED BY <2>1, <2>4, <3>1 DEF WorkspaceInv, Fitting, WriteOK
  <2>13. Fitting'
    BY <2>1, <2>4, <2>8, <2>11, <2>12 DEF WorkspaceInv, Fitting
  <2> QED BY <2>9, <2>10, <2>13 DEF WorkspaceInv
<1> QED BY <1>2, <1>3 DEF RefreshCaptured

LEMMA FetchFailsKeeps ==
  ASSUME WorkspaceInv, NEW f \in fetches, FetchFails(f)
  PROVE  WorkspaceInv'
<1>1. UNCHANGED <<store, page, session, request, reads, writes, acked, spent>>
      /\ fetches' \subseteq fetches
  BY DEF FetchFails
<1> QED BY <1>1, FetchesOnly DEF WorkspaceInv, Shapes, Fitting
-----------------------------------------------------------------------------
(* A snapshot is put on the page                                           *)

\* What a page shows after another snapshot was put on it.
Moves(p, s, id) ==
  /\ p \in Page
  /\ p.snapshot = [source |-> s, id |-> id]
  /\ p.shownFor = page.shownFor
  /\ p.view # None => p.view.source = s
  /\ p.remembered # None =>
       /\ p.remembered.source = s
       /\ p.remembered.view # None => p.remembered.view.source = s

LEMMA CapturedMoves ==
  ASSUME page \in Page, NEW c \in Rendering, NEW s \in Source, NEW id \in Nat,
         c.view # None => c.view.source = c.from, ViewsFit,
         c.from = s => page.snapshot # None /\ page.snapshot.source = s
  PROVE  Moves(Captured(c, s, id), s, id)
<1> DEFINE same == c.from = s
           past == IF page.remembered = None THEN None ELSE page.remembered.view
           view == IF ~ same THEN None ELSE IF c.preview THEN past ELSE page.view
           keep == IF ~ same THEN None ELSE IF c.preview THEN past ELSE c.view
           place == [source |-> s, id |-> id]
           memory == [source |-> s, view |-> keep]
           p == [page EXCEPT !.snapshot = place, !.preview = FALSE, !.view = view,
                             !.remembered = memory]
<1>1. past \in {None} \cup NamedView /\ (same /\ past # None => past.source = s)
  BY DEF Page, ViewsFit, Memory
<1>2. page.view \in {None} \cup NamedView /\ c.view \in {None} \cup NamedView
  BY DEF Page, Rendering
<1>3. view \in {None} \cup NamedView /\ (view # None => view.source = s)
  BY <1>1, <1>2 DEF ViewsFit
<1>4. keep \in {None} \cup NamedView /\ (keep # None => keep.source = s)
  BY <1>1, <1>2
<1>5. Captured(c, s, id) = p
  BY DEF Captured
<1> HIDE DEF view, keep
<1>6. place \in Placement /\ memory \in Memory /\ memory.source = s /\ memory.view = keep
  BY <1>4 DEF Placement, Memory
<1> HIDE DEF memory, place
<1>7. p \in Page
  BY <1>3, <1>6 DEF Page
<1>8. /\ p.snapshot = place /\ p.shownFor = page.shownFor /\ p.view = view
      /\ p.remembered = memory
  BY DEF Page
<1> HIDE DEF p
<1> QED BY <1>3, <1>4, <1>5, <1>6, <1>7, <1>8 DEF Moves, place

LEMMA HistoryMoves ==
  ASSUME page \in Page, NEW c \in Rendering, NEW s \in Source, NEW id \in Nat,
         c.view # None => c.view.source = c.from, ViewsFit, c.from = s,
         page.snapshot # None, page.snapshot.source = s,
         NEW q,
         q = [page EXCEPT !.snapshot = [source |-> s, id |-> id], !.preview = TRUE,
                          !.left = IF page.preview THEN @ ELSE page.view,
                          !.view = None, !.remembered = Remembered(c)]
  PROVE  Moves(q, s, id)
<1> DEFINE place == [source |-> s, id |-> id]
           memory == Remembered(c)
           left == IF page.preview THEN page.left ELSE page.view
           p == [page EXCEPT !.snapshot = place, !.preview = TRUE,
                             !.left = IF page.preview THEN @ ELSE page.view,
                             !.view = None, !.remembered = memory]
<1>1. place \in Placement /\ left \in {None} \cup NamedView
  BY DEF Placement, Page
<1>2. /\ memory \in {None} \cup Memory
      /\ memory # None => /\ memory.source = s
                          /\ memory.view # None => memory.view.source = s
  <2>1. CASE c.from # None /\ ~ c.preview
    <3>1. memory = [source |-> s, view |-> c.view] /\ c.view \in {None} \cup NamedView
      BY <2>1 DEF Remembered, Rendering
    <3> HIDE DEF memory
    <3> QED BY <3>1 DEF Memory
  <2>2. CASE ~ (c.from # None /\ ~ c.preview)
    <3>1. memory = page.remembered /\ memory \in {None} \cup Memory
      BY <2>2 DEF Remembered, Page
    <3> HIDE DEF memory
    <3> QED BY <3>1 DEF ViewsFit
  <2> QED BY <2>1, <2>2
<1> HIDE DEF memory, place
<1>3. p \in Page
  BY <1>1, <1>2 DEF Page
<1>4. /\ p.snapshot = place /\ p.shownFor = page.shownFor /\ p.view = None
      /\ p.remembered = memory
  BY DEF Page
<1> HIDE DEF p
<1>5. Moves(p, s, id)
  BY <1>2, <1>3, <1>4 DEF Moves, place
<1> QED BY <1>5 DEF p, memory, place

LEMMA ReturnMoves ==
  ASSUME page \in Page, NEW s \in Source, NEW id \in Nat, ViewsFit,
         page.snapshot # None, page.snapshot.source = s
  PROVE  Moves([page EXCEPT !.snapshot = [source |-> s, id |-> id], !.preview = FALSE,
                            !.view = IF page.remembered # None /\ page.remembered.source = s
                                     THEN page.remembered.view ELSE None], s, id)
<1> DEFINE place == [source |-> s, id |-> id]
           view == IF page.remembered # None /\ page.remembered.source = s
                   THEN page.remembered.view ELSE None
           p == [page EXCEPT !.snapshot = place, !.preview = FALSE, !.view = view]
<1>1. place \in Placement
  BY DEF Placement
<1>2. view \in {None} \cup NamedView /\ (view # None => view.source = s)
  BY DEF Page, Memory, ViewsFit
<1> HIDE DEF view, place
<1>3. p \in Page
  BY <1>1, <1>2 DEF Page
<1>4. /\ p.snapshot = place /\ p.shownFor = page.shownFor /\ p.view = view
      /\ p.remembered = page.remembered
  BY DEF Page
<1> HIDE DEF p
<1>5. Moves(p, s, id)
  BY <1>2, <1>3, <1>4 DEF Moves, place, ViewsFit
<1> QED BY <1>5 DEF p, view, place

LEMMA ShownMoves ==
  ASSUME WorkspaceInv, NEW f \in fetches, Current(f)
  PROVE  Moves(Shown(f), f.source, f.id)
<1>1. f \in Way /\ f.source \in Source /\ f.id \in Nat /\ FetchOK(f)
  BY DEF WorkspaceInv, Shapes, Fitting, Way
<1>2. page \in Page /\ ViewsFit
  BY DEF WorkspaceInv, Shapes
<1>3. f.kind # "return" =>
        f.closure \in Rendering /\ (f.closure.view # None => f.closure.view.source = f.closure.from)
  BY <1>1 DEF Way, FetchOK
<1>4. CASE f.kind \in {"open", "startup", "refresh"}
  <2>1. f.closure.from = f.source => page.snapshot # None /\ page.snapshot.source = f.source
    BY <1>1, <1>4 DEF FetchOK, Current
  <2>2. Shown(f) = Captured(f.closure, f.source, f.id)
    BY <1>4 DEF Shown
  <2> QED BY <1>1, <1>2, <1>3, <1>4, <2>1, <2>2, CapturedMoves
<1>5. CASE f.kind = "history"
  <2>1. f.closure.from = f.source /\ page.snapshot # None /\ page.snapshot.source = f.source
    BY <1>1, <1>5 DEF FetchOK, Current
  <2>2. Shown(f) = [page EXCEPT !.snapshot = [source |-> f.source, id |-> f.id], !.preview = TRUE,
                                !.left = IF page.preview THEN @ ELSE page.view,
                                !.view = None, !.remembered = Remembered(f.closure)]
    BY <1>5 DEF Shown
  <2> QED BY <1>1, <1>2, <1>3, <1>5, <2>1, <2>2, HistoryMoves
<1>6. CASE f.kind = "return"
  <2>1. page.snapshot # None /\ page.snapshot.source = f.source
    BY <1>1, <1>6 DEF FetchOK, Current
  <2>2. Shown(f) = [page EXCEPT !.snapshot = [source |-> f.source, id |-> f.id], !.preview = FALSE,
                                !.view = IF page.remembered # None /\ page.remembered.source = f.source
                                         THEN page.remembered.view ELSE None]
    BY <1>6 DEF Shown
  <2> QED BY <1>1, <1>2, <2>1, <2>2, ReturnMoves
<1> QED BY <1>1, <1>4, <1>5, <1>6 DEF Way
\* What leaving a source or a snapshot does to a request.
LEMMA ScopedFacts ==
  ASSUME NEW fs \in SUBSET Way, NEW s, NEW id, NEW g \in Scoped(fs, s, id)
  PROVE  \E h \in fs :
           /\ g \in Way /\ g.kind = h.kind /\ g.source = h.source /\ g.id = h.id
           /\ g.closure = h.closure /\ g.session = h.session
           /\ g.current => /\ h.current
                           /\ g.kind = "refresh" => s = SourceOf(page)
                           /\ g.kind = "history" => [source |-> s, id |-> id] = page.snapshot
<1>1. PICK h \in fs :
        g = [h EXCEPT !.current = @ /\ (h.kind = "refresh" => s = SourceOf(page))
                                    /\ (h.kind = "history" => [source |-> s, id |-> id] = page.snapshot)]
  BY DEF Scoped
<1> DEFINE b == h.current /\ (h.kind = "refresh" => s = SourceOf(page))
                          /\ (h.kind = "history" => [source |-> s, id |-> id] = page.snapshot)
<1>2. g = [h EXCEPT !.current = b] /\ b \in BOOLEAN /\ h \in Way
  BY <1>1
<1>3. b => /\ h.current
           /\ h.kind = "refresh" => s = SourceOf(page)
           /\ h.kind = "history" => [source |-> s, id |-> id] = page.snapshot
  OBVIOUS
<1> HIDE DEF b
<1>4. /\ g \in Way /\ g.kind = h.kind /\ g.source = h.source /\ g.id = h.id
      /\ g.closure = h.closure /\ g.session = h.session /\ g.current = b
  BY <1>2 DEF Way
<1> QED BY <1>3, <1>4

LEMMA ArriveKeeps ==
  ASSUME WorkspaceInv, NEW f \in fetches, Arrive(f)
  PROVE  WorkspaceInv'
<1>1. CASE ~ Current(f)
  <2>1. UNCHANGED <<store, page, session, request, reads, writes, acked, spent>>
        /\ fetches' \subseteq fetches
    BY <1>1 DEF Arrive
  <2> QED BY <2>1, FetchesOnly DEF WorkspaceInv, Shapes, Fitting
<1>2. CASE Current(f)
  <2>1. /\ UNCHANGED <<store, writes, acked, spent>>
        /\ Show(Shown(f))
        /\ fetches' = Scoped({g \in fetches \ {f} : g.kind # "startup"}, f.source, f.id)
    BY <1>2 DEF Arrive
  <2>2. /\ page' = Shown(f) /\ session' = session + 1 /\ request' = request + 1
        /\ reads' = reads \cup {[Reading(session + 1, request + 1, SourceOf(Shown(f)))
                                   EXCEPT !.preview = Shown(f).preview]}
    BY <2>1 DEF Show
  <2>3. Moves(page', f.source, f.id)
    BY <1>2, <2>2, ShownMoves
  <2>4. /\ f \in Way /\ f.source \in Source /\ f.id \in Nat /\ FetchOK(f)
        /\ session \in Nat /\ request \in Nat /\ store \in Store /\ page \in Page
    BY DEF WorkspaceInv, Shapes, Fitting, Way
  <2>5. /\ page' \in Page /\ page'.snapshot # None
        /\ page'.snapshot.source = f.source /\ page'.snapshot.id = f.id
        /\ SourceOf(page)' = f.source
        /\ page'.shownFor <= session
    <3>1. page'.snapshot = [source |-> f.source, id |-> f.id]
          /\ page'.snapshot \in [source : Source, id : Nat]
      BY <2>3, <2>4 DEF Moves
    <3>2. page'.snapshot # None
      BY <3>1, NothingIsNoRecord
    <3> QED BY <2>3, <3>1, <3>2 DEF Moves, SourceOf, WorkspaceInv, Located
  <2>6. PICK n \in Read : /\ reads' = reads \cup {n} /\ n.session = session'
                          /\ n.request = request' /\ n.source = f.source /\ n.answer = None
    <3> DEFINE s == SourceOf(page)'
               b == page'.preview
               n == [[session |-> session + 1, request |-> request + 1, source |-> s,
                      preview |-> page.preview, answer |-> None] EXCEPT !.preview = b]
    <3>1. reads' = reads \cup {n}
      BY <2>2 DEF Reading, SourceOf
    <3>2. s = f.source /\ s \in Source /\ b \in BOOLEAN
      BY <2>4, <2>5 DEF Page
    <3> HIDE DEF s, b
    <3>3. n = [session |-> session + 1, request |-> request + 1, source |-> s,
               preview |-> b, answer |-> None]
      OBVIOUS
    <3>4. n \in Read /\ n.session = session + 1 /\ n.request = request + 1
          /\ n.source = s /\ n.answer = None
      BY <2>4, <3>2, <3>3 DEF Read
    <3> HIDE DEF n
    <3> QED BY <2>2, <3>1, <3>2, <3>4
  <2>7. \A g \in fetches' : g \in Way /\ FetchOK(g)'
    <3> SUFFICES ASSUME NEW g \in fetches' PROVE g \in Way /\ FetchOK(g)'
      OBVIOUS
    <3>1. {h \in fetches \ {f} : h.kind # "startup"} \in SUBSET Way
      BY DEF WorkspaceInv, Shapes
    <3>2. PICK h \in fetches :
            /\ g \in Way /\ g.kind = h.kind /\ g.source = h.source /\ g.id = h.id
            /\ g.closure = h.closure /\ g.session = h.session
            /\ g.current => /\ h.current
                            /\ g.kind = "refresh" => f.source = SourceOf(page)
                            /\ g.kind = "history" =>
                                 [source |-> f.source, id |-> f.id] = page.snapshot
      BY <2>1, <3>1, ScopedFacts
    <3>3. h \in Way /\ FetchOK(h) /\ h.session \in Nat
      BY DEF WorkspaceInv, Shapes, Fitting, Way
    <3>4. (g.kind \in {"refresh", "history"} /\ g.current) =>
            h.source = f.source /\ h.closure.from = h.source
      <4>1. CASE g.kind = "refresh" /\ g.current
        BY <3>2, <3>3, <4>1 DEF FetchOK, SourceOf
      <4>2. CASE g.kind = "history" /\ g.current
        <5>1. page.snapshot.source = f.source
          BY <3>2, <4>2
        <5> QED BY <3>2, <3>3, <4>2, <5>1 DEF FetchOK
      <4> QED BY <4>1, <4>2
    <3>5. g.session < session' /\ g.session <= session'
      BY <2>2, <2>4, <3>2, <3>3 DEF FetchOK
    <3>6. Current(g)' => Current(h)
      BY <2>2, <2>4, <3>2, <3>3, <3>5 DEF Current, Way
    <3> QED BY <2>1, <2>4, <2>5, <3>2, <3>3, <3>4, <3>5, <3>6 DEF FetchOK
  <2>8. \A r \in reads' : r \in Read /\ ReadOK(r)'
    <3>1. ASSUME NEW r \in reads PROVE r \in Read /\ ReadOK(r)'
      <4>1. r \in Read /\ ReadOK(r) /\ r.session \in Nat /\ r.request \in Nat
        BY DEF WorkspaceInv, Shapes, Fitting, Read
      <4>2. r.session # session' /\ r.session <= session' /\ r.request <= request'
        BY <2>2, <2>4, <4>1 DEF ReadOK
      <4> QED BY <4>1, <4>2 DEF ReadOK, IsCurrent
    <3>2. ReadOK(n)'
      BY <2>2, <2>4, <2>5, <2>6 DEF ReadOK
    <3> QED BY <2>6, <3>1, <3>2
  <2>9. \A w \in writes' : w \in Sent /\ WriteOK(w)'
    <3> SUFFICES ASSUME NEW w \in writes PROVE w \in Sent /\ WriteOK(w)'
      BY <2>1
    <3>1. w \in Sent /\ WriteOK(w) /\ w.session \in Nat
      BY DEF WorkspaceInv, Shapes, Fitting, Sent
    <3>2. w.session # session' /\ w.session <= session'
      BY <2>2, <2>4, <3>1 DEF WriteOK
    <3> QED BY <2>1, <3>1, <3>2 DEF WriteOK
  <2>10. Shapes' /\ Fitting'
    BY <2>1, <2>2, <2>5, <2>7, <2>8, <2>9 DEF WorkspaceInv, Shapes, Fitting
  <2>11. Located' /\ ViewsFit'
    <3>1. f.id <= store[f.source].latest
      BY <1>2, <2>4 DEF FetchOK
    <3> QED BY <2>1, <2>2, <2>3, <2>4, <2>5, <3>1 DEF Located, ViewsFit, Moves, Page
  <2>12. page'.shownFor # session'
    BY <2>2, <2>4, <2>5 DEF Page
  <2>13. ShownBelongs' /\ KnowledgeIsCurrent'
    BY <2>3, <2>5, <2>12 DEF ShownBelongs, KnowledgeIsCurrent, Moves
  <2>14. \A r \in reads' : IsCurrent(r)' => r = n
    <3>1. \A r \in reads : r.session # session'
      <4>1. \A r \in reads : r.session \in Nat /\ r.session <= session
        BY DEF WorkspaceInv, Shapes, Fitting, Read, ReadOK
      <4> QED BY <2>2, <2>4, <4>1
    <3> QED BY <2>6, <3>1 DEF IsCurrent
  <2>15. Fresh'
    BY <2>6, <2>14 DEF Fresh, IsCurrent
  <2> QED BY <2>10, <2>11, <2>13, <2>15 DEF WorkspaceInv
<1> QED BY <1>1, <1>2
\* What a session that has ended leaves behind.
LEMMA EndedSession ==
  ASSUME WorkspaceInv, session' = session + 1, request' >= request, request' \in Nat
  PROVE  /\ \A r \in reads : r \in Read /\ ReadOK(r)'
         /\ UNCHANGED store => \A w \in writes : w \in Sent /\ WriteOK(w)'
<1>1. session \in Nat /\ request \in Nat
  BY DEF WorkspaceInv, Shapes
<1>2. ASSUME NEW r \in reads PROVE r \in Read /\ ReadOK(r)'
  <2>1. r \in Read /\ ReadOK(r) /\ r.session \in Nat /\ r.request \in Nat
    BY DEF WorkspaceInv, Shapes, Fitting, Read
  <2>2. r.session # session' /\ r.session <= session' /\ r.request <= request'
    BY <1>1, <2>1 DEF ReadOK
  <2> QED BY <2>1, <2>2 DEF ReadOK, IsCurrent
<1>3. ASSUME UNCHANGED store, NEW w \in writes PROVE w \in Sent /\ WriteOK(w)'
  <2>1. w \in Sent /\ WriteOK(w) /\ w.session \in Nat
    BY DEF WorkspaceInv, Shapes, Fitting, Sent
  <2>2. w.session # session' /\ w.session <= session'
    BY <1>1, <2>1 DEF WriteOK
  <2> QED BY <1>3, <2>1, <2>2 DEF WriteOK
<1> QED BY <1>2, <1>3

LEMMA DeletedStore ==
  ASSUME store \in Store, NEW s \in Source,
         store' = [store EXCEPT ![s] = [latest |-> 0, notes |-> @.notes, views |-> {}]]
  PROVE  /\ store' \in Store
         /\ \A t \in Source : /\ store'[t].notes = store[t].notes
                              /\ t # s => store'[t] = store[t]
<1> DEFINE rec == [latest |-> 0, notes |-> store[s].notes, views |-> {}]
<1>1. rec \in [latest : Nat, notes : Nat, views : SUBSET View] /\ rec.notes = store[s].notes
  BY DEF Store
<1>2. store' = [store EXCEPT ![s] = rec]
  OBVIOUS
<1> HIDE DEF rec
<1> QED BY <1>1, <1>2 DEF Store

LEMMA DeleteSourceKeeps ==
  ASSUME WorkspaceInv, NEW s \in Source, DeleteSource(s)
  PROVE  WorkspaceInv'
<1>1. /\ Opening = {} /\ \A w \in writes : w.source # s
      /\ store' = [store EXCEPT ![s] = [latest |-> 0, notes |-> @.notes, views |-> {}]]
      /\ UNCHANGED <<request, reads, writes, acked, spent>>
  BY DEF DeleteSource
<1>2. /\ session \in Nat /\ request \in Nat /\ store \in Store /\ page \in Page
      /\ acked \in [Source -> Nat] /\ spent \in Nat
  BY DEF WorkspaceInv, Shapes
<1>3. /\ store' \in Store
      /\ \A t \in Source : /\ store'[t].notes = store[t].notes
                           /\ t # s => store'[t] = store[t]
  BY <1>1, <1>2, DeletedStore
<1>4. \A f \in fetches : /\ f \in Way /\ FetchOK(f) /\ f.source \in Source /\ f.session \in Nat
                         /\ f.id \in Nat /\ f.kind \in {"history", "refresh", "return"}
  BY <1>1 DEF WorkspaceInv, Shapes, Fitting, Way, Opening
<1>5. CASE SourceOf(page) # s
  <2>1. UNCHANGED <<page, session, fetches>>
    BY <1>5 DEF DeleteSource
  <2>2. page.snapshot # None => page.snapshot.source # s /\ page.snapshot.source \in Source
    BY <1>5, SourcesAreNoNone DEF SourceOf
  <2>3. \A f \in fetches : FetchOK(f)'
    BY <1>3, <1>4, <2>1, <2>2 DEF FetchOK, Current
  <2>4. \A r \in reads : ReadOK(r)'
    BY <1>1, <2>1 DEF WorkspaceInv, Fitting, ReadOK, IsCurrent
  <2>5. \A w \in writes : WriteOK(w)'
    BY <1>1, <1>3, <2>1 DEF WorkspaceInv, Shapes, Fitting, WriteOK, Sent
  <2>6. Shapes' /\ Fitting'
    BY <1>1, <1>3, <2>1, <2>3, <2>4, <2>5 DEF WorkspaceInv, Shapes, Fitting
  <2>7. Located' /\ ViewsFit' /\ ShownBelongs' /\ KnowledgeIsCurrent'
    BY <1>1, <1>3, <2>1, <2>2 DEF WorkspaceInv, Located, ViewsFit, ShownBelongs,
       KnowledgeIsCurrent, SourceOf
  <2>8. Fresh'
    BY <1>1, <1>3, <2>1, <2>2 DEF WorkspaceInv, Fresh, Told, IsCurrent
  <2> QED BY <2>6, <2>7, <2>8 DEF WorkspaceInv
<1>6. CASE SourceOf(page) = s
  <2>1. /\ session' = session + 1
        /\ page' = [page EXCEPT !.snapshot = None, !.view = None, !.shown = Nothing]
    BY <1>6 DEF DeleteSource
  <2>2. PICK t \in Source \ {s} : fetches' = Scoped(fetches, None, 0) \cup {Fetch("open", t, 0)}
    BY <1>6 DEF DeleteSource
  <2>3. page' \in Page /\ page'.snapshot = None /\ page'.view = None
        /\ page'.shownFor = page.shownFor /\ page'.remembered = page.remembered
    <3>1. Nothing \in Statements
      BY DEF Nothing, Statements
    <3> QED BY <1>2, <2>1, <3>1 DEF Page
  <2>4. PICK n \in Way : /\ fetches' = Scoped(fetches, None, 0) \cup {n}
                         /\ n.kind = "open" /\ n.source = t /\ n.id = 0 /\ n.closure = Closure
                         /\ n.session = 0
    <3>1. Fetch("open", t, 0) \in Way
      BY FetchIsOnItsWay
    <3>2. LET f == Fetch("open", t, 0)
          IN  f.kind = "open" /\ f.source = t /\ f.id = 0 /\ f.closure = Closure /\ f.session = 0
      BY DEF Fetch
    <3> QED BY <2>2, <3>1, <3>2
  <2>5. FetchOK(n)'
    <3>1. n.closure # None /\ n.closure.from = s
          /\ (n.closure.view # None => n.closure.view.source = n.closure.from)
      BY <1>6, <2>4, ClosureFits
    <3>2. 0 <= store'[t].latest /\ 0 <= session'
      BY <1>2, <1>3, <2>1 DEF Store
    <3> QED BY <2>4, <3>1, <3>2 DEF FetchOK
  <2>6. \A g \in fetches' : g \in Way /\ FetchOK(g)'
    <3>1. ASSUME NEW g \in Scoped(fetches, None, 0) PROVE g \in Way /\ FetchOK(g)'
      <4>1. PICK h \in fetches :
              /\ g \in Way /\ g.kind = h.kind /\ g.source = h.source /\ g.id = h.id
              /\ g.closure = h.closure /\ g.session = h.session
              /\ g.current => /\ h.current
                              /\ g.kind = "refresh" => None = SourceOf(page)
                              /\ g.kind = "history" => [source |-> None, id |-> 0] = page.snapshot
        <5>1. fetches \in SUBSET Way
          BY DEF WorkspaceInv, Shapes
        <5> QED BY <5>1, ScopedFacts
      <4>2. page.snapshot # None /\ page.snapshot.source = s /\ s # None
        BY <1>6, SourcesAreNoNone DEF SourceOf
      <4>3. ~ (g.kind \in {"refresh", "history"} /\ g.current)
        BY <1>6, <4>1, <4>2
      <4>4. FetchOK(h) /\ h.session \in Nat /\ h.kind \in {"history", "refresh", "return"}
        BY <1>4
      <4>5. g.session < session' /\ g.session <= session'
        BY <1>2, <2>1, <4>1, <4>4 DEF FetchOK
      <4>6. ~ Current(g)'
        BY <4>1, <4>3, <4>4, <4>5 DEF Current
      <4> QED BY <4>1, <4>3, <4>4, <4>5, <4>6 DEF FetchOK
    <3> QED BY <2>4, <2>5, <3>1
  <2>7. \A r \in reads : r \in Read /\ ReadOK(r)'
    BY <1>1, <1>2, <2>1, EndedSession
  <2>8. \A w \in writes : w \in Sent /\ WriteOK(w)'
    <3> SUFFICES ASSUME NEW w \in writes PROVE w \in Sent /\ WriteOK(w)'
      OBVIOUS
    <3>1. w \in Sent /\ WriteOK(w) /\ w.session \in Nat /\ w.source \in Source
      BY DEF WorkspaceInv, Shapes, Fitting, Sent
    <3>2. w.session # session' /\ w.session <= session'
      BY <1>2, <2>1, <3>1 DEF WriteOK
    <3> QED BY <1>3, <3>1, <3>2 DEF WriteOK
  <2>9. Shapes' /\ Fitting'
    BY <1>1, <1>2, <1>3, <2>1, <2>3, <2>6, <2>7, <2>8 DEF WorkspaceInv, Shapes, Fitting
  <2>10. Located' /\ ViewsFit' /\ ShownBelongs' /\ KnowledgeIsCurrent' /\ Fresh'
    <3>1. page'.shownFor <= session'
      BY <1>2, <2>1, <2>3 DEF WorkspaceInv, Located, Page
    <3> QED BY <2>3, <3>1 DEF WorkspaceInv, Located, ViewsFit, ShownBelongs,
               KnowledgeIsCurrent, Fresh
  <2> QED BY <2>9, <2>10 DEF WorkspaceInv
<1> QED BY <1>5, <1>6

-----------------------------------------------------------------------------
(* Readings                                                                *)

LEMMA AnsweredKeeps ==
  ASSUME WorkspaceInv, NEW r \in reads, Answered(r)
  PROVE  WorkspaceInv'
<1>1. /\ r.answer = None
      /\ reads' = (reads \ {r}) \cup {[r EXCEPT !.answer = Bundle(r.source)]}
      /\ UNCHANGED <<store, page, session, request, writes, fetches, acked, spent>>
  BY DEF Answered
<1>2. /\ r \in Read /\ ReadOK(r) /\ r.source \in Source
      /\ store \in Store /\ \A s \in Source : acked[s] <= store[s].notes
  BY DEF WorkspaceInv, Shapes, Fitting, Read
<1>3. PICK b \in Statements :
        /\ b = Bundle(r.source) /\ b # None /\ b.source = r.source
        /\ b.notes = store[r.source].notes /\ b.knowledge # None
        /\ b.knowledge.notes = b.notes /\ b.knowledge.latest = store[r.source].latest
  <2> DEFINE d == [notes |-> store[r.source].notes, latest |-> store[r.source].latest]
             b == [source |-> r.source, notes |-> store[r.source].notes,
                   views |-> store[r.source].views, knowledge |-> d]
  <2>1. d \in Derived /\ d.notes = store[r.source].notes /\ d.latest = store[r.source].latest
    BY <1>2 DEF Derived, Store
  <2>2. d # None
    BY <2>1, NothingIsNoRecord DEF Derived
  <2>3. b = Bundle(r.source)
    BY DEF Bundle
  <2> HIDE DEF d
  <2>4. b \in Statements
    BY <1>2, <2>1 DEF Statements, Store
  <2>5. b # None
    BY <2>4, NothingIsNoRecord DEF Statements, Derived
  <2> QED BY <2>1, <2>2, <2>3, <2>4, <2>5
<1>4. PICK n \in Read : /\ reads' = (reads \ {r}) \cup {n} /\ n.answer = b
                        /\ n.session = r.session /\ n.request = r.request
                        /\ n.source = r.source
  <2> DEFINE n == [r EXCEPT !.answer = b]
  <2>1. /\ n \in Read /\ n.answer = b /\ n.session = r.session /\ n.request = r.request
        /\ n.source = r.source
    BY <1>2 DEF Read
  <2>2. reads' = (reads \ {r}) \cup {n}
    BY <1>1, <1>3
  <2> HIDE DEF n
  <2> QED BY <2>1, <2>2
<1>5. IsCurrent(n) <=> IsCurrent(r)
  BY <1>4 DEF IsCurrent
<1>6. ReadOK(n)
  <2>1. IsCurrent(r) => page.snapshot # None /\ page.snapshot.source = r.source
                        /\ page.snapshot.id <= store[r.source].latest
    BY <1>2 DEF ReadOK, IsCurrent, WorkspaceInv, Located
  <2> QED BY <1>2, <1>3, <1>4, <1>5, <2>1 DEF ReadOK
<1>7. Shapes' /\ Located' /\ ViewsFit' /\ ShownBelongs' /\ KnowledgeIsCurrent'
  BY <1>1, <1>4 DEF WorkspaceInv, Shapes, Located, ViewsFit, ShownBelongs, KnowledgeIsCurrent,
     SourceOf
<1>8. Fitting'
  <2>1. \A q \in reads' : ReadOK(q)
    BY <1>4, <1>6 DEF WorkspaceInv, Fitting
  <2> QED BY <1>1, <2>1 DEF WorkspaceInv, Fitting, FetchOK, ReadOK, WriteOK, IsCurrent, Current
<1>9. Fresh'
  <2>1. IsCurrent(r) => page.snapshot # None /\ page.snapshot.source = r.source
    BY <1>2 DEF ReadOK, IsCurrent
  <2>2. (\E q \in reads : IsCurrent(q)) => \E q \in reads' : IsCurrent(q)
    BY <1>4, <1>5
  <2>3. \A q \in reads' : q \in reads \/ q = n
    BY <1>4
  <2>4. \A q : IsCurrent(q)' <=> IsCurrent(q)
    BY <1>1 DEF IsCurrent
  <2> QED BY <1>1, <1>3, <1>4, <1>5, <2>1, <2>2, <2>3, <2>4 DEF WorkspaceInv, Fresh, Told
<1> QED BY <1>7, <1>8, <1>9 DEF WorkspaceInv
\* A step after which the same snapshot is on the page, with views of its source.
SamePlace ==
  /\ page' \in Page /\ page'.snapshot = page.snapshot /\ page'.remembered = page.remembered
  /\ page'.view # None => page.snapshot # None /\ page'.view.source = page.snapshot.source

LEMMA SamePlaceKeeps ==
  ASSUME WorkspaceInv, SamePlace, UNCHANGED <<store, session>>
  PROVE  /\ ViewsFit'
         /\ page'.shownFor <= session => Located'
         /\ \A f \in fetches : FetchOK(f)'
         /\ \A w \in writes : WriteOK(w)'
<1>1. ViewsFit' /\ (page'.shownFor <= session => Located')
  BY DEF WorkspaceInv, SamePlace, ViewsFit, Located
<1>2. \A f \in fetches : FetchOK(f)'
  BY DEF WorkspaceInv, SamePlace, Fitting, FetchOK, Current
<1>3. \A w \in writes : WriteOK(w)'
  BY DEF WorkspaceInv, SamePlace, Fitting, WriteOK
<1> QED BY <1>1, <1>2, <1>3

LEMMA PreferredFits ==
  ASSUME page \in Page, NEW b \in Statements, b.source \in Source
  PROVE  /\ Preferred(b) \in {None} \cup NamedView
         /\ Preferred(b) # None => Preferred(b).source = b.source
<1> DEFINE wanted == IF page.view # None /\ page.view.source = b.source THEN page.view.name
                     ELSE page.preferred[b.source]
<1>1. b.views \subseteq View
  BY DEF Statements
<1>2. CASE page.view # None /\ page.view = [source |-> b.source, name |-> Domain]
  <2>1. Preferred(b) = page.view /\ page.view \in NamedView
    BY <1>2 DEF Preferred, Page
  <2> QED BY <1>2, <2>1
<1>3. CASE ~ (page.view # None /\ page.view = [source |-> b.source, name |-> Domain])
  <2>1. Preferred(b) = IF wanted \in b.views THEN [source |-> b.source, name |-> wanted] ELSE None
    BY <1>3 DEF Preferred
  <2> HIDE DEF wanted
  <2> QED BY <1>1, <2>1 DEF NamedView
<1> QED BY <1>2, <1>3

LEMMA LoadedKeeps ==
  ASSUME WorkspaceInv, NEW r \in reads, Loaded(r)
  PROVE  WorkspaceInv'
<1>1. /\ r.answer # None /\ reads' = reads \ {r}
      /\ UNCHANGED <<store, session, request, writes, fetches, acked, spent>>
  BY DEF Loaded
<1>2. r \in Read /\ ReadOK(r) /\ r.source \in Source /\ r.answer \in Statements
  BY <1>1 DEF WorkspaceInv, Shapes, Fitting, Read
<1>3. page \in Page /\ session \in Nat
  BY DEF WorkspaceInv, Shapes
<1>4. CASE ~ IsCurrent(r)
  <2>1. page' = page
    BY <1>4 DEF Loaded
  <2>2. \A q : IsCurrent(q)' <=> IsCurrent(q)
    BY <1>1 DEF IsCurrent
  <2>3. Shapes' /\ Located' /\ ViewsFit' /\ ShownBelongs' /\ KnowledgeIsCurrent'
    BY <1>1, <2>1 DEF WorkspaceInv, Shapes, Located, ViewsFit, ShownBelongs, KnowledgeIsCurrent,
       SourceOf
  <2>4. Fitting'
    BY <1>1, <2>1, <2>2 DEF WorkspaceInv, Fitting, FetchOK, ReadOK, WriteOK, Current
  <2>5. Fresh'
    BY <1>1, <1>4, <2>1, <2>2 DEF WorkspaceInv, Fresh, Told
  <2> QED BY <2>3, <2>4, <2>5 DEF WorkspaceInv
<1>5. CASE IsCurrent(r)
  <2>1. page' = [page EXCEPT !.shown = r.answer, !.shownFor = session, !.settled = session,
                             !.view = IF r.preview THEN @ ELSE Preferred(r.answer)]
    BY <1>5 DEF Loaded
  <2>2. /\ page.snapshot # None /\ page.snapshot.source = r.source
        /\ r.answer.source = r.source /\ r.answer.knowledge # None
        /\ r.answer.knowledge.notes = r.answer.notes
        /\ acked[r.source] <= r.answer.notes
        /\ page.snapshot.id <= r.answer.knowledge.latest
    BY <1>1, <1>2, <1>5 DEF ReadOK, IsCurrent
  <2> DEFINE view == IF r.preview THEN page.view ELSE Preferred(r.answer)
  <2>3. /\ view \in {None} \cup NamedView
        /\ view # None => view.source = r.source
    <3>1. /\ Preferred(r.answer) \in {None} \cup NamedView
          /\ Preferred(r.answer) # None => Preferred(r.answer).source = r.source
      BY <1>2, <1>3, <2>2, PreferredFits
    <3> QED BY <1>3, <2>2, <3>1 DEF Page, WorkspaceInv, ViewsFit
  <2>4. page' = [page EXCEPT !.shown = r.answer, !.shownFor = session, !.settled = session,
                             !.view = view]
    BY <2>1
  <2> HIDE DEF view
  <2>5. page' \in Page
    BY <1>2, <1>3, <2>3, <2>4 DEF Page
  <2>6. /\ page'.snapshot = page.snapshot /\ page'.remembered = page.remembered
        /\ page'.view = view /\ page'.shown = r.answer /\ page'.shownFor = session
    BY <1>3, <2>4 DEF Page
  <2>7. SamePlace
    BY <2>2, <2>3, <2>5, <2>6 DEF SamePlace
  <2>8. ViewsFit' /\ Located' /\ (\A f \in fetches : FetchOK(f)') /\ \A w \in writes : WriteOK(w)'
    BY <1>1, <1>3, <2>6, <2>7, SamePlaceKeeps
  <2>9. \A q \in reads : ReadOK(q)'
    BY <1>1, <2>6 DEF WorkspaceInv, Fitting, ReadOK, IsCurrent
  <2>10. Shapes' /\ Fitting'
    BY <1>1, <2>5, <2>8, <2>9 DEF WorkspaceInv, Shapes, Fitting
  <2>11. ShownBelongs' /\ KnowledgeIsCurrent'
    BY <1>1, <2>2, <2>3, <2>6 DEF ShownBelongs, KnowledgeIsCurrent, SourceOf
  <2>12. Fresh'
    <3>1. Told(r.source) => r.answer.notes = store[r.source].notes
      BY <1>1, <1>5, <2>2 DEF WorkspaceInv, Fresh
    <3>2. Told(r.source) => \A q \in reads : IsCurrent(q) /\ q.answer # None =>
                                                q.answer.notes = store[r.source].notes
      BY <2>2 DEF WorkspaceInv, Fresh
    <3> QED BY <1>1, <2>2, <2>6, <3>1, <3>2 DEF Fresh, Told, IsCurrent
  <2> QED BY <2>8, <2>10, <2>11, <2>12 DEF WorkspaceInv
<1> QED BY <1>4, <1>5

LEMMA LoadFailsKeeps ==
  ASSUME WorkspaceInv, NEW r \in reads, LoadFails(r)
  PROVE  WorkspaceInv'
<1>1. /\ reads' = reads \ {r}
      /\ UNCHANGED <<store, session, request, writes, fetches, acked, spent>>
  BY DEF LoadFails
<1>2. page \in Page /\ session \in Nat
  BY DEF WorkspaceInv, Shapes
<1>3. CASE ~ IsCurrent(r)
  <2>1. page' = page
    BY <1>3 DEF LoadFails
  <2>2. \A q : IsCurrent(q)' <=> IsCurrent(q)
    BY <1>1 DEF IsCurrent
  <2>3. Shapes' /\ Located' /\ ViewsFit' /\ ShownBelongs' /\ KnowledgeIsCurrent'
    BY <1>1, <2>1 DEF WorkspaceInv, Shapes, Located, ViewsFit, ShownBelongs, KnowledgeIsCurrent,
       SourceOf
  <2>4. Fitting'
    BY <1>1, <2>1, <2>2 DEF WorkspaceInv, Fitting, FetchOK, ReadOK, WriteOK, Current
  <2>5. Fresh'
    BY <1>1, <1>3, <2>1, <2>2 DEF WorkspaceInv, Fresh, Told
  <2> QED BY <2>3, <2>4, <2>5 DEF WorkspaceInv
<1>4. CASE IsCurrent(r)
  <2>1. page' = [page EXCEPT !.shown = Nothing, !.shownFor = 0, !.settled = session]
    BY <1>4 DEF LoadFails
  <2>2. Nothing \in Statements
    BY DEF Nothing, Statements
  <2>3. page' \in Page /\ page'.snapshot = page.snapshot /\ page'.remembered = page.remembered
        /\ page'.view = page.view /\ page'.shownFor = 0
    BY <1>2, <2>1, <2>2 DEF Page
  <2>4. SamePlace
    BY <2>3 DEF SamePlace, WorkspaceInv, ViewsFit
  <2>5. ViewsFit' /\ Located' /\ (\A f \in fetches : FetchOK(f)') /\ \A w \in writes : WriteOK(w)'
    BY <1>1, <1>2, <2>3, <2>4, SamePlaceKeeps
  <2>6. \A q \in reads : ReadOK(q)'
    BY <1>1, <2>3 DEF WorkspaceInv, Fitting, ReadOK, IsCurrent
  <2>7. Shapes' /\ Fitting'
    BY <1>1, <2>3, <2>5, <2>6 DEF WorkspaceInv, Shapes, Fitting
  <2>8. page.snapshot # None => session' # 0
    BY <1>1, <1>2 DEF WorkspaceInv, Located
  <2>9. ShownBelongs' /\ KnowledgeIsCurrent'
    BY <2>3, <2>8 DEF WorkspaceInv, ShownBelongs, KnowledgeIsCurrent, SourceOf
  <2>10. Fresh'
    BY <1>1, <2>3, <2>8 DEF WorkspaceInv, Fresh, Told, IsCurrent
  <2> QED BY <2>5, <2>7, <2>9, <2>10 DEF WorkspaceInv
<1> QED BY <1>3, <1>4
-----------------------------------------------------------------------------
(* Writes                                                                  *)

LEMMA SendKeeps ==
  ASSUME WorkspaceInv, NEW kind \in {"note", "save", "delete", "create"},
         NEW name \in View \cup Nat, kind # "note" => name \in View,
         Send(Write(kind, name))
  PROVE  WorkspaceInv'
<1> DEFINE id == page.snapshot.id
           listed == IF page.shownFor = session THEN page.shown.views ELSE {}
           view == page.view
           s == SourceOf(page)
           w == [kind |-> kind, name |-> name, source |-> s, id |-> id, session |-> session,
                 view |-> view, listed |-> listed, done |-> 0]
<1>1. /\ page.snapshot # None /\ spent' = spent + 1 /\ writes' = writes \cup {w}
      /\ UNCHANGED <<store, page, session, request, reads, fetches, acked>>
  BY DEF Send, Write
<1>2. page \in Page /\ session \in Nat /\ spent \in Nat /\ store \in Store
  BY DEF WorkspaceInv, Shapes
<1>3. /\ s \in Source /\ s = page.snapshot.source /\ id \in Nat
      /\ view \in {None} \cup NamedView /\ listed \in SUBSET View
  BY <1>1, <1>2, SourcesAreNoNone DEF SourceOf, Page, Statements
<1> HIDE DEF s, id, view, listed
<1>4. w \in Sent
  BY <1>2, <1>3 DEF Sent
<1>5. w.kind = kind /\ w.name = name /\ w.source = s /\ w.session = session /\ w.done = 0
  OBVIOUS
<1> HIDE DEF w
<1>6. WriteOK(w)
  BY <1>1, <1>2, <1>3, <1>5 DEF WriteOK, Store
<1>7. spent' \in Nat /\ writes' \subseteq Sent /\ \A v \in writes' : WriteOK(v)
  BY <1>1, <1>2, <1>4, <1>6 DEF WorkspaceInv, Shapes, Fitting
<1>8. \A t \in Source : Told(t)' => Told(t)
  BY <1>1 DEF Told
<1> QED BY <1>1, <1>7, <1>8, WritesOnly

LEMMA WriteFailsKeeps ==
  ASSUME WorkspaceInv, NEW w \in writes, WriteFails(w)
  PROVE  WorkspaceInv'
<1>1. /\ w.done = 0 /\ writes' = writes \ {w}
      /\ UNCHANGED <<store, page, session, request, reads, fetches, acked, spent>>
  BY DEF WriteFails
<1>2. spent' \in Nat /\ writes' \subseteq Sent /\ \A v \in writes' : WriteOK(v)
  BY <1>1 DEF WorkspaceInv, Shapes, Fitting
<1>3. \A t \in Source : Told(t)' => Told(t)
  BY <1>1 DEF Told
<1> QED BY <1>1, <1>2, <1>3, WritesOnly

\* A commit writes a note more, or the list of views of its source.
LEMMA CommittedStore ==
  ASSUME WorkspaceInv, NEW w \in writes, Committed(w)
  PROVE  /\ store' \in Store
         /\ \A s \in Source : /\ store'[s].latest = store[s].latest
                              /\ store'[s].notes = IF s = w.source /\ w.kind = "note"
                                                   THEN store[s].notes + 1 ELSE store[s].notes
<1>1. w \in Sent /\ w.source \in Source /\ WriteOK(w) /\ store \in Store
  BY DEF WorkspaceInv, Shapes, Fitting, Sent
<1>2. store[w.source] \in [latest : Nat, notes : Nat, views : SUBSET View]
  BY <1>1 DEF Store
<1>0. store' = [store EXCEPT ![w.source] = Written(store[w.source], w)]
  BY DEF Committed
<1>3. CASE w.kind = "note"
  <2> DEFINE n == store[w.source].notes + 1
             rec == [store[w.source] EXCEPT !.notes = n]
  <2>1. store' = [store EXCEPT ![w.source] = rec]
    <3>1. Written(store[w.source], w) = rec
      BY <1>3 DEF Written
    <3> QED BY <1>0, <3>1
  <2>2. n \in Nat
    BY <1>2
  <2> HIDE DEF n
  <2>3. /\ rec \in [latest : Nat, notes : Nat, views : SUBSET View]
        /\ rec.latest = store[w.source].latest /\ rec.notes = n
    BY <1>2, <2>2
  <2> HIDE DEF rec
  <2> QED BY <1>1, <1>3, <2>1, <2>3 DEF Store, n
<1>4. CASE w.kind # "note"
  <2> DEFINE vs == IF w.kind = "delete" THEN store[w.source].views \ {w.name}
                   ELSE store[w.source].views \cup {w.name}
             rec == [store[w.source] EXCEPT !.views = vs]
  <2>1. store' = [store EXCEPT ![w.source] = rec]
    <3>1. Written(store[w.source], w) = rec
      BY <1>4 DEF Written
    <3> QED BY <1>0, <3>1
  <2>2. vs \subseteq View
    BY <1>1, <1>2, <1>4 DEF WriteOK
  <2> HIDE DEF vs
  <2>3. /\ rec \in [latest : Nat, notes : Nat, views : SUBSET View]
        /\ rec.latest = store[w.source].latest /\ rec.notes = store[w.source].notes
    BY <1>2, <2>2
  <2> HIDE DEF rec
  <2> QED BY <1>1, <1>4, <2>1, <2>3 DEF Store
<1> QED BY <1>3, <1>4

LEMMA CommittedKeeps ==
  ASSUME WorkspaceInv, NEW w \in writes, Committed(w)
  PROVE  WorkspaceInv'
<1>1. /\ w.done = 0
      /\ writes' = (writes \ {w}) \cup
                   {[w EXCEPT !.done = IF w.kind = "note" THEN store'[w.source].notes ELSE 1]}
      /\ UNCHANGED <<page, session, request, reads, fetches, acked, spent>>
  BY DEF Committed
<1>2. w \in Sent /\ w.source \in Source /\ WriteOK(w) /\ store \in Store
      /\ acked \in [Source -> Nat]
  BY DEF WorkspaceInv, Shapes, Fitting, Sent
<1>3. /\ store' \in Store
      /\ \A s \in Source : /\ store'[s].latest = store[s].latest
                           /\ store'[s].notes = IF s = w.source /\ w.kind = "note"
                                                THEN store[s].notes + 1 ELSE store[s].notes
  BY CommittedStore
<1>4. \A s \in Source : /\ store[s].notes \in Nat /\ store'[s].notes \in Nat
                        /\ store[s].notes <= store'[s].notes
                        /\ (s = w.source /\ w.kind = "note" => store'[s].notes # 0)
  BY <1>2, <1>3 DEF Store
<1>5. PICK v \in Sent : /\ writes' = (writes \ {w}) \cup {v}
                        /\ v.kind = w.kind /\ v.name = w.name /\ v.source = w.source
                        /\ v.session = w.session
                        /\ v.done = IF w.kind = "note" THEN store'[w.source].notes ELSE 1
  <2> DEFINE n == IF w.kind = "note" THEN store'[w.source].notes ELSE 1
             v == [w EXCEPT !.done = n]
  <2>1. n \in Nat
    BY <1>2, <1>4
  <2>2. writes' = (writes \ {w}) \cup {v}
    BY <1>1
  <2> HIDE DEF n
  <2>3. /\ v \in Sent /\ v.kind = w.kind /\ v.name = w.name /\ v.source = w.source
        /\ v.session = w.session /\ v.done = n
    BY <1>2, <2>1 DEF Sent
  <2> HIDE DEF v
  <2> QED BY <2>2, <2>3 DEF n
<1>6. WriteOK(v)'
  BY <1>1, <1>2, <1>4, <1>5 DEF WriteOK
<1>7. \A u \in writes' : u \in Sent /\ WriteOK(u)'
  <2>1. ASSUME NEW u \in writes PROVE u \in Sent /\ WriteOK(u)'
    <3>1. u \in Sent /\ WriteOK(u) /\ u.source \in Source /\ u.done \in Nat
      BY DEF WorkspaceInv, Shapes, Fitting, Sent
    <3> QED BY <1>1, <1>4, <3>1 DEF WriteOK
  <2> QED BY <1>5, <1>6, <2>1
<1>8. \A f \in fetches : FetchOK(f)'
  <2>1. \A f \in fetches : f.source \in Source
    BY DEF WorkspaceInv, Shapes, Way
  <2> QED BY <1>1, <1>3, <2>1 DEF WorkspaceInv, Fitting, FetchOK, Current
<1>9. \A r \in reads : ReadOK(r)'
  BY <1>1 DEF WorkspaceInv, Fitting, ReadOK, IsCurrent
<1>10. \A s \in Source : acked'[s] <= store'[s].notes
  <2>1. \A s \in Source : acked[s] \in Nat /\ acked[s] <= store[s].notes
    BY <1>2 DEF WorkspaceInv, Fitting
  <2> QED BY <1>1, <1>4, <2>1
<1>11. Shapes' /\ Fitting'
  BY <1>1, <1>3, <1>7, <1>8, <1>9, <1>10 DEF WorkspaceInv, Shapes, Fitting
<1>12. Located' /\ ViewsFit' /\ ShownBelongs' /\ KnowledgeIsCurrent'
  BY <1>1, <1>3, SourcesAreNoNone DEF WorkspaceInv, Located, ViewsFit, ShownBelongs,
     KnowledgeIsCurrent, SourceOf
<1>13. Fresh'
  <2> SUFFICES ASSUME page.snapshot # None, Told(page.snapshot.source)'
               PROVE  /\ store'[page.snapshot.source].notes = store[page.snapshot.source].notes
                      /\ Told(page.snapshot.source)
    BY <1>1 DEF WorkspaceInv, Fresh, IsCurrent
  <2> DEFINE s == page.snapshot.source
  <2>1. s \in Source
    BY SourcesAreNoNone
  <2>2. \A u \in writes' : u.kind = "note" /\ u.source = s => u.done = 0
    BY <1>1 DEF Told
  <2>3. ~ (w.kind = "note" /\ w.source = s)
    BY <1>4, <1>5, <2>1, <2>2
  <2>4. Told(s)
    BY <1>1, <1>5, <2>2 DEF Told
  <2> QED BY <1>3, <2>1, <2>3, <2>4
<1> QED BY <1>11, <1>12, <1>13 DEF WorkspaceInv
\* The page learns of a note: of another source, or of its own, which it reads again.
LEMMA NoteSavedKeeps ==
  ASSUME WorkspaceInv, NEW w \in writes, NoteSaved(w)
  PROVE  WorkspaceInv'
<1>1. /\ w.done # 0 /\ w.kind = "note" /\ writes' = writes \ {w} /\ Reloading(w.source)
      /\ acked' = [acked EXCEPT ![w.source] = IF w.done > @ THEN w.done ELSE @]
      /\ UNCHANGED <<store, session, fetches, spent>>
  BY DEF NoteSaved
<1>2. w \in Sent /\ w.source \in Source /\ w.done \in Nat /\ w.done <= store[w.source].notes
  BY <1>1 DEF WorkspaceInv, Shapes, Fitting, Sent, WriteOK
<1>3. /\ store \in Store /\ acked \in [Source -> Nat] /\ page \in Page
      /\ session \in Nat /\ request \in Nat
      /\ \A s \in Source : acked[s] <= store[s].notes
  BY DEF WorkspaceInv, Shapes, Fitting
<1>4. /\ acked' \in [Source -> Nat]
      /\ \A s \in Source : acked'[s] <= store'[s].notes /\ (s # w.source => acked'[s] = acked[s])
  BY <1>1, <1>2, <1>3 DEF Store
<1>5. \A s \in Source : s # w.source => (Told(s)' <=> Told(s))
  BY <1>1 DEF Told
<1>6. \A r \in reads : /\ r \in Read /\ ReadOK(r) /\ r.request \in Nat
                       /\ r.session = session =>
                            page.snapshot # None /\ r.source = page.snapshot.source
  BY DEF WorkspaceInv, Shapes, Fitting, Read, ReadOK
<1>7. page.snapshot # None => page.snapshot.source = SourceOf(page) /\ SourceOf(page) \in Source
  BY SourcesAreNoNone DEF SourceOf
<1>8. CASE SourceOf(page) # w.source
  <2>1. UNCHANGED <<page, request, reads>>
    BY <1>1, <1>8 DEF Reloading
  <2>2. \A r \in reads : ReadOK(r)'
    <3> SUFFICES ASSUME NEW r \in reads PROVE ReadOK(r)'
      OBVIOUS
    <3>1. IsCurrent(r) => r.source # w.source /\ r.source \in Source
      BY <1>6, <1>7, <1>8 DEF IsCurrent
    <3> QED BY <1>1, <1>4, <1>6, <2>1, <3>1 DEF ReadOK, IsCurrent
  <2>3. Shapes' /\ Fitting'
    BY <1>1, <1>4, <2>1, <2>2 DEF WorkspaceInv, Shapes, Fitting, FetchOK, WriteOK, Current
  <2>4. Located' /\ ViewsFit' /\ ShownBelongs' /\ KnowledgeIsCurrent'
    BY <1>1, <1>4, <1>7, <1>8, <2>1 DEF WorkspaceInv, Located, ViewsFit, ShownBelongs,
       KnowledgeIsCurrent, SourceOf
  <2>5. Fresh'
    BY <1>1, <1>5, <1>7, <1>8, <2>1 DEF WorkspaceInv, Fresh, IsCurrent
  <2> QED BY <2>3, <2>4, <2>5 DEF WorkspaceInv
<1>9. CASE SourceOf(page) = w.source
  <2>1. /\ page' = [page EXCEPT !.shown.knowledge = None]
        /\ request' = request + 1
        /\ reads' = reads \cup {Reading(session, request + 1, w.source)}
    BY <1>1, <1>9 DEF Reloading
  <2>2. page.snapshot # None /\ page.snapshot.source = w.source
    BY <1>2, <1>7, <1>9, SourcesAreNoNone
  <2> DEFINE said == [page.shown EXCEPT !.knowledge = None]
  <2>3. said \in Statements /\ said.source = page.shown.source /\ said.knowledge = None
        /\ said.notes = page.shown.notes
    BY <1>3 DEF Page, Statements
  <2>4. page' = [page EXCEPT !.shown = said]
    BY <1>3, <2>1 DEF Page
  <2> HIDE DEF said
  <2>5. /\ page' \in Page /\ page'.snapshot = page.snapshot /\ page'.remembered = page.remembered
        /\ page'.view = page.view /\ page'.shownFor = page.shownFor /\ page'.shown = said
    BY <1>3, <2>3, <2>4 DEF Page
  <2>6. SamePlace
    BY <2>5 DEF SamePlace, WorkspaceInv, ViewsFit
  <2>7. ViewsFit' /\ Located' /\ (\A f \in fetches : FetchOK(f)') /\ \A u \in writes : WriteOK(u)'
    BY <1>1, <2>5, <2>6, SamePlaceKeeps DEF WorkspaceInv, Located
  <2>8. PICK n \in Read : /\ reads' = reads \cup {n} /\ n.session = session
                          /\ n.request = request' /\ n.source = w.source /\ n.answer = None
    <3> DEFINE b == page.preview
               n == [session |-> session, request |-> request + 1, source |-> w.source,
                     preview |-> b, answer |-> None]
    <3>1. reads' = reads \cup {n}
      BY <2>1 DEF Reading
    <3>2. b \in BOOLEAN
      BY <1>3 DEF Page
    <3> HIDE DEF b
    <3>3. n \in Read
      BY <1>2, <1>3, <3>2 DEF Read
    <3>4. n.session = session /\ n.request = request + 1 /\ n.source = w.source /\ n.answer = None
      OBVIOUS
    <3> HIDE DEF n
    <3> QED BY <2>1, <3>1, <3>3, <3>4
  <2>9. \A r \in reads : r.request < request' /\ ~ IsCurrent(r)'
    <3>1. \A r \in reads : r.request \in Nat /\ r.request <= request
      BY <1>6 DEF ReadOK
    <3> QED BY <1>1, <1>3, <2>1, <3>1 DEF IsCurrent
  <2>10. \A r \in reads' : r \in Read /\ ReadOK(r)'
    <3>1. ASSUME NEW r \in reads PROVE r \in Read /\ ReadOK(r)'
      <4>1. r \in Read /\ ReadOK(r) /\ r.request \in Nat /\ r.request < request'
        BY <1>6, <2>9
      <4>2. r.request <= request' /\ r.request # request'
        BY <1>3, <2>1, <4>1
      <4> QED BY <1>1, <2>5, <4>1, <4>2 DEF ReadOK, IsCurrent
    <3>2. ReadOK(n)'
      BY <1>1, <1>3, <2>1, <2>2, <2>5, <2>8 DEF ReadOK
    <3> QED BY <2>8, <3>1, <3>2
  <2>11. Shapes' /\ Fitting'
    BY <1>1, <1>3, <1>4, <2>1, <2>5, <2>7, <2>10 DEF WorkspaceInv, Shapes, Fitting
  <2>12. ShownBelongs' /\ KnowledgeIsCurrent'
    BY <1>1, <2>3, <2>5 DEF WorkspaceInv, ShownBelongs, KnowledgeIsCurrent, SourceOf
  <2>13. Fresh'
    <3>1. IsCurrent(n)'
      BY <1>1, <2>8 DEF IsCurrent
    <3>2. \A r \in reads' : IsCurrent(r)' => r.answer = None
      BY <2>8, <2>9
    <3> QED BY <2>8, <3>1, <3>2 DEF Fresh
  <2> QED BY <2>7, <2>11, <2>12, <2>13 DEF WorkspaceInv
<1> QED BY <1>8, <1>9

\* A step that changes only the views in use, and forgets no note that was committed.
LEMMA ViewsOnly ==
  ASSUME WorkspaceInv, SamePlace, UNCHANGED <<store, session, request, reads, fetches, acked, spent>>,
         writes' \subseteq writes, \A s \in Source : Told(s)' => Told(s),
         page'.shownFor = page.shownFor, page'.shown.source = page.shown.source,
         page'.shown.notes = page.shown.notes, page'.shown.knowledge = page.shown.knowledge
  PROVE  WorkspaceInv'
<1>1. ViewsFit' /\ Located' /\ (\A f \in fetches : FetchOK(f)') /\ \A w \in writes : WriteOK(w)'
  BY SamePlaceKeeps DEF WorkspaceInv, Located
<1>2. \A r \in reads : ReadOK(r)'
  BY DEF WorkspaceInv, SamePlace, Fitting, ReadOK, IsCurrent
<1>3. Shapes' /\ Fitting'
  BY <1>1, <1>2 DEF WorkspaceInv, SamePlace, Shapes, Fitting
<1>4. ShownBelongs' /\ KnowledgeIsCurrent'
  BY DEF WorkspaceInv, SamePlace, ShownBelongs, KnowledgeIsCurrent, SourceOf
<1>5. Fresh'
  BY SourcesAreNoNone DEF WorkspaceInv, SamePlace, Fresh, IsCurrent
<1> QED BY <1>1, <1>3, <1>4, <1>5 DEF WorkspaceInv

LEMMA ListPatchedKeeps ==
  ASSUME WorkspaceInv, NEW w \in writes, ListPatched(w)
  PROVE  WorkspaceInv'
<1>1. /\ w.done # 0 /\ w.kind # "note" /\ writes' = writes \ {w}
      /\ UNCHANGED <<store, session, request, reads, fetches, acked, spent>>
  BY DEF ListPatched
<1>2. w \in Sent /\ w.source \in Source /\ w.name \in View /\ WriteOK(w) /\ page \in Page
  BY <1>1 DEF WorkspaceInv, Shapes, Fitting, Sent, WriteOK
<1>3. \A s \in Source : Told(s)' => Told(s)
  BY <1>1 DEF Told
<1>4. CASE w.session # session
  <2>1. page' = page
    BY <1>4 DEF ListPatched
  <2>2. SamePlace
    BY <1>2, <2>1 DEF SamePlace, WorkspaceInv, ViewsFit
  <2> QED BY <1>1, <1>3, <2>1, <2>2, ViewsOnly
<1>5. CASE w.session = session
  <2> DEFINE list == Patched(w)
             said == [page.shown EXCEPT !.views = list]
             name == IF w.kind = "delete" THEN None ELSE w.name
             view == IF w.kind = "delete" THEN None ELSE [source |-> w.source, name |-> w.name]
             liked == [page.preferred EXCEPT ![w.source] = name]
  <2>1. page' = [page EXCEPT !.shown.views = list, !.view = view, !.preferred[w.source] = name]
    BY <1>5 DEF ListPatched
  <2>2. page.snapshot # None /\ page.snapshot.source = w.source
    BY <1>2, <1>5 DEF WriteOK
  <2>3. list \subseteq View
    <3>1. page.shown.views \subseteq View /\ w.listed \subseteq View
      BY <1>2 DEF Page, Statements, Sent
    <3> QED BY <1>2, <3>1 DEF Patched
  <2> HIDE DEF list
  <2>4. said \in Statements /\ said.source = page.shown.source /\ said.notes = page.shown.notes
        /\ said.knowledge = page.shown.knowledge
    BY <1>2, <2>3 DEF Page, Statements
  <2>5. name \in {None} \cup View /\ view \in {None} \cup NamedView
        /\ (view # None => view.source = w.source)
    BY <1>2 DEF NamedView
  <2> HIDE DEF name, view
  <2>6. liked \in [Source -> {None} \cup View]
    BY <1>2, <2>5 DEF Page
  <2>7. page' = [page EXCEPT !.shown = said, !.view = view, !.preferred = liked]
    BY <1>2, <2>1 DEF Page
  <2> HIDE DEF said, liked
  <2>8. page' \in Page
    BY <1>2, <2>4, <2>5, <2>6, <2>7 DEF Page
  <2>9. /\ page'.snapshot = page.snapshot /\ page'.remembered = page.remembered
        /\ page'.view = view /\ page'.shown = said /\ page'.shownFor = page.shownFor
    BY <1>2, <2>7 DEF Page
  <2>10. SamePlace
    BY <2>2, <2>5, <2>8, <2>9 DEF SamePlace
  <2> QED BY <1>1, <1>3, <2>4, <2>9, <2>10, ViewsOnly
<1> QED BY <1>4, <1>5

LEMMA ApplyViewKeeps ==
  ASSUME WorkspaceInv, NEW w \in Views, ApplyView(w)
  PROVE  WorkspaceInv'
<1>1. /\ page.snapshot # None
      /\ UNCHANGED <<store, session, request, reads, writes, fetches, acked, spent>>
  BY DEF ApplyView
<1> DEFINE s == SourceOf(page)
           name == IF w # None /\ w.name # Domain THEN w.name ELSE None
           liked == [page.preferred EXCEPT ![s] = name]
<1>2. page \in Page /\ s \in Source /\ s = page.snapshot.source
  BY <1>1, SourcesAreNoNone DEF SourceOf, WorkspaceInv, Shapes
<1>3. page' = [page EXCEPT !.view = w, !.preferred[s] = name]
  BY DEF ApplyView
<1> HIDE DEF s
<1>4. w # None => w \in NamedView /\ w.source = s /\ w.name \in View \cup {Domain}
  <2>1. page.shown.views \subseteq View
    BY <1>2 DEF Page, Statements
  <2> QED BY <1>2, <2>1 DEF Views, NamedView, s
<1>5. name \in {None} \cup View
  BY <1>4
<1> HIDE DEF name
<1>6. liked \in [Source -> {None} \cup View]
  BY <1>2, <1>5 DEF Page
<1>7. page' = [page EXCEPT !.view = w, !.preferred = liked]
  BY <1>2, <1>3 DEF Page
<1> HIDE DEF liked
<1>8. page' \in Page
  BY <1>2, <1>4, <1>6, <1>7 DEF Page
<1>9. /\ page'.snapshot = page.snapshot /\ page'.remembered = page.remembered
      /\ page'.view = w /\ page'.shown = page.shown /\ page'.shownFor = page.shownFor
  BY <1>2, <1>7 DEF Page
<1>10. SamePlace
  BY <1>1, <1>2, <1>4, <1>8, <1>9 DEF SamePlace
<1>11. writes' \subseteq writes /\ \A t \in Source : Told(t)' => Told(t)
  BY <1>1 DEF Told
<1> QED BY <1>1, <1>9, <1>10, <1>11, ViewsOnly
-----------------------------------------------------------------------------
(* Every step                                                              *)

LEMMA InitEstablishes == ASSUME Init PROVE WorkspaceInv
<1>1. /\ page = [snapshot |-> None, preview |-> FALSE, view |-> None, remembered |-> None,
                 left |-> None, preferred |-> [s \in Source |-> None], shown |-> Nothing,
                 shownFor |-> 0, settled |-> 0]
      /\ store = [s \in Source |-> [latest |-> 1, notes |-> 0, views |-> {}]]
      /\ session = 0 /\ request = 0 /\ reads = {} /\ writes = {} /\ spent = 0
      /\ acked = [s \in Source |-> 0]
      /\ fetches \in {{}} \cup {{Fetch("startup", s, 0)} : s \in Source}
  BY DEF Init
<1>2. page \in Page /\ page.snapshot = None /\ page.shownFor = 0 /\ page.view = None
      /\ page.remembered = None
  <2>1. Nothing \in Statements
    BY DEF Nothing, Statements
  <2> QED BY <1>1, <2>1 DEF Page
<1>3. store \in Store /\ \A s \in Source : store[s].latest = 1 /\ acked[s] = store[s].notes
                                          /\ acked[s] = 0
  BY <1>1 DEF Store
<1>4. \A f \in fetches : f \in Way /\ FetchOK(f)
  <2> SUFFICES ASSUME NEW s \in Source, fetches = {Fetch("startup", s, 0)}
               PROVE  \A f \in fetches : f \in Way /\ FetchOK(f)
    BY <1>1
  <2> DEFINE c == Closure
  <2>1. c \in Rendering /\ c.from = None /\ c.view = None
    BY <1>2 DEF Closure, Rendering, SourceOf, Page
  <2>2. c # None /\ s # None
    BY <2>1, NothingIsNoRecord, NothingIsApart DEF Rendering, NamedView
  <2>3. Fetch("startup", s, 0) = [kind |-> "startup", source |-> s, id |-> 0, current |-> TRUE,
                                  closure |-> c, session |-> 0]
    BY DEF Fetch
  <2> HIDE DEF c
  <2>4. PICK f \in Way : /\ f = Fetch("startup", s, 0) /\ f.kind = "startup" /\ f.source = s
                         /\ f.id = 0 /\ f.closure = c /\ f.session = 0
    <3> DEFINE f == [kind |-> "startup", source |-> s, id |-> 0, current |-> TRUE,
                     closure |-> c, session |-> 0]
    <3>1. f \in Way
      BY <2>1 DEF Way
    <3>2. f.kind = "startup" /\ f.source = s /\ f.id = 0 /\ f.closure = c /\ f.session = 0
      OBVIOUS
    <3>3. f = Fetch("startup", s, 0)
      BY <2>3
    <3> HIDE DEF f
    <3> QED BY <3>1, <3>2, <3>3
  <2>5. FetchOK(f)
    BY <1>1, <1>3, <2>1, <2>2, <2>4 DEF FetchOK
  <2> QED BY <2>4, <2>5
<1>5. Shapes
  BY <1>1, <1>2, <1>3, <1>4 DEF Shapes
<1>6. Located /\ ViewsFit /\ Fresh /\ ShownBelongs /\ KnowledgeIsCurrent
  BY <1>1, <1>2 DEF Located, ViewsFit, Fresh, ShownBelongs, KnowledgeIsCurrent
<1>7. Fitting
  BY <1>1, <1>3, <1>4 DEF Fitting
<1> QED BY <1>5, <1>6, <1>7 DEF WorkspaceInv

LEMMA NextKeeps == ASSUME WorkspaceInv, [Next]_vars PROVE WorkspaceInv'
<1>1. CASE UNCHANGED vars
  BY <1>1, FetchesOnly DEF vars, WorkspaceInv, Shapes, Fitting
<1>2. CASE Navigate
  BY <1>2, BeginOpenKeeps, DeleteSourceKeeps, BeginHistoryKeeps, BeginReturnKeeps,
     BeginRefreshKeeps DEF Navigate
<1>3. CASE Edit
  <2>1. CASE SaveNote
    <3>1. spent \in Nat /\ Send(Write("note", spent))
      BY <2>1 DEF SaveNote, WorkspaceInv, Shapes
    <3> QED BY <3>1, SendKeeps
  <2>2. ASSUME NEW v \in View, SaveView(v) \/ CreateView(v) \/ DeleteView(v) PROVE WorkspaceInv'
    <3>1. CASE Send(Write("save", v))
      BY <3>1, SendKeeps
    <3>2. CASE Send(Write("create", v))
      BY <3>2, SendKeeps
    <3>3. CASE Send(Write("delete", v))
      BY <3>3, SendKeeps
    <3> QED BY <2>2, <3>1, <3>2, <3>3 DEF SaveView, CreateView, DeleteView
  <2>3. ASSUME NEW w \in Views, ApplyView(w) PROVE WorkspaceInv'
    BY <2>3, ApplyViewKeeps
  <2> QED BY <1>3, <2>1, <2>2, <2>3 DEF Edit
<1>4. CASE Answer
  BY <1>4, ListedKeeps, RefreshCapturedKeeps, ArriveKeeps, AnsweredKeeps, LoadedKeeps,
     CommittedKeeps, NoteSavedKeeps, ListPatchedKeeps DEF Answer
<1>5. CASE Failure
  BY <1>5, FetchFailsKeeps, LoadFailsKeeps, WriteFailsKeeps DEF Failure
<1> QED BY <1>1, <1>2, <1>3, <1>4, <1>5 DEF Next

\* The inductive invariant: sessions and requests say to which snapshot an answer belongs and
\* whether it was overtaken, whatever is under way and in whatever order it arrives.
THEOREM WorkspaceInductive == Spec => []WorkspaceInv
<1>1. Init => WorkspaceInv
  BY InitEstablishes
<1>2. WorkspaceInv /\ [Next]_vars => WorkspaceInv'
  BY NextKeeps
<1> QED BY <1>1, <1>2, PTL DEF Spec

\* What is presented as the statements of the snapshot on the page was read for its source, and the
\* view in use is one of its source (App.tsx 299-327, 343-371, 837-847).
THEOREM ShownStatementsBelong == Spec => []ShownBelongs
<1>1. WorkspaceInv => ShownBelongs
  BY DEF WorkspaceInv
<1> QED BY <1>1, WorkspaceInductive, PTL

LEMMA FreshConverges == ASSUME WorkspaceInv PROVE NotesConverge
<1> SUFFICES ASSUME reads = {}, writes = {}, page.snapshot # None, page.shownFor = session
             PROVE  page.shown.notes = store[SourceOf(page)].notes
  BY DEF NotesConverge
<1>1. Told(page.snapshot.source)
  BY DEF Told
<1> QED BY <1>1 DEF WorkspaceInv, Fresh, SourceOf

\* A status on the page was derived after every note the page knows of, and when nothing is under
\* way any more the page shows the notes of the store (App.tsx 333-340).
THEOREM AnswersAlwaysConverge == Spec => []AnswersConverge
<1>1. WorkspaceInv => AnswersConverge
  BY FreshConverges DEF WorkspaceInv, AnswersConverge
<1> QED BY <1>1, WorkspaceInductive, PTL
=============================================================================
