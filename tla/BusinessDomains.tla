-------------------------- MODULE BusinessDomains --------------------------
(***************************************************************************)
(* The business domains of a model and the views beside them: the lists a  *)
(* page shows (App.tsx), the panel that adds to them (KnowledgePanel.tsx)  *)
(* and the canvas's menu that adds tables to a domain                      *)
(* (DiagramSelectionActions.tsx).  A domain is saved whole, with the       *)
(* members the page shows; the lists are patched from answers, from what   *)
(* the panel had before it asked, and by readings that may be late.        *)
(***************************************************************************)
EXTENDS Naturals, Sequences

CONSTANTS Source, Table, Group, View, None,
          Made,      \* the domain that is there at the start, with its members
          MaxActs, MaxCalls

VARIABLES store,     \* domain_groups and saved_views, and the writes so far
          page,      \* the snapshot on the page and the lists shown for it
          pending,   \* pendingDomainUpdates
          panel,     \* the panel is waiting for its own save
          calls,     \* the calls under way, None when one is answered
          acts

vars == <<store, page, pending, panel, calls, acts>>

NoGroups == [g \in Group |-> None]
Of(s) == [g \in Group |-> IF store.groups[g] # None /\ store.groups[g].source = s
                          THEN store.groups[g].members ELSE None]
ViewsOf(s) == {v \in View : store.views[v] = s}

\* useMemo([snapshot]), the lists, and what is known of how current they are.
Init ==
  /\ \E s \in Source :
       /\ store = [groups |-> [g \in Group |-> IF g = Made.group THEN [source |-> s, members |-> Made.members] ELSE None],
                   views |-> [v \in View |-> None], spent |-> {}, writes |-> 0]
       /\ page = [source |-> s, session |-> 1, request |-> 0, loaded |-> FALSE, groups |-> NoGroups, views |-> {},
                  shown |-> None, version |-> 0, newest |-> 0, overtaken |-> FALSE]
  /\ pending = {} /\ panel = FALSE /\ calls = <<>> /\ acts = 0

Act == acts < MaxActs /\ acts' = acts + 1
Room == Len(SelectSeq(calls, LAMBDA c : c # None)) < MaxCalls
Ask(c) == calls' = Append(calls, c)

\* A call as it is sent; what it asks with is filled in where it is made, "lists" is what the panel had
\* before it asked or what a reading found.
Unread == [groups |-> NoGroups, views |-> {}]
New(kind) ==
  [kind |-> kind, session |-> page.session, source |-> page.source, stage |-> "sent", stamp |-> 0,
   group |-> None, view |-> None, members |-> {}, lists |-> Unread, version |-> 0, request |-> 0, behind |-> FALSE]

-----------------------------------------------------------------------------
(* The page                                                                *)

\* loadSemantics, with the number that later readings exceed.
Reading(request) == [New("read") EXCEPT !.request = request]

\* A snapshot is shown: a new session, whose lists are read.
Open(s) ==
  /\ Act /\ Room
  /\ page' = [page EXCEPT !.source = s, !.session = @ + 1, !.request = @ + 1, !.loaded = FALSE,
                          !.shown = IF s = page.source THEN @ ELSE None]
  /\ Ask([Reading(page.request + 1) EXCEPT !.session = page.session + 1, !.source = s])
  /\ UNCHANGED <<store, pending, panel>>

\* refreshSemantics, after a note or a relationship was saved; also the first reading.
Refresh ==
  /\ Room /\ (IF page.request = 0 THEN UNCHANGED acts ELSE Act)
  /\ page' = [page EXCEPT !.request = @ + 1]
  /\ Ask(Reading(page.request + 1)) /\ UNCHANGED <<store, pending, panel>>

\* applyView: a domain is a view whose roots are its members; or none is chosen.
Apply(g) ==
  /\ Act /\ page.loaded /\ page.groups[g] # None
  /\ page' = [page EXCEPT !.shown = IF @ = None THEN [group |-> g, roots |-> page.groups[g],
                                                              behind |-> page.overtaken] ELSE None]
  /\ UNCHANGED <<store, pending, panel, calls>>

\* The menu offers a listed domain some of the chosen tables are not in.
CanAdd(g, T) == page.loaded /\ page.groups[g] # None /\ ~(T \subseteq page.groups[g])

\* domainMembershipAddition: the members listed and the tables chosen, each once.
Addition(g, T) == page.groups[g] \cup T

\* Mutated: the update that is still being saved is not looked for.
AddAnyway(g, T) ==
  /\ Act /\ Room /\ CanAdd(g, T) /\ pending' = pending \cup {g}
  /\ Ask([New("add") EXCEPT !.group = g, !.members = Addition(g, T), !.behind = page.overtaken])
  /\ UNCHANGED <<store, page, panel>>

\* addTablesToDomain: one update of a domain at a time, saved as one list of members.
AddToDomain(g, T) ==
  /\ Act /\ Room /\ CanAdd(g, T)
  /\ g \notin pending /\ pending' = pending \cup {g}
  /\ Ask([New("add") EXCEPT !.group = g, !.members = Addition(g, T), !.behind = page.overtaken])
  /\ UNCHANGED <<store, page, panel>>

\* The panel is handed the lists of this snapshot, or empty ones until they are read.
Given == IF page.loaded THEN [groups |-> page.groups, views |-> page.views] ELSE Unread

\* createGroup and createView: what the panel has now is what it will build on.
CreateGroup(t) ==
  /\ Act /\ Room /\ ~panel /\ panel' = TRUE
  /\ Ask([New("group") EXCEPT !.members = {t}, !.lists = Given, !.version = page.version])
  /\ UNCHANGED <<store, page, pending>>
CreateView ==
  /\ Act /\ Room /\ ~panel /\ panel' = TRUE
  /\ Ask([New("view") EXCEPT !.lists = Given, !.version = page.version])
  /\ UNCHANGED <<store, page, pending>>

\* saveModelView and deleteModelView, from the canvas.
SaveView ==
  /\ Act /\ Room /\ page.loaded
  /\ Ask(New("save")) /\ UNCHANGED <<store, page, pending, panel>>
DeleteView(v) ==
  /\ Act /\ Room /\ page.loaded /\ v \in page.views
  /\ Ask([New("delete") EXCEPT !.view = v]) /\ UNCHANGED <<store, page, pending, panel>>

-----------------------------------------------------------------------------
(* The store                                                               *)

At(i, stage) == calls[i] # None /\ calls[i].stage = stage
Answer(i, c) == calls' = [calls EXCEPT ![i] = c]
Write(groups, views) ==
  store' = [groups |-> groups, views |-> views, writes |-> store.writes + 1,
            spent |-> store.spent \cup {v \in View : views[v] # None}]
Stamp == store.writes + 1

\* save_domain_group: a row is replaced whole, and no other source's.
ServeAdd(i) ==
  LET c   == calls[i]
      row == store.groups[c.group] IN
  /\ At(i, "sent") /\ c.kind = "add" /\ (row # None => row.source = c.source)
  /\ Write([store.groups EXCEPT ![c.group] = [source |-> c.source, members |-> c.members]], store.views)
  /\ Answer(i, [c EXCEPT !.stage = "done", !.stamp = Stamp])
  /\ UNCHANGED <<page, pending, panel, acts>>
ServeGroup(i) ==
  LET c == calls[i] IN
  /\ At(i, "sent") /\ c.kind = "group"
  /\ \E g \in {h \in Group : store.groups[h] = None} :
       /\ Write([store.groups EXCEPT ![g] = [source |-> c.source, members |-> c.members]], store.views)
       /\ Answer(i, [c EXCEPT !.stage = "done", !.stamp = Stamp, !.group = g])
  /\ UNCHANGED <<page, pending, panel, acts>>
ServeView(i) ==
  LET c == calls[i] IN
  /\ At(i, "sent") /\ c.kind \in {"view", "save"}
  /\ \E v \in View \ store.spent :
       /\ Write(store.groups, [store.views EXCEPT ![v] = c.source])
       /\ Answer(i, [c EXCEPT !.stage = "done", !.stamp = Stamp, !.view = v])
  /\ UNCHANGED <<page, pending, panel, acts>>
ServeDelete(i) ==
  LET c == calls[i] IN
  /\ At(i, "sent") /\ c.kind = "delete"
  /\ Write(store.groups, [store.views EXCEPT ![c.view] = None])
  /\ Answer(i, [c EXCEPT !.stage = "done", !.stamp = Stamp])
  /\ UNCHANGED <<page, pending, panel, acts>>
ServeRead(i) ==
  LET c == calls[i] IN
  /\ At(i, "sent") /\ c.kind = "read"
  /\ Answer(i, [c EXCEPT !.stage = "done", !.stamp = store.writes,
                          !.lists = [groups |-> Of(c.source), views |-> ViewsOf(c.source)]])
  /\ UNCHANGED <<store, page, pending, panel, acts>>
Fail(i) ==
  /\ At(i, "sent") /\ Answer(i, [calls[i] EXCEPT !.stage = "failed"])
  /\ UNCHANGED <<store, page, pending, panel, acts>>

-----------------------------------------------------------------------------
(* The answers                                                             *)

Max2(m, n) == IF m > n THEN m ELSE n
Mine(c) == c.session = page.session
Patch(c, groups, views, shown, lost) ==
  page' = [page EXCEPT !.groups = groups, !.views = views, !.shown = shown, !.version = @ + 1,
                       !.newest = Max2(@, c.stamp),
                       !.overtaken = @ \/ lost \/ c.stamp < page.newest]
\* A write of an earlier session of the same source, which the lists may not have.
Missed(c) ==
  IF c.source = page.source
  THEN page' = [page EXCEPT !.newest = Max2(@, c.stamp), !.overtaken = TRUE]
  ELSE UNCHANGED page

\* The answer to addTablesToDomain: the domain in the list, and in the view when it is shown.
Added(i) ==
  LET c == calls[i] IN
  /\ At(i, "done") /\ c.kind = "add" /\ Answer(i, None) /\ pending' = pending \ {c.group}
  /\ IF c.source = page.source
     THEN Patch(c, [page.groups EXCEPT ![c.group] = IF @ = None THEN None ELSE c.members], page.views,
                IF page.shown # None /\ page.shown.group = c.group
                THEN [page.shown EXCEPT !.roots = c.members] ELSE page.shown, FALSE)
     ELSE UNCHANGED page
  /\ UNCHANGED <<store, panel, acts>>

\* changeSemantics with the panel's lists of the click: what was patched since is undone.
GroupMade(i) ==
  LET c == calls[i] IN
  /\ At(i, "done") /\ c.kind = "group" /\ Answer(i, None) /\ panel' = FALSE
  /\ IF Mine(c) THEN Patch(c, [c.lists.groups EXCEPT ![c.group] = c.members], c.lists.views, page.shown,
                           c.version # page.version)
     ELSE Missed(c)
  /\ UNCHANGED <<store, pending, acts>>
ViewMade(i) ==
  LET c == calls[i] IN
  /\ At(i, "done") /\ c.kind = "view" /\ Answer(i, None) /\ panel' = FALSE
  /\ IF Mine(c) THEN Patch(c, c.lists.groups, c.lists.views \cup {c.view}, None, c.version # page.version)
     ELSE Missed(c)
  /\ UNCHANGED <<store, pending, acts>>

\* The answer to saveModelView, and to deleteModelView.
ViewPatched(i) ==
  LET c == calls[i] IN
  /\ At(i, "done") /\ c.kind \in {"save", "delete"} /\ Answer(i, None)
  /\ IF Mine(c) THEN Patch(c, page.groups, IF c.kind = "save" THEN page.views \cup {c.view} ELSE page.views \ {c.view},
                           page.shown, FALSE)
     ELSE Missed(c)
  /\ UNCHANGED <<store, pending, panel, acts>>

\* The last reading of the session counts, and no earlier one.
AnyReading(c) == Mine(c)
IsLast(c) == Mine(c) /\ c.request = page.request

\* loadSemantics answers: the lists as they were when they were read.
ReadDone(i) ==
  LET c == calls[i] IN
  /\ At(i, "done") /\ c.kind = "read" /\ Answer(i, None)
  /\ IF IsLast(c)
     THEN page' = [page EXCEPT !.loaded = TRUE, !.groups = c.lists.groups, !.views = c.lists.views, !.version = @ + 1,
                               !.overtaken = (c.request = page.request /\ page.newest > c.stamp)]
     ELSE UNCHANGED page
  /\ UNCHANGED <<store, pending, panel, acts>>

\* A reading that failed leaves empty lists, which nothing can be added to.
Failed(i) ==
  LET c == calls[i] IN
  /\ At(i, "failed") /\ Answer(i, None)
  /\ pending' = IF c.kind = "add" THEN pending \ {c.group} ELSE pending
  /\ panel' = (panel /\ c.kind \notin {"group", "view"})
  /\ page' = IF c.kind = "read" /\ IsLast(c)
             THEN [page EXCEPT !.loaded = FALSE, !.groups = NoGroups, !.views = {}, !.version = @ + 1]
             ELSE page
  /\ UNCHANGED <<store, acts>>

Next ==
  \/ \E s \in Source : Open(s)
  \/ Refresh \/ CreateView \/ SaveView
  \/ \E g \in Group : Apply(g) \/ \E T \in (SUBSET Table) \ {{}} : AddToDomain(g, T)
  \/ \E t \in Table : CreateGroup(t)
  \/ \E v \in View : DeleteView(v)
  \/ \E i \in DOMAIN calls :
       \/ ServeAdd(i) \/ ServeGroup(i) \/ ServeView(i) \/ ServeDelete(i) \/ ServeRead(i) \/ Fail(i)
       \/ Added(i) \/ GroupMade(i) \/ ViewMade(i) \/ ViewPatched(i) \/ ReadDone(i) \/ Failed(i)

Spec == Init /\ [][Next]_vars

-----------------------------------------------------------------------------
(* Properties                                                              *)

TypeOK ==
  /\ \A g \in Group : store.groups[g] # None => store.groups[g] \in [source : Source, members : SUBSET Table]
  /\ store.views \in [View -> Source \cup {None}]
  /\ page.groups \in [Group -> (SUBSET Table) \cup {None}] /\ page.views \subseteq View
  /\ page.shown # None => page.shown \in [group : Group, roots : SUBSET Table, behind : BOOLEAN]
  /\ pending \subseteq Group /\ panel \in BOOLEAN

\* When nothing is under way and no answer was overtaken by another, the lists on the page are
\* those of the store, and the domain shown as a view has the members of the list.
ShownIsStored ==
  page.loaded /\ ~page.overtaken /\ (\A i \in DOMAIN calls : calls[i] = None) =>
    /\ page.groups = Of(page.source) /\ page.views = ViewsOf(page.source)
    /\ page.shown # None /\ ~page.shown.behind => page.groups[page.shown.group] = page.shown.roots

\* "Existing members are preserved" (en.ts:1510): no step takes a member out of a domain.  The lists that
\* the panel puts back (KnowledgePanel.tsx:52-55) lack what was added meanwhile, and so does the next addition.
MembersStay ==
  \A g \in Group : store.groups[g] # None => store.groups[g].members \subseteq store'.groups[g].members
MembersArePreserved == [][MembersStay]_vars

\* That is the only way to lose one: an addition built on lists that no older answer has replaced,
\* however many additions, readings and sessions there were, keeps every member.
KeepsMembers ==
  \A g \in Group : store.groups[g] # None =>
    \/ store.groups[g].members \subseteq store'.groups[g].members
    \/ \E i \in DOMAIN calls : At(i, "sent") /\ calls[i].kind = "add" /\ calls[i].group = g /\ calls[i].behind
LostOnlyWhenBehind == [][KeepsMembers]_vars
=============================================================================
