----------------------------- MODULE SchemaTree -----------------------------
(***************************************************************************)
(* The tree of the database objects in the sidebar (SchemaTree.tsx): what  *)
(* is unfolded, the filter, which unfolds by itself, the menu of an object *)
(* and the object whose details are shown.  A refresh or a step in the     *)
(* history replaces the snapshot below all of them.                        *)
(***************************************************************************)
EXTENDS Naturals

CONSTANTS Snapshot, Object, Branch, Filter, None,
          Home, Objects,  \* the source and the objects of a snapshot
          Kind,           \* table, view, program or enum
          Hits,           \* the objects a filter finds; none finds all
          Defaults,       \* the branches unfolded at first
          MaxActs

VARIABLES tree, page, acts

vars == <<tree, page, acts>>

Fresh == [search |-> None, unfolded |-> [b \in Branch |-> TRUE], menu |-> None, preview |-> None]

Init ==
  /\ \E n \in Snapshot :
       tree = [snap |-> n, open |-> [b \in Branch |-> b \in Defaults[n]], search |-> None,
               unfolded |-> [b \in Branch |-> TRUE], menu |-> None, preview |-> None]
  /\ page = [table |-> None, document |-> None, of |-> None] /\ acts = 0

\* The document of an object is shown for the snapshot it was opened in.
Document(t, p) == IF p.of = t.snap THEN p.document ELSE None

\* activeKey, as far as the snapshot has it.
Active(t, p) == IF Document(t, p) # None THEN Document(t, p) ELSE t.preview
Preview(t, p) == IF Active(t, p) \in Objects[t.snap] THEN Active(t, p) ELSE None

\* While rendering: a preview the snapshot does not have is dropped.
Render(t, p) ==
  /\ page' = p
  /\ tree' = IF Preview(t, p) = None THEN [t EXCEPT !.preview = None] ELSE t

\* Mutated: the menu stays open whatever is shown below it.
AnyMenu(t) == IF t.menu = None THEN None ELSE t.menu.object

\* activeMenu: the menu of an object, while the tree is the one it was opened on.
Menu(t) ==
  IF t.menu # None /\ t.menu.scope = <<Home[t.snap], t.snap, t.search>> THEN t.menu.object ELSE None

Visible(t) == Objects[t.snap] \cap Hits[t.search]
Unfolded(t, b) == IF t.search # None THEN t.unfolded[b] ELSE t.open[b]

Act == acts < MaxActs /\ acts' = acts + 1
\* A press anywhere else closes the menu that is open.
Pressed == IF Menu(tree) # None THEN [tree EXCEPT !.menu = None] ELSE tree

-----------------------------------------------------------------------------
\* Another snapshot, from the user or by itself; a source starts afresh.
Replace(n, pressed) ==
  /\ Act /\ n # tree.snap
  /\ LET t == [(IF pressed THEN Pressed ELSE tree) EXCEPT !.snap = n] IN
     Render(IF Home[n] = Home[tree.snap] THEN t
            ELSE [t EXCEPT !.open = [b \in Branch |-> b \in Defaults[n]], !.search = Fresh.search,
                           !.unfolded = Fresh.unfolded, !.menu = Fresh.menu, !.preview = Fresh.preview],
            [page EXCEPT !.table = None])

\* Mutated: what is folded in a filter stays folded after it.
ToggleAll(b) ==
  /\ Act
  /\ Render([Pressed EXCEPT !.unfolded[b] = ~@, !.open[b] = ~@], page)

\* toggle.
Toggle(b) ==
  /\ Act
  /\ Render(IF tree.search # None THEN [Pressed EXCEPT !.unfolded[b] = ~@] ELSE [Pressed EXCEPT !.open[b] = ~@], page)

\* The field of the filter: typing closes the menu, the ways to clear it do not.
Search(f) ==
  /\ Act /\ f # tree.search
  /\ Render([tree EXCEPT !.search = f, !.unfolded = Fresh.unfolded, !.menu = None], page)
ClearSearch ==
  /\ Act /\ tree.search # None
  /\ \E t \in {tree, Pressed} : Render([t EXCEPT !.search = None, !.unfolded = Fresh.unfolded], page)

\* showMenu.
OpenMenu(o) ==
  /\ Act /\ o \in Visible(tree)
  /\ Render([tree EXCEPT !.menu = [object |-> o, scope |-> <<Home[tree.snap], tree.snap, tree.search>>]], page)

\* chooseTable, and openObject: an enum is shown here, another object in a document of its own.
Chosen(t, o) ==
  IF Kind[o] = "table"
  THEN Render([t EXCEPT !.preview = None], [page EXCEPT !.table = o, !.document = None])
  ELSE IF Kind[o] = "enum" THEN Render([t EXCEPT !.preview = o], [page EXCEPT !.document = None])
  ELSE Render([t EXCEPT !.preview = None], [page EXCEPT !.document = o, !.of = t.snap])
Choose(o) == Act /\ o \in Visible(tree) /\ Chosen(Pressed, o)
ChooseInMenu == Act /\ Menu(tree) # None /\ Chosen([tree EXCEPT !.menu = None], Menu(tree))
CloseMenu == Act /\ Menu(tree) # None /\ Render(Pressed, page)
ClosePreview == Act /\ tree.preview # None /\ Render([Pressed EXCEPT !.preview = None], page)

\* Elsewhere: a table is selected on the diagram, a document is opened in the inspector or closed.
Elsewhere ==
  /\ Act
  /\ \/ \E o \in Objects[tree.snap] : Kind[o] = "table" /\ Render(Pressed, [page EXCEPT !.table = o])
     \/ \E o \in Objects[tree.snap] :
          Kind[o] \in {"view", "program"} /\ Render(Pressed, [page EXCEPT !.document = o, !.of = tree.snap])
     \/ page.document # None /\ Render(Pressed, [page EXCEPT !.document = None])

Next ==
  \/ \E n \in Snapshot, b \in BOOLEAN : Replace(n, b)
  \/ \E b \in Branch : Toggle(b)
  \/ \E f \in Filter : Search(f)
  \/ \E o \in Object : OpenMenu(o) \/ Choose(o)
  \/ ClearSearch \/ ChooseInMenu \/ CloseMenu \/ ClosePreview \/ Elsewhere

Spec == Init /\ [][Next]_vars

-----------------------------------------------------------------------------
(* Properties                                                              *)

TypeOK ==
  /\ tree.snap \in Snapshot /\ tree.search \in Filter \cup {None} /\ tree.preview \in Object \cup {None}
  /\ tree.open \in [Branch -> BOOLEAN] /\ tree.unfolded \in [Branch -> BOOLEAN]
  /\ tree.menu # None => tree.menu.object \in Object
  /\ page.table \in Object \cup {None} /\ page.document \in Object \cup {None}

\* The menu is that of an object the tree shows, and the details are of one the snapshot has.
TreeIsOfSnapshot ==
  /\ Menu(tree) # None => Menu(tree) \in Visible(tree)
  /\ Preview(tree, page) # None => Kind[Preview(tree, page)] # "table"
  /\ page.table # None => page.table \in Objects[tree.snap]

\* A filter unfolds what it finds without changing what the user has unfolded.
DisclosureIsKept ==
  [][tree.search # None /\ Home[tree'.snap] = Home[tree.snap] => tree'.open = tree.open]_vars
=============================================================================
