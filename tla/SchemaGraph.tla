---- MODULE SchemaGraph ----
(***************************************************************************)
(* What the diagram draws (graph/schema-graph.ts, graph/schema-            *)
(* comparison.ts): the tables within the focus and the saved view, the     *)
(* fields of each that are visible, and the edges - declared foreign keys, *)
(* the user's logical relationships and the suggestions inferred from      *)
(* names - of the captured model, or of two captured models side by side.  *)
(* Everything drawn is a function of the state; the actions are the ways   *)
(* the state changes between two drawings.                                 *)
(***************************************************************************)
EXTENDS Integers, Sequences, FiniteSets, SequencesExt, FiniteSetsExt

CONSTANTS Name,       \* [table -> Seq(word)]: a table's name between underscores
          Home,       \* [table -> schema]
          Order,      \* Seq(column): ordinal positions
          Stem,       \* [column -> Seq(word)]: what comes before "_id", or <<>>
          Plural,     \* [word -> word]
          Id,         \* the column named "id"
          KeyDef,     \* [constraint name -> set of definitions it can have]
          Shape,      \* [table -> set of fields, with their types, it can be captured with]
          Link,       \* the logical relationships that may be saved
          None,
          Start,      \* the first captured model
          Caps,       \* the values of maxInitialColumns
          MaxEdits, MaxCaptures, MaxChoices

VARIABLES now,        \* the captured model shown: fields, keys, unread
          past,       \* the capture before it
          comparing,  \* "no", "both", or "partial" (Before is not loaded)
          links,      \* [saved relationship -> "enabled" | "disabled"]
          ignored,    \* dismissed suggestions
          show,       \* which kinds of edges are drawn
          cap,        \* maxInitialColumns
          focus,      \* the table looked at, or None
          view,       \* the saved view: its roots and depth (no roots: all)
          query,      \* the word searched for, or None
          edits, captures, choices   \* counted up to the bounds

schema == <<now, past, captures>>
settings == <<show, cap, focus, view, query, choices>>
saved == <<links, ignored, edits>>
vars == <<now, past, comparing, links, ignored, show, cap, focus, view, query, edits, captures, choices>>

Tables == DOMAIN Name
Column == {Order[i] : i \in DOMAIN Order}
Pair == [from : Tables, column : Column, to : Tables, ref : Column]
Kinds == [physical : BOOLEAN, logical : BOOLEAN, inferred : BOOLEAN, invalid : BOOLEAN]

TablesOf(m) == DOMAIN m.fields
FieldsOf(m, t) == IF t \in TablesOf(m) THEN DOMAIN m.fields[t] ELSE {}
Holds(m, t, c) == c \in FieldsOf(m, t)
(* The foreign keys of a table; one whose table is not captured is not.     *)
KeysOf(m, t) == {n \in DOMAIN m.keys : m.keys[n].from = t}
PairsOf(key) == {[from |-> key.from, column |-> p[1], to |-> key.to, ref |-> p[2]] : p \in key.pairs}

----------------------------------------------------------------------------
(* The status a saved relationship has once it is checked against the       *)
(* latest capture.                                                          *)
Status(l) ==
    IF links[l] = "disabled" THEN "disabled"
    ELSE IF ~ (Holds(now, l.from, l.column) /\ Holds(now, l.to, l.ref)) THEN "orphaned"
    ELSE IF \E n \in DOMAIN now.keys : PairsOf(now.keys[n]) = {l} THEN "supersededByPhysical"
    ELSE IF now.fields[l.from][l.column] # now.fields[l.to][l.ref] THEN "conflicted"
    ELSE "active"

Followed(l) == Status(l) \notin {"disabled", "orphaned"}

(* A comparison leaves out the relationships whose fields the current model *)
(* lacks.                                                                   *)
Relationships ==
    {l \in DOMAIN links : comparing = "no" \/ (Holds(now, l.from, l.column) /\ Holds(now, l.to, l.ref))}

----------------------------------------------------------------------------
(* The comparison.                                                          *)
Unread(t) == comparing # "no" /\ t \in TablesOf(now) \cap TablesOf(past)
             /\ t \in now.unread \cup past.unread

AllTables == TablesOf(now) \cup (IF comparing = "both" THEN TablesOf(past) ELSE {})

SameTable(t) ==
    \/ t \in now.unread \cup past.unread
    \/ /\ now.fields[t] = past.fields[t]
       /\ {now.keys[n] : n \in KeysOf(now, t)} = {past.keys[n] : n \in KeysOf(past, t)}

TableStatus(t) ==
    IF comparing = "no" THEN None
    ELSE IF t \notin TablesOf(now) THEN "deleted"
    ELSE IF t \notin TablesOf(past) THEN "added"
    ELSE IF SameTable(t) THEN None ELSE "modified"

(* Fields drawn for a table: those of both captures, unless one could not   *)
(* read them or there is nothing to compare with.                           *)
Fields(t) ==
    IF comparing = "both" /\ ~Unread(t) THEN FieldsOf(now, t) \cup FieldsOf(past, t) ELSE FieldsOf(now, t)

(* A rename is inferred where a field that is gone and one that is new are  *)
(* alike, and like no other that is gone or new.                            *)
Gone(t) == FieldsOf(past, t) \ FieldsOf(now, t)
New(t) == FieldsOf(now, t) \ FieldsOf(past, t)
Renames(t) ==
    IF comparing = "no" \/ Unread(t) THEN {}
    ELSE {p \in Gone(t) \X New(t) :
            /\ {c \in New(t) : now.fields[t][c] = past.fields[t][p[1]]} = {p[2]}
            /\ {c \in Gone(t) : past.fields[t][c] = now.fields[t][p[2]]} = {p[1]}}
NewNames(t) == {p[2] : p \in Renames(t)}

\* mutant: a new name is a new field.
StatusByName(t, c) ==
    IF comparing = "no" \/ Unread(t) THEN None
    ELSE IF TableStatus(t) \in {"deleted", "added"} THEN TableStatus(t)
    ELSE IF ~Holds(now, t, c) THEN "deleted"
    ELSE IF ~Holds(past, t, c) THEN "added"
    ELSE IF now.fields[t][c] # past.fields[t][c] THEN "modified" ELSE None
FieldStatus(t, c) ==
    IF comparing = "no" \/ Unread(t) THEN None
    ELSE IF TableStatus(t) \in {"deleted", "added"} THEN TableStatus(t)
    ELSE IF ~Holds(now, t, c) THEN "deleted"
    ELSE IF ~Holds(past, t, c) THEN (IF c \in NewNames(t) THEN "modified" ELSE "added")
    ELSE IF now.fields[t][c] # past.fields[t][c] THEN "modified" ELSE None

KeyStatus(n) ==
    IF comparing = "no" \/ Unread(now.keys[n].from) THEN None
    ELSE IF n \notin DOMAIN past.keys \/ past.keys[n].from # now.keys[n].from THEN "added"
    ELSE IF past.keys[n] # now.keys[n] THEN "modified" ELSE None

\* mutant: only the keys whose name is gone.
GoneKeys(t) ==
    IF comparing # "both" \/ Unread(t) THEN {} ELSE {n \in KeysOf(past, t) : n \notin DOMAIN now.keys}
(* A key of the earlier capture that is gone or replaced is drawn beside    *)
(* what is there now.                                                       *)
OldKeys(t) ==
    IF comparing # "both" \/ Unread(t) THEN {}
    ELSE {n \in KeysOf(past, t) : n \notin DOMAIN now.keys \/ now.keys[n] # past.keys[n]}

Relations(t) ==
    {[key |-> now.keys[n], name |-> n, status |-> KeyStatus(n)] : n \in KeysOf(now, t)}
    \cup {[key |-> past.keys[n], name |-> n, status |-> "deleted"] : n \in OldKeys(t)}

DrawnKeys(t) == {r.key : r \in Relations(t)}

----------------------------------------------------------------------------
(* Suggestions from names.                                                  *)
Candidates == {t \in TablesOf(now) : Holds(now, t, Id)}
Plurals(stem) == SubSeq(stem, 1, Len(stem) - 1) \o <<Plural[stem[Len(stem)]]>>
EndsWith(name, tail) == \E i \in 1..Len(name) : SubSeq(name, i, Len(name)) = tail
Matches(stem) == {t \in Candidates : Name[t] = stem \/ EndsWith(Name[t], Plurals(stem))}

Shorter(s, t) == IF Len(s) < Len(t) THEN Len(s) ELSE Len(t)
CommonPrefix(s, t) ==
    Max({n \in 0..Shorter(s, t) : SubSeq(s, 1, n) = SubSeq(t, 1, n)})
Score(t, target, stem) ==
    CommonPrefix(Name[t], Name[target]) * 10
    + (IF Home[t] = Home[target] THEN 2 ELSE 0)
    + (IF Name[target] \in {stem, SubSeq(stem, 1, Len(stem) - 1) \o <<stem[Len(stem)] \o "s">>}
       THEN 1 ELSE 0)

Best(t, stem) ==
    {x \in Matches(stem) : \A y \in Matches(stem) \ {x} : Score(t, x, stem) > Score(t, y, stem)}

Declared(t) == UNION {{p.column : p \in PairsOf(now.keys[n])} : n \in KeysOf(now, t)}
Inferred ==
    UNION {UNION {{[from |-> t, column |-> c, to |-> x, ref |-> Id] : x \in Best(t, Stem[c])}
                  : c \in {d \in FieldsOf(now, t) \ Declared(t) : Stem[d] # <<>>}}
           : t \in TablesOf(now)}

----------------------------------------------------------------------------
(* The tables shown.                                                        *)
Joined ==
    UNION {{<<k.from, k.to>> : k \in DrawnKeys(t)} : t \in AllTables}
    \cup {<<l.from, l.to>> : l \in {m \in Relationships :
              /\ Followed(m)
              /\ {m.from, m.to} \subseteq AllTables
                     \cup {k.to : k \in UNION {DrawnKeys(t) : t \in AllTables}}}}

\* mutant: the walk follows a relationship only from its source.
StepAlong(ids) == ids \cup {p[2] : p \in {q \in Joined : q[1] \in ids}}
Step(ids) == ids \cup {p[2] : p \in {q \in Joined : q[1] \in ids}}
                 \cup {p[1] : p \in {q \in Joined : q[2] \in ids}}

(* Breadth first, one frontier for each level of depth.                     *)
Related(roots, depth) ==
    LET level[n \in 0..depth] == IF n = 0 THEN roots ELSE Step(level[n - 1]) IN level[depth]

(* A table answers a search by a word of its name or of a field it has.    *)
Sought(t) == query = None \/ query \in Fields(t) \/ \E i \in DOMAIN Name[t] : Name[t][i] = query

Included ==
    {t \in AllTables : Sought(t)}
    \cap (IF focus \in AllTables THEN Related({focus}, 1) ELSE Tables)
    \cap (IF view.roots # {} THEN Related(view.roots, view.depth) ELSE Tables)

----------------------------------------------------------------------------
(* The edges.                                                               *)
Physical ==
    IF ~show.physical THEN {}
    ELSE LET shown == Included IN
         UNION {UNION {{[pair |-> p, status |-> r.status] : p \in {q \in PairsOf(r.key) : q.ref # None}}
                       : r \in {x \in Relations(t) : x.key.to \in shown}} : t \in shown}
PhysicalPairs == {e.pair : e \in {x \in Physical : x.status # "deleted"}}

\* mutant: the switch for inactive relationships is not asked.
AnyStatus ==
    IF ~show.logical THEN {}
    ELSE {l \in Relationships : {l.from, l.to} \subseteq Included
                                /\ (l \in PhysicalPairs => show.invalid)}
Logical ==
    IF ~show.logical THEN {}
    ELSE {l \in Relationships :
            /\ Status(l) \in {"disabled", "orphaned", "supersededByPhysical"} => show.invalid
            /\ {l.from, l.to} \subseteq Included
            /\ l \in PhysicalPairs => show.invalid}

LogicalPairs == {l \in Relationships : Followed(l)}

Rule(p) == [from |-> p.from, column |-> p.column]
Known ==
    LET shown == Included
    IN {p \in Inferred : {p.from, p.to} \subseteq shown /\ {p, Rule(p)} \cap ignored = {}}
\* mutant: only the declared keys hide a suggestion.
SuggestedBesides == IF show.inferred THEN Known \ PhysicalPairs ELSE {}
Suggested == IF show.inferred THEN Known \ (PhysicalPairs \cup LogicalPairs) ELSE {}

----------------------------------------------------------------------------
(* The fields of a shown table that are drawn: the first ones, and those an *)
(* edge needs.                                                              *)
InOrder(cs) == SelectSeq(Order, LAMBDA c : c \in cs)
First(t) == LET all == InOrder(Fields(t))
            IN {all[i] : i \in 1..(IF cap < Len(all) THEN cap ELSE Len(all))}

Wanted == IF show.logical THEN {l \in LogicalPairs : {l.from, l.to} \subseteq Included} ELSE {}
Guessed == IF show.inferred THEN Known ELSE {}
Referenced(t) ==
    UNION {{p.ref : p \in {q \in PairsOf(k) : q.to = t /\ q.ref # None}}
           : k \in UNION {DrawnKeys(x) : x \in Included}}
    \cup {p.ref : p \in {q \in Wanted \cup Guessed : q.to = t}}

Required(t) ==
    First(t) \cup Referenced(t)
    \cup UNION {{p.column : p \in PairsOf(k)} : k \in DrawnKeys(t)}
    \cup {p.column : p \in {q \in Wanted \cup Guessed : q.from = t}}

Visible(t) == {c \in Fields(t) : c \in Required(t) \/ FieldStatus(t, c) # None}

----------------------------------------------------------------------------
Init ==
    /\ now = Start /\ past = Start
    /\ comparing = "no"
    /\ links = << >> /\ ignored = {}
    /\ show = [physical |-> TRUE, logical |-> TRUE, inferred |-> TRUE, invalid |-> FALSE]
    /\ cap \in Caps
    /\ focus = None
    /\ view = [roots |-> {}, depth |-> 1] /\ query = None
    /\ edits = 0 /\ captures = 0 /\ choices = 0

(* A key has the fields it is declared on.  What it refers to may be missing *)
(* from the capture: a table that was dropped or cannot be read, or a field. *)
Own(key) == {p[1] : p \in key.pairs}
Put(keys, n, d) == [k \in DOMAIN keys \cup {n} |-> IF k = n THEN d ELSE keys[k]]

(* A table is captured with other fields: a key without its fields goes, or  *)
(* is declared on others.                                                    *)
Reshaped(m, x, f) ==
    LET left == [n \in {k \in DOMAIN m.keys : m.keys[k].from = x => Own(m.keys[k]) \subseteq DOMAIN f} |-> m.keys[n]]
        next == UNION {{Put(left, n, d) : d \in {e \in KeyDef[n] : e.from = x /\ Own(e) \subseteq DOMAIN f}}
                       : n \in DOMAIN m.keys \ DOMAIN left}
    IN {[m EXCEPT !.fields[x] = f, !.keys = ks, !.unread = @ \ {x}] : ks \in {left} \cup next}

Models(m) ==
    {[m EXCEPT !.fields = [t \in TablesOf(m) \ {x} |-> m.fields[t]],
               !.keys = [n \in DOMAIN m.keys \ KeysOf(m, x) |-> m.keys[n]],
               !.unread = @ \ {x}] : x \in TablesOf(m)}
    \cup {[m EXCEPT !.fields = [t \in TablesOf(m) \cup {x} |->
                                   IF t = x THEN Start.fields[x] ELSE m.fields[t]]]
             : x \in TablesOf(Start) \ TablesOf(m)}
    \cup UNION {UNION {Reshaped(m, x, f) : f \in Shape[x]} : x \in TablesOf(m)}
    \cup UNION {{[m EXCEPT !.keys = Put(@, n, d)]
                   : d \in {e \in KeyDef[n] : Own(e) \subseteq FieldsOf(m, e.from)}}
                : n \in DOMAIN KeyDef}
    \cup {[m EXCEPT !.keys = [k \in DOMAIN @ \ {n} |-> @[k]]] : n \in DOMAIN m.keys}
    \cup {[m EXCEPT !.fields[x] = << >>, !.unread = @ \cup {x}]
             : x \in {y \in TablesOf(m) : KeysOf(m, y) = {}}}

Capture ==
    /\ captures < MaxCaptures
    /\ \E m \in Models(now) \ {now} : now' = m
    /\ past' = now
    /\ comparing' = "no"
    /\ captures' = captures + 1
    /\ UNCHANGED <<saved, settings>>

(* The Before model of a comparison may fail to load.                       *)
Compare ==
    /\ comparing' \in {"both", "partial", "no"} \ {comparing}
    /\ past # now
    /\ UNCHANGED <<schema, saved, settings>>

SaveLink ==
    /\ edits < MaxEdits
    /\ \E l \in Link :
         /\ \/ l \in DOMAIN links
            \/ Holds(now, l.from, l.column) /\ Holds(now, l.to, l.ref)
         /\ \E s \in {"enabled", "disabled"} :
              links' = [x \in DOMAIN links \cup {l} |-> IF x = l THEN s ELSE links[x]]
         /\ links' # links
    /\ edits' = edits + 1
    /\ UNCHANGED <<schema, comparing, settings, ignored>>

Ignore ==
    /\ edits < MaxEdits
    /\ \E p \in Inferred : \E i \in {p, Rule(p)} \ ignored : ignored' = ignored \cup {i}
    /\ edits' = edits + 1
    /\ UNCHANGED <<schema, comparing, settings, links>>

Toggle ==
    /\ choices < MaxChoices
    /\ \E k \in DOMAIN show : show' = [show EXCEPT ![k] = ~@]
    /\ choices' = choices + 1
    /\ UNCHANGED <<schema, comparing, saved, cap, focus, view, query>>

FocusOn ==
    /\ choices < MaxChoices
    /\ focus' \in (AllTables \cup {None}) \ {focus}
    /\ choices' = choices + 1
    /\ UNCHANGED <<schema, comparing, saved, show, cap, view, query>>

OpenView ==
    /\ choices < MaxChoices
    /\ \E t \in TablesOf(now), d \in 0..2 : view' = [roots |-> {t}, depth |-> d]
    /\ choices' = choices + 1
    /\ UNCHANGED <<schema, comparing, saved, show, cap, focus, query>>

Search ==
    /\ choices < MaxChoices
    /\ query' \in (Column \cup {Name[t][1] : t \in Tables}) \ {query}
    /\ choices' = choices + 1
    /\ UNCHANGED <<schema, comparing, saved, show, cap, focus, view>>

Next ==
    \/ Capture
    \/ Compare
    \/ SaveLink
    \/ Ignore
    \/ Toggle
    \/ FocusOn
    \/ OpenView
    \/ Search

Spec == Init /\ [][Next]_vars

----------------------------------------------------------------------------
TypeOK ==
    /\ comparing \in {"no", "both", "partial"}
    /\ DOMAIN links \subseteq Link
    /\ \A l \in DOMAIN links : links[l] \in {"enabled", "disabled"}
    /\ ignored \subseteq Pair \cup {Rule(p) : p \in Pair}
    /\ show \in Kinds
    /\ cap \in Caps
    /\ focus \in Tables \cup {None}
    /\ view.roots \subseteq Tables
    /\ query = None \/ query \in Column \/ \E t \in Tables : query = Name[t][1]

(* Every edge drawn while inactive relationships are hidden has its two     *)
(* tables shown and its two fields visible in them, whatever the number of  *)
(* initial columns, the focus, the view and the comparison: an edge whose   *)
(* field is folded away has no handle to end at.  A declared key is drawn   *)
(* also to a field the capture does not have; one it has is visible.        *)
EdgesHaveEnds ==
    LET visible == [t \in Included |-> Visible(t)] IN
    /\ \A p \in {e.pair : e \in Physical} :
        /\ {p.from, p.to} \subseteq DOMAIN visible /\ p.column \in visible[p.from]
        /\ p.ref \in Fields(p.to) => p.ref \in visible[p.to]
    /\ \A p \in Suggested \cup (IF show.invalid THEN {} ELSE Logical) :
        /\ {p.from, p.to} \subseteq DOMAIN visible
        /\ p.column \in visible[p.from] /\ p.ref \in visible[p.to]

(* A pair of fields is joined once: a suggestion never repeats a declared   *)
(* key or a live relationship, and a relationship repeats a key only among  *)
(* the inactive ones.                                                       *)
JoinedOnce ==
    /\ Suggested \cap PhysicalPairs = {}
    /\ \A l \in Suggested : l \in DOMAIN links => links[l] = "disabled" \/ ~show.logical
                                                   \/ l \notin Logical
    /\ ~show.invalid => Logical \cap PhysicalPairs = {}

(* A comparison draws both models and nothing else: without what is marked  *)
(* deleted it is the later capture, without what is marked added and the    *)
(* new names of renames it is the earlier one, key by key and field by      *)
(* field. An inferred rename is one field of each that the other does not   *)
(* have, of one type, the old name deleted and the new one modified; a new  *)
(* field that is not a rename is added. (A table whose fields one capture   *)
(* could not read is drawn as it is now.)                                   *)
BothSidesShown ==
    comparing = "both" => \A t \in {x \in AllTables : ~Unread(x)} :
        /\ {c \in Fields(t) : FieldStatus(t, c) # "deleted"} = FieldsOf(now, t)
        /\ {c \in Fields(t) : FieldStatus(t, c) # "added"} \ NewNames(t) = FieldsOf(past, t)
        /\ \A p \in Renames(t) :
             /\ FieldStatus(t, p[1]) = "deleted" /\ FieldStatus(t, p[2]) = "modified"
             /\ {p[1], p[2]} \subseteq Visible(t) /\ past.fields[t][p[1]] = now.fields[t][p[2]]
        /\ {r.key : r \in {x \in Relations(t) : x.status # "deleted"}}
             = {now.keys[n] : n \in KeysOf(now, t)}
        /\ {r.key : r \in {x \in Relations(t) : x.status \in {"deleted", None}}}
             = {past.keys[n] : n \in KeysOf(past, t)}

(* A saved view of depth d shows exactly the tables that a chain of at most *)
(* d relationships, walked in either direction, joins to its root; a chain  *)
(* may pass over a table that is not captured, which is not shown itself.   *)
Chained(t, root, depth) ==
    \E n \in 0..depth : \E path \in [0..n -> Tables] :
        /\ path[0] = root /\ path[n] = t
        /\ \A i \in 1..n : <<path[i-1], path[i]>> \in Joined \/ <<path[i], path[i-1]>> \in Joined
ViewIsReach ==
    view.roots # {} /\ focus \notin AllTables /\ query = None =>
        Included = {t \in AllTables : \E r \in view.roots : Chained(t, r, view.depth)}
====
