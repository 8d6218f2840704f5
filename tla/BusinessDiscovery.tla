------------------------- MODULE BusinessDiscovery -------------------------
(***************************************************************************)
(* The explorer that looks for tables by a business question               *)
(* (BusinessExplorer.tsx): its search, the table it starts from, the path  *)
(* to another table and the local map around it, which are computed from   *)
(* the relationships the snapshot is known to have                         *)
(* (graph/business-discovery.ts), and what the assistant below it may      *)
(* bring back.  How a term is found in a text is in Fields; the work of    *)
(* the assistant with the desktop is in DraftConversation.                 *)
(***************************************************************************)
EXTENDS Integers, FiniteSetsExt, SequencesExt

CONSTANTS
  Model,      \* fields and their types, physical and logical relationships, the domains, and
              \* which context the settings allow
  Question,   \* the terms of a question and those it is translated into
  Term,       \* what the assistant or a clarification may add
  Fields,     \* for each table its searchable texts: the terms found in each and its weight
  Clarified,  \* for each question what the two buttons make of it
  Limit,      \* tables of the local map (100 in the code)
  None, MaxActs

VARIABLES model,
          graph,  \* the known relationships of the model, in their order
          form, map,
          path,   \* the path shown
          task, acts

vars == <<model, graph, form, map, path, task, acts>>

Tables(m) == DOMAIN m.fields
NoTask == [phase |-> "idle", of |-> None, terms |-> {}]
Blank ==
  [question |-> None, searched |-> FALSE, terms |-> {}, of |-> None, domain |-> None,
   aiDomain |-> None, operation |-> "expand"]
Rooted(t) == [root |-> t, target |-> None, depth |-> 1]

-----------------------------------------------------------------------------
(* discoverTables                                                          *)

Matches(t, terms) == MapThenSumSet(LAMBDA x : x.weight * Cardinality(x.holds \cap terms), Fields[t])
Score(t, f) ==
  2 * Matches(t, f.question.direct) + Matches(t, (f.question.expanded \cup f.terms) \ f.question.direct)

Found(m, f) ==
  IF ~f.searched \/ f.question = None THEN {}
  ELSE {t \in Tables(m) : Score(t, f) > 0 /\ (f.domain # None => t \in m.domains[f.domain])}

-----------------------------------------------------------------------------
(* knownRelationships                                                      *)

Valid(m, r) ==
  /\ {r.source, r.target} \subseteq Tables(m) /\ r.from # <<>> /\ Len(r.from) = Len(r.to)
  /\ Range(r.from) \subseteq DOMAIN m.fields[r.source] /\ Range(r.to) \subseteq DOMAIN m.fields[r.target]
Ends(r) == <<r.source, r.from, r.target, r.to>>
Compatible(m, r) ==
  Valid(m, r) /\ \A i \in DOMAIN r.from : m.fields[r.source][r.from[i]] = m.fields[r.target][r.to[i]]

\* Mutated: only the fields are looked at.
Fitting(m) == {r \in m.logical : r.active /\ Compatible(m, r)}

\* Two that say the same are both in doubt; one that the database states by now is superseded.
Logical(m) ==
  {r \in m.logical :
     /\ r.active /\ Compatible(m, r)
     /\ \A o \in m.logical : o.id # r.id => Ends(o) # Ends(r)
     /\ \A p \in m.physical : Valid(m, p) => Ends(p) # Ends(r)
     /\ ~(r.source = r.target /\ r.from = r.to)}
Known(m) == {r \in m.physical : Valid(m, r)} \cup Logical(m)
Relationships(m) ==
  [i \in 1..Cardinality(Known(m)) |->
     CHOOSE r \in Known(m) : Cardinality({s \in Known(m) : s.id <= r.id}) = i]

-----------------------------------------------------------------------------
(* findKnownPath: breadth first, each table reached once                   *)

NoPath == [tables |-> <<>>, via |-> <<>>]

\* Mutated: a relationship is followed from its source only.
Targets(g, t) ==
  FlattenSeq([i \in DOMAIN g |-> IF g[i].source = t THEN <<[next |-> g[i].target, edge |-> g[i]]>> ELSE <<>>])

Neighbors(g, t) ==
  FlattenSeq([i \in DOMAIN g |->
    (IF g[i].source = t THEN <<[next |-> g[i].target, edge |-> g[i]]>> ELSE <<>>)
    \o (IF g[i].target = t THEN <<[next |-> g[i].source, edge |-> g[i]]>> ELSE <<>>)])

Extended(s, from, step, target) ==
  LET longer == [tables |-> Append(from.tables, step.next), via |-> Append(from.via, step.edge)] IN
  IF s.found # NoPath \/ step.next \in s.visited THEN s
  ELSE IF step.next = target THEN [s EXCEPT !.found = longer]
  ELSE [s EXCEPT !.visited = @ \cup {step.next}, !.queue = Append(@, longer)]

Turn(g, s, i, target, depth) ==
  IF s.found # NoPath \/ i > Len(s.queue) \/ Len(s.queue[i].via) >= depth THEN s
  ELSE FoldLeft(LAMBDA x, n : Extended(x, s.queue[i], n, target), s, Neighbors(g, Last(s.queue[i].tables)))

Path(g, p, tables) ==
  IF p.root = None \/ p.target \in {None, p.root} THEN NoPath
  ELSE FoldLeft(LAMBDA s, i : Turn(g, s, i, p.target, p.depth),
                [queue |-> <<[tables |-> <<p.root>>, via |-> <<>>]>>, visited |-> {p.root}, found |-> NoPath],
                [i \in 1..Cardinality(tables) |-> i]).found

Init ==
  /\ model \in Model /\ \E t \in Tables(model) \cup {None} : map = Rooted(t)
  /\ graph = Relationships(model) /\ path = NoPath
  /\ form = Blank /\ task = NoTask /\ acts = 0

-----------------------------------------------------------------------------
(* neighborhood                                                            *)

Added(keys, t) == IF t \in Range(keys) THEN keys ELSE Append(keys, t)
Hop(keys) ==
  FoldLeft(LAMBDA s, r :
             LET one == IF r.source \in Range(keys) THEN Added(s, r.target) ELSE s IN
             IF r.target \in Range(keys) THEN Added(one, r.source) ELSE one,
           keys, graph)
Around == FoldLeft(LAMBDA keys, hop : Hop(keys), <<map.root>>, [hop \in 1..map.depth |-> hop])

\* Mutated: the map keeps what it met first.
AsMet == Around

\* The path comes first, so that the limit does not cut it.
MapOrder == FoldLeft(Added, <<map.root>>, path.tables \o Around)
Included == Range(SubSeq(MapOrder, 1, Min({Limit, Len(MapOrder)})))
Omitted == Len(MapOrder) - Cardinality(Included)

-----------------------------------------------------------------------------
(* The page                                                                *)

CanStep(m, f, way) ==
  CASE f.operation = "expand" -> TRUE
    [] f.operation = "rank" -> f.searched /\ Found(m, f) # {}
    [] f.operation = "path" -> way # NoPath
NeedsScope(m, f, p) ==
  f.operation # "expand" /\ CASE m.allowed = "currentTable" -> TRUE
                              [] m.allowed = "oneHop" -> p.root = None
                              [] m.allowed = "domain" -> f.aiDomain = None
Assisted(m, f, p, way) == CanStep(m, f, way) /\ ~NeedsScope(m, f, p)

\* Mutated: the assistant is not told of the question.
KeyUnasked(f, p) == <<f.operation, f.aiDomain, f.domain, f.terms, p>>

\* What the assistant is for: its input and its binding.
TaskKey(f, p) == <<f.question, f.operation, f.aiDomain, f.domain, f.terms, f.searched, p>>

\* Another key is another assistant, which knows nothing of the request of the one before.
Render(f, p) ==
  LET way == IF p = map THEN path ELSE Path(graph, p, Tables(model)) IN
  /\ form' = f /\ map' = p /\ path' = way /\ UNCHANGED <<model, graph>>
  /\ task' = IF TaskKey(f, p) = TaskKey(form, map) /\ Assisted(model, f, p, way) THEN task ELSE NoTask

Act == acts < MaxActs /\ acts' = acts + 1
Fills(f) == Act /\ Render(f, map)
Turns(p) == Act /\ Render(form, p)

Edit(q) == q # form.question /\ Fills([form EXCEPT !.question = q, !.searched = FALSE, !.terms = {}])
Search == form.question # None /\ Fills([form EXCEPT !.searched = TRUE, !.terms = {}])
\* The two readings of "account".
Clarify(c) ==
  /\ form.question # None /\ c \in Clarified[form.question]
  /\ Fills([form EXCEPT !.question = c.question, !.searched = TRUE, !.terms = c.terms, !.of = c.question])
SearchIn(d) == d # form.domain /\ Fills([form EXCEPT !.domain = d])
Operate(o) == o # form.operation /\ Fills([form EXCEPT !.operation = o])
SendFrom(d) ==
  /\ model.allowed = "domain" /\ form.operation # "expand" /\ d # form.aiDomain
  /\ Fills([form EXCEPT !.aiDomain = d])

\* selectRoot, from a candidate or from the list.
SelectRoot(t) == Turns(Rooted(t))
SelectTarget(t) == map.root # None /\ t \notin {map.root, map.target} /\ Turns([map EXCEPT !.target = t])
SelectDepth(k) == k # map.depth /\ Turns([map EXCEPT !.depth = k])

\* Another snapshot, other relationships or other settings: another session.
Replace(m, t) ==
  /\ Act /\ m # model /\ model' = m /\ graph' = Relationships(m)
  /\ form' = Blank /\ map' = Rooted(t) /\ path' = NoPath /\ task' = NoTask

-----------------------------------------------------------------------------
(* The assistant                                                           *)

Tasks(x) == task' = x /\ UNCHANGED <<model, graph, form, map, path, acts>>
Ask == task.phase = "idle" /\ Assisted(model, form, map, path) /\ Tasks([NoTask EXCEPT !.phase = "asked", !.of = form.question])
Answered(ts) == task.phase = "asked" /\ Tasks([task EXCEPT !.phase = "answered", !.terms = ts])
\* Cancelled, expired or failed.
Dropped == task.phase # "idle" /\ Tasks(NoTask)

\* onApplyTerms.
Apply ==
  /\ task.phase = "answered" /\ form.operation = "expand" /\ task.terms # {}
  /\ Fills([form EXCEPT !.terms = task.terms, !.searched = TRUE, !.of = task.of])

Asks == (\E q \in Question \cup {None} : Edit(q)) \/ Search \/ (\E q \in Question : \E c \in Clarified[q] : Clarify(c))
Chooses ==
  \/ \E d \in DOMAIN model.domains \cup {None} : SearchIn(d) \/ SendFrom(d)
  \/ \E o \in {"expand", "rank", "path"} : Operate(o)
Maps ==
  \/ \E t \in Tables(model) \cup {None} : SelectRoot(t) \/ SelectTarget(t)
  \/ \E k \in {1, 2} : SelectDepth(k)
  \/ \E m \in Model : \E t \in Tables(m) \cup {None} : Replace(m, t)
Next == Asks \/ Chooses \/ Maps \/ Ask \/ (\E ts \in SUBSET Term : Answered(ts)) \/ Dropped \/ Apply

Spec == Init /\ [][Next]_vars

-----------------------------------------------------------------------------
(* Properties                                                              *)

TypeOK ==
  /\ model \in Model /\ form.question \in Question \cup {None} /\ form.searched \in BOOLEAN
  /\ form.terms \subseteq Term /\ form.operation \in {"expand", "rank", "path"}
  /\ {map.root, map.target} \subseteq Tables(model) \cup {None} /\ map.depth \in 1..2
  /\ task.phase \in {"idle", "asked", "answered"} /\ task.terms \subseteq Term

\* What a path is, and what lies near a table, without a search.
Joins(r, t, u) == {r.source, r.target} = {t, u}
Joined(t, u) == \E r \in Range(graph) : Joins(r, t, u)
Near(t, k) ==
  {u \in Tables(model) :
     u = t \/ Joined(t, u) \/ (k = 2 /\ \E x \in Tables(model) : Joined(t, x) /\ Joined(x, u))}

\* Every relationship in use is between fields that the snapshot has and that can be compared, and
\* only the database states one twice (knownRelationships).
KnownIsThere ==
  /\ \A r \in Range(graph) : Valid(model, r) /\ (r \in model.logical => r.active /\ Compatible(model, r))
  /\ \A i, j \in DOMAIN graph : Ends(graph[i]) = Ends(graph[j]) /\ i # j => {graph[i], graph[j]} \subseteq model.physical

\* The path shown goes from the root to the destination over known relationships, no way is shorter,
\* and when none is shown there is none in that range (findKnownPath).
PathIsShortest ==
  LET hops == Len(path.via) IN
  map.root # None /\ map.target # None =>
    IF path = NoPath THEN map.target \notin Near(map.root, map.depth)
    ELSE /\ hops \in 1..map.depth /\ Len(path.tables) = hops + 1
         /\ path.tables[1] = map.root /\ Last(path.tables) = map.target
         /\ \A i \in 1..hops : path.via[i] \in Range(graph) /\ Joins(path.via[i], path.tables[i], path.tables[i + 1])
         /\ hops = 2 => ~Joined(map.root, map.target)

\* The local map holds the whole path and what is near, up to its limit, and counts what it left out
\* (neighborhood).
MapKeepsPath ==
  map.root # None =>
    LET near == Near(map.root, map.depth)
        shown == Included IN
    /\ {map.root} \cup Range(path.tables) \subseteq shown /\ shown \subseteq near
    /\ Cardinality(shown) = Min({Limit, Cardinality(near)})
    /\ Omitted = Cardinality(near) - Cardinality(shown)

\* Added terms are for the question on the page, which was searched with them (onApplyTerms).
SearchIsOfQuestion == form.terms # {} => form.searched /\ form.of = form.question
=============================================================================
