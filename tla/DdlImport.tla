------------------------------ MODULE DdlImport ------------------------------
(***************************************************************************)
(* The preview of a SQL file: DdlImportPanel.tsx, the worker that parses   *)
(* it and ddl-parser.ts.  A text is a sequence of statements.  A statement *)
(* the parser does not support is omitted as a whole; indexes and foreign  *)
(* keys find their tables wherever they are declared.  Reading a file goes *)
(* on after it was cancelled, and is answered late.                        *)
(***************************************************************************)
EXTENDS Naturals, Sequences, FiniteSets, SequencesExt

CONSTANTS Written,        \* texts the session starts with
          Loaded,         \* texts typed or read afterwards
          Dialect,        \* a subset of {"postgreSql", "mySql"}
          Namespace,      \* default namespaces typed
          Folded,         \* what MySQL makes of a column name
          None,
          MaxStatements, MaxTables, MaxColumns,  \* ddlLimits
          MaxSteps        \* actions of the user

VARIABLES buffer,      \* text, dialect, default namespace
          generation,  \* revision: what was read or parsed before it is stale
          preview,     \* the model last parsed, or None
          window,      \* the session: mounted, active, editing, asked to discard
          parsing,     \* what the worker was given, or None
          reading,     \* the generation whose file is being read, or None
          late,        \* reads cancelled and not yet answered
          steps

vars == <<buffer, generation, preview, window, parsing, reading, late, steps>>

-----------------------------------------------------------------------------
(* The parser                                                              *)

\* A literal left open ends the input; so does a routine, itself omitted; and the limit.
Units(text) ==
  LET stops == {i \in DOMAIN text : text[i].kind \in {"open", "routine"}}
      last  == IF stops = {} THEN Len(text) ELSE Min(stops)
      read  == SubSeq(text, 1, last)
      whole == SelectSeq(read, LAMBDA u : u.kind # "open")
  IN SubSeq(whole, 1, IF Len(whole) < MaxStatements THEN Len(whole) ELSE MaxStatements)

Named(name, schema) == IF name.schema = None THEN [name EXCEPT !.schema = schema] ELSE name

\* columnMatch, columnName
Same(q, a, b) == IF q.dialect = "mySql" THEN Folded[a] = Folded[b] ELSE a = b
Has(q, columns, name) == \E i \in DOMAIN columns : Same(q, columns[i], name)
Spelled(q, columns, names) ==
  [i \in DOMAIN names |->
     IF Has(q, columns, names[i]) THEN CHOOSE c \in ToSet(columns) : Same(q, c, names[i]) ELSE names[i]]
Distinct(q, names) == \A i, j \in DOMAIN names : Same(q, names[i], names[j]) => i = j

\* The lists of columns that the keys and indexes of a statement name.
Lists(u) ==
  ToSet(u.keys) \cup {u.foreign[i].columns : i \in DOMAIN u.foreign} \cup {u.indexes[i].columns : i \in DOMAIN u.indexes}
Unrepeated(list) == \A i, j \in DOMAIN list : list[i].name = list[j].name => i = j

Acceptable(model, u, q) ==
  /\ u.legal
  /\ \A t \in model.tables : t.name # Named(u.name, q.namespace)
  /\ Cardinality(model.tables) < MaxTables
  /\ Len(u.keys) <= 1
  /\ \A i \in DOMAIN u.foreign : Len(u.foreign[i].columns) = Len(u.foreign[i].refers)
  /\ Distinct(q, u.columns) /\ model.columns + Len(u.columns) <= MaxColumns
  /\ \A list \in Lists(u) : Distinct(q, list) /\ \A i \in DOMAIN list : Has(q, u.columns, list[i])
  /\ Unrepeated(u.foreign) /\ Unrepeated(u.indexes)

\* MySQL looks for the table of a foreign key beside its own table, PostgreSQL in the default namespace.
Declared(u, q) ==
  LET name == Named(u.name, q.namespace)
      beside == IF q.dialect = "mySql" THEN name.schema ELSE q.namespace
  IN [name    |-> name,
      columns |-> u.columns,
      key     |-> IF u.keys = <<>> THEN <<>> ELSE Spelled(q, u.columns, u.keys[1]),
      foreign |-> {[name |-> f.name, columns |-> Spelled(q, u.columns, f.columns),
                    to |-> Named(f.to, beside), refers |-> f.refers] : f \in ToSet(u.foreign)},
      indexes |-> {[name |-> x.name, columns |-> Spelled(q, u.columns, x.columns)] : x \in ToSet(u.indexes)}]

Skipped(model) == [model EXCEPT !.skipped = @ + 1]
Added(model, table) ==
  [model EXCEPT !.tables = @ \cup {table}, !.columns = @ + Len(table.columns), !.accepted = @ + 1]

\* An index is put in its table once all tables are known.
Indexed(model, u, q) ==
  LET name  == Named(u.name, q.namespace)
      homes == {t \in model.tables :
                  /\ t.name = name
                  /\ \A i \in DOMAIN u.columns : Has(q, t.columns, u.columns[i])
                  /\ \A x \in t.indexes : x.name # u.index}
      Grown(t) == [t EXCEPT !.indexes = @ \cup {[name |-> u.index, columns |-> Spelled(q, t.columns, u.columns)]}]
  IN IF homes = {} THEN Skipped(model)
     ELSE [model EXCEPT !.tables = (@ \ homes) \cup {Grown(t) : t \in homes}, !.accepted = @ + 1]

\* mutant
TakenInOrder(model, u, q) ==
  CASE u.kind = "table" -> IF Acceptable(model, u, q) THEN Added(model, Declared(u, q)) ELSE Skipped(model)
    [] u.kind = "index" -> IF u.legal THEN Indexed(model, u, q) ELSE Skipped(model)
    [] OTHER -> Skipped(model)

\* One turn of the loop over the statements.
Taken(model, u, q) ==
  CASE u.kind = "table" -> IF Acceptable(model, u, q) THEN Added(model, Declared(u, q)) ELSE Skipped(model)
    [] u.kind = "index" -> IF u.legal THEN [model EXCEPT !.pending = Append(@, u)] ELSE Skipped(model)
    [] OTHER -> Skipped(model)

\* A foreign key takes the spelling of its target; one whose target is absent is reported.
Resolved(model, q) ==
  LET Targets(f) == {t \in model.tables : t.name = f.to}
      Turned(f) == [f EXCEPT !.refers = IF Targets(f) = {} THEN @
                                        ELSE Spelled(q, (CHOOSE t \in Targets(f) : TRUE).columns, @)]
      Joined(f) == \E t \in Targets(f) : ToSet(f.refers) \subseteq ToSet(t.columns)
      joined == {[t EXCEPT !.foreign = {Turned(f) : f \in t.foreign}] : t \in model.tables}
  IN [tables |-> joined, accepted |-> model.accepted, skipped |-> model.skipped,
      unjoined |-> UNION {{<<t.name, f.name>> : f \in {f \in t.foreign : ~Joined(f)}} : t \in joined}]

NoTables == [tables |-> {}, pending |-> <<>>, columns |-> 0, accepted |-> 0, skipped |-> 0]

\* parseDdl
Parsed(q) ==
  LET loop == FoldLeft(LAMBDA model, u : Taken(model, u, q), NoTables, Units(q.text))
  IN Resolved(FoldLeft(LAMBDA model, u : Indexed(model, u, q), loop, loop.pending), q)

-----------------------------------------------------------------------------
(* The session                                                             *)

Closed == [mounted |-> FALSE, active |-> FALSE, editing |-> TRUE, asked |-> FALSE]
NoText == [text |-> <<>>, dialect |-> "postgreSql", namespace |-> "public"]

\* A session that was opened and given a text, which nobody parsed yet.
Init ==
  /\ buffer \in [text : Written, dialect : Dialect, namespace : Namespace]
  /\ generation = 0 /\ preview = None
  /\ window = [Closed EXCEPT !.mounted = TRUE, !.active = TRUE]
  /\ parsing = None /\ reading = FALSE /\ late = {}
  /\ steps = 0

Busy == parsing # None \/ reading
Loud == buffer.text # <<>> \/ Busy
InEditor == window.active /\ window.editing /\ ~window.asked
InModel == window.active /\ ~window.editing /\ ~window.asked /\ preview # None
User == steps < MaxSteps /\ steps' = steps + 1

\* mutant
ClearedKeeping ==
  /\ generation' = generation + 1
  /\ UNCHANGED preview /\ parsing' = None /\ reading' = FALSE
  /\ late' = IF reading THEN late \cup {generation} ELSE late

\* clearResult: a new revision; its worker is terminated, its read goes on.
Cleared ==
  /\ generation' = generation + 1
  /\ preview' = None /\ parsing' = None /\ reading' = FALSE
  /\ late' = IF reading THEN late \cup {generation} ELSE late

\* The text, the dialect with its namespace, the namespace, and the button that empties the input.
Edit ==
  /\ InEditor /\ ~Busy /\ User
  /\ \/ \E t \in Loaded : buffer' = [buffer EXCEPT !.text = t]
     \/ \E d \in Dialect :
          buffer' = [buffer EXCEPT !.dialect = d, !.namespace = IF d = "postgreSql" THEN "public" ELSE "imported"]
     \/ \E n \in Namespace : buffer' = [buffer EXCEPT !.namespace = n]
     \/ buffer.text # <<>> /\ buffer' = [buffer EXCEPT !.text = <<>>]
  /\ Cleared /\ UNCHANGED window

\* readFile, the clipboard, and lastRead tried again.
Read ==
  /\ InEditor /\ ~Busy /\ User
  /\ reading' = TRUE
  /\ UNCHANGED <<buffer, generation, preview, window, parsing, late>>

\* mutant
AnyRead(read) == TRUE
\* isCurrent
IsCurrent(read) == read = generation

Answered(read) ==
  IF read \in late THEN late' = late \ {read} /\ UNCHANGED reading ELSE reading' = FALSE /\ UNCHANGED late

\* What was read replaces the text, unless the session went on without it.
ReadArrives(read) ==
  /\ (reading /\ read = generation) \/ read \in late
  /\ \/ /\ IsCurrent(read)
        /\ \E t \in Loaded : buffer' = [buffer EXCEPT !.text = t]
        /\ generation' = generation + 1 /\ preview' = None /\ parsing' = None /\ reading' = FALSE
        /\ late' = late \ {read}
     \/ ~IsCurrent(read) /\ Answered(read) /\ UNCHANGED <<buffer, generation, preview, parsing>>
  /\ UNCHANGED <<window, steps>>

ReadFails(read) ==
  /\ (reading /\ read = generation) \/ read \in late
  /\ Answered(read)
  /\ UNCHANGED <<buffer, generation, preview, window, parsing, steps>>

\* run: the model of an earlier parse stays until this one is answered.
Preview ==
  /\ InEditor /\ ~Busy /\ buffer.text # <<>> /\ User
  /\ parsing' = buffer
  /\ UNCHANGED <<buffer, generation, preview, window, reading, late>>

\* The worker answers; or it fails, or takes ten seconds.
ParseArrives ==
  /\ parsing # None
  /\ preview' = Parsed(parsing)
  /\ window' = [window EXCEPT !.editing = FALSE]
  /\ parsing' = None
  /\ UNCHANGED <<buffer, generation, reading, late, steps>>

ParseFails ==
  /\ parsing # None /\ parsing' = None
  /\ UNCHANGED <<buffer, generation, preview, window, reading, late, steps>>

\* onClose: the session is unmounted, and what it read is nobody's.
Gone ==
  /\ window' = Closed /\ buffer' = NoText
  /\ Cleared

\* requestClose
Close == IF Loud THEN window' = [window EXCEPT !.asked = TRUE] /\ UNCHANGED <<buffer, generation, preview, parsing, reading, late>>
                 ELSE Gone

\* Escape: back to the model when there is one.
Escape ==
  /\ InEditor /\ User
  /\ IF preview # None
     THEN window' = [window EXCEPT !.editing = FALSE] /\ UNCHANGED <<buffer, generation, preview, parsing, reading, late>>
     ELSE Close

\* The cancel button stops what is running first.
Cancel ==
  /\ InEditor /\ Busy /\ User
  /\ Cleared /\ UNCHANGED <<buffer, window>>
\* The workspace of the model: back to the text, to the database, or away.
Leave ==
  /\ InModel /\ User
  /\ \/ /\ \E w \in {[window EXCEPT !.editing = TRUE], [window EXCEPT !.active = FALSE]} : window' = w
        /\ UNCHANGED <<buffer, generation, preview, parsing, reading, late>>
     \/ Close

\* The question whether to discard.
Decide ==
  /\ window.asked /\ User
  /\ \/ window' = [window EXCEPT !.asked = FALSE] /\ UNCHANGED <<buffer, generation, preview, parsing, reading, late>>
     \/ Gone

\* setDdlPreviewOpen(true): the session of before, or a new one.
Open ==
  /\ ~window.active /\ User
  /\ window' = [window EXCEPT !.mounted = TRUE, !.active = TRUE]
  /\ UNCHANGED <<buffer, generation, preview, parsing, reading, late>>

Next ==
  \/ Edit \/ Read \/ Preview \/ ParseArrives \/ ParseFails \/ Escape \/ Cancel \/ Leave \/ Decide \/ Open
  \/ \E read \in 0..generation : ReadArrives(read) \/ ReadFails(read)

Spec == Init /\ [][Next]_vars

-----------------------------------------------------------------------------
TypeOK ==
  /\ buffer \in [text : Written \cup Loaded \cup {<<>>}, dialect : Dialect \cup {"postgreSql"},
                 namespace : Namespace \cup {"public", "imported"}]
  /\ generation \in Nat /\ reading \in BOOLEAN /\ late \subseteq 0..(generation - 1)
  /\ window \in [mounted : BOOLEAN, active : BOOLEAN, editing : BOOLEAN, asked : BOOLEAN]
  /\ ~(parsing # None /\ reading) /\ steps \in 0..MaxSteps

\* The model shown is the model of the text, the dialect and the namespace on the screen,
\* whatever was edited, cancelled, read or parsed meanwhile.
PreviewIsOfText == preview # None => preview = Parsed(buffer)

\* The text changes when the user types it, or by the read the user still waits for.
ReadsAreAwaited ==
  [][buffer'.text # buffer.text => buffer'.text = <<>> \/ steps' # steps \/ reading]_vars

\* The statements of a preview: each is accepted or skipped once; those omitted might as well not be
\* there; and an index may come before its table.
Kept(model) ==
  SelectSeq(Units(buffer.text), LAMBDA u :
    \/ u.kind = "table" /\ \E t \in model.tables :
         t.name = Named(u.name, buffer.namespace) /\ t.columns = u.columns
    \/ u.kind = "index" /\ \E t \in model.tables :
         t.name = Named(u.name, buffer.namespace) /\ \E x \in t.indexes : x.name = u.index)
TablesFirst ==
  SelectSeq(Units(buffer.text), LAMBDA u : u.kind = "table") \o SelectSeq(Units(buffer.text), LAMBDA u : u.kind = "index")
StatementsAreWhole ==
  preview # None =>
    /\ preview.accepted + preview.skipped = Len(Units(buffer.text))
    /\ Parsed([buffer EXCEPT !.text = Kept(preview)]).tables = preview.tables
    /\ Parsed([buffer EXCEPT !.text = TablesFirst]).tables = preview.tables
=============================================================================
