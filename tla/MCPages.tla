------------------------------ MODULE MCPages ------------------------------
(* Small instances of the modules that make up the pages beside the diagram:  *)
(* the query page, the two AI assistants, the preview of a SQL file, the      *)
(* structure preflight, the change review, the business domains, the places   *)
(* of the page, its inspector and its tree.  Most of them have their names    *)
(* from Pages; the variables of the assistant of a table keep theirs.  "part" *)
(* is chosen at the start and says which of them takes the steps of a         *)
(* behaviour.                                                                 *)
EXTENDS TableAssistant, Pages, Sequences, TLC

CONSTANTS Malformed, s1, s2, q1, m1, m2, n1, n2

VARIABLES part,
          dBuffer, dGeneration, dPreview, dWindow, dParsing, dReading, dLate, dSteps,
          pShown, pNames, pRun, pEdited, pLoaded, pDisk, pVersion, pSteps, pGiven, pRestored

wVars == <<wApp, wSession, wPage, wDisk, wRuns, wCancels, wLog, wSpent>>
cVars == <<cPolicy, cPrepared, cTasks, cStarted, cCancelled, cLapsed, cStage, cTries,
           cSent, cChanges, cShown, cTurns, cLatest, cMounted, cClaimed, cDue, cPhase,
           cPreview, cRequest, cBusy, cGeneration, cCalls, cAsks, cRuns, cNextId, cActs>>
dVars == <<dBuffer, dGeneration, dPreview, dWindow, dParsing, dReading, dLate, dSteps>>
pVars == <<pShown, pNames, pRun, pEdited, pLoaded, pDisk, pVersion, pSteps, pGiven, pRestored>>
vVars == <<vServer, vView, vShown, vChecked, vDrafts, vPreview, vCalls, vWorking, vSteps>>
bVars == <<bStore, bPage, bPending, bPanel, bCalls, bActs>>
nVars == <<nPage, nCanvas, nLatest, nLast, nActs>>
iVars == <<iAt, iSegment, iColumn, iPicked, iRequest, iPanel, iExplain, iPrepared, iActs>>
tVars == <<tTree, tPage, tActs>>

-----------------------------------------------------------------------------
\* Statements of a SQL text: two tables that refer to each other in the spelling of MySQL, a table
\* with a column twice in it, an index, a routine and a literal left open.
Plain(n) == [schema |-> None, name |-> n]
TableUnit(n, cols, keys, fks) ==
  [kind |-> "table", legal |-> TRUE, name |-> Plain(n), columns |-> cols, keys |-> keys,
   foreign |-> fks, indexes |-> <<>>]
First == TableUnit("a", <<"id", "ref">>, <<<<"id">>>>,
                   <<[name |-> "f", columns |-> <<"ref">>, to |-> Plain("b"), refers |-> <<"ID">>]>>)
Second == TableUnit("b", <<"id">>, <<<<"ID">>>>, <<>>)
Double == TableUnit("b", <<"id", "ID">>, <<>>, <<>>)
Index == [kind |-> "index", legal |-> TRUE, name |-> Plain("b"), index |-> "x", columns |-> <<"ID">>]
Units == {First, Second, Double, Index, [kind |-> "routine"], [kind |-> "open"]}
Texts == UNION {[1..n -> Units] : n \in 1..3} \cup {<<First, Index, Second, Second>>}

Import == INSTANCE DdlImport WITH
  Written <- Texts, Loaded <- {<<First>>, <<Index, Second>>}, Dialect <- {"postgreSql", "mySql"},
  Namespace <- {"public"}, Folded <- ("id" :> "id" @@ "ID" :> "id" @@ "ref" :> "ref"),
  MaxStatements <- 3, MaxTables <- 2, MaxColumns <- 3, MaxSteps <- 4,
  buffer <- dBuffer, generation <- dGeneration, preview <- dPreview, window <- dWindow,
  parsing <- dParsing, reading <- dReading, late <- dLate, steps <- dSteps

\* Snapshots of two tables: a key between columns of every two types, keys that do not fit, and one
\* of SQLite whose columns are not known.
Type(family, name) ==
  [builtin |-> TRUE, family |-> family, name |-> name, signed |-> TRUE, exact |-> TRUE]
Int4 == Type("numeric", "int4")
PgTypes == {Int4, Type("numeric", "int8"), Type("string", "text"), [Type(None, "citext") EXCEPT !.builtin = FALSE]}
MyTypes == {Type("integer", "int"), [Type("integer", "int") EXCEPT !.signed = FALSE],
            [Type("decimal", "10,2") EXCEPT !.exact = FALSE], Type("string", "text")}
TableOf(n, key, cols, fks) ==
  [name |-> n, kind |-> "ordinary", key |-> key, columns |-> cols, foreign |-> fks,
   unread |-> FALSE, spaced |-> FALSE]
Key(cols, to, refers) == {[name |-> "f", columns |-> cols, to |-> to, refers |-> refers]}
Snap(d, ts) == [source |-> "s1", fingerprint |-> "p1", dialect |-> d, tables |-> ts]
Pair(d, t, u) == Snap(d, {TableOf("a", <<"x">>, "x" :> t, Key(<<"x">>, "b", <<"y">>)), TableOf("b", None, "y" :> u, {})})
Unfit == {Snap("postgreSql", {TableOf("a", k, "x" :> Int4 @@ "z" :> Int4, Key(c, to, r)),
                              [TableOf("b", <<"y">>, "y" :> Int4, {}) EXCEPT !.kind = "foreign"]}) :
            k \in {None, <<>>, <<"w">>}, c \in {<<"x">>, <<"x", "x">>, <<"x", "z">>},
            to \in {"b", "c"}, r \in {<<"y">>, <<"q">>}}
Lite == Snap("sqlite", {TableOf("a", <<"x">>, "x" :> Int4, Key(<<"x">>, "b", <<"y">>)),
                        [TableOf("b", None, "y" :> Int4, {}) EXCEPT !.unread = TRUE, !.spaced = TRUE]})
TypePairs == {Pair("postgreSql", t, u) : t, u \in PgTypes} \cup {Pair("mySql", t, u) : t, u \in MyTypes}

\* Every snapshot looked at once; and a few, with notes on them, over two versions of the rules.
Rules == INSTANCE Preflight WITH
  Snapshot <- TypePairs \cup Unfit \cup {Lite}, Version <- {1}, MaxSteps <- 1,
  shown <- pShown, names <- pNames, run <- pRun, edited <- pEdited, loaded <- pLoaded,
  disk <- pDisk, version <- pVersion, steps <- pSteps, given <- pGiven, restored <- pRestored

Notes == INSTANCE Preflight WITH
  Snapshot <- {Lite} \cup {[Pair("postgreSql", Int4, Type("string", "text")) EXCEPT !.source = s] : s \in {"s1", "s2"}},
  Version <- {1, 2}, MaxSteps <- 5,
  shown <- pShown, names <- pNames, run <- pRun, edited <- pEdited, loaded <- pLoaded,
  disk <- pDisk, version <- pVersion, steps <- pSteps, given <- pGiven, restored <- pRestored

-----------------------------------------------------------------------------
\* What the parts of Pages are given.  Two sources are queried in turn, on a device that may refuse
\* to keep the draft; a conversation of two questions is held while the model or the relationships
\* change.

\* Two views, one of them of two pages, and what is listed on them before and after a decision.
Homes == "impact" :> "impact" @@ "structure" :> "structure" @@ "more" :> "structure" @@ "events" :> "events"
Listed == [x \in (1..3) \X {"impact", "structure", "more", "events"} |->
             CASE x[2] = "impact" -> (IF x[1] = 2 THEN {} ELSE {"i1"})
               [] x[2] = "structure" -> (IF x[1] = 1 THEN {"i2", "i3"} ELSE {"i3"})
               [] x[2] = "more" -> {"i4"}
               [] x[2] = "events" -> {}]
Restored == [x \in (1..3) \X {"impact", "structure", "more", "events"} |->
               IF x = <<2, "events">> THEN {"i1"} ELSE {}]

\* A domain and another that may be made, over three tables in two sources.
FirstDomain == [group |-> "g", members |-> {"t"}]

\* Two snapshots of one source and one of another.  For the places the second has a table more.
SourceOf == "a1" :> "s1" @@ "a2" :> "s1" @@ "b1" :> "s2"
TablesThen == "a1" :> {"t"} @@ "a2" :> {"t", "u"} @@ "b1" :> {"t"}

\* A snapshot whose second table is gone in the other; settings that ask here and ones that ask elsewhere.
TablesBeside == "a" :> {"t", "u"} @@ "b" :> {"t"}

\* A table, a view and an enum.
ObjectsThen == "a1" :> {"t", "v", "e"} @@ "a2" :> {"t", "v"} @@ "b1" :> {"t", "e"}
KindOf == "t" :> "table" @@ "v" :> "view" @@ "e" :> "enum"
Found == "f" :> {"t"} @@ "g" :> {"e", "v"} @@ Nothing :> {"t", "v", "e"}
Unfolded == "a1" :> {"x"} @@ "a2" :> {"x"} @@ "b1" :> {}

-----------------------------------------------------------------------------
\* The parts that do not move stay in one of their initial states.  Of two sources alike the first is shown at the start.
MCInit ==
  /\ part \in {"query", "assistant", "conversation", "import", "rules", "notes", "desk", "domains", "places", "inspector", "tree"}
  /\ Query!Init /\ wApp.source = s1 /\ (part # "query" => wDisk.draft = None)
  /\ Init
  /\ Converse!Init /\ (part # "conversation" => cLatest)
  /\ Import!Init
  /\ (part # "import" => dBuffer = [text |-> <<First>>, dialect |-> "mySql", namespace |-> "public"])
  /\ (IF part = "notes" THEN Notes!Init ELSE Rules!Init)
  /\ (part \notin {"rules", "notes"} => pShown = Lite /\ Malformed \notin {pDisk[k] : k \in DOMAIN pDisk})
  /\ Desk!Init /\ (part # "desk" => vView = "impact")
  /\ Domains!Init /\ bPage.source = "s1"
  /\ Places!Init
  /\ Beside!Init /\ (part # "inspector" => iAt.policy = 1)
  /\ TreeOf!Init /\ (part # "tree" => tTree.snap = "a1")

MCNext ==
  \/ /\ part = "query" /\ Query!Next
     /\ UNCHANGED <<part, vars, cVars, dVars, pVars, vVars, bVars, nVars, iVars, tVars>>
  \/ /\ part = "assistant" /\ Next
     /\ UNCHANGED <<part, wVars, cVars, dVars, pVars, vVars, bVars, nVars, iVars, tVars>>
  \/ /\ part = "conversation" /\ Converse!Next
     /\ UNCHANGED <<part, wVars, vars, dVars, pVars, vVars, bVars, nVars, iVars, tVars>>
  \/ /\ part = "import" /\ Import!Next
     /\ UNCHANGED <<part, wVars, vars, cVars, pVars, vVars, bVars, nVars, iVars, tVars>>
  \/ /\ part = "rules" /\ Rules!Next
     /\ UNCHANGED <<part, wVars, vars, cVars, dVars, vVars, bVars, nVars, iVars, tVars>>
  \/ /\ part = "notes" /\ Notes!Next
     /\ UNCHANGED <<part, wVars, vars, cVars, dVars, vVars, bVars, nVars, iVars, tVars>>
  \/ /\ part = "desk" /\ Desk!Next
     /\ UNCHANGED <<part, wVars, vars, cVars, dVars, pVars, bVars, nVars, iVars, tVars>>
  \/ /\ part = "domains" /\ Domains!Next
     /\ UNCHANGED <<part, wVars, vars, cVars, dVars, pVars, vVars, nVars, iVars, tVars>>
  \/ /\ part = "places" /\ Places!Next
     /\ UNCHANGED <<part, wVars, vars, cVars, dVars, pVars, vVars, bVars, iVars, tVars>>
  \/ /\ part = "inspector" /\ Beside!Next
     /\ UNCHANGED <<part, wVars, vars, cVars, dVars, pVars, vVars, bVars, nVars, tVars>>
  \/ /\ part = "tree" /\ TreeOf!Next
     /\ UNCHANGED <<part, wVars, vars, cVars, dVars, pVars, vVars, bVars, nVars, iVars>>

MCSpec == MCInit /\ [][MCNext]_<<part, wVars, vars, cVars, dVars, pVars, vVars, bVars, nVars, iVars, tVars>>

\* Every part keeps its types.
PagesTypeOK ==
  CASE part = "query" -> Query!TypeOK
    [] part = "assistant" -> TypeOK
    [] part = "conversation" -> Converse!TypeOK
    [] part = "import" -> Import!TypeOK
    [] part = "rules" -> Rules!TypeOK
    [] part = "notes" -> Notes!TypeOK
    [] part = "desk" -> Desk!TypeOK
    [] part = "domains" -> Domains!TypeOK
    [] part = "places" -> Places!TypeOK
    [] part = "inspector" -> Beside!TypeOK
    [] part = "tree" -> TreeOf!TypeOK

\* DdlImport: the model shown is that of the text on the screen, statement by statement; and a read
\* that was cancelled writes nothing.  Preflight: no rule says that it checked what it could not; a
\* finding is hidden for its own reason, and its reason is kept until it is restored.
StructureIsTold ==
  /\ [](part = "import" => Import!PreviewIsOfText /\ Import!StatementsAreWhole)
  /\ Import!ReadsAreAwaited
  /\ [](part = "rules" => Rules!CoverageIsHonest)
  /\ [](part = "notes" => Notes!CoverageIsHonest /\ Notes!HiddenForReason)
  /\ Notes!NotesAreKept
=============================================================================
