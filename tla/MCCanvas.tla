------------------------------ MODULE MCCanvas ------------------------------
(* Small instances of the modules that make up the diagram page: the canvas   *)
(* and the graph it draws, the editing and the review of relationships, the   *)
(* exported files and the search by a question.  "part" is chosen at the      *)
(* start and says which of them takes the steps of a behaviour.  The          *)
(* variables of the canvas keep their names; the parts of Canvas have         *)
(* variables and properties there.                                            *)
EXTENDS Diagram, Canvas, TLC

CONSTANTS s1, s2, f, g, c1, c2, users, shop, orders

VARIABLES part,
          gNow, gPast, gComparing, gLinks, gIgnored, gShow, gCap, gFocus, gView, gQuery,
          gEdits, gCaptures, gChoices,
          xModel, xGraph, xForm, xMap, xPath, xTask, xActs

gVars == <<gNow, gPast, gComparing, gLinks, gIgnored, gShow, gCap, gFocus, gView, gQuery,
           gEdits, gCaptures, gChoices>>
rVars == <<rShown, rServer, rCanvas, rDraft, rManager, rDoomed, rCalls, rSpent>>
qVars == <<qServer, qKnown, qTab, qQueue, qPanel, qForm, qSent, qIds, qSpent>>
xVars == <<xModel, xGraph, xForm, xMap, xPath, xTask, xActs>>
fVars == <<fScope, fGens, fLinks, fReady, fRendering, fSurface, fJobs, fSent, fMoves>>

\* Three tables: orders.user_id names users, and may be declared to name users or shop_users; it may
\* be renamed, or give way to another field or to two.  One key refers to a field that is not there.
TableName == (users :> <<"users">>) @@ (shop :> <<"shop", "users">>) @@ (orders :> <<"shop", "orders">>)
Public == [t \in {users, shop, orders} |-> "public"]
Columns == <<"id", "user_id", "buyer", "note">>
ColumnStem == [c \in {"id", "user_id", "buyer", "note"} |-> IF c = "user_id" THEN <<"user">> ELSE <<>>]
Users == "user" :> "users"
Declared ==
  (1 :> {[from |-> orders, to |-> users, pairs |-> {<<"user_id", "id">>}],
         [from |-> orders, to |-> shop, pairs |-> {<<"user_id", "id">>}],
         [from |-> orders, to |-> users, pairs |-> {<<"buyer", "id">>}]})
  @@ (2 :> {[from |-> shop, to |-> users, pairs |-> {<<"id", r>>}] : r \in {"id", "note"}})
Shapes ==
  [t \in {users, shop} |-> {"id" :> 1}]
  @@ (orders :> {"id" :> 1 @@ "user_id" :> 1, "id" :> 1 @@ "user_id" :> 2,
                 "id" :> 1 @@ "buyer" :> 1, "id" :> 1 @@ "buyer" :> 1 @@ "note" :> 1})
Saveable == {[from |-> orders, column |-> "user_id", to |-> shop, ref |-> "id"],
             [from |-> shop, column |-> "id", to |-> users, ref |-> "id"]}
FirstModel ==
  [fields |-> (users :> ("id" :> 1)) @@ (shop :> ("id" :> 1)) @@ (orders :> (("id" :> 1) @@ ("user_id" :> 1))),
   keys |-> <<>>, unread |-> {}]
Graph == INSTANCE SchemaGraph WITH
  Name <- TableName, Home <- Public, Order <- Columns, Stem <- ColumnStem,
  Plural <- Users, Id <- "id", KeyDef <- Declared, Shape <- Shapes, Link <- Saveable, Start <- FirstModel,
  Caps <- {1}, MaxEdits <- 1, MaxCaptures <- 2, MaxChoices <- 1,
  now <- gNow, past <- gPast, comparing <- gComparing, links <- gLinks,
  ignored <- gIgnored, show <- gShow, cap <- gCap, focus <- gFocus, view <- gView,
  query <- gQuery, edits <- gEdits, captures <- gCaptures, choices <- gChoices

\* Two models, of two tables and of one of them; one relation between two tables, one within one.
\* From two tables on the canvas is dense.
EndsOf == (f :> <<users, shop>>) @@ (g :> <<shop, shop>>)
TablesOf == (s1 :> {users, shop}) @@ (s2 :> {users})

\* Five tables: keys that go round, one of them to a field that is gone and one of a table to itself;
\* logical relationships that fit, that fit no longer, and two that say the same.
Ids(ts) == [t \in ts |-> "id" :> "int" @@ "n" :> "text"]
Foreign(n, t, u, from, to) == [id |-> n, source |-> t, target |-> u, from |-> from, to |-> to]
Note(n, t, u, active) ==
  [id |-> n, source |-> t, target |-> u, from |-> <<"id">>, to |-> <<"id">>, active |-> active]
Round ==
  [fields |-> Ids({"a", "b", "c", "d", "e"}), allowed |-> "oneHop", domains |-> "g" :> {"a", "b"},
   physical |-> {Foreign(10, "b", "a", <<"id">>, <<"id">>), Foreign(11, "c", "b", <<"id">>, <<"id">>),
                 Foreign(12, "a", "d", <<"id">>, <<"n">>), Foreign(13, "c", "a", <<"x">>, <<"id">>),
                 Foreign(14, "a", "a", <<"n">>, <<"id">>)},
   logical |-> {Note(1, "c", "d", TRUE), Note(2, "b", "a", TRUE), Note(3, "d", "e", TRUE),
                Note(4, "d", "e", TRUE), Note(5, "e", "a", FALSE), Note(6, "b", "e", TRUE)}]
Small == [Round EXCEPT !.allowed = "domain", !.fields = Ids({"a", "b", "c"}), !.logical = {Note(1, "a", "c", TRUE)}]
Asked == [direct |-> {"order"}, expanded |-> {"pay"}]
Clearer == [direct |-> {"order", "login"}, expanded |-> {}]
Texts == [t \in {"a", "b", "c", "d", "e"} |->
          CASE t = "a" -> {[weight |-> 8, holds |-> {"order", "pay"}]}
            [] t = "b" -> {[weight |-> 4, holds |-> {"order"}]}
            [] OTHER -> {[weight |-> 5, holds |-> {"login"}]}]
Search == INSTANCE BusinessDiscovery WITH
  Model <- {Round, Small}, Question <- {Asked, Clearer}, Term <- {"login"}, Fields <- Texts,
  Clarified <- (Asked :> {[question |-> Clearer, terms |-> {"login"}]} @@ Clearer :> {}),
  Limit <- 3, MaxActs <- 3,
  model <- xModel, graph <- xGraph, form <- xForm, map <- xMap, path <- xPath, task <- xTask, acts <- xActs

\* The parts that do not move stay in one of their initial states.
MCInit ==
  /\ part \in {"diagram", "graph", "relations", "queue", "files", "discovery"}
  /\ Init /\ (part # "diagram" => stored[All] = None)
  /\ Graph!Init
  /\ Relate!Init /\ (part # "relations" => rShown.source = s1 /\ rServer.unlike = {}
                                             /\ rServer.rels[1].map = <<f, g>>)
  /\ Suggest!Init /\ (part # "queue" => qServer.ignored = {} /\ qTab = "ignored")
  /\ Files!Init /\ (part # "files" => fScope.model = s1)
  /\ Search!Init /\ (part # "discovery" => xModel = Small /\ xMap.root = None)

MCNext ==
  \/ /\ part = "diagram" /\ Next
     /\ UNCHANGED <<part, gVars, rVars, qVars, fVars, xVars>>
  \/ /\ part = "graph" /\ Graph!Next
     /\ UNCHANGED <<part, vars, rVars, qVars, fVars, xVars>>
  \/ /\ part = "relations" /\ Relate!Next
     /\ UNCHANGED <<part, vars, gVars, qVars, fVars, xVars>>
  \/ /\ part = "queue" /\ Suggest!Next
     /\ UNCHANGED <<part, vars, gVars, rVars, fVars, xVars>>
  \/ /\ part = "files" /\ Files!Next
     /\ UNCHANGED <<part, vars, gVars, rVars, qVars, xVars>>
  \/ /\ part = "discovery" /\ Search!Next
     /\ UNCHANGED <<part, vars, gVars, rVars, qVars, fVars>>

MCSpec == MCInit /\ [][MCNext]_<<part, vars, gVars, rVars, qVars, fVars, xVars>>

\* Every part keeps its types.
CanvasTypeOK ==
  CASE part = "diagram" -> TypeOK
    [] part = "graph" -> Graph!TypeOK
    [] part = "relations" -> Relate!TypeOK
    [] part = "queue" -> Suggest!TypeOK
    [] part = "files" -> Files!TypeOK
    [] part = "discovery" -> Search!TypeOK

\* SchemaGraph: every edge drawn has two fields to end at, pairs are joined once, a comparison draws
\* both models, and a saved view shows exactly the tables within its depth.  BusinessDiscovery: the
\* path and the local map are those of the known relationships, and the search that of the question.
GraphIsWhole ==
  /\ part = "graph" =>
       Graph!EdgesHaveEnds /\ Graph!JoinedOnce /\ Graph!BothSidesShown /\ Graph!ViewIsReach
  /\ part = "discovery" =>
       Search!KnownIsThere /\ Search!PathIsShortest /\ Search!MapKeepsPath /\ Search!SearchIsOfQuestion
=============================================================================
