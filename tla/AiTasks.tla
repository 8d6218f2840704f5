---- MODULE AiTasks ----
(***************************************************************************)
(* The desktop side of an AI request that is reviewed before it is sent    *)
(* (table_understanding.rs, discovery.rs): a request is prepared and kept  *)
(* under an identifier with the settings it was prepared for, run at most  *)
(* once, checked against the current settings before every attempt to send *)
(* it and again before its answer is given, and forgotten when it ends, is *)
(* cancelled or grows old.  The assistants of the page extend this module. *)
(***************************************************************************)
EXTENDS Integers, FiniteSets

CONSTANTS Model, Note,    \* the parts of the settings: what the page compares
                          \* with a preview, and what it does not
          MaxRequests, MaxPrepared, MaxRetries, MaxChanges

VARIABLES policy,      \* the settings, snapshot and relationships in force
          prepared,    \* [request -> policy and question it was prepared for]
          tasks,       \* the requests kept
          started, cancelled,
          lapsed,      \* requests older than their five minutes
          stage,       \* [request being run -> where its run is]
          tries,       \* [request -> attempts made]
          sent,        \* what left the machine: request and policy it showed
          changes      \* policy changes, up to MaxChanges

taskVars == <<policy, prepared, tasks, started, cancelled, lapsed, stage, tries, sent, changes>>

ASSUME SettingsExist == Model # {} /\ Note # {}
ASSUME LimitsAreNumbers == MaxPrepared \in Nat /\ MaxRetries \in Nat

Policies(models, notes) == [model : models, note : notes]
Request == DOMAIN prepared
NextRequest == Cardinality(Request) + 1

TasksInit ==
    /\ policy = CHOOSE p \in Policies(Model, Note) : TRUE
    /\ prepared = << >>
    /\ tasks = {} /\ started = {} /\ cancelled = {} /\ lapsed = {}
    /\ stage = << >> /\ tries = << >>
    /\ sent = {}
    /\ changes = 0

(* Requests that have grown old are dropped when another is prepared; the   *)
(* sixteenth is the last that fits.                                         *)
Fresh == tasks \ lapsed
HasRoomForOneMore == Cardinality(Fresh) <= MaxPrepared  \* mutant
HasRoom == Cardinality(Fresh) < MaxPrepared
Register(question) ==
    /\ cancelled' = cancelled \cup (tasks \cap lapsed)
    /\ IF HasRoom
       THEN /\ prepared' = [r \in Request \cup {NextRequest} |->
                               IF r = NextRequest THEN [policy |-> policy, question |-> question]
                               ELSE prepared[r]]
            /\ tasks' = Fresh \cup {NextRequest}
       ELSE /\ tasks' = Fresh
            /\ UNCHANGED prepared
    /\ UNCHANGED <<policy, started, lapsed, stage, tries, sent, changes>>

CancelTask(r) ==
    /\ tasks' = tasks \ {r}
    /\ cancelled' = cancelled \cup {r}
    /\ UNCHANGED <<policy, prepared, started, lapsed, stage, tries, sent, changes>>

MayBegin(r) == r \in tasks /\ r \notin started
Begin(r) ==
    /\ started' = started \cup {r}
    /\ stage' = [x \in DOMAIN stage \cup {r} |-> IF x = r THEN "checking" ELSE stage[x]]
    /\ tries' = [x \in DOMAIN tries \cup {r} |-> IF x = r THEN 0 ELSE tries[x]]
    /\ UNCHANGED <<policy, prepared, tasks, cancelled, lapsed, sent, changes>>

At(r, where) == r \in DOMAIN stage /\ stage[r] = where
MoveTo(r, where) == stage' = [stage EXCEPT ![r] = where]

Valid(r) == r \notin cancelled /\ r \notin lapsed /\ prepared[r].policy = policy

Check(r) ==
    /\ At(r, "checking")
    /\ MoveTo(r, IF Valid(r) THEN "cleared" ELSE "failed")
    /\ UNCHANGED <<policy, prepared, tasks, started, cancelled, lapsed, tries, sent, changes>>

(* One attempt over the network, and how it ends.                           *)
Send(r) ==
    /\ At(r, "cleared")
    /\ IF r \in cancelled
       THEN MoveTo(r, "failed") /\ UNCHANGED <<tries, sent>>
       ELSE /\ sent' = sent \cup {[request |-> r, attempt |-> tries[r] + 1]}
            /\ tries' = [tries EXCEPT ![r] = @ + 1]
            /\ \/ MoveTo(r, "received")
               \/ MoveTo(r, "failed")
               \/ tries[r] < MaxRetries /\ MoveTo(r, "checking")
    /\ UNCHANGED <<policy, prepared, tasks, started, cancelled, lapsed, changes>>

Recheck(r) ==
    /\ At(r, "received")
    /\ MoveTo(r, IF Valid(r) THEN "answered" ELSE "failed")
    /\ UNCHANGED <<policy, prepared, tasks, started, cancelled, lapsed, tries, sent, changes>>

Over(r) == r \in DOMAIN stage /\ stage[r] \in {"answered", "failed"}
(* A table explanation that was cancelled while it ran gives no answer; a   *)
(* discovery gives the one it has.                                          *)
TableAnswers(r) == stage[r] = "answered" /\ r \in tasks /\ r \notin cancelled
End(r) ==
    /\ tasks' = tasks \ {r}
    /\ stage' = [x \in DOMAIN stage \ {r} |-> stage[x]]
    /\ UNCHANGED <<policy, prepared, started, cancelled, lapsed, tries, sent, changes>>

Lapse ==
    /\ \E r \in Request \ lapsed : lapsed' = lapsed \cup {r}
    /\ UNCHANGED <<policy, prepared, tasks, started, cancelled, stage, tries, sent, changes>>

(* Settings are saved, a relationship confirmed, a newer snapshot captured. *)
Change ==
    /\ changes < MaxChanges
    /\ \/ \E m \in Model \ {policy.model} : policy' = [policy EXCEPT !.model = m]
       \/ \E n \in Note \ {policy.note} : policy' = [policy EXCEPT !.note = n]
    /\ changes' = changes + 1
    /\ UNCHANGED <<prepared, tasks, started, cancelled, lapsed, stage, tries, sent>>

Running == \E r \in Request : Check(r) \/ Send(r) \/ Recheck(r)

TasksTypeOK ==
    /\ policy \in Policies(Model, Note)
    /\ \A r \in Request : prepared[r].policy \in Policies(Model, Note)
    /\ Cardinality(Fresh) <= MaxPrepared
    /\ tasks \subseteq Request /\ started \subseteq Request /\ cancelled \subseteq Request
    /\ DOMAIN stage \subseteq started
    /\ \A r \in DOMAIN tries : tries[r] \in 0..MaxRetries + 1
====
