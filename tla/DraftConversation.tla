---- MODULE DraftConversation ----
(***************************************************************************)
(* The query assistant (components/query/QueryDraftPanel.tsx and           *)
(* components/DiscoveryAssistant.tsx): a conversation whose last question  *)
(* is prepared and sent as soon as it is submitted, without another click. *)
(* The request is tied to the relationships it was asked with; when they   *)
(* change, it is given up, and only the user may ask again.                *)
(***************************************************************************)
EXTENDS AiTasks, Sequences, SequencesExt

CONSTANTS Broken,      \* the relationships that do not join the tables asked about
          None, MaxTurns, MaxActs

VARIABLES shown,       \* the settings and relationships the page has loaded
          turns,       \* the conversation: one record for each question
          latest,      \* whether the snapshot is known to be the newest
          mounted,     \* the assistant of the last turn is on the page
          claimed,     \* it has begun its automatic preparation
          due,         \* its microtask is queued
          phase, preview, request, busy, generation,
          calls,       \* commands under way
          asks, runs,  \* [turn -> times the user sent it; times it was run]
          nextId, acts

assistant == <<phase, preview, request, busy, generation>>
place == <<mounted, claimed, due>>
panel == <<turns, asks, nextId>>
vars == <<taskVars, shown, panel, latest, place, assistant, calls, runs, acts>>

Ids(r) == IF r = None THEN {} ELSE {r}
CancelCalls(rs) == {[op |-> "cancel", request |-> r] : r \in rs}
Act == acts < MaxActs /\ acts' = acts + 1

Active == Last(turns)
(* validateDraftContext: the tables of a turn are joined by what is known.  *)
Problem(note) == note \in Broken
Enabled == latest

(* DiscoveryRequest mounts anew: a request of the one before is given up,   *)
(* and the automatic preparation is queued.                                 *)
FreshRequest(auto, enabled) ==
    /\ generation' = generation + 1 /\ busy' = FALSE /\ request' = None
    /\ preview' = None /\ phase' = "idle"
    /\ calls' = calls \cup CancelCalls(Ids(request))
    /\ due' = (auto /\ enabled)
Gone == FreshRequest(FALSE, FALSE) /\ mounted' = FALSE /\ claimed' = FALSE

Init ==
    /\ TasksInit
    /\ policy.note \notin Broken
    /\ shown = policy
    /\ turns = << >> /\ asks = << >> /\ runs = << >> /\ nextId = 1
    /\ latest \in BOOLEAN
    /\ mounted = FALSE /\ claimed = FALSE /\ due = FALSE
    /\ phase = "idle" /\ preview = None /\ request = None /\ busy = FALSE /\ generation = 0
    /\ calls = {} /\ acts = 0

(* listSnapshots answers: the drafting may use the model it knows.          *)
KnowLatest ==
    /\ ~latest /\ latest' = TRUE
    /\ IF mounted
       THEN FreshRequest(Active.auto, TRUE)
       ELSE UNCHANGED <<assistant, calls, due>>
    /\ UNCHANGED <<taskVars, shown, panel, mounted, claimed, runs, acts>>

Submit ==
    /\ Act
    /\ Len(turns) < MaxTurns
    /\ turns' = Append(turns, [id |-> nextId, auto |-> TRUE, answer |-> None, note |-> shown.note])
    /\ nextId' = nextId + 1
    /\ asks' = asks @@ (nextId :> 1) /\ runs' = runs @@ (nextId :> 0)
    /\ FreshRequest(~Problem(shown.note), Enabled)
    /\ mounted' = ~Problem(shown.note) /\ claimed' = FALSE
    /\ UNCHANGED <<taskVars, shown, latest>>

(* The user chooses the tables of the last question: it becomes a turn that *)
(* waits for the button.                                                    *)
PinContext ==
    /\ Act
    /\ turns # << >> /\ Active.answer = None
    /\ turns' = [turns EXCEPT ![Len(turns)] = [id |-> nextId, auto |-> FALSE, answer |-> None,
                                               note |-> shown.note]]
    /\ nextId' = nextId + 1
    /\ asks' = asks @@ (nextId :> 0) /\ runs' = runs @@ (nextId :> 0)
    /\ FreshRequest(FALSE, Enabled)
    /\ mounted' = ~Problem(shown.note) /\ claimed' = FALSE
    /\ UNCHANGED <<taskVars, shown, latest>>

StartNew ==
    /\ Act
    /\ turns # << >> /\ turns' = << >>
    /\ Gone
    /\ UNCHANGED <<taskVars, shown, latest, asks, nextId, runs>>

(* Saved settings are another panel; changed relationships another request, *)
(* and none at all while they do not join the tables.                       *)
LoadSettings ==
    /\ shown.model # policy.model
    /\ shown' = [shown EXCEPT !.model = policy.model]
    /\ turns' = << >>
    /\ Gone
    /\ UNCHANGED <<taskVars, latest, asks, nextId, runs, acts>>
LoadRelationships ==
    /\ shown.note # policy.note
    /\ shown' = [shown EXCEPT !.note = policy.note]
    /\ IF turns = << >>
       THEN UNCHANGED <<assistant, place, calls>>
       ELSE /\ FreshRequest(Active.auto /\ ~Problem(policy.note), Enabled)
            /\ mounted' = ~Problem(policy.note)
            /\ claimed' = (claimed /\ mounted /\ mounted')
    /\ UNCHANGED <<taskVars, panel, latest, runs, acts>>

(* prepare().                                                               *)
Preparing ==
    /\ generation' = generation + 1
    /\ preview' = None /\ request' = None
    /\ busy' = TRUE /\ phase' = "preparing"
    /\ calls' = calls \cup CancelCalls(Ids(request))
                      \cup {[op |-> "prepare", generation |-> generation + 1, turn |-> Active.id]}

Automatic ==
    /\ due /\ due' = FALSE
    /\ IF claimed \/ busy THEN UNCHANGED <<claimed, assistant, calls>> ELSE claimed' = TRUE /\ Preparing
    /\ UNCHANGED <<taskVars, shown, panel, latest, mounted, runs, acts>>

Ask ==
    /\ Act
    /\ mounted /\ Enabled /\ ~busy
    /\ Active.auto => phase \in {"idle", "error", "cancelled", "expired"}
    /\ phase \notin {"preparing", "running"}
    /\ Preparing
    /\ asks' = [asks EXCEPT ![Active.id] = @ + 1]
    /\ UNCHANGED <<taskVars, shown, turns, nextId, latest, place, runs>>

Invalidate(next) ==
    /\ generation' = generation + 1 /\ busy' = FALSE /\ request' = None
    /\ preview' = None /\ phase' = next
    /\ calls' = calls \cup CancelCalls(Ids(request))

Cancel ==
    /\ Act
    /\ phase \in {"preparing", "running"}
    /\ Invalidate("cancelled")
    /\ UNCHANGED <<taskVars, shown, panel, latest, place, runs>>

Expire ==
    /\ preview # None /\ phase = "running" /\ preview \in lapsed
    /\ Invalidate("expired")
    /\ UNCHANGED <<taskVars, shown, panel, latest, place, runs, acts>>

(* The preview arrives, and is run at once.                                 *)
Prepared ==
    \E c \in calls :
      /\ c.op = "prepared"
      /\ IF c.generation # generation
         THEN /\ calls' = (calls \ {c}) \cup CancelCalls(Ids(c.request))
              /\ UNCHANGED <<assistant, runs>>
         ELSE IF c.request = None
         THEN /\ calls' = calls \ {c}
              /\ busy' = FALSE /\ phase' = "error"
              /\ UNCHANGED <<preview, request, generation, runs>>
         ELSE IF prepared[c.request].policy.model # shown.model
         THEN /\ calls' = (calls \ {c}) \cup CancelCalls({c.request})
              /\ busy' = FALSE /\ phase' = "error"
              /\ UNCHANGED <<preview, request, generation, runs>>
         ELSE IF c.request \in lapsed
         THEN /\ calls' = (calls \ {c}) \cup CancelCalls({c.request})
              /\ generation' = generation + 1 /\ busy' = FALSE
              /\ preview' = None /\ phase' = "expired"
              /\ UNCHANGED <<request, runs>>
         ELSE /\ calls' = (calls \ {c}) \cup {[c EXCEPT !.op = "run"]}
              /\ request' = c.request /\ preview' = c.request
              /\ busy' = TRUE /\ phase' = "running"
              /\ runs' = [runs EXCEPT ![c.turn] = @ + 1]
              /\ UNCHANGED generation
      /\ UNCHANGED <<taskVars, shown, panel, latest, place, acts>>

Answered(ts, id, r) ==
    [i \in DOMAIN ts |-> IF ts[i].id = id THEN [ts[i] EXCEPT !.answer = r, !.note = shown.note] ELSE ts[i]]

\* mutant: an answer to a request given up is taken as well.
Anyone(c) == FALSE
Stale(c) == c.generation # generation

Delivered ==
    \E c \in calls :
      /\ c.op \in {"answered", "failed"}
      /\ IF Stale(c)
         THEN calls' = calls \ {c} /\ UNCHANGED <<assistant, turns>>
         ELSE IF c.op = "failed"
         THEN /\ busy' = FALSE /\ request' = None /\ phase' = "error"
              /\ calls' = calls \ {c}
              /\ UNCHANGED <<preview, generation, turns>>
         ELSE IF c.request \in lapsed
         THEN /\ generation' = generation + 1 /\ busy' = FALSE /\ request' = None
              /\ preview' = None /\ phase' = "expired"
              /\ calls' = (calls \ {c}) \cup CancelCalls({c.request})
              /\ UNCHANGED turns
         ELSE /\ busy' = FALSE /\ request' = None /\ phase' = "done"
              /\ turns' = Answered(turns, c.turn, c.request)
              /\ calls' = calls \ {c}
              /\ UNCHANGED <<preview, generation>>
      /\ UNCHANGED <<taskVars, shown, asks, nextId, latest, place, runs, acts>>

Serve ==
    /\ \/ \E c \in calls :
            /\ c.op = "prepare"
            /\ Cardinality(Request) < MaxRequests
            /\ Register(c.turn)
            /\ calls' = (calls \ {c}) \cup
                 {[op |-> "prepared", generation |-> c.generation, turn |-> c.turn,
                   request |-> IF HasRoom THEN NextRequest ELSE None]}
       \/ \E c \in calls :
            c.op = "cancel" /\ CancelTask(c.request) /\ calls' = calls \ {c}
       \/ \E c \in calls :
            /\ c.op = "run"
            /\ IF MayBegin(c.request)
               THEN Begin(c.request) /\ calls' = (calls \ {c}) \cup {[c EXCEPT !.op = "running"]}
               ELSE calls' = (calls \ {c}) \cup {[c EXCEPT !.op = "failed"]} /\ UNCHANGED taskVars
       \/ \E c \in calls :
            /\ c.op = "running" /\ Over(c.request)
            /\ End(c.request)
            /\ calls' = (calls \ {c}) \cup {[c EXCEPT !.op = stage[c.request]]}
    /\ UNCHANGED <<shown, panel, latest, place, assistant, runs, acts>>

Work == Running /\ UNCHANGED <<shown, panel, latest, place, assistant, calls, runs, acts>>
Elsewhere == (Lapse \/ Change) /\ UNCHANGED <<shown, panel, latest, place, assistant, calls, runs, acts>>

Next ==
    \/ KnowLatest \/ Submit \/ PinContext \/ StartNew \/ LoadSettings \/ LoadRelationships
    \/ Automatic \/ Ask \/ Cancel \/ Expire \/ Prepared \/ Delivered
    \/ Serve \/ Work \/ Elsewhere

Spec == Init /\ [][Next]_vars

----------------------------------------------------------------------------
TypeOK ==
    /\ TasksTypeOK
    /\ \A i \in DOMAIN turns : Ids(turns[i].answer) \subseteq Request
    /\ phase \in {"idle", "preparing", "running", "done", "error", "cancelled", "expired"}
    /\ Ids(preview) \cup Ids(request) \subseteq Request
    /\ mounted => turns # << >>

(* An answer is written only under the question it was asked for, by the    *)
(* request the page still waits for: one given up because the relationships *)
(* or the settings changed, or one too old, writes nothing.                 *)
AnswerIsCurrent ==
    [][\A i \in DOMAIN turns \cap DOMAIN turns' :
          turns'[i].answer # turns[i].answer /\ turns'[i].answer # None
             => /\ request = turns'[i].answer /\ request \notin lapsed
                /\ prepared[request].question = turns[i].id]_vars

(* "Invalidating a request must never replay the user's send action": a     *)
(* question is run at most as often as the user sent it.                    *)
NeverReplayed == \A t \in DOMAIN runs : runs[t] <= asks[t]

(* A submitted question comes to an answer, an error or an end the user can *)
(* see; it is not left preparing or running.                                *)
Settled == ~mounted \/ phase \notin {"preparing", "running"}
====
