---- MODULE TableAssistant ----
(***************************************************************************)
(* The assistant of a table (components/TableAiAssistant.tsx): it prepares *)
(* a request by itself while the question is edited and sends one only     *)
(* when the user presses the button.  Every call to the desktop answers    *)
(* later, whatever the panel shows by then.                                *)
(***************************************************************************)
EXTENDS AiTasks

CONSTANTS Question, Blank, None, MaxActs

VARIABLES shown,      \* the settings the page has loaded
          phase, preview, completed, pending, busy, epoch,
          question, active,
          timer,      \* a preparation is due
          calls,      \* commands under way: asked, or answered and not delivered
          pressed,    \* requests the user sent
          acts

panelVars == <<phase, preview, completed, pending, busy, epoch, question, timer>>
vars == <<taskVars, shown, panelVars, active, calls, pressed, acts>>

ASSUME NoneIsNoRequest == None \notin Nat

Phase == {"idle", "preparing", "ready", "running", "error", "cancelled", "expired"}
Ids(r) == IF r = None THEN {} ELSE {r}
CompletedId == IF completed = None THEN None ELSE completed.request
CancelCalls(rs) == {[op |-> "cancel", request |-> r] : r \in rs}

Init ==
    /\ TasksInit
    /\ shown = policy
    /\ phase = "idle" /\ preview = None /\ completed = None /\ pending = None
    /\ busy = FALSE /\ epoch = 0
    /\ question \in Question /\ active = TRUE /\ timer = TRUE
    /\ calls = {} /\ pressed = {}
    /\ acts = 0

(* invalidate(next): what is under way no longer counts, and the desktop is *)
(* told so.                                                                 *)
InvalidateWith(next, dropped) ==
    /\ epoch' = epoch + 1 /\ busy' = FALSE
    /\ pending' = None /\ preview' = None /\ phase' = next
    /\ calls' = (calls \ dropped) \cup CancelCalls(Ids(pending) \ Ids(CompletedId))
Invalidate(next) == InvalidateWith(next, {})

(* The panel of another table, snapshot or settings is another panel.       *)
\* mutant: a panel that goes away says nothing to the desktop.
RemountSilently ==
    /\ epoch' = epoch + 1 /\ busy' = FALSE
    /\ pending' = None /\ preview' = None /\ completed' = None /\ phase' = "idle"
    /\ question' \in Question /\ timer' = TRUE
    /\ UNCHANGED calls
Remount ==
    /\ epoch' = epoch + 1 /\ busy' = FALSE
    /\ pending' = None /\ preview' = None /\ completed' = None /\ phase' = "idle"
    /\ question' \in Question /\ timer' = TRUE
    /\ calls' = calls \cup CancelCalls(Ids(pending) \cup Ids(CompletedId))

SelectTable ==
    /\ acts < MaxActs /\ acts' = acts + 1
    /\ Remount
    /\ UNCHANGED <<taskVars, shown, active, pressed>>

LoadSettings ==
    /\ shown # policy /\ shown' = policy
    /\ Remount
    /\ UNCHANGED <<taskVars, active, pressed, acts>>

(* Editing the question, or choosing a suggestion already in the box.       *)
\* mutant: the same text again does not prepare again.
EditSame ==
    /\ acts < MaxActs /\ acts' = acts + 1
    /\ question' \in Question \cup {Blank}
    /\ Invalidate("idle")
    /\ timer' = (timer \/ question' # question)
    /\ UNCHANGED <<taskVars, shown, completed, active, pressed>>
EditQuestion ==
    /\ acts < MaxActs /\ acts' = acts + 1
    /\ question' \in Question \cup {Blank}
    /\ Invalidate("idle")
    /\ timer' = TRUE
    /\ UNCHANGED <<taskVars, shown, completed, active, pressed>>

(* A hidden panel prepares nothing; shown again, it does.                   *)
ToggleActive ==
    /\ acts < MaxActs /\ acts' = acts + 1
    /\ active' = ~active /\ timer' = TRUE
    /\ UNCHANGED <<taskVars, shown, phase, preview, completed, pending, busy, epoch, question, calls,
                   pressed>>

MayPrepare == ~busy /\ pending = None /\ active /\ question # Blank
Prepare ==
    /\ timer /\ timer' = FALSE
    /\ IF MayPrepare
       THEN /\ busy' = TRUE /\ phase' = "preparing"
            /\ calls' = calls \cup {[op |-> "prepare", epoch |-> epoch, question |-> question]}
       ELSE UNCHANGED <<busy, phase, calls>>
    /\ UNCHANGED <<taskVars, shown, preview, completed, pending, epoch, question, active, pressed,
                   acts>>

Serve ==
    \/ \E c \in calls :
         /\ c.op = "prepare"
         /\ Cardinality(Request) < MaxRequests
         /\ Register(c.question)
         /\ calls' = (calls \ {c}) \cup
              {[op |-> "prepared", epoch |-> c.epoch,
                request |-> IF HasRoom THEN NextRequest ELSE None]}
    \/ \E c \in calls :
         /\ c.op = "cancel"
         /\ CancelTask(c.request)
         /\ calls' = calls \ {c}
    \/ \E c \in calls :
         /\ c.op = "run"
         /\ IF MayBegin(c.request)
            THEN Begin(c.request) /\ calls' = (calls \ {c}) \cup {[c EXCEPT !.op = "running"]}
            ELSE /\ calls' = (calls \ {c}) \cup {[c EXCEPT !.op = "failed"]}
                 /\ UNCHANGED taskVars
    \/ \E c \in calls :
         /\ c.op = "running" /\ Over(c.request)
         /\ End(c.request)
         /\ calls' = (calls \ {c}) \cup
              {[c EXCEPT !.op = IF TableAnswers(c.request) THEN "answered" ELSE "failed"]}
ServeCalls == Serve /\ UNCHANGED <<shown, panelVars, active, pressed, acts>>

Work == Running /\ UNCHANGED <<shown, panelVars, active, calls, pressed, acts>>
Elsewhere ==
    /\ Lapse \/ Change
    /\ UNCHANGED <<shown, panelVars, active, calls, pressed, acts>>

(* The preview arrives: too late, refused, not for these settings, already  *)
(* too old, or ready to be sent.                                            *)
LatePrepared(c) ==
    /\ c.epoch # epoch
    /\ calls' = (calls \ {c}) \cup CancelCalls(Ids(c.request))
    /\ UNCHANGED <<busy, epoch, pending, preview, phase>>
Prepared ==
    \E c \in calls :
      /\ c.op = "prepared"
      /\ \/ LatePrepared(c)
         \/ /\ c.epoch = epoch
            /\ c.request # None => prepared[c.request].policy.model # shown.model
            /\ busy' = FALSE /\ phase' = "error"
            /\ calls' = (calls \ {c}) \cup CancelCalls(Ids(c.request))
            /\ UNCHANGED <<epoch, pending, preview>>
         \/ /\ c.epoch = epoch /\ c.request # None
            /\ prepared[c.request].policy.model = shown.model
            /\ IF c.request \in lapsed
               THEN /\ epoch' = epoch + 1 /\ busy' = FALSE /\ pending' = None
                    /\ preview' = None /\ phase' = "expired"
                    /\ calls' = (calls \ {c}) \cup CancelCalls(Ids(c.request))
               ELSE /\ busy' = FALSE /\ phase' = "ready"
                    /\ pending' = c.request /\ preview' = c.request
                    /\ calls' = calls \ {c}
                    /\ UNCHANGED epoch
      /\ UNCHANGED <<taskVars, shown, completed, question, timer, active, pressed, acts>>

Expire ==
    /\ preview # None /\ phase \in {"ready", "running"} /\ preview \in lapsed
    /\ Invalidate("expired")
    /\ UNCHANGED <<taskVars, shown, completed, question, timer, active, pressed, acts>>

Cancel ==
    /\ acts < MaxActs /\ acts' = acts + 1
    /\ phase \in {"preparing", "ready", "running"}
    /\ Invalidate("cancelled")
    /\ UNCHANGED <<taskVars, shown, completed, question, timer, active, pressed>>

Refresh ==
    /\ acts < MaxActs /\ acts' = acts + 1
    /\ phase \in {"error", "expired", "cancelled"}
    /\ Invalidate("idle")
    /\ timer' = TRUE
    /\ UNCHANGED <<taskVars, shown, completed, question, active, pressed>>

(* The user sends what is previewed; the answer before it is given up.      *)
Run ==
    /\ preview # None /\ phase = "ready" /\ ~busy /\ active
    /\ IF preview \in lapsed
       THEN Invalidate("expired") /\ UNCHANGED <<completed, pressed>>
       ELSE /\ busy' = TRUE /\ phase' = "running"
            /\ completed' = None
            /\ pressed' = pressed \cup {preview}
            /\ calls' = calls \cup {[op |-> "run", epoch |-> epoch, request |-> preview,
                                     question |-> question]}
                              \cup CancelCalls(Ids(CompletedId))
            /\ UNCHANGED <<epoch, pending, preview>>
    /\ UNCHANGED <<taskVars, shown, question, timer, active, acts>>

(* The answer, or that there is none.                                       *)
\* mutant: an answer is shown to whatever the panel is by now.
AnyEpoch(c) == TRUE
ForThisPanel(c) == c.epoch = epoch
Delivered ==
    \E c \in calls :
      /\ c.op \in {"answered", "failed"}
      /\ IF ~ForThisPanel(c)
         THEN calls' = calls \ {c}
              /\ UNCHANGED <<busy, epoch, pending, preview, phase, completed, question, timer>>
         ELSE IF c.op = "failed"
         THEN /\ busy' = FALSE /\ phase' = "error" /\ calls' = calls \ {c}
              /\ UNCHANGED <<epoch, pending, preview, completed, question, timer>>
         ELSE IF c.request \in lapsed
         THEN InvalidateWith("expired", {c}) /\ UNCHANGED <<completed, question, timer>>
         ELSE /\ completed' = [request |-> c.request, question |-> c.question]
              /\ busy' = FALSE /\ pending' = None /\ preview' = None /\ phase' = "idle"
              /\ question' = Blank /\ timer' = TRUE
              /\ calls' = calls \ {c}
              /\ UNCHANGED epoch
      /\ UNCHANGED <<taskVars, shown, active, pressed, acts>>

Next ==
    \/ SelectTable \/ LoadSettings \/ EditQuestion \/ ToggleActive
    \/ Prepare \/ Cancel \/ Refresh \/ Run
    \/ ServeCalls \/ Work \/ Elsewhere
    \/ Prepared \/ Delivered \/ Expire

Spec == Init /\ [][Next]_vars

----------------------------------------------------------------------------
TypeOK ==
    /\ TasksTypeOK
    /\ phase \in Phase
    /\ Ids(pending) \cup Ids(preview) \cup Ids(CompletedId) \subseteq Request
    /\ question \in Question \cup {Blank}
    /\ {busy, active, timer} \subseteq BOOLEAN
    /\ pressed \subseteq Request

(* The answer on the panel is the one to the request the user sent last     *)
(* from it, with the question that request was prepared for; an answer to   *)
(* an invalidated request, an expired one or another table's never is.      *)
AnswerArrives ==
    [][completed' # completed /\ completed' # None =>
          /\ phase = "running" /\ preview = completed'.request
          /\ completed'.request \in pressed \ lapsed
          /\ prepared[completed'.request].question = completed'.question]_vars

(* No request is left behind: each one the desktop keeps is the panel's, on *)
(* its way to it, being run, or about to be cancelled.  Sixteen forgotten   *)
(* ones would refuse every further preview for five minutes.                *)
NoneForgotten ==
    \A r \in tasks :
        \/ r = pending
        \/ r \in DOMAIN stage
        \/ \E c \in calls : c.op \in {"cancel", "prepared", "run"} /\ c.request = r

(* A question left alone on a visible panel gets its preview or a reason    *)
(* why not: the panel does not stay idle, preparing or running.             *)
Settled == phase \in {"ready", "error", "expired", "cancelled"} \/ ~active \/ question = Blank
====
