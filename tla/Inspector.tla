----------------------------- MODULE Inspector -----------------------------
(***************************************************************************)
(* The inspector (InspectorPanel.tsx) beside the diagram: its segments,    *)
(* the field a click on the diagram asks for, and the evidence that the    *)
(* assistant of the table lets the user look up in the structure.  What is *)
(* looked up belongs to a request: the assistant (TableAiAssistant.tsx)    *)
(* says which one is in force, and says so again when it goes away.  Its   *)
(* work with the desktop is in TableAssistant.  Without a table the        *)
(* segment explains a comparison (AiAssistant.tsx), after a preview when a *)
(* provider elsewhere is asked.                                            *)
(***************************************************************************)
EXTENDS Naturals

CONSTANTS Snapshot, Table, Tables,  \* the tables of a snapshot
          Policy, Remote,           \* what the settings and the semantics may be; those that ask elsewhere
          Question, None,
          MaxActs, MaxRequests

VARIABLES at,        \* what the page gives the inspector
          segment, column, picked, request,
          panel,     \* the assistant of the table, while there is one
          explain,   \* the explanation of a comparison, while it is shown
          prepared,  \* the requests prepared so far
          acts

vars == <<at, segment, column, picked, request, panel, explain, prepared, acts>>

Segment == {"structure", "semantics", "history", "ai"}
NoPanel == [asked |-> FALSE, preview |-> None, phase |-> "idle", completed |-> None]
NoExplanation == [question |-> "", preview |-> None, status |-> "idle", asked |-> None, result |-> None]

Init ==
  /\ at \in [snap : {None}, table : {None}, policy : Policy, changes : {FALSE}]
  /\ segment = "structure" /\ column = FALSE /\ picked = None /\ request = None
  /\ panel = NoPanel /\ explain = NoExplanation /\ prepared = 0 /\ acts = 0

\* evidenceScope, the assistant's key; and what it takes to have one.
Scope(a) == <<a.snap, a.table, a.policy>>
Mounted(a) == a.snap # None /\ a.table \in Tables[a.snap]
Historical == at.snap # None /\ at.table # None /\ ~Mounted(at)
\* The explanation of a comparison, and its key.
Explaining(a, s) == s = "ai" /\ a.snap # None /\ a.table = None /\ a.changes
Input(a) == <<a.snap, a.policy>>

\* Another input is another session of the same form, which keeps the question.
ExplainAt(a, s) ==
  IF ~(Explaining(a, s) /\ Explaining(at, segment)) THEN NoExplanation
  ELSE IF Input(a) = Input(at) THEN explain ELSE [NoExplanation EXCEPT !.question = explain.question]

\* Mutated: an assistant that goes away leaves its request in force.
ShowQuietly(a, s, unpick) ==
  /\ at' = a /\ segment' = s /\ explain' = ExplainAt(a, s)
  /\ panel' = IF Mounted(at) /\ (~Mounted(a) \/ Scope(a) # Scope(at)) THEN NoPanel ELSE panel
  /\ request' = request /\ picked' = IF unpick THEN None ELSE picked

\* The inspector with other properties: the assistant of another scope is another one.
Show(a, s, unpick) ==
  LET gone == Mounted(at) /\ (~Mounted(a) \/ Scope(a) # Scope(at)) IN
  /\ at' = a /\ segment' = s /\ explain' = ExplainAt(a, s)
  /\ panel' = IF gone THEN NoPanel ELSE panel
  /\ request' = IF gone THEN None ELSE request
  /\ picked' = IF gone \/ unpick THEN None ELSE picked

Act == acts < MaxActs /\ acts' = acts + 1

-----------------------------------------------------------------------------
(* The page                                                                *)

\* Another snapshot: nothing is selected, and a comparison may come with it.
NewSnapshot(n, changes) ==
  /\ Act /\ n # at.snap /\ (changes => n # None)
  /\ Show([at EXCEPT !.snap = n, !.table = None, !.changes = changes], segment, FALSE)
  /\ column' = FALSE /\ UNCHANGED prepared

\* inspectTable and locateTable: a table, one of its fields, or nothing; a comparison has tables
\* that are gone.  A field is shown in the structure.
Select(t, field) ==
  /\ Act /\ at.snap # None /\ (t # None => t \in Tables[at.snap] \/ at.changes) /\ (field => t # None)
  /\ Show([at EXCEPT !.table = t], IF field THEN "structure" ELSE segment, field)
  /\ column' = field /\ UNCHANGED prepared

\* onExplain of the explorer: the table is located and explained.
Explain(t) ==
  /\ Act /\ at.snap # None /\ t \in Tables[at.snap]
  /\ Show([at EXCEPT !.table = t], "ai", FALSE)
  /\ column' = FALSE /\ UNCHANGED prepared

\* Settings, a domain, a relationship or a statement changes.
NewPolicy(p) ==
  /\ Act /\ p # at.policy
  /\ Show([at EXCEPT !.policy = p], segment, FALSE)
  /\ UNCHANGED <<column, prepared>>

\* The switch of the segments, "back to the explanation" and the event inspect-history.
Choose(s) ==
  /\ Act /\ s # segment
  /\ Show(at, s, FALSE) /\ UNCHANGED <<column, prepared>>

-----------------------------------------------------------------------------
(* The assistant of the table                                              *)

\* handleAiTaskChange.
TaskChange(r) == request' = r /\ picked' = None
Unless(r, other) == IF r = None THEN TaskChange(other) ELSE UNCHANGED <<request, picked>>
InPanel(p) == Mounted(at) /\ panel' = p /\ UNCHANGED <<at, segment, column, explain>>

\* prepare: by itself, when the panel is in front; and its answer, or none.
Prepare ==
  /\ segment = "ai" /\ ~panel.asked /\ panel.preview = None
  /\ InPanel([panel EXCEPT !.asked = TRUE]) /\ UNCHANGED <<request, picked, prepared, acts>>
Prepared ==
  /\ panel.asked /\ prepared < MaxRequests /\ prepared' = prepared + 1
  /\ InPanel([panel EXCEPT !.asked = FALSE, !.preview = prepared + 1, !.phase = "ready"])
  /\ Unless(panel.completed, prepared + 1) /\ UNCHANGED acts
NotPrepared ==
  /\ panel.asked
  /\ InPanel([panel EXCEPT !.asked = FALSE, !.phase = "error"]) /\ UNCHANGED <<request, picked, prepared, acts>>

\* run, and what comes of it.
Run ==
  /\ Act /\ segment = "ai" /\ panel.phase = "ready"
  /\ InPanel([panel EXCEPT !.phase = "running", !.completed = None])
  /\ TaskChange(panel.preview) /\ UNCHANGED prepared
Answered ==
  /\ panel.phase = "running"
  /\ InPanel([panel EXCEPT !.phase = "idle", !.preview = None, !.completed = panel.preview])
  /\ UNCHANGED <<request, picked, prepared, acts>>
Fails ==
  /\ panel.phase = "running"
  /\ InPanel([panel EXCEPT !.phase = "error"])
  /\ UNCHANGED <<request, picked, prepared, acts>>

\* invalidate: the question is edited, the request is cancelled, or it has expired.
Invalidate ==
  /\ Act
  /\ InPanel([panel EXCEPT !.asked = FALSE, !.preview = None, !.phase = "idle"])
  /\ Unless(panel.completed, None) /\ UNCHANGED prepared

\* The requests whose evidence can be clicked: the answer's, or what would be sent.
Listed ==
  IF panel.completed # None THEN {panel.completed} ELSE IF panel.preview # None THEN {panel.preview} ELSE {}

\* onLocateEvidence: evidence is about the table or about one near it.
Locate(r, t) ==
  /\ Act /\ Mounted(at) /\ segment = "ai" /\ r \in Listed /\ t \in Tables[at.snap]
  /\ IF r = request
     THEN segment' = "structure" /\ picked' = [scope |-> Scope(at), request |-> r, table |-> t]
     ELSE UNCHANGED <<segment, picked>>
  /\ UNCHANGED <<at, column, request, panel, explain, prepared>>

\* focusedEvidence, and what the structure shows.
Focused == IF picked # None /\ picked.scope = Scope(at) /\ picked.request = request THEN picked ELSE None
ShownTable == IF Focused # None THEN Focused.table ELSE at.table
ShowsColumn == column /\ Focused = None

-----------------------------------------------------------------------------
(* The explanation of a comparison                                         *)

InExplanation(e) ==
  Explaining(at, segment) /\ explain' = e
  /\ UNCHANGED <<at, segment, column, picked, request, panel, prepared>>

\* Mutated: any preview will do.
AnyPreview == explain.preview # None

\* requestKey: a preview counts for the question it was made for.
PreviewVisible == explain.preview # None /\ explain.preview = explain.question

Ask(q) == Act /\ q # explain.question /\ InExplanation([explain EXCEPT !.question = q])
Preview ==
  /\ Act /\ at.policy \in Remote /\ ~PreviewVisible /\ explain.status # "loading"
  /\ InExplanation([explain EXCEPT !.preview = explain.question])
Send ==
  /\ Act /\ (at.policy \in Remote => PreviewVisible) /\ explain.status # "loading"
  /\ InExplanation([explain EXCEPT !.preview = None, !.status = "loading", !.asked = explain.question])
Dismiss == Act /\ explain.preview # None /\ InExplanation([explain EXCEPT !.preview = None])
Explained ==
  /\ explain.status = "loading" /\ UNCHANGED acts
  /\ \/ InExplanation([explain EXCEPT !.status = "idle", !.result = explain.asked])
     \/ InExplanation([explain EXCEPT !.status = "error"])

Pages ==
  \/ \E n \in Snapshot \cup {None}, c \in BOOLEAN : NewSnapshot(n, c)
  \/ \E t \in Table \cup {None}, f \in BOOLEAN : Select(t, f)
  \/ \E t \in Table : Explain(t)
  \/ \E p \in Policy : NewPolicy(p)
  \/ \E s \in Segment : Choose(s)
Assists ==
  \/ Prepare \/ Prepared \/ NotPrepared \/ Run \/ Answered \/ Fails \/ Invalidate
  \/ \E r \in 1..MaxRequests, t \in Table : Locate(r, t)
Explains == (\E q \in Question : Ask(q)) \/ Preview \/ Send \/ Dismiss \/ Explained

Next == Pages \/ Assists \/ Explains
Spec == Init /\ [][Next]_vars

-----------------------------------------------------------------------------
(* Properties                                                              *)

Ids == 1..MaxRequests \cup {None}
TypeOK ==
  /\ at \in [snap : Snapshot \cup {None}, table : Table \cup {None}, policy : Policy, changes : BOOLEAN]
  /\ segment \in Segment /\ column \in BOOLEAN /\ request \in Ids
  /\ picked # None => picked.table \in Table /\ picked.request \in Ids
  /\ panel.preview \in Ids /\ panel.completed \in Ids /\ panel.phase \in {"idle", "ready", "running", "error"}
  /\ explain.question \in Question \cup {""} /\ explain.status \in {"idle", "loading", "error"}

\* Evidence shown in the structure is that of the answer, or of the request about to be sent, which
\* "back to the explanation" returns to; what is listed there can be looked up; and a table that
\* is gone, or no table at all, has none (handleAiTaskChange, focusedEvidence).
EvidenceIsAnswered ==
  /\ Focused # None => Mounted(at) /\ Focused.request \in Listed /\ Focused.table \in Tables[at.snap]
  /\ Mounted(at) => Listed \subseteq {request}
  /\ ~Mounted(at) => request = None

\* Nothing goes to a provider elsewhere but what the preview just showed (explain).
SentAsPreviewed ==
  [][explain'.status = "loading" /\ explain.status # "loading" /\ at.policy \in Remote
       => explain.preview = explain'.asked]_vars
=============================================================================
