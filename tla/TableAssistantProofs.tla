------------------------ MODULE TableAssistantProofs ------------------------
(***************************************************************************)
(* No prepared request is forgotten, and an answer on the panel is the one *)
(* to the request the user sent last from it, for any settings, questions  *)
(* and number of requests, calls and retries.                              *)
(*                                                                         *)
(* The epoch of the panel orders its calls: at most one call of the        *)
(* present epoch is under way, and while it is the panel waits for it.     *)
(* What an older call brings back is only ever cancelled or dropped.       *)
(***************************************************************************)
EXTENDS TableAssistant, FiniteSetTheorems, TLAPS

Stages == {"checking", "cleared", "received", "answered", "failed"}
Kept == [policy : Policies(Model, Note), question : Question]

-----------------------------------------------------------------------------
(* The desktop: requests are numbered as they are prepared, a request that *)
(* was run is kept only while its run lasts, and one that may still be     *)
(* tried again has tries left.                                             *)
Numbered(n) == n \in Nat /\ Request = 1..n
TasksInv ==
  /\ policy \in Policies(Model, Note)
  /\ \E n \in Nat : Numbered(n)
  /\ prepared \in [Request -> Kept]
  /\ tasks \subseteq Request /\ started \subseteq Request /\ cancelled \subseteq Request
  /\ Cardinality(Fresh) <= MaxPrepared
  /\ DOMAIN stage \subseteq started /\ tasks \cap started \subseteq DOMAIN stage
  /\ stage \in [DOMAIN stage -> Stages]
  /\ DOMAIN stage \subseteq DOMAIN tries
  /\ tries \in [DOMAIN tries -> 0..MaxRetries + 1]
  /\ \A r \in DOMAIN stage : stage[r] \in {"checking", "cleared"} => tries[r] <= MaxRetries

\* What the desktop did is not undone: a request stays what it was prepared for, and one that was
\* forgotten is not kept again.
Onward ==
  /\ Request \subseteq DOMAIN prepared'
  /\ \A r \in Request : prepared'[r] = prepared[r]
  /\ tasks' \cap Request \subseteq tasks

\* The next request is a new one.
LEMMA NextIsNew ==
  ASSUME NEW n, Numbered(n)
  PROVE  NextRequest = n + 1 /\ NextRequest \notin Request /\ Request \cup {NextRequest} = 1..(n + 1)
         /\ IsFiniteSet(Request)
<1>1. IsFiniteSet(1..n) /\ Cardinality(1..n) = n
  <2>1. n \in Int /\ 1 \in Int /\ n \in Nat
    BY DEF Numbered
  <2>2. IsFiniteSet(1..n) /\ Cardinality(1..n) = IF 1 > n THEN 0 ELSE n - 1 + 1
    BY <2>1, FS_Interval
  <2> QED BY <2>1, <2>2
<1>2. NextRequest = n + 1
  BY <1>1 DEF Numbered, NextRequest
<1>3. Request \cup {n + 1} = 1..(n + 1) /\ n + 1 \notin Request
  BY DEF Numbered
<1> QED BY <1>1, <1>2, <1>3 DEF Numbered

\* What is kept is finite, and no part of it exceeds the limit when the whole does not.
LEMMA FewerFit ==
  ASSUME TasksInv, NEW S, S \subseteq Fresh
  PROVE  IsFiniteSet(S) /\ Cardinality(S) <= MaxPrepared
<1>1. PICK n : Numbered(n)
  BY DEF TasksInv
<1>2. IsFiniteSet(Request)
  BY <1>1, NextIsNew
<1>3. IsFiniteSet(Fresh)
  BY <1>2, FS_Subset DEF TasksInv, Fresh
<1>4. IsFiniteSet(S) /\ Cardinality(S) <= Cardinality(Fresh)
  BY <1>3, FS_Subset
<1>5. Cardinality(S) \in Nat /\ Cardinality(Fresh) \in Nat
  BY <1>3, <1>4, FS_CardinalityType
<1> QED BY <1>4, <1>5, LimitsAreNumbers DEF TasksInv

LEMMA RegisterKeeps ==
  ASSUME TasksInv, NEW q \in Question, Register(q)
  PROVE  /\ TasksInv' /\ Onward
         /\ HasRoom => /\ NextRequest \in Nat /\ NextRequest \notin Request
                       /\ DOMAIN prepared' = Request \cup {NextRequest}
                       /\ prepared'[NextRequest].question = q
                       /\ tasks' \subseteq tasks \cup {NextRequest}
         /\ ~HasRoom => DOMAIN prepared' = Request /\ tasks' \subseteq tasks
<1>1. PICK n : Numbered(n)
  BY DEF TasksInv
<1> DEFINE new == NextRequest
<1>2. /\ new = n + 1 /\ new \notin Request /\ Request \cup {new} = 1..(n + 1)
      /\ n \in Nat /\ n + 1 \in Nat /\ Request = 1..n
  BY <1>1, NextIsNew DEF Numbered
<1>3. /\ UNCHANGED <<policy, started, lapsed, stage, tries, sent, changes>>
      /\ cancelled' = cancelled \cup (tasks \cap lapsed)
  BY DEF Register
<1>4. IsFiniteSet(Fresh) /\ Cardinality(Fresh) <= MaxPrepared
  BY FewerFit
<1>5. CASE HasRoom
  <2>1. /\ prepared' = [r \in Request \cup {new} |-> IF r = new
                        THEN [policy |-> policy, question |-> q] ELSE prepared[r]]
        /\ tasks' = Fresh \cup {new}
    BY <1>5 DEF Register
  <2> HIDE DEF new
  <2>2. [policy |-> policy, question |-> q] \in Kept
    BY DEF TasksInv, Kept
  <2>3. /\ DOMAIN prepared' = Request \cup {new}
        /\ \A r \in Request : prepared'[r] = prepared[r]
        /\ prepared'[new] = [policy |-> policy, question |-> q]
    BY <2>1, <1>2
  <2>4. prepared' \in [DOMAIN prepared' -> Kept]
    BY <2>1, <2>2, <2>3 DEF TasksInv
  <2>5. Numbered(n + 1)'
    BY <2>3, <1>2 DEF Numbered, Request
  <2>6. tasks' \subseteq tasks \cup {new} /\ tasks' \cap started \subseteq tasks \cap started
    BY <2>1, <1>2 DEF Fresh, TasksInv
  <2>7. Cardinality(Fresh') <= MaxPrepared
    <3>1. Fresh' \subseteq Fresh \cup {new}
      BY <2>1, <1>3 DEF Fresh
    <3>2. IsFiniteSet(Fresh \cup {new}) /\ Cardinality(Fresh \cup {new}) <= Cardinality(Fresh) + 1
      <4>1. Cardinality(Fresh) \in Nat
        BY <1>4, FS_CardinalityType
      <4>2. /\ IsFiniteSet(Fresh \cup {new})
            /\ Cardinality(Fresh \cup {new}) = IF new \in Fresh THEN Cardinality(Fresh)
                                               ELSE Cardinality(Fresh) + 1
        BY <1>4, FS_AddElement
      <4>3. CASE new \in Fresh
        BY <4>1, <4>2, <4>3
      <4>4. CASE new \notin Fresh
        BY <4>1, <4>2, <4>4
      <4> QED BY <4>3, <4>4
    <3>3. IsFiniteSet(Fresh') /\ Cardinality(Fresh') <= Cardinality(Fresh \cup {new})
      BY <3>1, <3>2, FS_Subset
    <3>4. Cardinality(Fresh') \in Nat /\ Cardinality(Fresh \cup {new}) \in Nat /\ Cardinality(Fresh) \in Nat
      BY <3>2, <3>3, <1>4, FS_CardinalityType
    <3>5. Cardinality(Fresh) < MaxPrepared
      BY <1>5 DEF HasRoom
    <3> QED BY <3>2, <3>3, <3>4, <3>5, LimitsAreNumbers
  <2>8. TasksInv'
    <3>1. /\ tasks' \subseteq DOMAIN prepared' /\ started' \subseteq DOMAIN prepared'
          /\ cancelled' \subseteq DOMAIN prepared'
      BY <1>3, <2>3, <2>6 DEF TasksInv
    <3>2. \E m \in Nat : Numbered(m)'
      BY <2>5, <1>2
    <3> QED BY <3>1, <3>2, <2>4, <2>6, <2>7, <1>3 DEF TasksInv, Request
  <2>9. Onward
    BY <2>3, <2>6, <1>2 DEF Onward
  <2> QED BY <2>8, <2>9, <2>3, <2>6, <1>2, <1>5 DEF new
<1>6. CASE ~HasRoom
  <2>1. prepared' = prepared /\ tasks' = Fresh
    BY <1>6 DEF Register
  <2>2. tasks' \subseteq tasks /\ Fresh' \subseteq Fresh
    BY <2>1, <1>3 DEF Fresh
  <2>3. Cardinality(Fresh') <= MaxPrepared
    BY <2>2, FewerFit
  <2>4. \E m \in Nat : Numbered(m)'
    BY <2>1, <1>1 DEF Numbered, Request
  <2> QED BY <2>1, <2>2, <2>3, <2>4, <1>3, <1>6 DEF TasksInv, Onward, Request
<1> QED BY <1>5, <1>6

\* A step that prepares nothing and keeps nothing more.
LEMMA FewerKept ==
  ASSUME TasksInv, UNCHANGED prepared, tasks' \subseteq tasks, lapsed \subseteq lapsed'
  PROVE  Onward /\ Cardinality(Fresh') <= MaxPrepared /\ (\E n \in Nat : Numbered(n)')
         /\ prepared' \in [DOMAIN prepared' -> Kept] /\ tasks' \subseteq DOMAIN prepared'
         /\ DOMAIN prepared' = Request
<1>1. Fresh' \subseteq Fresh
  BY DEF Fresh
<1>2. Cardinality(Fresh') <= MaxPrepared
  BY <1>1, FewerFit
<1> QED BY <1>2 DEF TasksInv, Onward, Numbered, Request

LEMMA CancelTaskKeeps ==
  ASSUME TasksInv, NEW r \in Request, CancelTask(r)
  PROVE  TasksInv' /\ Onward /\ tasks' = tasks \ {r} /\ UNCHANGED <<prepared, stage>>
<1>1. /\ tasks' = tasks \ {r} /\ cancelled' = cancelled \cup {r}
      /\ UNCHANGED <<policy, prepared, started, lapsed, stage, tries, sent, changes>>
  BY DEF CancelTask
<1>2. tasks' \subseteq tasks /\ lapsed \subseteq lapsed'
  BY <1>1
<1> QED BY <1>1, <1>2, FewerKept DEF TasksInv, Request

LEMMA BeginKeeps ==
  ASSUME TasksInv, NEW r, MayBegin(r), Begin(r)
  PROVE  TasksInv' /\ Onward /\ UNCHANGED <<prepared, tasks>> /\ DOMAIN stage' = DOMAIN stage \cup {r}
<1>1. /\ started' = started \cup {r}
      /\ stage' = [x \in DOMAIN stage \cup {r} |-> IF x = r THEN "checking" ELSE stage[x]]
      /\ tries' = [x \in DOMAIN tries \cup {r} |-> IF x = r THEN 0 ELSE tries[x]]
      /\ UNCHANGED <<policy, prepared, tasks, cancelled, lapsed, sent, changes>>
  BY DEF Begin
<1>2. r \in Request
  BY DEF MayBegin, TasksInv
<1>3. FALSE \/ (Cardinality(Fresh') <= MaxPrepared /\ (\E n \in Nat : Numbered(n)') /\ Onward)
  BY <1>1, FewerKept
<1>4. stage' \in [DOMAIN stage' -> Stages] /\ DOMAIN stage' = DOMAIN stage \cup {r}
  BY <1>1 DEF TasksInv, Stages
<1>5. tries' \in [DOMAIN tries' -> 0..MaxRetries + 1] /\ DOMAIN tries' = DOMAIN tries \cup {r}
  BY <1>1, LimitsAreNumbers DEF TasksInv
<1>6. \A x \in DOMAIN stage' : stage'[x] \in {"checking", "cleared"} => tries'[x] <= MaxRetries
  BY <1>1, LimitsAreNumbers DEF TasksInv
<1> QED BY <1>1, <1>2, <1>3, <1>4, <1>5, <1>6 DEF TasksInv, Request

LEMMA EndKeeps ==
  ASSUME TasksInv, NEW r, End(r)
  PROVE  TasksInv' /\ Onward /\ tasks' = tasks \ {r} /\ DOMAIN stage' = DOMAIN stage \ {r}
         /\ UNCHANGED prepared
<1>1. /\ tasks' = tasks \ {r}
      /\ stage' = [x \in DOMAIN stage \ {r} |-> stage[x]]
      /\ UNCHANGED <<policy, prepared, started, cancelled, lapsed, tries, sent, changes>>
  BY DEF End
<1>2. (Cardinality(Fresh') <= MaxPrepared /\ (\E n \in Nat : Numbered(n)') /\ Onward)
  BY <1>1, FewerKept
<1>3. stage' \in [DOMAIN stage' -> Stages] /\ DOMAIN stage' = DOMAIN stage \ {r}
  BY <1>1 DEF TasksInv
<1>4. \A x \in DOMAIN stage' : stage'[x] \in {"checking", "cleared"} => tries'[x] <= MaxRetries
  BY <1>1 DEF TasksInv
<1> QED BY <1>1, <1>2, <1>3, <1>4 DEF TasksInv, Request

LEMMA WorkKeeps ==
  ASSUME TasksInv, NEW r \in Request, Check(r) \/ Send(r) \/ Recheck(r)
  PROVE  TasksInv' /\ Onward /\ UNCHANGED <<prepared, tasks>> /\ DOMAIN stage' = DOMAIN stage
<1>1. UNCHANGED <<policy, prepared, tasks, started, cancelled, lapsed, changes>> /\ r \in DOMAIN stage
  BY DEF Check, Send, Recheck, At
<1>2. Cardinality(Fresh') <= MaxPrepared /\ (\E n \in Nat : Numbered(n)') /\ Onward
  BY <1>1, FewerKept
<1>3. PICK where \in Stages : stage' = [stage EXCEPT ![r] = where]
  BY DEF Check, Send, Recheck, MoveTo, Stages
<1>4. stage' \in [DOMAIN stage' -> Stages] /\ DOMAIN stage' = DOMAIN stage
  BY <1>3 DEF TasksInv
<1>5. /\ tries' \in [DOMAIN tries' -> 0..MaxRetries + 1] /\ DOMAIN tries' = DOMAIN tries
      /\ \A x \in DOMAIN stage' : stage'[x] \in {"checking", "cleared"} => tries'[x] <= MaxRetries
  <2>1. CASE Check(r)
    BY <2>1, <1>3, <1>4 DEF Check, At, MoveTo, TasksInv
  <2>2. CASE Recheck(r)
    <3>1. stage' = [stage EXCEPT ![r] = IF Valid(r) THEN "answered" ELSE "failed"] /\ tries' = tries
      BY <2>2 DEF Recheck, MoveTo
    <3> QED BY <3>1, <1>1 DEF TasksInv
  <2>3. CASE Send(r) /\ r \in cancelled
    <3>1. stage' = [stage EXCEPT ![r] = "failed"] /\ tries' = tries
      BY <2>3 DEF Send, MoveTo
    <3> QED BY <3>1, <1>1 DEF TasksInv
  <2>4. CASE Send(r) /\ r \notin cancelled
    <3>1. /\ stage[r] = "cleared" /\ tries' = [tries EXCEPT ![r] = @ + 1]
          /\ \/ stage' = [stage EXCEPT ![r] = "received"]
             \/ stage' = [stage EXCEPT ![r] = "failed"]
             \/ tries[r] < MaxRetries /\ stage' = [stage EXCEPT ![r] = "checking"]
      <4>1. stage[r] = "cleared"
        BY <2>4 DEF Send, At
      <4>2. /\ tries' = [tries EXCEPT ![r] = @ + 1]
            /\ MoveTo(r, "received") \/ MoveTo(r, "failed") \/ (tries[r] < MaxRetries /\ MoveTo(r, "checking"))
        BY <2>4 DEF Send
      <4> QED BY <4>1, <4>2, Zenon DEF MoveTo
    <3>2. tries[r] \in Nat /\ tries[r] <= MaxRetries /\ r \in DOMAIN tries
      BY <3>1, <1>1, LimitsAreNumbers DEF TasksInv
    <3>3. tries' \in [DOMAIN tries' -> 0..MaxRetries + 1] /\ DOMAIN tries' = DOMAIN tries
          /\ tries'[r] = tries[r] + 1 /\ \A x \in DOMAIN tries \ {r} : tries'[x] = tries[x]
      BY <3>1, <3>2, LimitsAreNumbers DEF TasksInv
    <3>4. ASSUME NEW x \in DOMAIN stage', stage'[x] \in {"checking", "cleared"} PROVE tries'[x] <= MaxRetries
      <4>1. CASE x = r
        BY <4>1, <3>4, <3>1, <3>2, <3>3, <1>1, LimitsAreNumbers
      <4>2. CASE x # r
        BY <4>2, <3>4, <3>1, <3>3, <1>4 DEF TasksInv
      <4> QED BY <4>1, <4>2
    <3> QED BY <3>3, <3>4
  <2> QED BY <2>1, <2>2, <2>3, <2>4
<1> QED BY <1>1, <1>2, <1>4, <1>5 DEF TasksInv, Request

LEMMA ElsewhereKeeps ==
  ASSUME TasksInv, Lapse \/ Change
  PROVE  TasksInv' /\ Onward /\ UNCHANGED <<prepared, tasks, stage>> /\ lapsed \subseteq lapsed'
<1>1. /\ UNCHANGED <<prepared, tasks, started, cancelled, stage, tries, sent>>
      /\ policy' \in Policies(Model, Note) /\ lapsed \subseteq lapsed'
  BY DEF Lapse, Change, TasksInv, Policies
<1>2. Cardinality(Fresh') <= MaxPrepared /\ (\E n \in Nat : Numbered(n)') /\ Onward
  BY <1>1, FewerKept
<1> QED BY <1>1, <1>2 DEF TasksInv, Request

-----------------------------------------------------------------------------
(* The panel: what each call stands for, and that the panel waits for the  *)
(* one call of its present epoch.                                          *)
RunOps == {"run", "running", "answered", "failed"}
Call ==
  [op : {"prepare"}, epoch : Nat, question : Question]
    \cup [op : {"prepared"}, epoch : Nat, request : Nat \cup {None}]
    \cup [op : {"cancel"}, request : Nat]
    \cup [op : RunOps, epoch : Nat, request : Nat, question : Question \cup {Blank}]
Current(c) == c.op # "cancel" /\ c.epoch = epoch

CallOK(c) ==
  /\ c.op # "cancel" => c.epoch <= epoch
  /\ c.op = "cancel" => c.request \in Request
  /\ c.op = "prepared" => c.request \in Request \cup {None}
  /\ c.op \in RunOps => c.request \in pressed /\ prepared[c.request].question = c.question
  /\ c.op = "answered" => c.request \notin tasks
  /\ Current(c) =>
       /\ busy
       /\ c.op \in {"prepare", "prepared"} => phase = "preparing" /\ pending = None
       /\ c.op = "prepare" => c.question = question
       /\ (c.op = "prepared" /\ c.request # None) => prepared[c.request].question = question
       /\ c.op \in RunOps => phase = "running" /\ pending = c.request

PanelShapes ==
  /\ phase \in Phase /\ epoch \in Nat
  /\ busy \in BOOLEAN /\ active \in BOOLEAN /\ timer \in BOOLEAN
  /\ question \in Question \cup {Blank}
  /\ pressed \subseteq Request
  /\ preview = pending /\ pending \in Request \cup {None}
  /\ completed # None => completed \in [request : Nat, question : Question \cup {Blank}]
  /\ calls \subseteq Call

PanelInv ==
  /\ PanelShapes
  /\ pending # None => prepared[pending].question = question
  /\ completed # None => completed.request \in Request \ tasks
  /\ \A c \in calls : CallOK(c)
  /\ \A c, d \in calls : Current(c) /\ Current(d) => c = d
  /\ NoneForgotten

AssistantInv == TasksInv /\ PanelInv

\* A call still stands for the same when it is late by now or the panel still waits for it.
LEMMA OldCallOK ==
  ASSUME AssistantInv, Onward, NEW c \in calls,
         epoch' \in Nat, epoch <= epoch', pressed \subseteq pressed',
         ~Current(c)' \/ UNCHANGED <<epoch, busy, phase, pending, question>>
  PROVE  CallOK(c)'
<1>1. CallOK(c) /\ epoch \in Nat /\ pressed \subseteq Request /\ c \in Call
  BY DEF AssistantInv, PanelInv, PanelShapes
<1>2. c.op # "cancel" => c.epoch \in Nat /\ c.epoch <= epoch
  BY <1>1 DEF Call, CallOK, RunOps
<1>3. c.op # "cancel" => c.epoch <= epoch'
  BY <1>1, <1>2
<1>4. /\ c.op = "cancel" => c.request \in Request'
      /\ c.op = "prepared" => c.request \in (Request \cup {None})'
  BY <1>1 DEF CallOK, Onward, Request
<1>5. c.op \in RunOps => c.request \in pressed' /\ prepared'[c.request].question = c.question
                              /\ c.request \in Request
  BY <1>1 DEF CallOK, Onward
<1>6. c.op = "answered" => c.request \notin tasks'
  BY <1>1, <1>5 DEF CallOK, Onward, RunOps
<1>7. CASE ~Current(c)'
  BY <1>3, <1>4, <1>5, <1>6, <1>7 DEF CallOK, Current
<1>8. CASE UNCHANGED <<epoch, busy, phase, pending, question>>
  <2>1. (Current(c) /\ c.op = "prepared" /\ c.request # None) => prepared'[c.request].question = question'
    BY <1>1, <1>8 DEF CallOK, Onward
  <2>2. Current(c)' <=> Current(c)
    BY <1>8 DEF Current
  <2> QED BY <1>1, <1>3, <1>4, <1>5, <1>6, <1>8, <2>1, <2>2 DEF CallOK
<1> QED BY <1>7, <1>8

\* The calls that cancel requests of the desktop.
LEMMA CancelCallOK ==
  ASSUME NEW rs \in SUBSET Request, \E n \in Nat : Numbered(n), NEW c \in CancelCalls(rs)
  PROVE  c \in Call /\ c.op = "cancel" /\ c.request \in rs /\ CallOK(c) /\ ~Current(c)
<1>1. PICK r \in rs : c = [op |-> "cancel", request |-> r]
  BY DEF CancelCalls
<1>2. r \in Nat /\ r \in Request
  BY DEF Numbered
<1>3. c \in Call
  BY <1>1, <1>2 DEF Call
<1>4. c.op = "cancel" /\ c.request = r
  BY <1>1
<1> QED BY <1>2, <1>3, <1>4 DEF CallOK, Current, RunOps

\* What the panel waited for no longer counts: every call under way is late.
LEMMA EpochMovesOn ==
  ASSUME AssistantInv, UNCHANGED <<taskVars, pressed>>, epoch' = epoch + 1,
         busy' = FALSE, pending' = None, preview' = None, phase' \in Phase,
         question' \in Question \cup {Blank}, active' \in BOOLEAN, timer' \in BOOLEAN,
         completed' = completed \/ completed' = None,
         NEW rs \in SUBSET Request, calls' \subseteq calls \cup CancelCalls(rs),
         NoneForgotten'
  PROVE  AssistantInv'
<1>1. TasksInv' /\ Onward /\ Request' = Request /\ UNCHANGED <<prepared, tasks, stage>>
  BY DEF taskVars, AssistantInv, TasksInv, Numbered, Fresh, Onward, Request
<1>2. epoch \in Nat /\ epoch' \in Nat /\ epoch <= epoch' /\ epoch < epoch' /\ pressed' = pressed
  BY DEF AssistantInv, PanelInv, PanelShapes
<1>3. \E n \in Nat : Numbered(n)
  BY DEF AssistantInv, TasksInv
<1>4. ASSUME NEW c \in calls PROVE ~Current(c)' /\ CallOK(c)' /\ c \in Call
  <2>1. c \in Call /\ CallOK(c)
    BY DEF AssistantInv, PanelInv, PanelShapes
  <2>2. ~Current(c)'
    <3>1. c.op # "cancel" => c.epoch \in Nat /\ c.epoch <= epoch
      BY <2>1 DEF Call, CallOK, RunOps
    <3> QED BY <3>1, <1>2 DEF Current
  <2> QED BY <1>1, <1>2, <2>1, <2>2, OldCallOK
<1>5. ASSUME NEW c \in CancelCalls(rs) PROVE ~Current(c)' /\ CallOK(c)' /\ c \in Call
  <2>1. c \in Call /\ c.op = "cancel" /\ c.request \in rs
    BY <1>3, CancelCallOK
  <2> QED BY <2>1, <1>1 DEF CallOK, Current, RunOps
<1>6. \A c \in calls' : ~Current(c)' /\ CallOK(c)' /\ c \in Call
  BY <1>4, <1>5
<1>7. PanelShapes'
  BY <1>1, <1>2, <1>6 DEF AssistantInv, PanelInv, PanelShapes, Request
<1>8. completed' # None => completed'.request \in Request' \ tasks'
  BY <1>1 DEF AssistantInv, PanelInv
<1> QED BY <1>1, <1>6, <1>7, <1>8 DEF AssistantInv, PanelInv

\* A request that no longer is the panel's is cancelled, and one that ended need not be.
LEMMA StillRemembered ==
  ASSUME AssistantInv, UNCHANGED taskVars,
         NEW dropped, calls \ dropped \subseteq calls',
         \A c \in dropped : c.op \notin {"cancel", "prepared", "run"},
         NEW rs, CancelCalls(rs) \subseteq calls',
         pending = None \/ pending \in rs \/ pending = CompletedId
  PROVE  NoneForgotten'
<1> SUFFICES ASSUME NEW r \in tasks
             PROVE  r \in DOMAIN stage \/
                    \E c \in calls' : c.op \in {"cancel", "prepared", "run"} /\ c.request = r
  BY DEF NoneForgotten, taskVars
<1>1. CASE r = pending
  <2>1. r # None /\ r \in Nat
    BY NoneIsNoRequest DEF AssistantInv, TasksInv, Numbered
  <2>2. pending # CompletedId
    BY <1>1, <2>1 DEF AssistantInv, PanelInv, CompletedId
  <2>3. [op |-> "cancel", request |-> r] \in calls'
    BY <1>1, <2>1, <2>2 DEF CancelCalls
  <2> QED BY <2>3
<1>2. CASE r \in DOMAIN stage
  BY <1>2
<1>3. ASSUME NEW c \in calls, c.op \in {"cancel", "prepared", "run"}, c.request = r
      PROVE  c \in calls'
  BY <1>3
<1> QED BY <1>1, <1>2, <1>3 DEF AssistantInv, PanelInv, NoneForgotten

LEMMA InvalidateKeeps ==
  ASSUME AssistantInv, NEW next \in Phase, NEW dropped, InvalidateWith(next, dropped),
         \A c \in dropped : c.op \notin {"cancel", "prepared", "run"},
         UNCHANGED <<taskVars, pressed, completed>>,
         question' \in Question \cup {Blank}, active' \in BOOLEAN, timer' \in BOOLEAN
  PROVE  AssistantInv'
<1> DEFINE rs == Ids(pending) \ Ids(CompletedId)
<1>1. rs \in SUBSET Request
  BY DEF AssistantInv, PanelInv, PanelShapes, Ids
<1>2. pending = None \/ pending \in rs \/ pending = CompletedId
  BY DEF Ids
<1>3. /\ epoch' = epoch + 1 /\ busy' = FALSE
      /\ pending' = None /\ preview' = None /\ phase' = next
      /\ calls' = (calls \ dropped) \cup CancelCalls(rs)
  BY DEF InvalidateWith
<1> HIDE DEF rs
<1>4. NoneForgotten'
  BY <1>2, <1>3, StillRemembered
<1>5. calls' \subseteq calls \cup CancelCalls(rs) /\ phase' \in Phase
  BY <1>3
<1> QED BY <1>1, <1>3, <1>4, <1>5, EpochMovesOn

LEMMA RemountKeeps ==
  ASSUME AssistantInv, Remount, UNCHANGED <<taskVars, pressed, active>>
  PROVE  AssistantInv'
<1> DEFINE rs == Ids(pending) \cup Ids(CompletedId)
<1>1. rs \in SUBSET Request
  BY DEF AssistantInv, PanelInv, PanelShapes, Ids, CompletedId
<1>2. pending = None \/ pending \in rs \/ pending = CompletedId
  BY DEF Ids
<1>3. /\ epoch' = epoch + 1 /\ busy' = FALSE
      /\ pending' = None /\ preview' = None /\ completed' = None /\ phase' = "idle"
      /\ question' \in Question /\ timer' = TRUE
      /\ calls' = calls \cup CancelCalls(rs)
  BY DEF Remount
<1> HIDE DEF rs
<1>4. NoneForgotten'
  <2>0. PICK none : none = {}
    OBVIOUS
  <2>1. /\ calls \ none \subseteq calls' /\ CancelCalls(rs) \subseteq calls'
        /\ \A c \in none : c.op \notin {"cancel", "prepared", "run"}
    BY <1>3, <2>0
  <2> QED BY <2>1, <1>2, StillRemembered
<1>5. calls' \subseteq calls \cup CancelCalls(rs) /\ phase' \in Phase
  BY <1>3 DEF Phase
<1>6. active' \in BOOLEAN /\ timer' \in BOOLEAN /\ question' \in Question \cup {Blank}
  BY <1>3 DEF AssistantInv, PanelInv, PanelShapes
<1> QED BY <1>1, <1>3, <1>4, <1>5, <1>6, EpochMovesOn

LEMMA EditKeeps ==
  ASSUME AssistantInv, SelectTable \/ LoadSettings \/ EditQuestion \/ Cancel \/ Refresh \/ Expire
  PROVE  AssistantInv'
<1>0. question \in Question \cup {Blank} /\ active \in BOOLEAN /\ timer \in BOOLEAN
  BY DEF AssistantInv, PanelInv, PanelShapes
<1>1. CASE SelectTable
  BY <1>1, RemountKeeps DEF SelectTable
<1>2. CASE LoadSettings
  BY <1>2, RemountKeeps DEF LoadSettings
<1>3. CASE EditQuestion
  <2>1. InvalidateWith("idle", {}) /\ UNCHANGED <<taskVars, pressed, completed>> /\ timer' \in BOOLEAN
        /\ question' \in Question \cup {Blank} /\ active' \in BOOLEAN /\ "idle" \in Phase
    BY <1>0, <1>3 DEF EditQuestion, Invalidate, Phase
  <2> QED BY <2>1, InvalidateKeeps
<1>4. CASE Cancel
  <2>1. InvalidateWith("cancelled", {}) /\ UNCHANGED <<taskVars, pressed, completed>> /\ timer' \in BOOLEAN
        /\ question' \in Question \cup {Blank} /\ active' \in BOOLEAN /\ "cancelled" \in Phase
    BY <1>0, <1>4 DEF Cancel, Invalidate, Phase
  <2> QED BY <2>1, InvalidateKeeps
<1>5. CASE Refresh
  <2>1. InvalidateWith("idle", {}) /\ UNCHANGED <<taskVars, pressed, completed>> /\ timer' \in BOOLEAN
        /\ question' \in Question \cup {Blank} /\ active' \in BOOLEAN /\ "idle" \in Phase
    BY <1>0, <1>5 DEF Refresh, Invalidate, Phase
  <2> QED BY <2>1, InvalidateKeeps
<1>6. CASE Expire
  <2>1. InvalidateWith("expired", {}) /\ UNCHANGED <<taskVars, pressed, completed>> /\ timer' \in BOOLEAN
        /\ question' \in Question \cup {Blank} /\ active' \in BOOLEAN /\ "expired" \in Phase
    BY <1>0, <1>6 DEF Expire, Invalidate, Phase
  <2> QED BY <2>1, InvalidateKeeps
<1> QED BY <1>1, <1>2, <1>3, <1>4, <1>5, <1>6

\* The desktop works on and the panel does not move: its calls stand for what they stood for.
LEMMA PanelWaits ==
  ASSUME AssistantInv, TasksInv', Onward, UNCHANGED <<shown, panelVars, active, pressed, acts>>
  PROVE  /\ PanelShapes' \/ ~(calls' \subseteq Call)
         /\ \A c \in calls : CallOK(c)' /\ c \in Call
         /\ \A c \in calls : Current(c)' <=> Current(c)
         /\ pending' # None => prepared'[pending'].question = question'
         /\ completed' # None => completed'.request \in Request' \ tasks'
<1>1. UNCHANGED <<phase, preview, completed, pending, busy, epoch, question, timer, active, pressed>>
  BY DEF panelVars
<1>2. Request \subseteq Request'
  BY DEF Onward, Request
<1>3. ASSUME NEW c \in calls PROVE CallOK(c)' /\ c \in Call
  <2>1. epoch' \in Nat /\ epoch <= epoch' /\ pressed \subseteq pressed' /\ c \in Call
    BY <1>1 DEF AssistantInv, PanelInv, PanelShapes
  <2> QED BY <1>1, <2>1, OldCallOK
<1>4. PanelShapes' \/ ~(calls' \subseteq Call)
  BY <1>1, <1>2 DEF AssistantInv, PanelInv, PanelShapes
<1>5. pending' # None => prepared'[pending'].question = question'
  BY <1>1 DEF AssistantInv, PanelInv, PanelShapes, Onward
<1>6. completed' # None => completed'.request \in Request' \ tasks'
  BY <1>1, <1>2 DEF AssistantInv, PanelInv, Onward
<1> QED BY <1>1, <1>3, <1>4, <1>5, <1>6 DEF Current

\* A call of the panel is answered by another one of the same epoch, or by none.
LEMMA CallReplaced ==
  ASSUME AssistantInv, TasksInv', Onward, UNCHANGED <<shown, panelVars, active, pressed, acts>>,
         NEW c \in calls, NEW d, calls' = (calls \ {c}) \cup {d},
         d \in Call, CallOK(d)', Current(d)' => Current(c), NoneForgotten'
  PROVE  AssistantInv'
<1>1. /\ PanelShapes' \/ ~(calls' \subseteq Call)
      /\ \A x \in calls : CallOK(x)' /\ x \in Call
      /\ \A x \in calls : Current(x)' <=> Current(x)
      /\ pending' # None => prepared'[pending'].question = question'
      /\ completed' # None => completed'.request \in Request' \ tasks'
  BY PanelWaits
<1>2. calls' \subseteq Call /\ \A x \in calls' : CallOK(x)'
  BY <1>1
<1>3. ASSUME NEW x \in calls', NEW y \in calls', Current(x)', Current(y)' PROVE x = y
  <2>1. \A u, v \in calls : Current(u) /\ Current(v) => u = v
    BY DEF AssistantInv, PanelInv
  <2>2. CASE x = d /\ y = d
    BY <2>2
  <2>3. CASE x # d /\ y = d
    <3>1. x \in calls /\ x # c /\ Current(x) /\ Current(c)
      BY <2>3, <1>1, <1>3
    <3> QED BY <3>1, <2>1
  <2>4. CASE x = d /\ y # d
    <3>1. y \in calls /\ y # c /\ Current(y) /\ Current(c)
      BY <2>4, <1>1, <1>3
    <3> QED BY <3>1, <2>1
  <2>5. CASE x # d /\ y # d
    <3>1. x \in calls /\ y \in calls /\ Current(x) /\ Current(y)
      BY <2>5, <1>1, <1>3
    <3> QED BY <3>1, <2>1
  <2> QED BY <2>2, <2>3, <2>4, <2>5
<1> QED BY <1>1, <1>2, <1>3 DEF AssistantInv, PanelInv

LEMMA ServeKeeps ==
  ASSUME AssistantInv, ServeCalls
  PROVE  AssistantInv'
<1>0. /\ UNCHANGED <<shown, panelVars, active, pressed, acts>>
      /\ TasksInv /\ PanelInv /\ PanelShapes /\ NoneForgotten
  BY DEF ServeCalls, AssistantInv, PanelInv
<1>p. UNCHANGED <<phase, preview, completed, pending, busy, epoch, question, timer>>
  BY <1>0 DEF panelVars
<1>c. ASSUME NEW c \in calls PROVE c \in Call /\ CallOK(c)
  BY <1>0 DEF PanelInv, PanelShapes
<1>n. Request \subseteq Nat
  BY <1>0 DEF TasksInv, Numbered
<1>1. ASSUME NEW c \in calls, c.op = "prepare", Register(c.question),
             calls' = (calls \ {c}) \cup {[op |-> "prepared", epoch |-> c.epoch,
                                           request |-> IF HasRoom THEN NextRequest ELSE None]}
      PROVE  AssistantInv'
  <2> DEFINE given == IF HasRoom THEN NextRequest ELSE None
  <2>1. c.question \in Question /\ c.epoch \in Nat /\ c.epoch <= epoch
        /\ (Current(c) => busy /\ phase = "preparing" /\ pending = None /\ c.question = question)
    BY <1>1, <1>c DEF Call, CallOK, RunOps
  <2>2. /\ TasksInv' /\ Onward
        /\ HasRoom => /\ NextRequest \in Nat /\ NextRequest \notin Request
                      /\ DOMAIN prepared' = Request \cup {NextRequest}
                      /\ prepared'[NextRequest].question = c.question
                      /\ tasks' \subseteq tasks \cup {NextRequest}
        /\ ~HasRoom => DOMAIN prepared' = Request /\ tasks' \subseteq tasks
    BY <1>0, <1>1, <2>1, RegisterKeeps
  <2>3. /\ given \in Nat \cup {None} /\ (given # None => given \in Request' /\ prepared'[given].question = c.question)
        /\ \A r \in tasks' : r \in tasks \/ r = given
    BY <2>2 DEF Request
  <2>4. calls' = (calls \ {c}) \cup {[op |-> "prepared", epoch |-> c.epoch, request |-> given]}
    BY <1>1
  <2> HIDE DEF given
  <2>5. PICK d : d = [op |-> "prepared", epoch |-> c.epoch, request |-> given]
    OBVIOUS
  <2>6. d \in Call /\ d.op = "prepared" /\ d.epoch = c.epoch /\ d.request = given
    BY <2>1, <2>3, <2>5 DEF Call
  <2>7. Current(d)' => Current(c)
    BY <2>6, <1>p, <1>1 DEF Current
  <2>8. CallOK(d)'
    BY <2>1, <2>3, <2>6, <2>7, <1>p DEF CallOK, RunOps
  <2>9. NoneForgotten'
    <3> SUFFICES ASSUME NEW r \in tasks'
                 PROVE  \/ r = pending' \/ r \in DOMAIN stage'
                        \/ \E x \in calls' : x.op \in {"cancel", "prepared", "run"} /\ x.request = r
      BY DEF NoneForgotten
    <3>1. stage' = stage
      BY <1>1 DEF Register
    <3>2. CASE r = given
      BY <3>2, <2>4, <2>5, <2>6
    <3>3. CASE r \in tasks
      <4>1. ASSUME NEW x \in calls, x.op \in {"cancel", "prepared", "run"}, x.request = r
            PROVE  x \in calls'
        BY <4>1, <2>4, <1>1
      <4> QED BY <4>1, <3>1, <3>3, <1>0, <1>p DEF NoneForgotten
    <3> QED BY <3>2, <3>3, <2>3
  <2>10. calls' = (calls \ {c}) \cup {d}
    BY <2>4, <2>5
  <2> QED BY <2>2, <2>6, <2>7, <2>8, <2>9, <2>10, <1>0, CallReplaced
<1>2. ASSUME NEW c \in calls, c.op = "cancel", CancelTask(c.request), calls' = calls \ {c}
      PROVE  AssistantInv'
  <2>1. c.request \in Request
    BY <1>2, <1>c DEF CallOK
  <2>2. TasksInv' /\ Onward /\ tasks' = tasks \ {c.request} /\ UNCHANGED <<prepared, stage>>
    BY <1>0, <1>2, <2>1, CancelTaskKeeps
  <2>3. NoneForgotten'
    <3> SUFFICES ASSUME NEW r \in tasks'
                 PROVE  \/ r = pending' \/ r \in DOMAIN stage'
                        \/ \E x \in calls' : x.op \in {"cancel", "prepared", "run"} /\ x.request = r
      BY DEF NoneForgotten
    <3>1. r \in tasks /\ r # c.request
      BY <2>2
    <3>2. ASSUME NEW x \in calls, x.op \in {"cancel", "prepared", "run"}, x.request = r
          PROVE  x \in calls'
      BY <3>1, <3>2, <1>2
    <3> QED BY <3>1, <3>2, <2>2, <1>0, <1>p DEF NoneForgotten
  <2>4. /\ PanelShapes' \/ ~(calls' \subseteq Call)
        /\ \A x \in calls : CallOK(x)' /\ x \in Call
        /\ \A x \in calls : Current(x)' <=> Current(x)
        /\ pending' # None => prepared'[pending'].question = question'
        /\ completed' # None => completed'.request \in Request' \ tasks'
    BY <2>2, <1>0, PanelWaits
  <2>5. \A x, y \in calls' : Current(x)' /\ Current(y)' => x = y
    BY <2>4, <1>0, <1>2 DEF PanelInv
  <2> QED BY <2>2, <2>3, <2>4, <2>5, <1>2 DEF AssistantInv, PanelInv
<1>3. ASSUME NEW c \in calls, c.op \in {"run", "running"}, NEW kind \in RunOps,
             calls' = (calls \ {c}) \cup {[c EXCEPT !.op = kind]},
             TasksInv', Onward,
             kind = "answered" => c.request \notin tasks',
             \A r \in tasks' : r \in tasks /\ (r \in DOMAIN stage => r \in DOMAIN stage')
                               /\ (c.op = "run" /\ r = c.request => r \in DOMAIN stage')
      PROVE  AssistantInv'
  <2>1. c \in [op : RunOps, epoch : Nat, request : Nat, question : Question \cup {Blank}]
    BY <1>3, <1>c DEF Call
  <2>2. PICK d : d = [c EXCEPT !.op = kind]
    OBVIOUS
  <2>3. /\ d \in Call /\ d.op = kind /\ d.epoch = c.epoch /\ d.request = c.request
        /\ d.question = c.question
    BY <2>1, <2>2, <1>3 DEF Call
  <2>4. Current(d)' => Current(c)
    BY <2>3, <1>p, <1>3 DEF Current
  <2>5. CallOK(c)' /\ CallOK(c)
    <3>1. epoch' \in Nat /\ epoch <= epoch' /\ pressed \subseteq pressed'
      BY <1>0, <1>p DEF PanelShapes
    <3> QED BY <3>1, <1>3, <1>c, <1>p, OldCallOK DEF AssistantInv
  <2>6. CallOK(d)'
    <3>1. (d.op # "cancel" => d.epoch <= epoch') /\ d.op \notin {"cancel", "prepare", "prepared"}
          /\ c.op \notin {"cancel", "prepare", "prepared"} /\ c.op \in RunOps
      BY <2>3, <2>5, <1>3 DEF CallOK, RunOps
    <3>2. d.request \in pressed' /\ prepared'[d.request].question = d.question
      BY <2>3, <2>5, <3>1 DEF CallOK
    <3>3. Current(d)' => Current(c)'
      BY <2>3, <3>1 DEF Current
    <3>4. Current(d)' => busy' /\ phase' = "running" /\ pending' = d.request
      BY <2>3, <2>5, <3>1, <3>3 DEF CallOK
    <3>5. d.op = "answered" => d.request \notin tasks'
      BY <2>3, <1>3
    <3> QED BY <3>1, <3>2, <3>4, <3>5 DEF CallOK
  <2>7. NoneForgotten'
    <3> SUFFICES ASSUME NEW r \in tasks'
                 PROVE  \/ r = pending' \/ r \in DOMAIN stage'
                        \/ \E x \in calls' : x.op \in {"cancel", "prepared", "run"} /\ x.request = r
      BY DEF NoneForgotten
    <3>1. ASSUME NEW x \in calls, x.op \in {"cancel", "prepared", "run"}, x.request = r
          PROVE  r \in DOMAIN stage' \/ x \in calls'
      BY <3>1, <1>3
    <3> QED BY <3>1, <1>3, <1>0, <1>p DEF NoneForgotten
  <2>8. calls' = (calls \ {c}) \cup {d}
    BY <2>2, <1>3
  <2> QED BY <2>3, <2>4, <2>6, <2>7, <2>8, <1>0, <1>3, CallReplaced
<1>4. ASSUME NEW c \in calls, c.op = "run",
             IF MayBegin(c.request)
             THEN Begin(c.request) /\ calls' = (calls \ {c}) \cup {[c EXCEPT !.op = "running"]}
             ELSE /\ calls' = (calls \ {c}) \cup {[c EXCEPT !.op = "failed"]}
                  /\ UNCHANGED taskVars
      PROVE  AssistantInv'
  <2>1. CASE MayBegin(c.request)
    <3>1. Begin(c.request) /\ calls' = (calls \ {c}) \cup {[c EXCEPT !.op = "running"]}
      BY <1>4, <2>1
    <3>2. TasksInv' /\ Onward /\ UNCHANGED <<prepared, tasks>>
          /\ DOMAIN stage' = DOMAIN stage \cup {c.request}
      BY <3>1, <2>1, <1>0, BeginKeeps
    <3>3. "running" \in RunOps /\ c.op \in {"run", "running"}
      BY <1>4 DEF RunOps
    <3>4. \A r \in tasks' : r \in tasks /\ (r \in DOMAIN stage => r \in DOMAIN stage')
                            /\ (c.op = "run" /\ r = c.request => r \in DOMAIN stage')
      BY <3>2
    <3> QED BY <3>1, <3>2, <3>3, <3>4, <1>3
  <2>2. CASE ~MayBegin(c.request)
    <3>1. UNCHANGED taskVars /\ calls' = (calls \ {c}) \cup {[c EXCEPT !.op = "failed"]}
      BY <1>4, <2>2
    <3>2. TasksInv' /\ Onward /\ UNCHANGED <<tasks, stage>>
      BY <3>1, <1>0 DEF taskVars, TasksInv, Numbered, Fresh, Onward, Request
    <3>3. "failed" \in RunOps /\ c.op \in {"run", "running"} /\ "failed" # "answered"
      BY <1>4 DEF RunOps
    <3>4. \A r \in tasks' : r \in tasks /\ (r \in DOMAIN stage => r \in DOMAIN stage')
                            /\ (c.op = "run" /\ r = c.request => r \in DOMAIN stage')
      BY <3>2, <2>2, <1>0 DEF MayBegin, TasksInv
    <3> QED BY <3>1, <3>2, <3>3, <3>4, <1>3
  <2> QED BY <2>1, <2>2
<1>5. ASSUME NEW c \in calls, c.op = "running", End(c.request),
             calls' = (calls \ {c}) \cup
               {[c EXCEPT !.op = IF TableAnswers(c.request) THEN "answered" ELSE "failed"]}
      PROVE  AssistantInv'
  <2>1. PICK kind : kind = IF TableAnswers(c.request) THEN "answered" ELSE "failed"
    OBVIOUS
  <2>2. kind \in RunOps /\ c.op \in {"run", "running"} /\ c.op # "run"
    BY <1>5, <2>1 DEF RunOps
  <2>3. calls' = (calls \ {c}) \cup {[c EXCEPT !.op = kind]}
    BY <1>5, <2>1
  <2>4. TasksInv' /\ Onward /\ tasks' = tasks \ {c.request} /\ DOMAIN stage' = DOMAIN stage \ {c.request}
    BY <1>0, <1>5, EndKeeps
  <2>5. /\ \A r \in tasks' : r \in tasks /\ (r \in DOMAIN stage => r \in DOMAIN stage')
                             /\ (c.op = "run" /\ r = c.request => r \in DOMAIN stage')
        /\ kind = "answered" => c.request \notin tasks'
    BY <2>2, <2>4
  <2> QED BY <2>2, <2>3, <2>4, <2>5, <1>3
<1>6. \E c \in calls :
        \/ /\ c.op = "prepare" /\ Register(c.question)
           /\ calls' = (calls \ {c}) \cup {[op |-> "prepared", epoch |-> c.epoch,
                                            request |-> IF HasRoom THEN NextRequest ELSE None]}
        \/ c.op = "cancel" /\ CancelTask(c.request) /\ calls' = calls \ {c}
        \/ /\ c.op = "run"
           /\ IF MayBegin(c.request)
              THEN Begin(c.request) /\ calls' = (calls \ {c}) \cup {[c EXCEPT !.op = "running"]}
              ELSE /\ calls' = (calls \ {c}) \cup {[c EXCEPT !.op = "failed"]}
                   /\ UNCHANGED taskVars
        \/ /\ c.op = "running" /\ End(c.request)
           /\ calls' = (calls \ {c}) \cup
                {[c EXCEPT !.op = IF TableAnswers(c.request) THEN "answered" ELSE "failed"]}
  BY Zenon DEF ServeCalls, Serve
<1> QED BY <1>1, <1>2, <1>4, <1>5, <1>6

LEMMA WorkGoesOn ==
  ASSUME AssistantInv, Work \/ Elsewhere
  PROVE  AssistantInv'
<1>1. /\ UNCHANGED <<shown, panelVars, active, pressed, acts>> /\ calls' = calls
      /\ TasksInv /\ PanelInv
  BY DEF Work, Elsewhere, AssistantInv
<1>2. TasksInv' /\ Onward /\ tasks' = tasks /\ DOMAIN stage' = DOMAIN stage
  <2>1. CASE Work
    <3>1. PICK r \in Request : Check(r) \/ Send(r) \/ Recheck(r)
      BY <2>1 DEF Work, Running
    <3> QED BY <3>1, <1>1, WorkKeeps
  <2>2. CASE Elsewhere
    BY <2>2, <1>1, ElsewhereKeeps DEF Elsewhere
  <2> QED BY <2>1, <2>2
<1>3. /\ PanelShapes' \/ ~(calls' \subseteq Call)
      /\ \A x \in calls : CallOK(x)' /\ x \in Call
      /\ \A x \in calls : Current(x)' <=> Current(x)
      /\ pending' # None => prepared'[pending'].question = question'
      /\ completed' # None => completed'.request \in Request' \ tasks'
  BY <1>1, <1>2, PanelWaits
<1>4. NoneForgotten'
  BY <1>1, <1>2 DEF PanelInv, NoneForgotten, panelVars
<1> QED BY <1>1, <1>2, <1>3, <1>4 DEF AssistantInv, PanelInv

\* A step of the panel in its epoch: the old calls are late or wait as before.
LEMMA PanelMoves ==
  ASSUME AssistantInv, UNCHANGED <<taskVars, epoch>>, pressed \subseteq pressed', pressed' \subseteq Request,
         phase' \in Phase, busy' \in BOOLEAN, active' \in BOOLEAN, timer' \in BOOLEAN,
         question' \in Question \cup {Blank},
         preview' = pending', pending' \in Request \cup {None},
         pending' # None => prepared[pending'].question = question',
         completed' # None => /\ completed' \in [request : Nat, question : Question \cup {Blank}]
                              /\ completed'.request \in Request \ tasks,
         NEW gone \in SUBSET calls, NEW new, calls' = (calls \ gone) \cup new,
         \A c \in new : c \in Call /\ CallOK(c)',
         (\A c \in calls \ gone : ~Current(c)) \/ UNCHANGED <<busy, phase, pending, question>>,
         \A c \in new, d \in calls' : Current(c)' /\ Current(d)' => c = d,
         NoneForgotten'
  PROVE  AssistantInv'
<1>1. TasksInv' /\ Onward /\ Request' = Request /\ UNCHANGED <<prepared, tasks, stage>>
  BY DEF taskVars, AssistantInv, TasksInv, Numbered, Fresh, Onward, Request
<1>2. epoch' \in Nat /\ epoch <= epoch' /\ epoch' = epoch
  BY DEF AssistantInv, PanelInv, PanelShapes
<1>3. ASSUME NEW c \in calls \ gone PROVE CallOK(c)' /\ c \in Call /\ (Current(c)' <=> Current(c))
  <2>1. Current(c)' <=> Current(c)
    BY <1>2 DEF Current
  <2>2. ~Current(c)' \/ UNCHANGED <<epoch, busy, phase, pending, question>>
    BY <2>1, <1>2
  <2>3. c \in calls /\ c \in Call
    BY DEF AssistantInv, PanelInv, PanelShapes
  <2> QED BY <2>1, <2>2, <2>3, <1>1, <1>2, OldCallOK
<1>4. calls' \subseteq Call /\ \A c \in calls' : CallOK(c)'
  BY <1>3
<1>5. PanelShapes'
  BY <1>1, <1>2, <1>4 DEF AssistantInv, PanelInv, PanelShapes
<1>6. \A c, d \in calls' : Current(c)' /\ Current(d)' => c = d
  BY <1>3 DEF AssistantInv, PanelInv
<1> QED BY <1>1, <1>4, <1>5, <1>6 DEF AssistantInv, PanelInv

\* What was kept in mind still is when the calls about kept requests stay.
LEMMA StillKept ==
  ASSUME AssistantInv, UNCHANGED taskVars,
         \A r \in tasks : r = pending => r = pending' \/ r \in DOMAIN stage
                                         \/ \E c \in calls' : c.op \in {"cancel", "prepared", "run"} /\ c.request = r,
         \A c \in calls : (c.op \in {"cancel", "prepared", "run"} /\ c.request \in tasks) =>
            c \in calls' \/ c.request = pending'
            \/ \E d \in calls' : d.op \in {"cancel", "prepared", "run"} /\ d.request = c.request
  PROVE  NoneForgotten'
<1>1. NoneForgotten /\ tasks' = tasks /\ stage' = stage
  BY DEF AssistantInv, PanelInv, taskVars
<1> QED BY <1>1 DEF NoneForgotten

\* What every step of the panel may use.
LEMMA PanelFacts ==
  ASSUME AssistantInv
  PROVE  /\ PanelShapes /\ NoneForgotten /\ pressed \subseteq Request /\ epoch \in Nat
         /\ Request \subseteq Nat /\ None \notin Request /\ prepared \in [Request -> Kept]
         /\ pending # None => prepared[pending].question = question
         /\ completed # None => /\ completed \in [request : Nat, question : Question \cup {Blank}]
                                /\ completed.request \in Request \ tasks
         /\ \A c \in calls : c \in Call /\ CallOK(c)
         /\ \A c, d \in calls : Current(c) /\ Current(d) => c = d
         /\ ~busy => \A c \in calls : ~Current(c)
<1>1. Request \subseteq Nat
  BY DEF AssistantInv, TasksInv, Numbered
<1>2. \A c \in calls : c \in Call /\ CallOK(c)
  BY DEF AssistantInv, PanelInv, PanelShapes
<1>3. ~busy => \A c \in calls : ~Current(c)
  BY <1>2 DEF CallOK
<1> QED BY <1>1, <1>2, <1>3, NoneIsNoRequest DEF AssistantInv, TasksInv, PanelInv, PanelShapes

LEMMA ToggleKeeps ==
  ASSUME AssistantInv, ToggleActive
  PROVE  AssistantInv'
<1>1. /\ UNCHANGED <<taskVars, shown, phase, preview, completed, pending, busy, epoch, question, calls,
                     pressed>>
      /\ active' = ~active /\ timer' = TRUE
  BY DEF ToggleActive
<1>2. TasksInv'
  BY <1>1 DEF taskVars, AssistantInv, TasksInv, Numbered, Fresh, Request
<1>3. PanelInv'
  BY <1>1 DEF taskVars, AssistantInv, PanelInv, PanelShapes, CallOK, Current, NoneForgotten, Request
<1> QED BY <1>2, <1>3 DEF AssistantInv

LEMMA PrepareKeeps ==
  ASSUME AssistantInv, Prepare
  PROVE  AssistantInv'
<1>1. /\ UNCHANGED <<taskVars, shown, preview, completed, pending, epoch, question, active, pressed,
                     acts>>
      /\ timer' = FALSE
  BY DEF Prepare
<1>2. CASE ~MayPrepare
  <2>1. UNCHANGED <<busy, phase, calls>>
    BY <1>2 DEF Prepare
  <2>2. TasksInv'
    BY <1>1 DEF taskVars, AssistantInv, TasksInv, Numbered, Fresh, Request
  <2>3. PanelInv'
    BY <1>1, <2>1 DEF taskVars, AssistantInv, PanelInv, PanelShapes, CallOK, Current, NoneForgotten, Request
  <2> QED BY <2>2, <2>3 DEF AssistantInv
<1>3. CASE MayPrepare
  <2>1. PICK new : new = [op |-> "prepare", epoch |-> epoch, question |-> question]
    OBVIOUS
  <2>2. /\ ~busy /\ pending = None /\ question # Blank
        /\ busy' = TRUE /\ phase' = "preparing" /\ calls' = calls \cup {new}
    BY <1>3, <2>1 DEF Prepare, MayPrepare
  <2>3. PanelShapes /\ epoch \in Nat /\ (\A c \in calls : ~Current(c)) /\ pressed \subseteq Request
        /\ (completed # None => /\ completed \in [request : Nat, question : Question \cup {Blank}]
                                /\ completed.request \in Request \ tasks)
    BY <2>2, PanelFacts
  <2>4. question \in Question
    BY <2>2, <2>3 DEF PanelShapes
  <2>5. new \in Call /\ new.op = "prepare" /\ new.epoch = epoch /\ new.question = question
    BY <2>1, <2>3, <2>4 DEF Call
  <2>6. CallOK(new)'
    BY <2>2, <2>3, <2>5, <1>1 DEF CallOK, RunOps
  <2>7. PICK none, one : none = {} /\ one = {new}
    OBVIOUS
  <2>8. calls' = (calls \ none) \cup one /\ none \in SUBSET calls
    BY <2>2, <2>7
  <2>9. \A c \in one : c \in Call /\ CallOK(c)'
    BY <2>5, <2>6, <2>7
  <2>10. \A c \in one, d \in calls' : Current(c)' /\ Current(d)' => c = d
    BY <2>2, <2>3, <2>7, <1>1 DEF Current
  <2>11. NoneForgotten'
    BY <1>1, <2>2, PanelFacts DEF NoneForgotten, taskVars
  <2>12. /\ phase' \in Phase /\ busy' \in BOOLEAN /\ active' \in BOOLEAN /\ timer' \in BOOLEAN
         /\ question' \in Question \cup {Blank} /\ preview' = pending' /\ pending' \in Request \cup {None}
         /\ (pending' # None => prepared[pending'].question = question')
         /\ (completed' # None => /\ completed' \in [request : Nat, question : Question \cup {Blank}]
                                  /\ completed'.request \in Request \ tasks)
         /\ pressed \subseteq pressed' /\ pressed' \subseteq Request /\ UNCHANGED <<taskVars, epoch>>
         /\ \A c \in calls \ none : ~Current(c)
    BY <1>1, <2>2, <2>3 DEF PanelShapes, Phase
  <2> QED BY <2>8, <2>9, <2>10, <2>11, <2>12, PanelMoves
<1> QED BY <1>2, <1>3

LEMMA RunKeeps ==
  ASSUME AssistantInv, Run
  PROVE  AssistantInv'
<1>0. /\ PanelShapes /\ NoneForgotten /\ pressed \subseteq Request /\ epoch \in Nat
      /\ Request \subseteq Nat /\ None \notin Request
      /\ (pending # None => prepared[pending].question = question)
      /\ (completed # None => completed.request \in Request \ tasks)
      /\ (~busy => \A c \in calls : ~Current(c))
  BY PanelFacts
<1>1. /\ preview # None /\ phase = "ready" /\ ~busy /\ active
      /\ UNCHANGED <<taskVars, shown, question, timer, active, acts>>
      /\ preview = pending /\ pending \in Request
      /\ question \in Question \cup {Blank} /\ timer \in BOOLEAN /\ active \in BOOLEAN
  BY <1>0 DEF Run, PanelShapes
<1>2. CASE preview \in lapsed
  <2>1. InvalidateWith("expired", {}) /\ UNCHANGED <<completed, pressed>>
    BY <1>2 DEF Run, Invalidate
  <2>2. "expired" \in Phase
    BY DEF Phase
  <2> QED BY <1>1, <2>1, <2>2, InvalidateKeeps
<1>3. CASE preview \notin lapsed
  <2>1. PICK run, done : /\ run = [op |-> "run", epoch |-> epoch, request |-> preview, question |-> question]
                         /\ done = Ids(CompletedId)
    OBVIOUS
  <2>2. /\ busy' = TRUE /\ phase' = "running" /\ completed' = None
        /\ pressed' = pressed \cup {preview}
        /\ calls' = (calls \cup {run}) \cup CancelCalls(done)
        /\ UNCHANGED <<epoch, pending, preview>>
    BY <1>3, <2>1 DEF Run
  <2>3. done \in SUBSET Request
    BY <1>0, <2>1 DEF Ids, CompletedId
  <2>4. run \in Call /\ run.op = "run" /\ run.epoch = epoch /\ run.request = pending /\ run.question = question
    BY <2>1, <1>0, <1>1 DEF Call, RunOps
  <2>5. CallOK(run)'
    <3>1. run.request \in pressed' /\ prepared'[run.request].question = run.question
      BY <2>2, <2>4, <1>0, <1>1 DEF taskVars
    <3> QED BY <3>1, <2>2, <2>4, <1>0, <1>1 DEF CallOK, RunOps
  <2>6. ASSUME NEW c \in CancelCalls(done) PROVE c \in Call /\ CallOK(c)' /\ ~Current(c)'
    <3>1. c \in Call /\ c.op = "cancel" /\ c.request \in done
      BY <2>3, CancelCallOK DEF AssistantInv, TasksInv
    <3>2. c.request \in Request'
      BY <3>1, <2>3, <1>1 DEF taskVars, Request
    <3> QED BY <3>1, <3>2 DEF CallOK, Current, RunOps
  <2>7. PICK none, new : none = {} /\ new = {run} \cup CancelCalls(done)
    OBVIOUS
  <2>8. calls' = (calls \ none) \cup new /\ none \in SUBSET calls
    BY <2>2, <2>7
  <2>9. \A c \in new : c \in Call /\ CallOK(c)'
    BY <2>4, <2>5, <2>6, <2>7
  <2>10. \A c \in calls : ~Current(c)'
    BY <1>0, <1>1, <2>2 DEF Current
  <2>11. \A c \in new, d \in calls' : Current(c)' /\ Current(d)' => c = d
    BY <2>2, <2>6, <2>7, <2>10
  <2>12. NoneForgotten'
    BY <1>0, <1>1, <2>2 DEF NoneForgotten, taskVars
  <2>13. /\ phase' \in Phase /\ busy' \in BOOLEAN /\ active' \in BOOLEAN /\ timer' \in BOOLEAN
         /\ question' \in Question \cup {Blank} /\ preview' = pending' /\ pending' \in Request \cup {None}
         /\ (pending' # None => prepared[pending'].question = question')
         /\ completed' = None
         /\ pressed \subseteq pressed' /\ pressed' \subseteq Request /\ UNCHANGED <<taskVars, epoch>>
         /\ \A c \in calls \ none : ~Current(c)
    BY <1>0, <1>1, <2>2 DEF Phase
  <2> QED BY <2>8, <2>9, <2>11, <2>12, <2>13, PanelMoves
<1> QED BY <1>2, <1>3

LEMMA PreparedKeeps ==
  ASSUME AssistantInv, Prepared
  PROVE  AssistantInv'
<1>0. /\ PanelShapes /\ NoneForgotten /\ pressed \subseteq Request /\ epoch \in Nat
      /\ Request \subseteq Nat /\ None \notin Request /\ prepared \in [Request -> Kept]
      /\ (pending # None => prepared[pending].question = question)
      /\ (completed # None => /\ completed \in [request : Nat, question : Question \cup {Blank}]
                              /\ completed.request \in Request \ tasks)
      /\ \A c, d \in calls : Current(c) /\ Current(d) => c = d
  BY PanelFacts
<1>1. PICK c \in calls :
        /\ c.op = "prepared"
        /\ \/ LatePrepared(c)
           \/ /\ c.epoch = epoch
              /\ busy' = FALSE /\ phase' = "error"
              /\ calls' = (calls \ {c}) \cup CancelCalls(Ids(c.request))
              /\ UNCHANGED <<epoch, pending, preview>>
           \/ /\ c.epoch = epoch /\ c.request # None
              /\ IF c.request \in lapsed
                 THEN /\ epoch' = epoch + 1 /\ busy' = FALSE /\ pending' = None
                      /\ preview' = None /\ phase' = "expired"
                      /\ calls' = (calls \ {c}) \cup CancelCalls(Ids(c.request))
                 ELSE /\ busy' = FALSE /\ phase' = "ready"
                      /\ pending' = c.request /\ preview' = c.request
                      /\ calls' = calls \ {c}
                      /\ UNCHANGED epoch
        /\ UNCHANGED <<taskVars, shown, completed, question, timer, active, pressed, acts>>
  BY Zenon DEF Prepared
<1>2. /\ c \in Call /\ CallOK(c) /\ c.request \in Request \cup {None}
      /\ (c.epoch = epoch => /\ pending = None /\ Current(c)
                             /\ (c.request # None => prepared[c.request].question = question)
                             /\ \A d \in calls \ {c} : ~Current(d))
      /\ UNCHANGED <<taskVars, shown, completed, question, timer, active, pressed, acts>>
  <2>1. c \in Call /\ CallOK(c) /\ c.op = "prepared"
    BY <1>1, PanelFacts
  <2>2. c.epoch = epoch => Current(c)
    BY <2>1 DEF Current
  <2> QED BY <2>1, <2>2, <1>0, <1>1 DEF CallOK
<1>3. PICK told, gone : told = Ids(c.request) /\ gone = {c}
  OBVIOUS
<1>4. told \in SUBSET Request /\ gone \in SUBSET calls
  BY <1>2, <1>3 DEF Ids
<1>5. ASSUME NEW d \in CancelCalls(told) PROVE d \in Call /\ CallOK(d)' /\ ~Current(d)'
  <2>1. d \in Call /\ d.op = "cancel" /\ d.request \in told
    BY <1>4, CancelCallOK DEF AssistantInv, TasksInv
  <2>2. d.request \in Request'
    BY <2>1, <1>4, <1>2 DEF taskVars, Request
  <2> QED BY <2>1, <2>2 DEF CallOK, Current, RunOps
<1>6. ASSUME calls' = (calls \ gone) \cup CancelCalls(told),
             pending = None \/ pending' = pending
      PROVE  NoneForgotten'
  <2>1. \A r \in tasks : r = pending => r = pending'
    BY <1>6, <1>0 DEF AssistantInv, TasksInv
  <2>2. ASSUME NEW d \in calls, d.op \in {"cancel", "prepared", "run"}, d.request \in tasks
        PROVE  d \in calls' \/ \E x \in calls' : x.op \in {"cancel", "prepared", "run"} /\ x.request = d.request
    <3>1. CASE d # c
      BY <3>1, <1>6, <1>3
    <3>2. CASE d = c
      <4>1. c.request # None
        BY <2>2, <3>2, <1>0 DEF AssistantInv, TasksInv
      <4>2. [op |-> "cancel", request |-> c.request] \in calls'
        BY <4>1, <1>3, <1>6 DEF CancelCalls, Ids
      <4> QED BY <4>2, <3>2
    <3> QED BY <3>1, <3>2
  <2> QED BY <2>1, <2>2, <1>2, StillKept
<1>7. question \in Question \cup {Blank} /\ timer \in BOOLEAN /\ active \in BOOLEAN /\ phase \in Phase
      /\ busy \in BOOLEAN /\ preview = pending /\ pending \in Request \cup {None}
  BY <1>0 DEF PanelShapes
<1>8. CASE LatePrepared(c)
  <2>1. /\ calls' = (calls \ gone) \cup CancelCalls(told)
        /\ UNCHANGED <<busy, epoch, pending, preview, phase>>
    BY <1>8, <1>3 DEF LatePrepared
  <2>2. NoneForgotten'
    BY <2>1, <1>6
  <2>3. \A d \in CancelCalls(told), e \in calls' : Current(d)' /\ Current(e)' => d = e
    BY <1>5
  <2>4. \A d \in CancelCalls(told) : d \in Call /\ CallOK(d)'
    BY <1>5
  <2>5. /\ phase' \in Phase /\ busy' \in BOOLEAN /\ active' \in BOOLEAN /\ timer' \in BOOLEAN
        /\ question' \in Question \cup {Blank} /\ preview' = pending' /\ pending' \in Request \cup {None}
        /\ (pending' # None => prepared[pending'].question = question')
        /\ (completed' # None => /\ completed' \in [request : Nat, question : Question \cup {Blank}]
                                 /\ completed'.request \in Request \ tasks)
        /\ pressed \subseteq pressed' /\ pressed' \subseteq Request /\ UNCHANGED <<taskVars, epoch>>
        /\ UNCHANGED <<busy, phase, pending, question>>
    BY <1>0, <1>2, <1>7, <2>1
  <2> QED BY <1>4, <2>1, <2>2, <2>3, <2>4, <2>5, PanelMoves
<1>9. CASE /\ c.epoch = epoch
           /\ busy' = FALSE /\ phase' = "error"
           /\ calls' = (calls \ {c}) \cup CancelCalls(Ids(c.request))
           /\ UNCHANGED <<epoch, pending, preview>>
  <2>1. calls' = (calls \ gone) \cup CancelCalls(told)
    BY <1>9, <1>3
  <2>2. NoneForgotten'
    BY <2>1, <1>6, <1>9
  <2>3. \A d \in CancelCalls(told), e \in calls' : Current(d)' /\ Current(e)' => d = e
    BY <1>5
  <2>4. \A d \in CancelCalls(told) : d \in Call /\ CallOK(d)'
    BY <1>5
  <2>5. /\ phase' \in Phase /\ busy' \in BOOLEAN /\ active' \in BOOLEAN /\ timer' \in BOOLEAN
        /\ question' \in Question \cup {Blank} /\ preview' = pending' /\ pending' \in Request \cup {None}
        /\ (pending' # None => prepared[pending'].question = question')
        /\ (completed' # None => /\ completed' \in [request : Nat, question : Question \cup {Blank}]
                                 /\ completed'.request \in Request \ tasks)
        /\ pressed \subseteq pressed' /\ pressed' \subseteq Request /\ UNCHANGED <<taskVars, epoch>>
        /\ \A d \in calls \ gone : ~Current(d)
    BY <1>0, <1>2, <1>3, <1>7, <1>9 DEF Phase
  <2> QED BY <1>4, <2>1, <2>2, <2>3, <2>4, <2>5, PanelMoves
<1>10. CASE /\ c.epoch = epoch /\ c.request # None
            /\ epoch' = epoch + 1 /\ busy' = FALSE /\ pending' = None
            /\ preview' = None /\ phase' = "expired"
            /\ calls' = (calls \ {c}) \cup CancelCalls(Ids(c.request))
  <2>1. calls' = (calls \ gone) \cup CancelCalls(told) /\ pending = None
    BY <1>10, <1>3, <1>2
  <2>2. NoneForgotten'
    BY <2>1, <1>6
  <2>3. calls' \subseteq calls \cup CancelCalls(told) /\ phase' \in Phase
    BY <2>1, <1>10 DEF Phase
  <2>4. /\ UNCHANGED <<taskVars, pressed>> /\ completed' = completed
        /\ question' \in Question \cup {Blank} /\ active' \in BOOLEAN /\ timer' \in BOOLEAN
    BY <1>2, <1>7
  <2> QED BY <1>4, <1>10, <2>2, <2>3, <2>4, EpochMovesOn
<1>11. CASE /\ c.epoch = epoch /\ c.request # None
            /\ busy' = FALSE /\ phase' = "ready"
            /\ pending' = c.request /\ preview' = c.request
            /\ calls' = calls \ {c}
            /\ UNCHANGED epoch
  <2>1. PICK new : new = {}
    OBVIOUS
  <2>2. calls' = (calls \ gone) \cup new
    BY <2>1, <1>11, <1>3
  <2>3. NoneForgotten'
    <3>1. \A r \in tasks : r # pending
      BY <1>11, <1>2, <1>0 DEF AssistantInv, TasksInv
    <3>2. \A d \in calls : d \in calls' \/ d.request = pending'
      BY <1>11
    <3> QED BY <3>1, <3>2, <1>2, StillKept
  <2>4. /\ \A d \in new : d \in Call /\ CallOK(d)'
        /\ \A d \in new, e \in calls' : Current(d)' /\ Current(e)' => d = e
    BY <2>1
  <2>5. /\ phase' \in Phase /\ busy' \in BOOLEAN /\ active' \in BOOLEAN /\ timer' \in BOOLEAN
        /\ question' \in Question \cup {Blank} /\ preview' = pending' /\ pending' \in Request \cup {None}
        /\ (pending' # None => prepared[pending'].question = question')
        /\ (completed' # None => /\ completed' \in [request : Nat, question : Question \cup {Blank}]
                                 /\ completed'.request \in Request \ tasks)
        /\ pressed \subseteq pressed' /\ pressed' \subseteq Request /\ UNCHANGED <<taskVars, epoch>>
        /\ \A d \in calls \ gone : ~Current(d)
    BY <1>0, <1>2, <1>3, <1>7, <1>11 DEF Phase
  <2> QED BY <1>4, <2>2, <2>3, <2>4, <2>5, PanelMoves
<1> QED BY <1>1, <1>8, <1>9, <1>10, <1>11

LEMMA DeliveredKeeps ==
  ASSUME AssistantInv, Delivered
  PROVE  AssistantInv'
<1>0. /\ PanelShapes /\ NoneForgotten /\ pressed \subseteq Request /\ epoch \in Nat
      /\ Request \subseteq Nat /\ None \notin Request /\ prepared \in [Request -> Kept]
      /\ (pending # None => prepared[pending].question = question)
      /\ (completed # None => /\ completed \in [request : Nat, question : Question \cup {Blank}]
                              /\ completed.request \in Request \ tasks)
      /\ \A c, d \in calls : Current(c) /\ Current(d) => c = d
  BY PanelFacts
<1>1. PICK c \in calls :
        /\ c.op \in {"answered", "failed"}
        /\ IF ~ForThisPanel(c)
           THEN calls' = calls \ {c}
                /\ UNCHANGED <<busy, epoch, pending, preview, phase, completed, question, timer>>
           ELSE IF c.op = "failed"
           THEN /\ busy' = FALSE /\ phase' = "error" /\ calls' = calls \ {c}
                /\ UNCHANGED <<epoch, pending, preview, completed, question, timer>>
           ELSE IF c.request \in lapsed
           THEN InvalidateWith("expired", {c}) /\ UNCHANGED <<completed, question, timer>>
           ELSE /\ completed' = [request |-> c.request, question |-> c.question]
                /\ busy' = FALSE /\ pending' = None /\ preview' = None /\ phase' = "idle"
                /\ question' = Blank /\ timer' = TRUE
                /\ calls' = calls \ {c}
                /\ UNCHANGED epoch
        /\ UNCHANGED <<taskVars, shown, active, pressed, acts>>
  BY Zenon DEF Delivered
<1>2. /\ c.request \in Request /\ c.request \in Nat /\ c.question \in Question \cup {Blank}
      /\ (c.op = "answered" => c.request \notin tasks)
      /\ (ForThisPanel(c) => pending = c.request /\ \A d \in calls \ {c} : ~Current(d))
  <2>1. c \in Call /\ CallOK(c) /\ c.op \in RunOps /\ c.op # "cancel"
        /\ c.op \notin {"prepare", "prepared", "cancel"}
    BY <1>1, PanelFacts DEF RunOps
  <2>2. c.request \in Nat /\ c.question \in Question \cup {Blank}
    BY <2>1 DEF Call
  <2>3. ForThisPanel(c) => Current(c)
    BY <2>1 DEF Current, ForThisPanel
  <2> QED BY <2>1, <2>2, <2>3, <1>0 DEF CallOK
<1>3. PICK gone, new : gone = {c} /\ new = {}
  OBVIOUS
<1>4. /\ gone \in SUBSET calls
      /\ \A d \in new : d \in Call /\ CallOK(d)'
      /\ \A d \in new, e \in calls' : Current(d)' /\ Current(e)' => d = e
      /\ \A d \in gone : d.op \notin {"cancel", "prepared", "run"}
  BY <1>1, <1>3
<1>5. /\ question \in Question \cup {Blank} /\ timer \in BOOLEAN /\ active \in BOOLEAN /\ phase \in Phase
      /\ busy \in BOOLEAN /\ preview = pending /\ pending \in Request \cup {None}
      /\ UNCHANGED <<taskVars, shown, active, pressed, acts>>
  BY <1>0, <1>1 DEF PanelShapes
<1>6. ASSUME calls' = (calls \ gone) \cup new, pending' = pending \/ pending \notin tasks
      PROVE  NoneForgotten'
  <2>1. \A r \in tasks : r = pending => r = pending'
    BY <1>6
  <2>2. \A d \in calls : (d.op \in {"cancel", "prepared", "run"} /\ d.request \in tasks) => d \in calls'
    BY <1>6, <1>4
  <2> QED BY <2>1, <2>2, <1>5, StillKept
<1>7. CASE ~ForThisPanel(c)
  <2>1. /\ calls' = (calls \ gone) \cup new
        /\ UNCHANGED <<busy, epoch, pending, preview, phase, completed, question, timer>>
    BY <1>7, <1>1, <1>3
  <2>2. NoneForgotten'
    BY <2>1, <1>6
  <2>3. /\ phase' \in Phase /\ busy' \in BOOLEAN /\ active' \in BOOLEAN /\ timer' \in BOOLEAN
        /\ question' \in Question \cup {Blank} /\ preview' = pending' /\ pending' \in Request \cup {None}
        /\ (pending' # None => prepared[pending'].question = question')
        /\ (completed' # None => /\ completed' \in [request : Nat, question : Question \cup {Blank}]
                                 /\ completed'.request \in Request \ tasks)
        /\ pressed \subseteq pressed' /\ pressed' \subseteq Request /\ UNCHANGED <<taskVars, epoch>>
        /\ UNCHANGED <<busy, phase, pending, question>>
    BY <1>0, <1>5, <2>1
  <2> QED BY <1>4, <2>1, <2>2, <2>3, PanelMoves
<1>8. CASE ForThisPanel(c) /\ c.op = "failed"
  <2>1. /\ calls' = (calls \ gone) \cup new /\ busy' = FALSE /\ phase' = "error"
        /\ UNCHANGED <<epoch, pending, preview, completed, question, timer>>
    BY <1>8, <1>1, <1>3
  <2>2. NoneForgotten'
    BY <2>1, <1>6
  <2>3. /\ phase' \in Phase /\ busy' \in BOOLEAN /\ active' \in BOOLEAN /\ timer' \in BOOLEAN
        /\ question' \in Question \cup {Blank} /\ preview' = pending' /\ pending' \in Request \cup {None}
        /\ (pending' # None => prepared[pending'].question = question')
        /\ (completed' # None => /\ completed' \in [request : Nat, question : Question \cup {Blank}]
                                 /\ completed'.request \in Request \ tasks)
        /\ pressed \subseteq pressed' /\ pressed' \subseteq Request /\ UNCHANGED <<taskVars, epoch>>
        /\ \A d \in calls \ gone : ~Current(d)
    BY <1>0, <1>2, <1>3, <1>5, <1>8, <2>1 DEF Phase
  <2> QED BY <1>4, <2>1, <2>2, <2>3, PanelMoves
<1>9. CASE ForThisPanel(c) /\ c.op # "failed" /\ c.request \in lapsed
  <2>1. InvalidateWith("expired", gone) /\ UNCHANGED <<completed, question, timer>>
    BY <1>9, <1>1, <1>3
  <2>2. "expired" \in Phase
    BY DEF Phase
  <2> QED BY <1>4, <1>5, <2>1, <2>2, InvalidateKeeps
<1>10. CASE ForThisPanel(c) /\ c.op # "failed" /\ c.request \notin lapsed
  <2>1. /\ completed' = [request |-> c.request, question |-> c.question]
        /\ busy' = FALSE /\ pending' = None /\ preview' = None /\ phase' = "idle"
        /\ question' = Blank /\ timer' = TRUE
        /\ calls' = (calls \ gone) \cup new
        /\ UNCHANGED epoch
    BY <1>10, <1>1, <1>3
  <2>2. c.op = "answered" /\ c.request \notin tasks
    BY <1>10, <1>1, <1>2
  <2>3. NoneForgotten'
    BY <2>1, <2>2, <1>2, <1>6, <1>10
  <2>4. /\ phase' \in Phase /\ busy' \in BOOLEAN /\ active' \in BOOLEAN /\ timer' \in BOOLEAN
        /\ question' \in Question \cup {Blank} /\ preview' = pending' /\ pending' \in Request \cup {None}
        /\ pending' = None
        /\ completed' \in [request : Nat, question : Question \cup {Blank}]
        /\ completed'.request \in Request \ tasks
        /\ pressed \subseteq pressed' /\ pressed' \subseteq Request /\ UNCHANGED <<taskVars, epoch>>
        /\ \A d \in calls \ gone : ~Current(d)
    BY <1>0, <1>2, <1>3, <1>5, <1>10, <2>1, <2>2 DEF Phase
  <2> QED BY <1>4, <2>1, <2>3, <2>4, PanelMoves
<1> QED BY <1>7, <1>8, <1>9, <1>10

-----------------------------------------------------------------------------
LEMMA InitEstablishes == Init => AssistantInv
<1> SUFFICES ASSUME Init PROVE AssistantInv
  OBVIOUS
<1>1. PICK m \in Model, n \in Note : TRUE
  BY SettingsExist
<1>2. [model |-> m, note |-> n] \in Policies(Model, Note)
  BY DEF Policies
<1>3. policy \in Policies(Model, Note)
  BY <1>2 DEF Init, TasksInit
<1>4. /\ Request = {} /\ tasks = {} /\ started = {} /\ cancelled = {} /\ lapsed = {}
      /\ DOMAIN stage = {} /\ DOMAIN tries = {} /\ prepared = << >> /\ stage = << >> /\ tries = << >>
  BY DEF Init, TasksInit, Request
<1>5. Numbered(0)
  BY <1>4 DEF Numbered
<1>6. Cardinality(Fresh) = 0
  BY <1>4, FS_EmptySet DEF Fresh
<1>7. TasksInv
  BY <1>3, <1>4, <1>5, <1>6, LimitsAreNumbers DEF TasksInv, Request
<1>8. PanelInv
  BY <1>4 DEF Init, PanelInv, PanelShapes, Phase, NoneForgotten
<1> QED BY <1>7, <1>8 DEF AssistantInv

LEMMA NextKeeps == ASSUME AssistantInv, [Next]_vars PROVE AssistantInv'
<1>1. CASE UNCHANGED vars
  <2>1. TasksInv'
    BY <1>1 DEF vars, taskVars, AssistantInv, TasksInv, Numbered, Fresh, Request
  <2>2. PanelInv'
    BY <1>1 DEF vars, taskVars, panelVars, AssistantInv, PanelInv, PanelShapes, CallOK, Current,
                NoneForgotten, Request
  <2> QED BY <2>1, <2>2 DEF AssistantInv
<1>2. CASE SelectTable \/ LoadSettings \/ EditQuestion \/ Cancel \/ Refresh \/ Expire
  BY <1>2, EditKeeps
<1>3. CASE ToggleActive
  BY <1>3, ToggleKeeps
<1>4. CASE Prepare
  BY <1>4, PrepareKeeps
<1>5. CASE Run
  BY <1>5, RunKeeps
<1>6. CASE ServeCalls
  BY <1>6, ServeKeeps
<1>7. CASE Work \/ Elsewhere
  BY <1>7, WorkGoesOn
<1>8. CASE Prepared
  BY <1>8, PreparedKeeps
<1>9. CASE Delivered
  BY <1>9, DeliveredKeeps
<1> QED BY <1>1, <1>2, <1>3, <1>4, <1>5, <1>6, <1>7, <1>8, <1>9 DEF Next

\* The inductive invariant: the panel waits for at most one call of its epoch, and every request the
\* desktop keeps is the panel's, on its way to it, being run or about to be cancelled.
THEOREM AssistantInductive == Spec => []AssistantInv
<1>1. Init => AssistantInv
  BY InitEstablishes
<1>2. AssistantInv /\ [Next]_vars => AssistantInv'
  BY NextKeeps
<1> QED BY <1>1, <1>2, PTL DEF Spec

\* Requests, tasks and their stages keep their types, and no more requests are kept than there is
\* room for (table_understanding.rs, the sixteen prepared requests).
THEOREM TypesOfAssistant == Spec => []TypeOK
<1>1. AssistantInv => TypeOK
  <2> SUFFICES ASSUME AssistantInv PROVE TypeOK
    OBVIOUS
  <2>1. TasksTypeOK
    BY DEF AssistantInv, TasksInv, TasksTypeOK, Kept
  <2>2. Ids(pending) \cup Ids(preview) \cup Ids(CompletedId) \subseteq Request
    BY DEF AssistantInv, PanelInv, PanelShapes, Ids, CompletedId
  <2> QED BY <2>1, <2>2 DEF AssistantInv, PanelInv, PanelShapes, TypeOK
<1> QED BY <1>1, AssistantInductive, PTL

\* No prepared request is left behind by its panel, whatever it shows when the answers arrive
\* (TableAiAssistant.tsx invalidate and the cleanup of the panel).
THEOREM NoneIsEverForgotten == Spec => []NoneForgotten
<1>1. AssistantInv => NoneForgotten
  BY DEF AssistantInv, PanelInv
<1> QED BY <1>1, AssistantInductive, PTL

LEMMA AnswerIsAwaited ==
  ASSUME AssistantInv, [Next]_vars, completed' # completed, completed' # None
  PROVE  /\ phase = "running" /\ preview = completed'.request
         /\ completed'.request \in pressed \ lapsed
         /\ prepared[completed'.request].question = completed'.question
<1>1. Delivered
  BY DEF Next, vars, panelVars, SelectTable, LoadSettings, EditQuestion, ToggleActive, Prepare, Cancel,
         Refresh, Run, ServeCalls, Work, Elsewhere, Prepared, Expire, Remount
<1>2. PICK c \in calls :
        /\ c.op \in {"answered", "failed"} /\ ForThisPanel(c) /\ c.op # "failed" /\ c.request \notin lapsed
        /\ completed' = [request |-> c.request, question |-> c.question]
  BY <1>1, Zenon DEF Delivered
<1>3. c \in Call /\ CallOK(c) /\ c.op \in RunOps /\ Current(c) /\ PanelShapes
      /\ c.op \notin {"prepare", "prepared", "cancel"}
  BY <1>2, PanelFacts DEF RunOps, Current, ForThisPanel
<1> QED BY <1>2, <1>3 DEF CallOK, PanelShapes

\* An answer is shown while its request runs from this panel, for the question it was prepared for
\* (TableAiAssistant.tsx, the epoch compared when the answer arrives).
THEOREM AnswersAreAwaited == Spec => AnswerArrives
<1>1. AssistantInv /\ [Next]_vars =>
        [completed' # completed /\ completed' # None =>
          /\ phase = "running" /\ preview = completed'.request
          /\ completed'.request \in pressed \ lapsed
          /\ prepared[completed'.request].question = completed'.question]_vars
  BY AnswerIsAwaited
<1> QED BY <1>1, AssistantInductive, PTL DEF Spec, AnswerArrives
=============================================================================
