----------------------------- MODULE UpdateGate -----------------------------
(***************************************************************************)
(* What installing an update promises the rest of the application: the     *)
(* restart is a gate that closes only on an idle application with nothing  *)
(* left to save, and while it is closed nothing begins and nothing is      *)
(* edited.  It opens again when the installation fails.  Updates shows     *)
(* that the panel, the bridge of commands and the native handlers do this. *)
(***************************************************************************)
EXTENDS Naturals

CONSTANT Capacity   \* how many commands may run at once

VARIABLES
    mode,      \* "open" (working), "closed" (installing) or "over" (restarted)
    running,   \* the commands under way
    unsaved    \* whether an editor has work that a restart would lose

vars == <<mode, running, unsaved>>

TypeOK ==
    /\ mode \in {"open", "closed", "over"}
    /\ running \in 0..Capacity
    /\ unsaved \in BOOLEAN

Init == mode = "open" /\ running \in 0..Capacity /\ unsaved = FALSE

Begin ==
    /\ mode = "open"
    /\ running < Capacity
    /\ running' = running + 1
    /\ UNCHANGED <<mode, unsaved>>

\* A command ends, and may have saved what was unsaved.
End ==
    /\ running > 0
    /\ running' = running - 1
    /\ unsaved' \in {unsaved, FALSE}
    /\ UNCHANGED mode

Edit ==
    /\ mode = "open"
    /\ unsaved' = TRUE
    /\ UNCHANGED <<mode, running>>

Close ==
    /\ mode = "open"
    /\ running = 0
    /\ ~unsaved
    /\ mode' = "closed"
    /\ UNCHANGED <<running, unsaved>>

Reopen == mode = "closed" /\ mode' = "open" /\ UNCHANGED <<running, unsaved>>

Restart == mode = "closed" /\ mode' = "over" /\ UNCHANGED <<running, unsaved>>

Next == Begin \/ End \/ Edit \/ Close \/ Reopen \/ Restart

Spec == Init /\ [][Next]_vars

\* While the gate is closed, and for ever once the application restarted, no
\* command is under way and nothing is unsaved: this is what the abstract
\* specification is for.
ClosedIsIdle == mode # "open" => running = 0 /\ ~unsaved
=============================================================================
