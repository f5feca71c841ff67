----------------------------- MODULE ToolContract -----------------------------
(***************************************************************************)
(* What a batch of tool calls promises: every call is entered at most once *)
(* and closed exactly once, and the status it is closed with tells whether *)
(* its body was entered (ToolStatus, packages/api/src/tool.rs, as it is    *)
(* used by packages/runtime/src/tools.rs).                                 *)
(***************************************************************************)
CONSTANT Calls

VARIABLES
    entered,   \* calls whose body was entered
    closed     \* the final status of each call, "open" before

vars == <<entered, closed>>

NotRun == {"Denied", "Skipped", "Error"}
Run == {"Success", "Unknown", "Error"}

Init == entered = {} /\ closed = [c \in Calls |-> "open"]

Enter(c) ==
    /\ c \notin entered /\ closed[c] = "open"
    /\ entered' = entered \union {c}
    /\ UNCHANGED closed

\* Some open calls are closed together; the others keep what they have.
Close ==
    /\ closed' \in [Calls -> NotRun \union Run \union {"open"}]
    /\ \A c \in Calls :
         \/ closed'[c] = closed[c]
         \/ closed[c] = "open" /\ closed'[c] \in IF c \in entered THEN Run ELSE NotRun
    /\ UNCHANGED entered

Next == Close \/ \E c \in Calls : Enter(c)

Spec == Init /\ [][Next]_vars
=============================================================================
