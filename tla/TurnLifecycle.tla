--------------------------- MODULE TurnLifecycle ---------------------------
(***************************************************************************)
(* What a session promises about turns and the requests of their tools:    *)
(* one turn runs at a time and none runs twice; a request is raised by the *)
(* running turn, is given at most one outcome, and has one by the time its *)
(* turn stops.                                                             *)
(***************************************************************************)
CONSTANTS Turns, Requests, Answers, None

VARIABLES
    running,  \* the turn inside the agent loop, or None
    over,     \* the turns that have left it
    outcome   \* what became of each request

lifecycleVars == <<running, over, outcome>>

Outcomes == Answers \cup {"rejected", "gone"}

LifecycleInit ==
    /\ running = None
    /\ over = {}
    /\ outcome = [r \in Requests |-> "none"]

StartTurn(t) ==
    /\ running = None
    /\ t \notin over
    /\ running' = t
    /\ UNCHANGED <<over, outcome>>

Ask(r) ==
    /\ running # None
    /\ outcome[r] = "none"
    /\ outcome' = [outcome EXCEPT ![r] = "pending"]
    /\ UNCHANGED <<running, over>>

Settle(r) ==
    /\ running # None
    /\ outcome[r] = "pending"
    /\ \E o \in Answers \cup {"rejected"} : outcome' = [outcome EXCEPT ![r] = o]
    /\ UNCHANGED <<running, over>>

(* The turn leaves the agent loop: requests still pending are dropped, or the
   one the turn failed on is rejected.                                        *)
StopTurn ==
    /\ running # None
    /\ running' = None
    /\ over' = over \cup {running}
    /\ outcome' \in [Requests -> Outcomes \cup {"none"}]
    /\ \A r \in Requests : IF outcome[r] = "pending"
                           THEN outcome'[r] \in {"rejected", "gone"}
                           ELSE outcome'[r] = outcome[r]

LifecycleNext ==
    \/ \E t \in Turns : StartTurn(t)
    \/ \E r \in Requests : Ask(r) \/ Settle(r)
    \/ StopTurn

LifecycleSpec == LifecycleInit /\ [][LifecycleNext]_lifecycleVars
=============================================================================
