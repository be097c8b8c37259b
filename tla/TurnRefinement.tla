--------------------------- MODULE TurnRefinement ---------------------------
(* The turn controller implements TurnLifecycle. *)
EXTENDS TurnController

RunningTurn == IF \E t \in Turns : pc[t] \in InAct
               THEN CHOOSE t \in Turns : pc[t] \in InAct
               ELSE None

Left == {"unwinding", "done", "aborted"} \cup Finishing

Lifecycle == INSTANCE TurnLifecycle WITH
    running <- RunningTurn,
    over    <- {t \in Turns : pc[t] \in Left},
    outcome <- core

(* Whatever tasks interleave, the tools see the promise of TurnLifecycle: every
   request is settled at most once and only while its turn runs (_turns.py over
   _request_broker.py).                                                        *)
ImplementsLifecycle == Lifecycle!LifecycleSpec
=============================================================================
