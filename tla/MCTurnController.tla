-------------------------- MODULE MCTurnController --------------------------
(* Instances of TurnController for TLC: what the environment may do in each
   run, and the symmetry of the interchangeable identities.                 *)
EXTENDS TurnRefinement, TLC

SafetyMethods ==
    {"turn/start", "loop", "turn/interrupt", "callback/result", "lifecycle",
     "disconnect", "shutdown"}

PlainMethods == {"turn/start", "turn/interrupt", "callback/result", "shutdown"}

SteerMethods == {"turn/start", "turn/steer", "callback/result"}

CooperativeMethods == {"turn/start", "loop", "turn/steer", "callback/result", "lifecycle"}

InterruptMethods == {"turn/start", "turn/interrupt", "callback/result"}

DetachMethods == {"turn/start", "callback/result", "disconnect"}

Symmetry == Permutations(Turns) \cup Permutations(Requests) \cup Permutations(Handlers)
=============================================================================
