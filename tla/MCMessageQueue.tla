--------------------------- MODULE MCMessageQueue ---------------------------
(* An instance of MessageQueue for TLC: prompts are interchangeable. *)
EXTENDS MessageQueue

Symmetry == Permutations(Prompts)
=============================================================================
