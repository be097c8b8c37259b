---------------------------- MODULE MCSessionLog ----------------------------
(* An instance of SessionLog for TLC: directories and savers are
   interchangeable.                                                          *)
EXTENDS SessionLog

Symmetry == Permutations(Sessions) \cup Permutations(Savers)
=============================================================================
