--------------------------- MODULE MCCheckpoints ---------------------------
(* Two files: one with three lines, one that does not exist yet. *)
EXTENDS Checkpoints
CONSTANTS f, g
\* The first two lines are replaced by one; the second line is deleted.
Splices0 == {<<0, 2, 1>>, <<1, 2, 0>>}
Contents0 == [p \in Paths |-> IF p = f THEN <<1, 2, 3>> ELSE Absent]
============================================================================
