--------------------------- MODULE MCConfigLayers ---------------------------
(* An instance of ConfigLayers for TLC: two files and two fields, of which
   "active" names what "model" defines, so that one without the other is
   rejected.                                                                 *)
EXTENDS ConfigLayers

MCStack == <<"user", "project">>
MCFields == {"model", "active"}

MCEdited == {"model"}

Set(l, f, v) == [layer |-> l, field |-> f, value |-> v]

MCIncoherent == {c \in Data : c["active"] # Unset /\ c["model"] = Unset}

(* A field, its removal, and another field of the file together with the other
   file. *)
MCPatches == {
    {Set("user", "model", 1)},
    {Set("user", "model", Unset)},
    {Set("user", "active", 1), Set("project", "model", 1)}}

Symmetry == Permutations(Tasks)
=============================================================================
