----------------------------- MODULE MCInstance -----------------------------
(* Model-checking instances of Instance: a boot loop and a few callers. *)
EXTENDS Instance, TLC

\* The callers other than the boot loop are interchangeable.
Callers == Permutations(Calls \ {Main})
=============================================================================
