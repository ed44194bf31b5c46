---------------------------- MODULE MCConfigLive ----------------------------
(* ConfigLive on small instances: callers are alike, and so are values. *)
EXTENDS ConfigLive, TLC

ConfigSymmetry == Permutations(Callers) \cup Permutations(Values) \cup Permutations(Instances)
=============================================================================
