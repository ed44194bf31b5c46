------------------------------- MODULE MCHub --------------------------------
(* Hub on small instances: sources are alike, and so are clients. *)
EXTENDS Hub, TLC

HubSymmetry == Permutations(Sources) \cup Permutations(Clients)
=============================================================================
