----------------------------- MODULE MCBackends -----------------------------
(* Model-checking instance of Backends. *)
EXTENDS Backends

CONSTANTS inbox, archive, r1, r2

MCFolderList == <<inbox, archive>>
MCRecipients == <<r1, r2>>

\* os.Open and os.Create, an append to what is there, and an exclusive creation to
\* be written only.
MCModes ==
  {{"read"}, {"read", "write", "create", "trunc"}, {"read", "write", "append"},
   {"write", "create", "excl"}}

BackendSymmetry == Permutations(Names) \cup Permutations(Clients)
=============================================================================
