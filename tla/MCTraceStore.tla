---------------------------- MODULE MCTraceStore ----------------------------
(* Model-checking instances of TraceStore. *)
EXTENDS TraceStore, TLC

TraceSymmetry == Permutations(Traces)
=============================================================================
