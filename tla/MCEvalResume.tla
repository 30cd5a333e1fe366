----------------------------- MODULE MCEvalResume -----------------------------
(* An instance of EvalResume for TLC: three keys. *)
EXTENDS EvalResume

CONSTANTS k1, k2, k3

MCKeys == {k1, k2, k3}
=============================================================================
