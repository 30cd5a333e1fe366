----------------------------- MODULE MCEvaluatorPool -----------------------------
(* An instance of EvaluatorPool for TLC. *)
EXTENDS EvaluatorPool

MCUnpreparable == {2}
=============================================================================
