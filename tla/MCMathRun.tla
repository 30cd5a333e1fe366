------------------------------- MODULE MCMathRun -------------------------------
(* An instance of MathRun for TLC. *)
EXTENDS MathRun

\* A reward that tells apart the models a run could confuse: it depends on the
\* number of updates, on what the first one was made of and on the perturbation;
\* seed 1 is sampled at a temperature and may earn two.
MCRewardsOf(log, p) ==
    LET base == IF log = <<>> THEN 0 ELSE Len(log) + log[1].rewards[1]
    IN  {base + p} \cup IF p = 1 THEN {base + p + 1} ELSE {}
\* All its cases lost.
MCLossyRewardsOf(log, p) == {0}
================================================================================
