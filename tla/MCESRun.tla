------------------------------- MODULE MCESRun -------------------------------
(* Instances of ESRun for TLC. *)
EXTENDS ESRun, FiniteSetsExt

\* An answer that tells apart the models a run could confuse: it depends on the
\* number of updates, on what the first one was made of and on the perturbation
\* (0 when there is none).  A generation that is redone may still come out
\* differently, because completions fail.
MCAnswersOf(log, p) ==
    LET base == IF log = <<>> THEN 10 ELSE 20 + log[1].rewards[1]
    IN  {base + IF p = None THEN 0 ELSE p}

\* A sample is worth its best answer.
MCRewardOf(answers) == Max({answers[i] : i \in DOMAIN answers})
=============================================================================
