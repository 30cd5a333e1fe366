------------------------------ MODULE MCAhdModelES ------------------------------
(* Instances of AhdModelES for TLC. *)
EXTENDS AhdModelES

\* As in MCESRun, a reward that tells apart the models a run could confuse.
MCRewardsOf(log, p) ==
    LET base == IF log = <<>> THEN 1 ELSE 2 + log[1].rewards[1]
    IN  {base + IF p = None THEN 0 ELSE p}
=================================================================================
