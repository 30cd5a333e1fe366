------------------------------ MODULE MCWebArenaRun ------------------------------
(* Instances of WebArenaRun for TLC: two run directories, two setups that agree *)
(* on their first generation, rewards that depend on all earlier ones.          *)
EXTENDS WebArenaRun

CONSTANTS main, copy, a, b

MCRuns == {main, copy}
MCSetups == {a, b}
MCDraw(s, g) == IF s = b /\ g > 0 THEN "other" ELSE "same"
MCRewardsOf(log, d) ==
    IF log = <<>> THEN {0, 10}
    ELSE {log[Len(log)].reward + IF d = "other" THEN 2 ELSE 1}
=================================================================================
