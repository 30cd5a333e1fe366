---------------------------- MODULE MCSeedReplayES ----------------------------
(* Instances of SeedReplayES for TLC: two tensors, of which "all_linear"    *)
(* selects one and "lora" none, two seeds, two scales (0 is a legal sigma). *)
EXTENDS SeedReplayES

CONSTANTS t1, t2, s1, s2

MCTensors == {t1, t2}
MCSeeds == {s1, s2}
MCScopes == {"full", "all_linear", "lora"}
MCScopeTensors ==
    [scope \in MCScopes |->
        CASE scope = "full" -> {t1, t2}
          [] scope = "all_linear" -> {t1}
          [] scope = "lora" -> {}]
MCSigmas == {0, 1}
MCDeltas == {[s \in MCSeeds |-> IF s = s1 THEN 1 ELSE -1],
             [s \in MCSeeds |-> IF s = s1 THEN 0 ELSE 2]}
=============================================================================
