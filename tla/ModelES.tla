-------------------------------- MODULE ModelES --------------------------------
(***************************************************************************)
(* What a model server promises over its /es/* routes, one atomic step per *)
(* request: a perturbation is applied at most once and taken back exactly, *)
(* an update is only ever added to unperturbed weights, and init and reset *)
(* bring every tensor back to its base weights.                            *)
(***************************************************************************)
EXTENDS ParamSpace, Sequences

CONSTANTS
    Tensors,            \* the model's parameter tensors
    Scopes,             \* the values parameter_scope may take
    ScopeTensors,       \* [Scopes -> SUBSET Tensors]: the tensors a scope selects
    Sigmas,             \* the perturbation scales
    Deltas,             \* the update vectors (alpha / N) * sum_i w_i epsilon(seed_i)
    None                \* no active perturbation

VARIABLES
    theta,              \* [Tensors -> Vec]
    infos,              \* the selected tensors; {} before the first /es/init
    log,                \* the updates applied since init
    active              \* the perturbation the weights carry, or None

vars == <<theta, infos, log, active>>

Perturbations == [seed : Seeds, sigma : Sigmas]

\* Every selected tensor moves by v.
Moved(v) == [t \in Tensors |-> IF t \in infos THEN Plus(theta[t], v) ELSE theta[t]]

AtBase == [t \in Tensors |-> Zero]

Init ==
    /\ theta = AtBase
    /\ infos = {}
    /\ log = <<>>
    /\ active = None

\* /es/init: whatever the server went through, the run starts at base weights.
Open(scope) ==
    /\ ScopeTensors[scope] # {}
    /\ theta' = AtBase
    /\ infos' = ScopeTensors[scope]
    /\ log' = <<>>
    /\ active' = None

\* /es/reset, and an /es/init whose scope selects nothing.
Reset ==
    /\ infos # {}
    /\ theta' = AtBase
    /\ log' = <<>>
    /\ active' = None
    /\ UNCHANGED infos

Apply(p) ==
    /\ infos # {}
    /\ active = None
    /\ theta' = Moved(Noise(p.seed, p.sigma))
    /\ active' = p
    /\ UNCHANGED <<infos, log>>

Revert ==
    /\ active # None
    /\ theta' = Moved(Noise(active.seed, -active.sigma))
    /\ active' = None
    /\ UNCHANGED <<infos, log>>

Update(d) ==
    /\ infos # {}
    /\ active = None
    /\ theta' = Moved(d)
    /\ log' = Append(log, d)
    /\ UNCHANGED <<infos, active>>

Next ==
    \/ \E scope \in Scopes : Open(scope)
    \/ Reset
    \/ \E p \in Perturbations : Apply(p)
    \/ Revert
    \/ \E d \in Deltas : Update(d)

Spec == Init /\ [][Next]_vars
=============================================================================
