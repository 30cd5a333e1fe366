----------------------------- MODULE SeedReplayES -----------------------------
(***************************************************************************)
(* SeedReplayModelES behind the /es/* routes of the model server, one      *)
(* write of a tensor at a time.  The server handles one request at a time  *)
(* (Flask with threaded=False); clients may send any request at any time,  *)
(* repeat one, or send one twice.                                          *)
(*                                                                         *)
(* A request is one or more passes over the selected tensors; a pass adds  *)
(* one vector to each of them.  An exception inside a pass (randn runs out *)
(* of GPU memory) leaves the tensors it already wrote as they are.  A      *)
(* member of Tensors is what one add_ writes: a tensor, or a chunk of one. *)
(***************************************************************************)
EXTENDS ParamSpace, Sequences

CONSTANTS
    Tensors, Scopes, ScopeTensors, Sigmas, Deltas, None,
    MaxUpdates,         \* bound: updates tracked at once
    MaxFaults           \* bound: exceptions inside a pass

Perturbations == [seed : Seeds, sigma : Sigmas]

ASSUME ScopesAssumption == ScopeTensors \in [Scopes -> SUBSET Tensors]
ASSUME SigmasAssumption == Sigmas \subseteq Nat
ASSUME DeltasAssumption == Deltas \subseteq Vec
ASSUME NoneAssumption == None \notin Perturbations /\ None \notin Scopes
ASSUME BoundsAssumption == MaxUpdates \in Nat /\ MaxFaults \in Nat

VARIABLES
    theta,              \* [Tensors -> Vec]: the live weights, relative to base
    infos,              \* parameter_infos as a set; {} when it is None
    history,            \* update_history, each item as the vector it added
    active,             \* active_perturbation
    phase,              \* the loop that is running, "idle" between requests
    todo,               \* the tensors that loop has still to write
    pass,               \* the vector it adds to each tensor
    want,               \* the perturbation an apply installs when its pass ends
    goal,               \* the scope of the init that called reset, None in a plain reset
    left,               \* the items of history reset has not undone yet
    last,               \* the last answer: the route and whether it succeeded
    faults,             \* exceptions so far
    snap,               \* history variable: the weights after 0, 1, ... updates
    residue             \* history variable: what failed passes left on each tensor

vars == <<theta, infos, history, active, phase, todo, pass, want, goal, left,
          last, faults, snap, residue>>

tracked == <<infos, history, active>>

Routes == {"init", "apply", "revert", "update", "reset"}
Phases == {"idle", "apply", "revert", "update", "denoise", "undo"}

Init ==
    /\ theta = [t \in Tensors |-> Zero]
    /\ infos = {}
    /\ history = <<>>
    /\ active = None
    /\ phase = "idle"
    /\ todo = {}
    /\ pass = Zero
    /\ want = None
    /\ goal = None
    /\ left = 0
    /\ last = [route |-> "none", ok |-> TRUE]
    /\ faults = 0
    /\ snap = <<Zero>>
    /\ residue = [t \in Tensors |-> Zero]

Answer(route, ok) == last' = [route |-> route, ok |-> ok]

\* A mutant of Start: the loop runs over all parameters of the model.
StartOnAllTensors(p, v) ==
    /\ phase' = p
    /\ todo' = Tensors
    /\ pass' = v

\* A loop over parameter_infos starts; it will add v to every tensor.
Start(p, v) ==
    /\ phase' = p
    /\ todo' = infos
    /\ pass' = v

\* Answered without touching the weights.
Untouched ==
    UNCHANGED <<theta, infos, history, active, phase, todo, pass, want, goal,
                left, faults, snap, residue>>

-------------------------------------------------------------------------------
(* apply *)

ApplyBegin(p) ==
    /\ phase = "idle" /\ active = None /\ infos # {}
    /\ Start("apply", Noise(p.seed, p.sigma))
    /\ want' = p
    /\ UNCHANGED <<theta, infos, history, active, goal, left, last, faults, snap, residue>>

ApplyEnd ==
    /\ phase = "apply" /\ todo = {}
    /\ active' = want
    /\ phase' = "idle"
    /\ Answer("apply", TRUE)
    /\ UNCHANGED <<theta, infos, history, todo, pass, want, goal, left, faults, snap, residue>>

\* A mutant of ApplyAgain: a repeated apply adds its noise a second time.
ApplyAgainStacks(p) ==
    /\ phase = "idle" /\ active = p
    /\ Start("apply", Noise(p.seed, p.sigma))
    /\ want' = p
    /\ UNCHANGED <<theta, infos, history, active, goal, left, last, faults, snap, residue>>

\* already_applied: the same request again adds no noise.
ApplyAgain(p) ==
    /\ phase = "idle" /\ active = p
    /\ Answer("apply", TRUE)
    /\ Untouched

ApplyRejected(p) ==
    /\ phase = "idle"
    /\ IF active # None THEN active # p ELSE infos = {}
    /\ Answer("apply", FALSE)
    /\ Untouched

-------------------------------------------------------------------------------
(* revert *)

RevertBegin(p) ==
    /\ phase = "idle" /\ active = p
    /\ Start("revert", Noise(p.seed, -p.sigma))
    /\ UNCHANGED <<theta, infos, history, active, want, goal, left, last, faults, snap, residue>>

RevertEnd ==
    /\ phase = "revert" /\ todo = {}
    /\ active' = None
    /\ phase' = "idle"
    /\ Answer("revert", TRUE)
    /\ UNCHANGED <<theta, infos, history, todo, pass, want, goal, left, faults, snap, residue>>

\* already_reverted, also before the first init.
RevertAgain ==
    /\ phase = "idle" /\ active = None
    /\ Answer("revert", TRUE)
    /\ Untouched

RevertRejected(p) ==
    /\ phase = "idle" /\ active # None /\ active # p
    /\ Answer("revert", FALSE)
    /\ Untouched

-------------------------------------------------------------------------------
(* update *)

UpdateBegin(d) ==
    /\ phase = "idle" /\ infos # {} /\ active = None
    /\ Len(history) < MaxUpdates
    /\ Start("update", d)
    /\ UNCHANGED <<theta, infos, history, active, want, goal, left, last, faults, snap, residue>>

UpdateEnd ==
    /\ phase = "update" /\ todo = {}
    /\ history' = Append(history, pass)
    /\ snap' = Append(snap, Plus(snap[Len(snap)], pass))
    /\ phase' = "idle"
    /\ Answer("update", TRUE)
    /\ UNCHANGED <<theta, infos, active, todo, pass, want, goal, left, faults, residue>>

\* Not initialised, perturbed, or a payload the validation refuses.
UpdateRejected ==
    /\ phase = "idle"
    /\ Answer("update", FALSE)
    /\ Untouched

-------------------------------------------------------------------------------
(* reset, and init, which resets a server that was initialised before *)

\* A mutant of ResetBegin: reset forgets the perturbation but keeps its noise.
ResetBeginKeepsNoise(scope) ==
    /\ phase = "idle" /\ infos # {}
    /\ goal' = scope
    /\ left' = Len(history)
    /\ active' = None
    /\ phase' = "undo"
    /\ UNCHANGED <<theta, infos, history, todo, pass, want, last, faults, snap, residue>>

\* Take back the active perturbation if there is one, then undo the updates.
ResetBegin(scope) ==
    /\ phase = "idle" /\ infos # {}
    /\ goal' = scope
    /\ left' = Len(history)
    /\ IF active # None
       THEN Start("denoise", Noise(active.seed, -active.sigma))
       ELSE phase' = "undo" /\ UNCHANGED <<todo, pass>>
    /\ UNCHANGED <<theta, infos, history, active, want, last, faults, snap, residue>>

DenoiseEnd ==
    /\ phase = "denoise" /\ todo = {}
    /\ active' = None
    /\ phase' = "undo"
    /\ UNCHANGED <<theta, infos, history, todo, pass, want, goal, left, last, faults, snap, residue>>

\* The next item of reversed(update_history), with eta = -alpha.
UndoNext ==
    /\ phase = "undo" /\ todo = {} /\ left > 0
    /\ Start("undo", Minus(Zero, history[left]))
    /\ left' = left - 1
    /\ UNCHANGED <<theta, infos, history, active, want, goal, last, faults, snap, residue>>

\* All undone: forget the updates; an init then selects its tensors.
ResetEnd ==
    /\ phase = "undo" /\ todo = {} /\ left = 0
    /\ history' = <<>>
    /\ snap' = <<Zero>>
    /\ phase' = "idle"
    /\ goal' = None
    /\ IF goal = None
       THEN Answer("reset", TRUE) /\ UNCHANGED infos
       ELSE IF ScopeTensors[goal] # {}
            THEN Answer("init", TRUE) /\ infos' = ScopeTensors[goal]
            ELSE Answer("init", FALSE) /\ UNCHANGED infos
    /\ UNCHANGED <<theta, active, todo, pass, want, left, faults, residue>>

\* A mutant of FirstInit: a server that was initialised before is not reset.
InitWithoutReset(scope) ==
    /\ phase = "idle"
    /\ Answer("init", ScopeTensors[scope] # {})
    /\ infos' = ScopeTensors[scope]
    /\ history' = <<>>
    /\ active' = None
    /\ UNCHANGED <<theta, phase, todo, pass, want, goal, left, faults, snap, residue>>

\* The first init.
FirstInit(scope) ==
    /\ phase = "idle" /\ infos = {}
    /\ Answer("init", ScopeTensors[scope] # {})
    /\ infos' = ScopeTensors[scope]
    /\ UNCHANGED <<theta, history, active, phase, todo, pass, want, goal, left, faults, snap, residue>>

ResetRejected ==
    /\ phase = "idle" /\ infos = {}
    /\ Answer("reset", FALSE)
    /\ Untouched

-------------------------------------------------------------------------------
(* The loop over the tensors *)

\* add_ on one tensor.
WriteTensor(t) ==
    /\ t \in todo
    /\ theta' = [theta EXCEPT ![t] = Plus(theta[t], pass)]
    /\ todo' = todo \ {t}
    /\ UNCHANGED <<infos, history, active, phase, pass, want, goal, left, last, faults, snap, residue>>

\* The displacement of the active perturbation.
Offset == IF active = None THEN Zero ELSE Noise(active.seed, active.sigma)

\* The point all updates together have reached.
Centre == snap[Len(snap)]

\* Where the records say tensor t is.
Recorded(t) == IF t \in infos THEN Plus(Centre, Offset) ELSE Zero

\* What the running request has added to tensor t so far.
Written(t) ==
    CASE phase = "idle" \/ t \notin infos -> Zero
      [] phase = "undo" /\ t \in infos ->
            Minus(snap[IF t \in todo THEN left + 2 ELSE left + 1], Centre)
      [] phase \notin {"idle", "undo"} /\ t \in infos ->
            IF t \in todo THEN Zero ELSE pass

\* An exception inside the loop: the request fails where it stands.
Fault ==
    /\ todo # {} /\ faults < MaxFaults
    /\ faults' = faults + 1
    /\ phase' = "idle"
    /\ todo' = {}
    /\ goal' = None
    /\ Answer(IF phase \in {"denoise", "undo"}
              THEN IF goal = None THEN "reset" ELSE "init"
              ELSE phase, FALSE)
    /\ residue' = [t \in Tensors |-> Plus(residue[t], Written(t))]
    /\ UNCHANGED <<theta, infos, history, active, pass, want, left, snap>>

-------------------------------------------------------------------------------
\* What a client may ask of an idle server.
Request ==
    \/ \E p \in Perturbations :
          ApplyBegin(p) \/ ApplyAgain(p) \/ ApplyRejected(p)
          \/ RevertBegin(p) \/ RevertRejected(p)
    \/ RevertAgain
    \/ \E d \in Deltas : UpdateBegin(d)
    \/ UpdateRejected
    \/ \E scope \in Scopes \cup {None} : ResetBegin(scope)
    \/ ResetRejected
    \/ \E scope \in Scopes : FirstInit(scope)

\* What the server does by itself once a request has started.
Serve ==
    \/ \E t \in Tensors : WriteTensor(t)
    \/ ApplyEnd \/ RevertEnd \/ UpdateEnd
    \/ DenoiseEnd \/ UndoNext \/ ResetEnd

Next == Request \/ Serve \/ Fault

Spec == Init /\ [][Next]_vars

-------------------------------------------------------------------------------
(* Properties *)

\* Every variable has its type; a loop only writes selected tensors.
TypeOK ==
    /\ theta \in [Tensors -> Vec]
    /\ infos \in SUBSET Tensors
    /\ history \in Seq(Vec)
    /\ active \in Perturbations \cup {None}
    /\ phase \in Phases
    /\ todo \in SUBSET infos
    /\ pass \in Vec
    /\ want \in Perturbations \cup {None}
    /\ goal \in Scopes \cup {None}
    /\ left \in Nat
    /\ last \in [route : Routes \cup {"none"}, ok : BOOLEAN]
    /\ faults \in 0 .. MaxFaults
    /\ snap \in Seq(Vec)
    /\ residue \in [Tensors -> Vec]

\* The weights as they were before the running request.
Settled(t) == Minus(theta[t], Written(t))

\* snap is the running sum of the recorded updates.
SnapChain ==
    /\ Len(snap) = Len(history) + 1
    /\ snap[1] = Zero
    /\ \A i \in 1 .. Len(history) : snap[i + 1] = Plus(snap[i], history[i])

\* Whenever no request is running, the live weights are the base plus every
\* recorded update plus the one active perturbation plus what passes that were
\* cut short left behind, on each selected tensor, and only that residue on the
\* others.  So without an exception a revert, a reset and a replay of the same
\* updates account for every change, and after one nothing, init included, ever
\* repairs or worsens the damage (L34-L162 of seeded_model_es.py).
WeightsAccounted ==
    phase = "idle" =>
        /\ SnapChain
        /\ faults = 0 => residue = [t \in Tensors |-> Zero]
        /\ \A t \in Tensors : theta[t] = Plus(residue[t], Recorded(t))

\* A successful init leaves base weights on every tensor, whatever requests
\* came before, also when it selects another scope than the run before it (L25-L38
\* of algorithms/es/seeded_model_es.py: init resets first).
InitLeavesBase ==
    phase = "idle" /\ last = [route |-> "init", ok |-> TRUE] =>
        /\ \A t \in Tensors : theta[t] = Zero
        /\ history = <<>> /\ active = None

\* It does so as long as no pass over the tensors was cut short.
InitRestoresBase == faults = 0 => InitLeavesBase

\* The strengthening of WeightsAccounted that every step preserves: in the
\* middle of a request too, a tensor is where the records say, displaced by the
\* residue and by what the request has written so far.
Balanced ==
    \A t \in Tensors :
        theta[t] = Plus(Plus(residue[t], Recorded(t)), Written(t))

\* What each running loop is adding, and to which records.
LoopOK ==
    /\ infos = {} => phase = "idle" /\ history = <<>> /\ active = None
    /\ phase = "idle" => todo = {}
    /\ phase = "apply" =>
          /\ active = None /\ want # None
          /\ pass = Noise(want.seed, want.sigma)
    /\ phase \in {"revert", "denoise"} =>
          /\ active # None
          /\ pass = Noise(active.seed, -active.sigma)
    /\ phase = "update" => active = None
    /\ phase = "denoise" => left = Len(history)
    /\ phase = "undo" =>
          /\ active = None
          /\ left <= Len(history)
          /\ todo # {} => /\ left < Len(history)
                          /\ pass = Minus(Zero, history[left + 1])

ResidueOK == faults = 0 => residue = [t \in Tensors |-> Zero]

IInv == TypeOK /\ SnapChain /\ LoopOK /\ ResidueOK /\ Balanced

\* The server as its clients see it: a request has its effect when its last
\* loop ends, all of it at once.  Before any exception the per-tensor loops, the
\* repeated and refused requests and the two-stage reset are what ModelES
\* promises: noise applied once and taken back exactly, updates only on
\* unperturbed weights, init and reset back to the base.
Abs == INSTANCE ModelES WITH
    theta <- [t \in Tensors |-> Settled(t)],
    log <- history

AbsStep == [Abs!Next]_(Abs!vars)

\* Every step up to the first exception is one of ModelES, or invisible.
RefinesModelES == Abs!Init /\ [][faults' = 0 => AbsStep]_vars
=============================================================================
