------------------------------ MODULE GrpoTraining ------------------------------
(***************************************************************************)
(* A GRPO training run: the PPO trainer's loop, its checkpoints on disk    *)
(* and the supervisor that starts it again until the run is accepted.  A   *)
(* job is the fixed Math run under its watchdog (every checkpoint kept) or *)
(* the DocVQA pipeline (rolling retention around protected milestones).    *)
(* The trainer dies anywhere, also in the middle of a save; the supervisor *)
(* dies with it or leaves it running.                                      *)
(***************************************************************************)
EXTENDS Naturals, FiniteSets, Sequences, SequencesExt

CONSTANTS
    Jobs,               \* the jobs' parameters, see JobShape
    Tiers,              \* the number of LIMIT_TIERS
    MaxFaults,          \* bound: deaths of the trainer and of the supervisor
    MaxLaunches         \* bound: how often a trainer is started

ASSUME JobShape ==
    \A j \in Jobs :
        /\ j.kind \in {"math", "docvqa"}
        /\ j.last \in Nat \ {0}         \* total_training_steps
        /\ j.test \in Nat               \* test_freq, 0 for -1
        /\ j.save \in Nat \ {0}         \* save_freq
        /\ j.keep \in Nat               \* max_actor_ckpt_to_keep, 0 for null
        /\ j.milestones \subseteq Nat \ {0}     \* VERL_PROTECTED_CHECKPOINT_STEPS
\* What both launchers set: the Math run keeps every checkpoint and validates
\* wherever it saves; milestones are steps that DocVQA's run saves at.
ASSUME JobKinds ==
    \A j \in Jobs :
        /\ j.kind = "math" =>
              /\ j.test > 0 /\ j.keep = 0
              /\ \A s \in 1 .. j.last : s % j.save = 0 => s % j.test = 0
        /\ \A s \in j.milestones : s % j.save = 0
ASSUME TrainingBounds ==
    Tiers \in Nat \ {0} /\ MaxFaults \in Nat /\ MaxLaunches \in Nat

VARIABLES
    job,
    train,              \* [step -> the launch that wrote its newest rollout dump]
    val,                \* the steps with a validation dump
    ckpt,               \* [step -> what global_step_<step> holds]
    tracker, torn,      \* latest_checkpointed_iteration.txt (0: no file), and
                        \* whether it was cut while it was rewritten
    pc,                 \* where fit() is: "off" when no trainer runs
    step,               \* global_steps
    model,              \* the actor: the launch that made each of its updates
    position,           \* batches the dataloader has handed out
    saved,              \* previous_saved_paths, as steps
    sup,                \* where the supervisor is
    tier, capacity,     \* its tier; the log has evidence of an OOM since its launch
    launches, faults,
    spoilt,             \* a trainer died after the checkpoint of the tracker was
                        \* removed, or while it rewrote the tracker
    halfLast,           \* a trainer died between config.json and the weights of
                        \* the last checkpoint
    orphaned            \* the watchdog died and left its trainer running

disk == <<train, val, ckpt, tracker, torn>>
trainer == <<pc, step, model, position, saved>>
supervisor == <<sup, tier, capacity, launches>>
history == <<spoilt, halfLast, orphaned>>
vars == <<job, disk, trainer, supervisor, faults, history>>

\* The parts of a checkpoint: the actor's config.json, every rank's shards, the
\* full Hugging Face weights, the dataloader's state.  "actor" is its directory.
Parts == {"actor", "config", "shards", "hf", "data"}
ActorParts == Parts \ {"data"}
NoCkpt == [parts |-> {}, of |-> <<>>, position |-> 0]
Has(s, part) == s \in DOMAIN ckpt /\ part \in ckpt[s].parts
With(f, s, v) == [x \in DOMAIN f \cup {s} |-> IF x = s THEN v ELSE f[x]]
CkptAt(s) == IF s \in DOMAIN ckpt THEN ckpt[s] ELSE NoCkpt

Due(freq) == freq > 0 /\ (step >= job.last \/ step % freq = 0)

Multiples(freq) == {s \in 1 .. job.last : s % freq = 0 \/ s = job.last}

\* A mutant of Complete: it does not expect the validation before training.
CompleteFromFirst ==
    /\ DOMAIN train = 1 .. job.last /\ val = Multiples(job.test)
    /\ DOMAIN ckpt = Multiples(job.save) /\ \A s \in DOMAIN ckpt : Has(s, "config")

\* inspect_completion: exact sets of dumps and of checkpoint directories, and a
\* config.json in each of them.
Complete ==
    /\ DOMAIN train = 1 .. job.last
    /\ val = {0} \cup Multiples(job.test)
    /\ DOMAIN ckpt = Multiples(job.save)
    /\ \A s \in DOMAIN ckpt : Has(s, "config")

\* DocVQA's pipeline trains until the tracker is at the last step, and then wants
\* a Hugging Face directory at every milestone.
Reached == IF job.kind = "math" THEN Complete ELSE tracker = job.last /\ ~torn
Accepted == Reached /\ (job.kind = "docvqa" => \A s \in job.milestones : Has(s, "config"))

\* The members of a finite set of numbers, in order.
Sorted(S) ==
    [n \in 1 .. Cardinality(S) |-> CHOOSE s \in S : Cardinality({x \in S : x <= s}) = n]

\* [path for path in paths if path in retained_set]
Filtered(paths, retained) ==
    LET places == Sorted({i \in DOMAIN paths : paths[i] \in retained})
    IN  [n \in DOMAIN places |-> paths[places[n]]]

\* unprotected[-max_ckpt_to_keep:]
Newest(paths) ==
    LET unprotected == {i \in DOMAIN paths : paths[i] \notin job.milestones}
    IN  {paths[i] : i \in {x \in unprotected :
                              Cardinality({y \in unprotected : y >= x}) <= job.keep}}

\* A mutant of Retained: milestones are not protected.
RetainedNewest(paths) == Filtered(paths, Newest(paths))
\* rolling_checkpoint_partition
Retained(paths) == Filtered(paths, job.milestones \cup Newest(paths))

Siblings == {s \in DOMAIN ckpt : Has(s, "actor")}
SiblingPaths == Sorted(Siblings)

Init ==
    /\ job \in Jobs
    /\ train = <<>> /\ val = {} /\ ckpt = <<>> /\ tracker = 0 /\ torn = FALSE
    /\ pc = "off" /\ step = 0 /\ model = <<>> /\ position = 0 /\ saved = <<>>
    /\ sup = "down" /\ tier = 0 /\ capacity = FALSE /\ launches = 0
    /\ faults = 0 /\ spoilt = FALSE /\ halfLast = FALSE /\ orphaned = FALSE
-----------------------------------------------------------------------------
(* The trainer: fit(). *)

Loadable(s) == Has(s, "shards")

\* A mutant of LoadCheckpoint: it resumes from the newest directory instead of
\* the one the tracker names.
LoadNewest ==
    /\ pc = "load" /\ ~torn
    /\ \E s \in DOMAIN ckpt \cup {0} :
          /\ \A x \in DOMAIN ckpt : x <= s
          /\ s # 0 => Loadable(s)
          /\ step' = (IF job.test > 0 THEN s ELSE s + 1)
          /\ model' = CkptAt(s).of /\ position' = CkptAt(s).position
          /\ saved' = (IF s = 0 THEN <<>> ELSE SiblingPaths)
          /\ pc' = (IF job.test > 0 THEN "val_before_train" ELSE "gen")
    /\ UNCHANGED <<job, disk, supervisor, faults, history>>

\* _load_checkpoint: without a tracker the run starts from scratch.  Only the
\* Math job validates at all, and then also before training.
LoadCheckpoint ==
    /\ pc = "load" /\ ~torn /\ (tracker # 0 => Loadable(tracker))
    /\ model' = CkptAt(tracker).of /\ position' = CkptAt(tracker).position
    /\ saved' = (IF tracker = 0 THEN <<>> ELSE SiblingPaths)
    /\ IF job.test > 0
       THEN step' = tracker /\ pc' = "val_before_train"
       ELSE step' = tracker + 1 /\ pc' = "gen"
    /\ UNCHANGED <<job, disk, supervisor, faults, history>>

Off == /\ pc' = "off" /\ step' = 0 /\ model' = <<>> /\ position' = 0 /\ saved' = <<>>

\* int("") of a torn tracker, or torch.load of shards that are gone.
LoadFails ==
    /\ pc = "load" /\ (torn \/ (tracker # 0 /\ ~Loadable(tracker)))
    /\ Off
    /\ UNCHANGED <<job, disk, supervisor, faults, history>>

InitialValidate ==
    /\ pc = "val_before_train"
    /\ val' = val \cup {step}
    /\ step' = step + 1 /\ pc' = "gen"
    /\ UNCHANGED <<job, train, ckpt, tracker, torn, model, position, saved,
                   supervisor, faults, history>>

\* A mutant of Generate: a dump that exists is not replaced.
GenerateFirstDump ==
    /\ pc = "gen" /\ pc' = "update" /\ position' = position + 1
    /\ train' = IF step \in DOMAIN train THEN train ELSE With(train, step, launches)
    /\ UNCHANGED <<job, val, ckpt, tracker, torn, step, model, saved, supervisor,
                   faults, history>>

\* The next batch is rolled out, and the rollouts are dumped before the update.
Generate ==
    /\ pc = "gen"
    /\ position' = position + 1
    /\ train' = With(train, step, launches)
    /\ pc' = "update"
    /\ UNCHANGED <<job, val, ckpt, tracker, torn, step, model, saved, supervisor,
                   faults, history>>

\* A mutant of UpdateActor: the checkpoint comes before the validation.
UpdateActorSaveFirst ==
    /\ pc = "update"
    /\ model' = Append(model, launches)
    /\ pc' = IF Due(job.save) THEN "save" ELSE IF Due(job.test) THEN "validate" ELSE "next"
    /\ UNCHANGED <<job, disk, step, position, saved, supervisor, faults, history>>

UpdateActor ==
    /\ pc = "update"
    /\ model' = Append(model, launches)
    /\ pc' = IF Due(job.test) THEN "validate" ELSE IF Due(job.save) THEN "save" ELSE "next"
    /\ UNCHANGED <<job, disk, step, position, saved, supervisor, faults, history>>

Validate ==
    /\ pc = "validate"
    /\ val' = val \cup {step}
    /\ pc' = IF Due(job.save) THEN "save" ELSE "next"
    /\ UNCHANGED <<job, train, ckpt, tracker, torn, step, model, position, saved,
                   supervisor, faults, history>>

SetCkpt(parts, of, pos) == ckpt' = With(ckpt, step, [parts |-> parts, of |-> of, position |-> pos])
SaveStep(from, to) ==
    /\ pc = from /\ pc' = to
    /\ UNCHANGED <<job, train, val, step, model, position, supervisor, faults, history>>

\* A mutant of SaveConfig: the tracker is moved before the checkpoint is there.
SaveConfigTracked ==
    /\ SaveStep("save", "shards") /\ tracker' = step
    /\ SetCkpt((CkptAt(step).parts \cup {"actor", "config"}) \ {"shards"}, <<>>,
               CkptAt(step).position)
    /\ UNCHANGED <<torn, saved>>

\* Rank 0 writes config.json while the ranks write their shards; a checkpoint
\* left by an earlier launch is overwritten in place.
SaveConfig ==
    /\ SaveStep("save", "shards")
    /\ SetCkpt((CkptAt(step).parts \cup {"actor", "config"}) \ {"shards"}, <<>>,
               CkptAt(step).position)
    /\ UNCHANGED <<tracker, torn, saved>>

SaveShards ==
    /\ SaveStep("shards", "hf")
    /\ SetCkpt((CkptAt(step).parts \cup {"shards"}) \ {"hf"}, model, CkptAt(step).position)
    /\ UNCHANGED <<tracker, torn, saved>>

SaveHfModel ==
    /\ SaveStep("hf", "prune")
    /\ SetCkpt(CkptAt(step).parts \cup {"hf"}, model, CkptAt(step).position)
    /\ saved' = Append(saved, step)
    /\ UNCHANGED <<tracker, torn>>

\* Only the actor directories of the paths that are not retained are removed.
Prune ==
    /\ SaveStep("prune", "data")
    /\ saved' = IF job.keep > 0 /\ Len(saved) > job.keep THEN Retained(saved) ELSE saved
    /\ ckpt' = [s \in DOMAIN ckpt |->
                  IF s \in Range(saved) \ Range(saved')
                  THEN [ckpt[s] EXCEPT !.parts = @ \ ActorParts, !.of = <<>>]
                  ELSE ckpt[s]]
    /\ UNCHANGED <<tracker, torn>>

SaveData ==
    /\ SaveStep("data", "track")
    /\ SetCkpt(CkptAt(step).parts \cup {"data"}, CkptAt(step).of, position)
    /\ UNCHANGED <<tracker, torn, saved>>

WriteTracker ==
    /\ SaveStep("track", "next")
    /\ tracker' = step
    /\ UNCHANGED <<ckpt, torn, saved>>

NextStep ==
    /\ pc = "next" /\ step < job.last
    /\ step' = step + 1 /\ pc' = "gen"
    /\ UNCHANGED <<job, disk, model, position, saved, supervisor, faults, history>>

Finish ==
    /\ pc = "next" /\ step >= job.last
    /\ Off
    /\ UNCHANGED <<job, disk, supervisor, faults, history>>

\* The work that can run out of memory.
OnGpu == pc \in {"val_before_train", "gen", "update", "validate", "hf"}

\* Shards, weights and the tracker are written in place: what a dying trainer
\* was writing may be cut.
Dies ==
    /\ Off
    /\ torn' \in (IF pc = "track" THEN {TRUE, torn} ELSE {torn})
    /\ spoilt' = (\/ spoilt \/ torn'
                  \/ /\ pc \in {"data", "track"} /\ job.keep > 0
                     /\ tracker \notin job.milestones \cup {0})
    /\ halfLast' = (halfLast \/ (pc \in {"shards", "hf"} /\ step = job.last))
    /\ UNCHANGED <<job, train, val, ckpt, tracker>>

TrainerDies ==
    /\ pc # "off" /\ faults < MaxFaults
    /\ faults' = faults + 1
    /\ capacity' \in (IF OnGpu THEN {TRUE, capacity} ELSE {capacity})
    /\ Dies
    /\ UNCHANGED <<sup, tier, launches, orphaned>>
-----------------------------------------------------------------------------
(* The supervisor: run_training_until_complete.py, or the DocVQA pipeline's  *)
(* training stage, each started again whenever it ends without success.      *)

SupervisorStep(from, to) ==
    /\ sup = from /\ sup' = to
    /\ UNCHANGED <<job, disk, faults, history>>

Start ==
    /\ SupervisorStep("down", "inspect")
    /\ tier' = 0
    /\ UNCHANGED <<trainer, capacity, launches>>

Accept ==
    /\ Accepted /\ SupervisorStep("inspect", "accepted")
    /\ UNCHANGED <<trainer, tier, capacity, launches>>

\* The watchdog polls until the GPUs are free; it does not look again whether
\* the run has become complete.
Wait ==
    /\ ~Accepted /\ SupervisorStep("inspect", IF Reached THEN "down" ELSE "wait")
    /\ UNCHANGED <<trainer, tier, capacity, launches>>

Launch ==
    /\ pc = "off" /\ launches < MaxLaunches
    /\ SupervisorStep("wait", "child")
    /\ launches' = launches + 1 /\ pc' = "load" /\ capacity' = FALSE
    /\ UNCHANGED <<step, model, position, saved, tier>>

Reap(to) == pc = "off" /\ SupervisorStep("child", to) /\ UNCHANGED <<trainer, launches>>

ReapAccepted == Accepted /\ Reap("accepted") /\ UNCHANGED <<tier, capacity>>
\* The pipeline script has no tiers: it fails and is started again.
ReapTransient ==
    /\ ~Accepted /\ (job.kind = "math" => ~capacity)
    /\ Reap(IF job.kind = "math" THEN "inspect" ELSE "down")
    /\ UNCHANGED <<tier, capacity>>
\* A mutant of ReapCapacity: there is always a lower tier.
ReapCapacityAlways ==
    /\ ~Accepted /\ job.kind = "math" /\ capacity
    /\ Reap("inspect") /\ tier' = tier + 1 /\ UNCHANGED capacity
ReapCapacity ==
    /\ ~Accepted /\ job.kind = "math" /\ capacity /\ tier + 1 < Tiers
    /\ Reap("inspect") /\ tier' = tier + 1 /\ UNCHANGED capacity
ReapLowestTier ==
    /\ ~Accepted /\ job.kind = "math" /\ capacity /\ tier + 1 >= Tiers
    /\ Reap("gave_up") /\ UNCHANGED <<tier, capacity>>

\* The supervisor ends with its trainer (Ctrl-C, a reboot) ...
StopAll ==
    /\ sup \in {"inspect", "wait", "child"} /\ faults < MaxFaults
    /\ faults' = faults + 1 /\ sup' = "down"
    /\ Dies
    /\ UNCHANGED <<tier, capacity, launches, orphaned>>

\* ... or the watchdog alone: the trainer has a session of its own.
WatchdogDies ==
    /\ job.kind = "math" /\ sup = "child" /\ pc # "off" /\ faults < MaxFaults
    /\ faults' = faults + 1 /\ sup' = "down" /\ orphaned' = TRUE
    /\ UNCHANGED <<job, disk, trainer, tier, capacity, launches, spoilt, halfLast>>

Settled == /\ pc = "off"
           /\ sup \in {"accepted", "gave_up"} \/ (sup = "wait" /\ launches = MaxLaunches)
Stopped == Settled /\ UNCHANGED vars

TrainerNext ==
    \/ LoadCheckpoint \/ LoadFails \/ InitialValidate \/ Generate \/ UpdateActor
    \/ Validate \/ SaveConfig \/ SaveShards \/ SaveHfModel \/ Prune \/ SaveData
    \/ WriteTracker \/ NextStep \/ Finish
SupervisorNext ==
    \/ Start \/ Accept \/ Wait \/ Launch \/ ReapAccepted \/ ReapTransient
    \/ ReapCapacity \/ ReapLowestTier
Next == TrainerNext \/ SupervisorNext \/ TrainerDies \/ StopAll \/ WatchdogDies \/ Stopped

Spec == Init /\ [][Next]_vars
\* The trainer and the supervisor keep running, and both programs are started
\* again by their caller.
FairSpec == Spec /\ WF_vars(TrainerNext) /\ WF_vars(SupervisorNext)
-----------------------------------------------------------------------------
Training == pc \notin {"off", "load"}

TypeOK ==
    /\ job \in Jobs
    /\ DOMAIN train \subseteq Nat /\ \A s \in DOMAIN train : train[s] \in 1 .. launches
    /\ val \subseteq Nat /\ DOMAIN ckpt \subseteq Nat \ {0}
    /\ \A s \in DOMAIN ckpt : /\ ckpt[s].parts \subseteq Parts
                              /\ ckpt[s].of \in Seq(Nat) /\ ckpt[s].position \in Nat
    /\ tracker \in Nat /\ torn \in BOOLEAN
    /\ pc \in {"off", "load", "val_before_train", "gen", "update", "validate", "save",
               "shards", "hf", "prune", "data", "track", "next"}
    /\ step \in Nat /\ model \in Seq(Nat) /\ position \in Nat /\ saved \in Seq(Nat)
    /\ sup \in {"down", "inspect", "wait", "child", "accepted", "gave_up"}
    /\ tier \in 0 .. Tiers - 1 /\ capacity \in BOOLEAN
    /\ launches \in 0 .. MaxLaunches /\ faults \in 0 .. MaxFaults
    /\ spoilt \in BOOLEAN /\ halfLast \in BOOLEAN /\ orphaned \in BOOLEAN

\* Every checkpoint up to the tracker that still has its shards was trained on
\* exactly the rollouts whose newest dumps lie on disk, step by step, from the
\* first batch on, whatever was redone after crashes in between.
DumpsAreLineage ==
    \A c \in DOMAIN ckpt :
        (c <= tracker /\ Loadable(c)) =>
            /\ Len(ckpt[c].of) = c /\ ckpt[c].position = c
            /\ \A s \in 1 .. c : s \in DOMAIN train /\ train[s] = ckpt[c].of[s]

\* A running trainer has consumed as many batches as its model has updates,
\* and never works below the tracker.
InStep ==
    Training =>
        /\ step >= tracker
        /\ Len(model) = step - (IF pc \in {"gen", "update"} THEN 1 ELSE 0)
        /\ position = step - (IF pc = "gen" THEN 1 ELSE 0)

\* What the tracker names can be loaded, unless a trainer died between the
\* removal of the checkpoint it names and the end of its rewriting.
ResumePoint ==
    (~spoilt /\ pc \notin {"data", "track"}) =>
        ~torn /\ (tracker # 0 => Loadable(tracker))

\* Rolling retention never takes a milestone, every milestone up to the tracker
\* keeps its Hugging Face model, and beside the milestones at most keep
\* checkpoints, and the one being saved or left by a dead trainer, have an actor.
Retention ==
    /\ \A s \in job.milestones : s <= tracker => Has(s, "shards") /\ Has(s, "hf")
    /\ job.keep > 0 =>
          Cardinality({s \in DOMAIN ckpt \ job.milestones : Has(s, "actor")}) <= job.keep + 1

\* Unless the watchdog died and left its trainer running, no trainer goes past the
\* last step: when the tracker is there the Math run is complete.  An accepted
\* run has the Hugging Face model that is evaluated next, except when a Math
\* trainer died, or outlived its watchdog, in the last save.
LastIsComplete ==
    /\ ~orphaned => /\ step <= job.last
                    /\ (job.kind = "math" /\ tracker = job.last) => Complete
    /\ (sup = "accepted" /\ ~Has(job.last, "hf")) =>
          job.kind = "math" /\ (halfLast \/ orphaned)

\* README of trace2skill: the number of epochs is fixed.
ExactlyLast == step <= job.last

\* Every run ends accepted or at its lowest tier, unless its resume point was
\* spoilt or its watchdog died and left a trainer running.
Settles == <>(sup \in {"accepted", "gave_up"} \/ spoilt \/ orphaned)
=============================================================================
