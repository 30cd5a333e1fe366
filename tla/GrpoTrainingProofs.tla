-------------------------- MODULE GrpoTrainingProofs --------------------------
(***************************************************************************)
(* Proofs about GrpoTraining: whatever dies and is redone, a checkpoint up *)
(* to the tracker was trained on the rollouts whose dumps lie on disk.     *)
(***************************************************************************)
EXTENDS GrpoTraining, FiniteSetTheorems, TLAPS

Checkpoints == [parts : SUBSET Parts, of : Seq(Nat), position : Nat]

\* The types the argument rests on.
Types ==
    /\ job \in Jobs
    /\ DOMAIN train \subseteq Nat /\ \A s \in DOMAIN train : train[s] \in Nat
    /\ DOMAIN ckpt \subseteq Nat \ {0}
    /\ \A s \in DOMAIN ckpt : ckpt[s] \in Checkpoints
    /\ tracker \in Nat /\ step \in Nat /\ launches \in Nat
    /\ model \in Seq(Nat) /\ position \in Nat

\* The actor's updates so far were made on the rollouts on disk, and the one
\* being made is on this launch's.
ModelOnDumps ==
    Training =>
        /\ \A s \in 1 .. Len(model) : s \in DOMAIN train /\ train[s] = model[s]
        /\ pc = "update" => step \in DOMAIN train /\ train[step] = launches

\* A save in progress is of the actor as it is.
SaveOfModel ==
    /\ (pc \in {"hf", "prune", "data", "track"} /\ Loadable(step)) =>
            ckpt[step].of = model
    /\ (pc = "track" /\ Loadable(step)) => ckpt[step].position = position

\* Only work past the tracker is redone.
PastTracker ==
    pc \in {"gen", "update", "validate", "save", "shards", "hf", "prune", "data", "track"}
        => step > tracker

\* A step past the tracker at which there is a checkpoint is still to be redone:
\* a launch saves at the same steps as those before it, and does not pass one
\* without moving the tracker.
DueToSave(s) == s >= job.last \/ s % job.save = 0
SavesRedone ==
    /\ \A c \in DOMAIN ckpt : DueToSave(c)
    /\ Training => \A c \in DOMAIN ckpt : c > tracker => c >= step
    /\ pc \in {"save", "shards", "hf", "prune", "data", "track"} => DueToSave(step)
    /\ pc = "next" /\ DueToSave(step) => step = tracker
    /\ pc = "val_before_train" => step = tracker

PcOK == pc \in {"off", "load", "val_before_train", "gen", "update", "validate",
                "save", "shards", "hf", "prune", "data", "track", "next"}

IInv == /\ Types /\ PcOK /\ InStep /\ ModelOnDumps /\ SaveOfModel /\ PastTracker
        /\ SavesRedone /\ DumpsAreLineage

\* save_freq is positive, so fit() saves exactly when a save is due.
LEMMA DueSave == IInv => (Due(job.save) <=> DueToSave(step))
  BY JobShape DEF IInv, Types, Due, DueToSave

\* The invariant holds when nothing has been launched.
LEMMA InitInv == Init => IInv
  BY DEF Init, IInv, Types, PcOK, InStep, ModelOnDumps, SaveOfModel, PastTracker,
         DumpsAreLineage, SavesRedone, DueToSave, Training, Loadable, Has

\* A trainer that is off or loading owes nothing but what lies on disk.
LEMMA Ended ==
    ASSUME IInv, job' = job, train' = train, ckpt' = ckpt, tracker' = tracker,
           launches' \in Nat, pc' \in {"off", "load"},
           step' = 0, model' = <<>>, position' = 0
    PROVE  IInv'
  BY DEF IInv, Types, PcOK, InStep, ModelOnDumps, SaveOfModel, PastTracker,
         DumpsAreLineage, SavesRedone, DueToSave, Training, Loadable, Has

\* Loading takes the model and the position of the checkpoint the tracker names.
LEMMA LoadStep == IInv /\ LoadCheckpoint => IInv'
  <1> SUFFICES ASSUME IInv, LoadCheckpoint PROVE IInv'
    OBVIOUS
  <1> USE DEF IInv
  <1>1. UNCHANGED disk /\ job' = job /\ launches' = launches
    BY DEF LoadCheckpoint, disk, supervisor
  <1>2. Len(model') = tracker /\ position' = tracker /\ model' \in Seq(Nat)
        /\ \A s \in 1 .. tracker : s \in DOMAIN train /\ train[s] = model'[s]
    <2>1. CASE tracker = 0
      <3>1. CkptAt(tracker) = NoCkpt
        BY <2>1 DEF Types, CkptAt
      <3>2. model' = <<>> /\ position' = 0
        BY <3>1 DEF LoadCheckpoint, NoCkpt
      <3> QED
        BY <2>1, <3>2
    <2>2. CASE tracker # 0
      <3>1. tracker \in DOMAIN ckpt /\ Loadable(tracker) /\ CkptAt(tracker) = ckpt[tracker]
        BY <2>2 DEF LoadCheckpoint, Loadable, Has, CkptAt
      <3>2. tracker <= tracker /\ ckpt[tracker].of \in Seq(Nat)
        BY <3>1 DEF Types, Checkpoints
      <3>3. /\ Len(ckpt[tracker].of) = tracker /\ ckpt[tracker].position = tracker
            /\ \A s \in 1 .. tracker : s \in DOMAIN train /\ train[s] = ckpt[tracker].of[s]
        BY <3>1, <3>2 DEF DumpsAreLineage
      <3>4. model' = ckpt[tracker].of /\ position' = ckpt[tracker].position
        BY <3>1 DEF LoadCheckpoint
      <3> QED
        BY <3>2, <3>3, <3>4
    <2> QED
      BY <2>1, <2>2
  <1>3. Types'
    BY <1>1, <1>2 DEF Types, LoadCheckpoint, disk
  <1>4. pc' \in {"val_before_train", "gen"} /\ PcOK'
    BY DEF LoadCheckpoint, PcOK
  <1>5. \/ step' = tracker /\ pc' = "val_before_train"
        \/ step' = tracker + 1 /\ pc' = "gen"
    BY DEF LoadCheckpoint
  <1>6. InStep' /\ PastTracker'
    BY <1>1, <1>2, <1>5 DEF InStep, PastTracker, disk, Types
  <1>7. ModelOnDumps'
    BY <1>1, <1>2, <1>4 DEF ModelOnDumps, disk
  <1>8. SaveOfModel'
    BY <1>4 DEF SaveOfModel
  <1>9. DumpsAreLineage'
    BY <1>1 DEF DumpsAreLineage, disk, Loadable, Has
  <1>10. SavesRedone'
    BY <1>1, <1>3, <1>5 DEF SavesRedone, DueToSave, disk, Types
  <1> QED
    BY <1>3, <1>4, <1>6, <1>7, <1>8, <1>9, <1>10

\* Rolling out overwrites the dump of a step past the tracker only.
LEMMA GenerateStep == IInv /\ Generate => IInv'
  <1> SUFFICES ASSUME IInv, Generate PROVE IInv'
    OBVIOUS
  <1> USE DEF IInv
  <1>1. /\ pc = "gen" /\ pc' = "update" /\ step > tracker
        /\ UNCHANGED <<job, ckpt, tracker, step, model, launches>>
        /\ position' = position + 1
        /\ Len(model) = step - 1 /\ position = step - 1
    <2>1. pc = "gen" /\ pc' = "update" /\ position' = position + 1
          /\ UNCHANGED <<job, ckpt, tracker, step, model, launches>>
      BY DEF Generate, supervisor
    <2> QED
      BY <2>1 DEF InStep, PastTracker, Training, Types
  <1>2. /\ DOMAIN train' = DOMAIN train \cup {step} /\ train'[step] = launches
        /\ \A x \in DOMAIN train : x # step => train'[x] = train[x]
    <2>1. train' = With(train, step, launches)
      BY DEF Generate
    <2> QED
      BY <2>1 DEF With
  <1>3. Types'
    BY <1>1, <1>2 DEF Types
  <1>4. PcOK' /\ InStep' /\ PastTracker' /\ SaveOfModel' /\ SavesRedone'
    BY <1>1 DEF PcOK, InStep, PastTracker, SaveOfModel, SavesRedone, DueToSave, Training, Types
  <1>5. ModelOnDumps'
    BY <1>1, <1>2 DEF ModelOnDumps, Training, Types
  <1>6. DumpsAreLineage'
    <2> SUFFICES ASSUME NEW c \in DOMAIN ckpt, c <= tracker, Loadable(c)
                 PROVE  /\ Len(ckpt[c].of) = c /\ ckpt[c].position = c
                        /\ \A s \in 1 .. c : s \in DOMAIN train' /\ train'[s] = ckpt[c].of[s]
      BY <1>1 DEF DumpsAreLineage, Loadable, Has
    <2>1. \A s \in 1 .. c : s # step
      BY <1>1 DEF Types
    <2> QED
      BY <1>2, <2>1 DEF DumpsAreLineage
  <1> QED
    BY <1>3, <1>4, <1>5, <1>6

\* The update is made on the dump just written.
LEMMA UpdateStep == IInv /\ UpdateActor => IInv'
  <1> SUFFICES ASSUME IInv, UpdateActor PROVE IInv'
    OBVIOUS
  <1> USE DEF IInv
  <1>1. /\ pc = "update" /\ pc' \in {"validate", "save", "next"}
        /\ UNCHANGED <<job, train, ckpt, tracker, step, position, launches>>
        /\ model' = Append(model, launches) /\ Len(model) = step - 1 /\ position = step
        /\ step > tracker
    <2>1. /\ pc = "update" /\ pc' \in {"validate", "save", "next"}
          /\ UNCHANGED <<job, train, ckpt, tracker, step, position, launches>>
          /\ model' = Append(model, launches)
      BY DEF UpdateActor, disk, supervisor
    <2>2. Len(model) = step - 1 /\ position = step /\ step > tracker
      BY <2>1 DEF InStep, PastTracker, Training, Types
    <2> QED
      BY <2>1, <2>2
  <1>2. /\ model' \in Seq(Nat) /\ Len(model') = step /\ model'[step] = launches
        /\ \A s \in 1 .. Len(model) : model'[s] = model[s]
    BY <1>1 DEF Types
  <1>3. Types' /\ PcOK' /\ InStep' /\ PastTracker' /\ SaveOfModel' /\ DumpsAreLineage'
    BY <1>1, <1>2 DEF Types, PcOK, InStep, PastTracker, SaveOfModel, DumpsAreLineage,
                      Loadable, Has
  <1>4. ModelOnDumps'
    BY <1>1, <1>2 DEF ModelOnDumps, Training, Types
  <1>5. SavesRedone'
    <2>1. (pc' = "save" => DueToSave(step)) /\ (pc' = "next" => ~DueToSave(step))
      BY DueSave DEF UpdateActor
    <2> QED
      BY <1>1, <2>1 DEF SavesRedone, DueToSave, Training
  <1> QED
    BY <1>3, <1>4, <1>5

\* What is at the step's directory has the type of a checkpoint.
LEMMA CkptType ==
    ASSUME IInv PROVE CkptAt(step) \in Checkpoints
  <1>1. NoCkpt \in Checkpoints
    BY DEF NoCkpt, Checkpoints, Parts
  <1> QED
    BY <1>1 DEF CkptAt, IInv, Types

\* A step of a save: the trainer's other variables rest, and no checkpoint up to
\* the tracker changes, except that it may lose its shards.
LEMMA SaveKeeps ==
    ASSUME IInv, NEW from \in {"save", "shards", "hf", "prune", "data"},
           NEW to \in {"shards", "hf", "prune", "data", "track"},
           SaveStep(from, to), tracker' = tracker,
           DOMAIN ckpt' \subseteq DOMAIN ckpt \cup {step},
           \A s \in DOMAIN ckpt' : ckpt'[s] \in Checkpoints,
           \A s \in DOMAIN ckpt' : s # step /\ "shards" \in ckpt'[s].parts =>
                s \in DOMAIN ckpt /\ ckpt'[s] = ckpt[s],
           SaveOfModel'
    PROVE  IInv'
  <1> USE DEF IInv
  <1>1. /\ pc = from /\ pc' = to /\ step > tracker
        /\ UNCHANGED <<job, train, tracker, step, model, position, launches>>
    BY DEF SaveStep, supervisor, PastTracker
  <1>2. Types'
    BY <1>1 DEF Types
  <1>3. PcOK' /\ PastTracker'
    BY <1>1 DEF PcOK, PastTracker
  <1>4. InStep'
    <2>1. Len(model) = step /\ position = step /\ step >= tracker
      BY <1>1 DEF InStep, Training, Types
    <2> QED
      BY <1>1, <2>1 DEF InStep, Types
  <1>5. ModelOnDumps'
    BY <1>1 DEF ModelOnDumps, Training
  <1>6. DumpsAreLineage'
    <2> SUFFICES ASSUME NEW c \in DOMAIN ckpt', c <= tracker, "shards" \in ckpt'[c].parts
                 PROVE  /\ Len(ckpt'[c].of) = c /\ ckpt'[c].position = c
                        /\ \A s \in 1 .. c : s \in DOMAIN train /\ train[s] = ckpt'[c].of[s]
      BY <1>1 DEF DumpsAreLineage, Loadable, Has
    <2>1. c # step
      BY <1>1 DEF Types
    <2>2. c \in DOMAIN ckpt /\ ckpt'[c] = ckpt[c]
      BY <2>1
    <2> QED
      BY <2>2 DEF DumpsAreLineage, Loadable, Has
  <1>7. SavesRedone'
    BY <1>1 DEF SavesRedone, DueToSave, Training, Types
  <1> QED
    BY <1>2, <1>3, <1>4, <1>5, <1>6, <1>7

\* A save that writes to the checkpoint of its own step only.
LEMMA SaveWrites ==
    ASSUME IInv, NEW from \in {"save", "shards", "hf", "data"},
           NEW to \in {"shards", "hf", "prune", "track"},
           SaveStep(from, to), tracker' = tracker,
           NEW parts \in SUBSET Parts, NEW of \in Seq(Nat), NEW pos \in Nat,
           SetCkpt(parts, of, pos),
           to # "shards" /\ "shards" \in parts => of = model,
           to = "track" => pos = position
    PROVE  IInv'
  <1> DEFINE new == [parts |-> parts, of |-> of, position |-> pos]
  <1>1. ckpt' = With(ckpt, step, new)
    BY DEF SetCkpt
  <1>2. /\ DOMAIN ckpt' = DOMAIN ckpt \cup {step} /\ ckpt'[step] = new
        /\ \A s \in DOMAIN ckpt : s # step => ckpt'[s] = ckpt[s]
    BY <1>1 DEF With
  <1>3. new \in Checkpoints
    BY DEF Checkpoints
  <1>4. \A s \in DOMAIN ckpt' : ckpt'[s] \in Checkpoints
    BY <1>2, <1>3 DEF IInv, Types
  <1>5. SaveOfModel'
    <2>1. pc' = to /\ UNCHANGED <<step, model, position>>
      BY DEF SaveStep
    <2> QED
      BY <1>2, <2>1 DEF SaveOfModel, Loadable, Has
  <1> QED
    BY <1>2, <1>4, <1>5, SaveKeeps

\* The five writes of a save before the tracker.
LEMMA SaveConfigStep == IInv /\ SaveConfig => IInv'
  <1> SUFFICES ASSUME IInv, SaveConfig PROVE IInv'
    OBVIOUS
  <1> DEFINE parts == (CkptAt(step).parts \cup {"actor", "config"}) \ {"shards"}
  <1>1. SaveStep("save", "shards") /\ tracker' = tracker
        /\ SetCkpt(parts, <<>>, CkptAt(step).position)
    BY DEF SaveConfig
  <1>2. parts \in SUBSET Parts /\ <<>> \in Seq(Nat) /\ CkptAt(step).position \in Nat
    BY CkptType DEF Checkpoints, Parts
  <1> HIDE DEF parts
  <1> QED
    BY <1>1, <1>2, SaveWrites

\* The shards are those of the running model.
LEMMA SaveShardsStep == IInv /\ SaveShards => IInv'
  <1> SUFFICES ASSUME IInv, SaveShards PROVE IInv'
    OBVIOUS
  <1> DEFINE parts == (CkptAt(step).parts \cup {"shards"}) \ {"hf"}
  <1>1. SaveStep("shards", "hf") /\ tracker' = tracker
        /\ SetCkpt(parts, model, CkptAt(step).position)
    BY DEF SaveShards
  <1>2. parts \in SUBSET Parts /\ model \in Seq(Nat) /\ CkptAt(step).position \in Nat
    BY CkptType DEF Checkpoints, Parts, IInv, Types
  <1> HIDE DEF parts
  <1> QED
    BY <1>1, <1>2, SaveWrites

\* The Hugging Face model is exported beside the shards it is made from.
LEMMA SaveHfStep == IInv /\ SaveHfModel => IInv'
  <1> SUFFICES ASSUME IInv, SaveHfModel PROVE IInv'
    OBVIOUS
  <1> DEFINE parts == CkptAt(step).parts \cup {"hf"}
  <1>1. SaveStep("hf", "prune") /\ tracker' = tracker
        /\ SetCkpt(parts, model, CkptAt(step).position)
    BY DEF SaveHfModel
  <1>2. parts \in SUBSET Parts /\ model \in Seq(Nat) /\ CkptAt(step).position \in Nat
    BY CkptType DEF Checkpoints, Parts, IInv, Types
  <1> HIDE DEF parts
  <1> QED
    BY <1>1, <1>2, SaveWrites

\* The dataloader's position comes last, beside shards that are already there.
LEMMA SaveDataStep == IInv /\ SaveData => IInv'
  <1> SUFFICES ASSUME IInv, SaveData PROVE IInv'
    OBVIOUS
  <1> DEFINE parts == CkptAt(step).parts \cup {"data"}
             of == CkptAt(step).of
  <1>1. SaveStep("data", "track") /\ tracker' = tracker /\ SetCkpt(parts, of, position)
    BY DEF SaveData
  <1>2. parts \in SUBSET Parts /\ of \in Seq(Nat) /\ position \in Nat
    BY CkptType DEF Checkpoints, Parts, IInv, Types
  <1>3. "shards" \in parts => of = model
    <2>1. "shards" \in parts => Loadable(step) /\ CkptAt(step) = ckpt[step]
      BY DEF Loadable, Has, CkptAt, NoCkpt
    <2>2. pc = "data"
      BY <1>1 DEF SaveStep
    <2> QED
      BY <2>1, <2>2 DEF IInv, SaveOfModel
  <1> HIDE DEF parts, of
  <1> QED
    BY <1>1, <1>2, <1>3, SaveWrites

\* Retention takes whole actors, so what has shards still has the model they are of.
LEMMA PruneStep == IInv /\ Prune => IInv'
  <1> SUFFICES ASSUME IInv, Prune PROVE IInv'
    OBVIOUS
  <1> DEFINE gone == Range(saved) \ Range(saved')
  <1>1. SaveStep("prune", "data") /\ tracker' = tracker
        /\ ckpt' = [s \in DOMAIN ckpt |->
                      IF s \in gone
                      THEN [ckpt[s] EXCEPT !.parts = @ \ ActorParts, !.of = <<>>]
                      ELSE ckpt[s]]
    BY DEF Prune
  <1> HIDE DEF gone
  <1>2. ASSUME NEW s \in DOMAIN ckpt'
        PROVE  /\ s \in DOMAIN ckpt /\ ckpt'[s] \in Checkpoints
               /\ "shards" \in ckpt'[s].parts => ckpt'[s] = ckpt[s]
    <2>1. s \in DOMAIN ckpt /\ ckpt[s] \in Checkpoints
      BY <1>1 DEF IInv, Types
    <2>2. CASE s \in gone
      <3>1. ckpt'[s] = [ckpt[s] EXCEPT !.parts = @ \ ActorParts, !.of = <<>>]
        BY <1>1, <2>1, <2>2
      <3>2. ckpt'[s] = [parts |-> ckpt[s].parts \ ActorParts, of |-> <<>>,
                        position |-> ckpt[s].position]
        BY <2>1, <3>1 DEF Checkpoints
      <3>3. "shards" \in ActorParts
        BY DEF ActorParts, Parts
      <3> QED
        BY <2>1, <3>2, <3>3 DEF Checkpoints
    <2>3. CASE s \notin gone
      BY <1>1, <2>1, <2>3
    <2> QED
      BY <2>2, <2>3
  <1>3. DOMAIN ckpt' = DOMAIN ckpt
    BY <1>1
  <1>4. SaveOfModel'
    BY <1>1, <1>2 DEF SaveOfModel, SaveStep, IInv, Loadable, Has
  <1> QED
    BY <1>1, <1>2, <1>3, <1>4, SaveKeeps

\* The tracker moves on to a checkpoint of the actor as it is.
LEMMA TrackerStep == IInv /\ WriteTracker => IInv'
  <1> SUFFICES ASSUME IInv, WriteTracker PROVE IInv'
    OBVIOUS
  <1> USE DEF IInv
  <1>1. /\ pc = "track" /\ pc' = "next" /\ tracker' = step /\ step > tracker
        /\ UNCHANGED <<job, train, ckpt, step, model, position, launches>>
    BY DEF WriteTracker, SaveStep, supervisor, PastTracker
  <1>2. Len(model) = step /\ position = step
    BY <1>1 DEF InStep, Training, Types
  <1>3. Types' /\ PcOK' /\ InStep' /\ PastTracker' /\ SaveOfModel'
    BY <1>1, <1>2 DEF Types, PcOK, InStep, PastTracker, SaveOfModel
  <1>4. ModelOnDumps'
    BY <1>1 DEF ModelOnDumps, Training
  <1>5. DumpsAreLineage'
    <2> SUFFICES ASSUME NEW c \in DOMAIN ckpt, c <= step, Loadable(c)
                 PROVE  /\ Len(ckpt[c].of) = c /\ ckpt[c].position = c
                        /\ \A s \in 1 .. c : s \in DOMAIN train /\ train[s] = ckpt[c].of[s]
      BY <1>1 DEF DumpsAreLineage, Loadable, Has
    <2>1. CASE c <= tracker
      BY <2>1 DEF DumpsAreLineage
    <2>2. CASE c > tracker
      <3>1. c = step
        BY <1>1, <2>2 DEF SavesRedone, Training, Types
      <3>2. ckpt[c].of = model /\ ckpt[c].position = position
        BY <1>1, <3>1 DEF SaveOfModel
      <3> QED
        BY <1>1, <1>2, <3>1, <3>2 DEF ModelOnDumps, Training
    <2> QED
      BY <1>1, <2>1, <2>2 DEF Types
  <1>6. SavesRedone'
    BY <1>1 DEF SavesRedone, DueToSave, Training, Types
  <1> QED
    BY <1>3, <1>4, <1>5, <1>6

\* The validations and the end of a step.
LEMMA InitialValidateStep == IInv /\ InitialValidate => IInv'
  <1> SUFFICES ASSUME IInv, InitialValidate PROVE IInv'
    OBVIOUS
  <1> USE DEF IInv
  <1>1. /\ pc = "val_before_train" /\ pc' = "gen" /\ step' = step + 1
        /\ UNCHANGED <<job, train, ckpt, tracker, model, position, launches>>
    BY DEF InitialValidate, supervisor
  <1>2. Len(model) = step /\ position = step /\ step = tracker
    BY <1>1 DEF InStep, SavesRedone, Training, Types
  <1>3. Types' /\ PcOK' /\ InStep' /\ PastTracker' /\ SaveOfModel'
    BY <1>1, <1>2 DEF Types, PcOK, InStep, PastTracker, SaveOfModel
  <1>4. ModelOnDumps' /\ DumpsAreLineage'
    BY <1>1 DEF ModelOnDumps, DumpsAreLineage, Training, Loadable, Has
  <1>5. SavesRedone'
    BY <1>1, <1>2 DEF SavesRedone, DueToSave, Training, Types
  <1> QED
    BY <1>3, <1>4, <1>5

\* A validation changes nothing a checkpoint holds.
LEMMA ValidateStep == IInv /\ Validate => IInv'
  <1> SUFFICES ASSUME IInv, Validate PROVE IInv'
    OBVIOUS
  <1> USE DEF IInv
  <1>1. /\ pc = "validate" /\ pc' \in {"save", "next"}
        /\ (pc' = "save" => DueToSave(step)) /\ (pc' = "next" => ~DueToSave(step))
        /\ UNCHANGED <<job, train, ckpt, tracker, step, model, position, launches>>
    BY DueSave DEF Validate, supervisor
  <1>2. Len(model) = step /\ position = step /\ step > tracker
    BY <1>1 DEF InStep, PastTracker, Training, Types
  <1>3. Types' /\ PcOK' /\ InStep' /\ PastTracker' /\ SaveOfModel'
    BY <1>1, <1>2 DEF Types, PcOK, InStep, PastTracker, SaveOfModel
  <1>4. ModelOnDumps' /\ DumpsAreLineage'
    BY <1>1 DEF ModelOnDumps, DumpsAreLineage, Training, Loadable, Has
  <1>5. SavesRedone'
    BY <1>1 DEF SavesRedone, DueToSave, Training
  <1> QED
    BY <1>3, <1>4, <1>5

\* The next step comes after a save when one was due.
LEMMA NextStepStep == IInv /\ NextStep => IInv'
  <1> SUFFICES ASSUME IInv, NextStep PROVE IInv'
    OBVIOUS
  <1> USE DEF IInv
  <1>1. /\ pc = "next" /\ pc' = "gen" /\ step' = step + 1
        /\ UNCHANGED <<job, train, ckpt, tracker, model, position, launches>>
    BY DEF NextStep, disk, supervisor
  <1>2. Len(model) = step /\ position = step /\ step >= tracker
    BY <1>1 DEF InStep, Training, Types
  <1>3. Types' /\ PcOK' /\ InStep' /\ PastTracker' /\ SaveOfModel'
    BY <1>1, <1>2 DEF Types, PcOK, InStep, PastTracker, SaveOfModel
  <1>4. ModelOnDumps' /\ DumpsAreLineage'
    BY <1>1 DEF ModelOnDumps, DumpsAreLineage, Training, Loadable, Has
  <1>5. SavesRedone'
    <2>1. \A c \in DOMAIN ckpt : c > tracker => c >= step /\ c # step
      BY <1>1 DEF SavesRedone, Training, Types
    <2> QED
      BY <1>1, <2>1 DEF SavesRedone, DueToSave, Training, Types
  <1> QED
    BY <1>3, <1>4, <1>5

\* A trainer that ends or dies, and one that is started.
LEMMA OffStep ==
    ASSUME IInv, LoadFails \/ Finish \/ TrainerDies \/ StopAll
    PROVE  IInv'
  <1>1. /\ UNCHANGED <<job, train, ckpt, tracker, launches>>
        /\ pc' = "off" /\ step' = 0 /\ model' = <<>> /\ position' = 0
    BY DEF LoadFails, Finish, TrainerDies, StopAll, Dies, Off, disk, supervisor
  <1>2. launches' \in Nat
    BY <1>1 DEF IInv, Types
  <1> QED
    BY <1>1, <1>2, Ended

\* Steps of the supervisor leave the trainer and the disk alone.
LEMMA Rests ==
    ASSUME IInv, UNCHANGED <<job, disk, trainer, launches>>
    PROVE  IInv'
  BY DEF IInv, Types, PcOK, InStep, ModelOnDumps, SaveOfModel, PastTracker, SavesRedone,
         DueToSave, DumpsAreLineage, Training, Loadable, Has, disk, trainer

\* A launched trainer has not loaded yet.
LEMMA LaunchStep == IInv /\ Launch => IInv'
  <1> SUFFICES ASSUME IInv, Launch PROVE IInv'
    OBVIOUS
  <1>1. /\ pc = "off" /\ pc' = "load" /\ launches' = launches + 1
        /\ UNCHANGED <<job, train, ckpt, tracker, step, model, position>>
    BY DEF Launch, SupervisorStep, disk
  <1> QED
    BY <1>1 DEF IInv, Types, PcOK, InStep, ModelOnDumps, SaveOfModel, PastTracker,
         SavesRedone, DueToSave, DumpsAreLineage, Training, Loadable, Has

\* Every step keeps the invariant.
LEMMA StepInv == IInv /\ [Next]_vars => IInv'
  <1> SUFFICES ASSUME IInv, [Next]_vars PROVE IInv'
    OBVIOUS
  <1>1. CASE TrainerNext
    BY <1>1, LoadStep, InitialValidateStep, GenerateStep, UpdateStep, ValidateStep,
       SaveConfigStep, SaveShardsStep, SaveHfStep, PruneStep, SaveDataStep, TrackerStep,
       NextStepStep, OffStep DEF TrainerNext
  <1>2. CASE SupervisorNext
    <2>1. CASE Launch
      BY <2>1, LaunchStep
    <2>2. CASE Start \/ Accept \/ Wait \/ ReapAccepted \/ ReapTransient
                 \/ ReapCapacity \/ ReapLowestTier
      BY <2>2, Rests DEF Start, Accept, Wait, ReapAccepted, ReapTransient, ReapCapacity,
                         ReapLowestTier, Reap, SupervisorStep
    <2> QED
      BY <1>2, <2>1, <2>2 DEF SupervisorNext
  <1>3. CASE TrainerDies \/ StopAll
    BY <1>3, OffStep
  <1>4. CASE WatchdogDies \/ Stopped \/ UNCHANGED vars
    BY <1>4, Rests DEF WatchdogDies, Stopped, vars, supervisor
  <1> QED
    BY <1>1, <1>2, <1>3, <1>4 DEF Next

\* The invariant of every run, for any jobs, tiers, faults and launches.
LEMMA Invariance == Spec => []IInv
  BY InitInv, StepInv, PTL DEF Spec

\* Every checkpoint up to the tracker that has its shards was trained on exactly
\* the rollouts that lie on disk, whatever died and was redone (ray_trainer.py's
\* dumps, checkpoints and resume).
THEOREM Lineage == Spec => []DumpsAreLineage
  <1>1. IInv => DumpsAreLineage
    BY DEF IInv
  <1> QED
    BY <1>1, Invariance, PTL

\* A running trainer's step, updates and batches always agree, across resumes.
THEOREM Synchronous == Spec => []InStep
  <1>1. IInv => InStep
    BY DEF IInv
  <1> QED
    BY <1>1, Invariance, PTL

-----------------------------------------------------------------------------
(* Order and retention *)

\* How many members of S are not above s, and not below it.
Place(S, s) == Cardinality({x \in S : x <= s})
PlaceFromEnd(S, s) == Cardinality({x \in S : x >= s})

\* Larger members have more members up to them, and fewer from them on.
LEMMA Places ==
    ASSUME NEW S \in SUBSET Nat, IsFiniteSet(S), NEW s \in S
    PROVE  /\ Place(S, s) \in 1 .. Cardinality(S) /\ PlaceFromEnd(S, s) \in 1 .. Cardinality(S)
           /\ \A t \in S : s < t => /\ Place(S, s) # Place(S, t)
                                    /\ PlaceFromEnd(S, s) # PlaceFromEnd(S, t)
  <1> DEFINE Up(t) == {x \in S : x <= t}
             Down(t) == {x \in S : x >= t}
  <1>1. /\ \A t \in S : IsFiniteSet(Up(t)) /\ Cardinality(Up(t)) <= Cardinality(S)
        /\ \A t \in S : IsFiniteSet(Down(t)) /\ Cardinality(Down(t)) <= Cardinality(S)
    <2>1. \A T \in SUBSET S : IsFiniteSet(T) /\ Cardinality(T) <= Cardinality(S)
      BY FS_Subset
    <2>2. \A t \in S : Up(t) \in SUBSET S /\ Down(t) \in SUBSET S
      OBVIOUS
    <2> HIDE DEF Up, Down
    <2> QED
      BY <2>1, <2>2
  <1>2. \A t \in S : Cardinality(Up(t)) \in Nat /\ Cardinality(Down(t)) \in Nat
    BY <1>1, FS_CardinalityType
  <1>3. Cardinality(S) \in Nat
    BY FS_CardinalityType
  <1>4. Cardinality(Up(s)) # 0 /\ Cardinality(Down(s)) # 0
    <2>1. s \in Up(s) /\ s \in Down(s)
      OBVIOUS
    <2> HIDE DEF Up, Down
    <2> QED
      BY <1>1, <2>1, FS_EmptySet
  <1>5. ASSUME NEW t \in S, s < t
        PROVE  Cardinality(Up(s)) # Cardinality(Up(t)) /\ Cardinality(Down(s)) # Cardinality(Down(t))
    <2> DEFINE upS == Up(s)
               upT == Up(t)
               downS == Down(s)
               downT == Down(t)
    <2>0. s \in Nat /\ t \in Nat /\ \A x \in S : x \in Nat
      OBVIOUS
    <2>1. upS \in SUBSET upT /\ t \in upT /\ t \notin upS
      <3>1. (\A x \in S : x <= s => x <= t) /\ t <= t /\ ~(t <= s)
        BY <1>5, <2>0
      <3> QED
        BY <3>1
    <2>2. downT \in SUBSET downS /\ s \in downS /\ s \notin downT
      <3>1. (\A x \in S : x >= t => x >= s) /\ s >= s /\ ~(s >= t)
        BY <1>5, <2>0
      <3> QED
        BY <3>1
    <2> HIDE DEF Up, Down
    <2>3. Cardinality(Up(s)) # Cardinality(Up(t))
      BY <1>1, <2>1, FS_Subset
    <2>4. Cardinality(Down(s)) # Cardinality(Down(t))
      BY <1>1, <2>2, FS_Subset
    <2> QED
      BY <2>3, <2>4
  <1> QED
    BY <1>1, <1>2, <1>3, <1>4, <1>5 DEF Place, PlaceFromEnd

\* Sorted lists exactly the members of the set.
LEMMA SortedFacts ==
    ASSUME NEW S \in SUBSET Nat, IsFiniteSet(S)
    PROVE  Sorted(S) \in Seq(S) /\ Len(Sorted(S)) = Cardinality(S) /\ Range(Sorted(S)) = S
  <1> DEFINE n == Cardinality(S)
             f == [s \in S |-> Place(S, s)]
  <1>1. n \in Nat /\ IsFiniteSet(1 .. n) /\ Cardinality(1 .. n) = n
    BY FS_CardinalityType, FS_Interval
  <1>2. \A s, t \in S : Place(S, s) = Place(S, t) => s = t
    <2> SUFFICES ASSUME NEW s \in S, NEW t \in S, s # t PROVE Place(S, s) # Place(S, t)
      OBVIOUS
    <2>1. s < t \/ t < s
      OBVIOUS
    <2> QED
      BY <2>1, Places
  <1>3. \A s \in S : Place(S, s) \in 1 .. n
    BY Places
  <1>4. f \in Injection(S, 1 .. n)
    BY <1>2, <1>3 DEF Injection, IsInjective
  <1>5. f \in Surjection(S, 1 .. n)
    BY <1>1, <1>4, FS_Injection
  <1>6. \A k \in 1 .. n : \E s \in S : Place(S, s) = k
    BY <1>5 DEF Surjection
  <1> DEFINE g(k) == CHOOSE s \in S : Place(S, s) = k
  <1>7. \A k \in 1 .. n : g(k) \in S /\ Place(S, g(k)) = k
    BY <1>6
  <1>8. Sorted(S) = [k \in 1 .. n |-> g(k)]
    BY DEF Sorted, Place
  <1> HIDE DEF g, f
  <1>9. Sorted(S) \in [1 .. n -> S] /\ DOMAIN Sorted(S) = 1 .. n
    BY <1>7, <1>8
  <1>10. \A s \in S : Sorted(S)[Place(S, s)] = s
    BY <1>2, <1>3, <1>7, <1>8
  <1>11. Range(Sorted(S)) = S
    BY <1>3, <1>9, <1>10 DEF Range
  <1> QED
    BY <1>1, <1>9, <1>11

\* The numbers from 1 to n are n.
LEMMA IntervalSize ==
    ASSUME NEW n \in Nat PROVE IsFiniteSet(1 .. n) /\ Cardinality(1 .. n) = n
  <1>1. 1 \in Int /\ n \in Int /\ n - 1 + 1 = n /\ (1 > n => n = 0)
    OBVIOUS
  <1> QED
    BY <1>1, FS_Interval

\* Filtering keeps the paths that are retained, wherever they are.
LEMMA FilteredFacts ==
    ASSUME NEW paths \in Seq(Nat), NEW retained
    PROVE  /\ Filtered(paths, retained) \in Seq(Nat)
           /\ Range(Filtered(paths, retained)) = Range(paths) \cap retained
  <1> DEFINE K == {i \in DOMAIN paths : paths[i] \in retained}
             places == Sorted(K)
  <1>1. DOMAIN paths = 1 .. Len(paths) /\ Len(paths) \in Nat
    OBVIOUS
  <1>2. IsFiniteSet(1 .. Len(paths)) /\ K \in SUBSET (1 .. Len(paths))
    BY <1>1, FS_Interval
  <1>3. K \in SUBSET Nat /\ IsFiniteSet(K)
    BY <1>2, FS_Subset
  <1>4. \A i \in K : paths[i] \in Nat /\ paths[i] \in retained /\ i \in DOMAIN paths
    BY <1>1
  <1>5. \A i \in DOMAIN paths : paths[i] \in retained => i \in K
    OBVIOUS
  <1> HIDE DEF K
  <1>6. places \in Seq(K) /\ Range(places) = K
    BY <1>3, SortedFacts
  <1>7. Filtered(paths, retained) = [n \in DOMAIN places |-> paths[places[n]]]
    BY DEF Filtered, K
  <1> HIDE DEF places
  <1>8. DOMAIN places = 1 .. Len(places) /\ Len(places) \in Nat
    BY <1>6
  <1>9. \A n \in DOMAIN places : places[n] \in K
    BY <1>6
  <1>10. Filtered(paths, retained) \in Seq(Nat)
    BY <1>4, <1>7, <1>8, <1>9
  <1>11. \A i \in K : \E n \in DOMAIN places : places[n] = i
    BY <1>6 DEF Range
  <1>12. Range(Filtered(paths, retained)) \subseteq Range(paths) \cap retained
    BY <1>4, <1>7, <1>9 DEF Range
  <1>13. ASSUME NEW x \in Range(paths) \cap retained PROVE x \in Range(Filtered(paths, retained))
    <2>1. PICK i \in DOMAIN paths : paths[i] = x
      BY DEF Range
    <2>2. i \in K
      BY <1>5, <2>1
    <2>3. PICK n \in DOMAIN places : places[n] = i
      BY <1>11, <2>2
    <2>4. Filtered(paths, retained)[n] = x /\ n \in DOMAIN Filtered(paths, retained)
      BY <1>7, <2>1, <2>3
    <2> QED
      BY <2>4 DEF Range
  <1> QED
    BY <1>10, <1>12, <1>13

\* The positions of the paths that are not protected.
Unprotected(paths) == {i \in DOMAIN paths : paths[i] \notin job.milestones}

\* They are at most keep paths, none of them a milestone, and the last one is one.
LEMMA NewestFacts ==
    ASSUME NEW paths \in Seq(Nat), job.keep \in Nat
    PROVE  /\ IsFiniteSet(Newest(paths)) /\ Cardinality(Newest(paths)) <= job.keep
           /\ Newest(paths) \cap job.milestones = {}
           /\ (paths # <<>> /\ job.keep > 0 /\ paths[Len(paths)] \notin job.milestones) =>
                 paths[Len(paths)] \in Newest(paths)
  <1> DEFINE U == Unprotected(paths)
             N == {x \in U : PlaceFromEnd(U, x) <= job.keep}
             f == [x \in N |-> PlaceFromEnd(U, x)]
             g == [x \in N |-> paths[x]]
  <1>1. DOMAIN paths = 1 .. Len(paths) /\ Len(paths) \in Nat
    OBVIOUS
  <1>2. IsFiniteSet(1 .. Len(paths)) /\ U \in SUBSET (1 .. Len(paths))
    BY <1>1, FS_Interval DEF Unprotected
  <1>3. U \in SUBSET Nat /\ IsFiniteSet(U) /\ \A x \in U : paths[x] \notin job.milestones
    BY <1>2, FS_Subset DEF Unprotected
  <1>4. Newest(paths) = {paths[x] : x \in N}
    BY DEF Newest, Unprotected, PlaceFromEnd
  <1>5. IsFiniteSet(1 .. job.keep) /\ Cardinality(1 .. job.keep) = job.keep
    BY IntervalSize
  <1> HIDE DEF U
  <1>6. \A x \in N : PlaceFromEnd(U, x) \in 1 .. job.keep
    <2> SUFFICES ASSUME NEW x \in N PROVE PlaceFromEnd(U, x) \in 1 .. job.keep
      OBVIOUS
    <2>1. PlaceFromEnd(U, x) \in 1 .. Cardinality(U)
      BY <1>3, Places
    <2> QED
      BY <2>1
  <1>7. \A x, y \in N : PlaceFromEnd(U, x) = PlaceFromEnd(U, y) => x = y
    <2> SUFFICES ASSUME NEW x \in N, NEW y \in N, x # y
                 PROVE  PlaceFromEnd(U, x) # PlaceFromEnd(U, y)
      OBVIOUS
    <2>1. x \in U /\ y \in U /\ x \in Nat /\ y \in Nat
      BY <1>3
    <2>2. x < y \/ y < x
      BY <2>1
    <2> QED
      BY <1>3, <2>1, <2>2, Places
  <1>8. f \in Injection(N, 1 .. job.keep)
    BY <1>6, <1>7 DEF Injection, IsInjective
  <1>9. IsFiniteSet(N) /\ Cardinality(N) <= job.keep /\ Cardinality(N) \in Nat
    <2> HIDE DEF f, N
    <2> QED
      BY <1>5, <1>8, FS_Injection, FS_CardinalityType
  <1>10. g \in Surjection(N, Newest(paths))
    BY <1>4 DEF Surjection
  <1>11. IsFiniteSet(Newest(paths)) /\ Cardinality(Newest(paths)) <= Cardinality(N)
    <2> HIDE DEF g, N
    <2> QED
      BY <1>9, <1>10, FS_Surjection
  <1>12. Cardinality(Newest(paths)) <= job.keep
    <2>1. Cardinality(Newest(paths)) \in Nat
      BY <1>11, FS_CardinalityType
    <2> QED
      BY <1>9, <1>11, <2>1
  <1>13. Newest(paths) \cap job.milestones = {}
    BY <1>3, <1>4
  <1>14. ASSUME paths # <<>>, job.keep > 0, paths[Len(paths)] \notin job.milestones
         PROVE  paths[Len(paths)] \in Newest(paths)
    <2> DEFINE last == Len(paths)
    <2>1. last \in DOMAIN paths
      BY <1>14
    <2>2. last \in U
      BY <1>14, <2>1 DEF U, Unprotected
    <2>3. {y \in U : y >= last} = {last}
      <3>1. \A y \in U : y \in Nat /\ y <= last
        BY <1>2
      <3>2. \A y \in U : y >= last <=> y = last
        BY <1>1, <3>1
      <3> QED
        BY <2>2, <3>2
    <2>4. PlaceFromEnd(U, last) = 1
      BY <2>3, FS_Singleton DEF PlaceFromEnd
    <2>5. last \in N
      BY <1>14, <2>2, <2>4
    <2> QED
      BY <1>4, <2>5
  <1> QED
    BY <1>11, <1>12, <1>13, <1>14

\* Retention keeps every milestone and the path saved last, and at most keep
\* others.
LEMMA RetainedFacts ==
    ASSUME NEW paths \in Seq(Nat), job.keep \in Nat \ {0}
    PROVE  /\ Retained(paths) \in Seq(Nat) /\ Range(Retained(paths)) \subseteq Range(paths)
           /\ Range(paths) \cap job.milestones \subseteq Range(Retained(paths))
           /\ paths # <<>> => paths[Len(paths)] \in Range(Retained(paths))
           /\ IsFiniteSet(Range(Retained(paths)) \ job.milestones)
           /\ Cardinality(Range(Retained(paths)) \ job.milestones) <= job.keep
  <1> DEFINE kept == job.milestones \cup Newest(paths)
  <1>1. Retained(paths) \in Seq(Nat) /\ Range(Retained(paths)) = Range(paths) \cap kept
    BY FilteredFacts DEF Retained
  <1>2. /\ IsFiniteSet(Newest(paths)) /\ Cardinality(Newest(paths)) <= job.keep
        /\ (paths # <<>> /\ paths[Len(paths)] \notin job.milestones) =>
              paths[Len(paths)] \in Newest(paths)
    BY NewestFacts
  <1>3. Range(Retained(paths)) \ job.milestones \in SUBSET Newest(paths)
    BY <1>1
  <1>4. /\ IsFiniteSet(Range(Retained(paths)) \ job.milestones)
        /\ Cardinality(Range(Retained(paths)) \ job.milestones) <= Cardinality(Newest(paths))
    BY <1>2, <1>3, FS_Subset
  <1>5. Cardinality(Range(Retained(paths)) \ job.milestones) \in Nat /\ Cardinality(Newest(paths)) \in Nat
    BY <1>2, <1>4, FS_CardinalityType
  <1>6. paths # <<>> => paths[Len(paths)] \in Range(paths)
    BY DEF Range
  <1> QED
    BY <1>1, <1>2, <1>4, <1>5, <1>6

\* A list has at most as many members as its length.
LEMMA RangeSize ==
    ASSUME NEW paths \in Seq(Nat)
    PROVE  IsFiniteSet(Range(paths)) /\ Cardinality(Range(paths)) <= Len(paths)
  <1>1. IsFiniteSet(1 .. Len(paths)) /\ Cardinality(1 .. Len(paths)) = Len(paths)
    BY IntervalSize
  <1>2. paths \in Surjection(1 .. Len(paths), Range(paths))
    BY DEF Surjection, Range
  <1> QED
    BY <1>1, <1>2, FS_Surjection

-----------------------------------------------------------------------------
(* What lies on disk: the second inductive invariant *)

DueToTest(s) == s >= job.last \/ s % job.test = 0
Saving == {"shards", "hf", "prune", "data", "track"}
Working == {"gen", "update", "validate", "save", "next"} \cup Saving

\* The types that the first invariant does not need.
OtherTypes ==
    /\ val \subseteq Nat /\ IsFiniteSet(DOMAIN ckpt)
    /\ \A s \in DOMAIN train : train[s] \in 1 .. launches
    /\ torn \in BOOLEAN /\ saved \in Seq(Nat)
    /\ sup \in {"down", "inspect", "wait", "child", "accepted", "gave_up"}
    /\ tier \in 0 .. Tiers - 1 /\ capacity \in BOOLEAN
    /\ launches \in 0 .. MaxLaunches /\ faults \in 0 .. MaxFaults
    /\ spoilt \in BOOLEAN /\ halfLast \in BOOLEAN /\ orphaned \in BOOLEAN
    /\ pc # "off" => launches > 0

\* No save is due between a and b.
NoneDue(a, b) == \A s \in a + 1 .. b - 1 : ~DueToSave(s)

\* There is a directory for every save up to the tracker, and for at most the next.
EverySave ==
    /\ tracker = 0 \/ DueToSave(tracker)
    /\ \A c \in DOMAIN ckpt : NoneDue(tracker, c)
    /\ Training => NoneDue(tracker, step)
    /\ \A s \in 1 .. tracker : DueToSave(s) => s \in DOMAIN ckpt

\* A save adds part after part to what is there.
SoFarSaved ==
    /\ pc \in Saving => Has(step, "actor") /\ Has(step, "config")
    /\ pc \in Saving \ {"shards"} => Has(step, "shards")
    /\ pc \in {"prune", "data", "track"} => Has(step, "hf") /\ step \in Range(saved)
    /\ pc = "prune" => saved # <<>> /\ saved[Len(saved)] = step

\* What the tracker names is gone only on the way to its next value.
Resumable ==
    /\ torn => spoilt
    /\ (tracker # 0 /\ ~Loadable(tracker) /\ ~spoilt) =>
          pc \in {"data", "track"} /\ job.keep > 0 /\ tracker \notin job.milestones

MilestonesKept == \A s \in job.milestones : s <= tracker => Has(s, "shards") /\ Has(s, "hf")

\* The checkpoints up to the tracker are counted and known to the trainer.
OldActors == {s \in DOMAIN ckpt \ job.milestones : s <= tracker /\ Has(s, "actor")}
Rolling ==
    job.keep > 0 =>
        /\ Cardinality(OldActors) <= job.keep
        /\ Training => \A s \in DOMAIN ckpt : s <= tracker /\ Has(s, "actor") => s \in Range(saved)
        /\ pc \in {"data", "track"} => Cardinality(Range(saved) \ job.milestones) <= job.keep

\* The dumps of a Math run are complete as far as it is.
Validated(n) == 0 \in val /\ \A s \in 1 .. n : DueToTest(s) => s \in val
Dumped ==
    /\ \A s \in 1 .. tracker : s \in DOMAIN train
    /\ job.kind = "math" =>
          /\ \A s \in DOMAIN ckpt : Has(s, "config")
          /\ tracker > 0 => Validated(tracker)
          /\ pc \in {"gen", "update", "validate"} => Validated(step - 1)
          /\ pc = "validate" => DueToTest(step)
          /\ pc \in {"save", "next"} \cup Saving => Validated(step)

\* Without an orphan there is one trainer, and none past the last step.
Alone ==
    /\ tracker <= job.last
    /\ step <= job.last
    /\ pc = "val_before_train" => step < job.last
    /\ pc = "load" => torn \/ tracker < job.last
    /\ sup # "child" => pc = "off"
    /\ sup = "wait" => torn \/ tracker < job.last
    /\ sup = "accepted" => job.last \in DOMAIN ckpt
    /\ (sup = "accepted" /\ job.kind = "docvqa") => tracker = job.last

\* Then nothing is written past the last step either.
WithinLast ==
    /\ \A s \in DOMAIN train : s \in 1 .. job.last
    /\ \A c \in DOMAIN ckpt : c <= job.last
    /\ job.kind = "math" => val \subseteq {0} \cup Multiples(job.test)
    /\ tracker = job.last => Has(job.last, "hf")
    /\ (job.last \in DOMAIN ckpt /\ ~Has(job.last, "hf")) =>
          halfLast \/ (pc \in {"shards", "hf"} /\ step = job.last)

Orderly == (orphaned => job.kind = "math") /\ (~orphaned => Alone /\ WithinLast)

DiskInv ==
    /\ OtherTypes /\ EverySave /\ SoFarSaved /\ Resumable /\ MilestonesKept /\ Rolling
    /\ Dumped /\ Orderly

\* The assumptions on jobs, of the job that runs.
LEMMA JobFacts ==
    ASSUME IInv
    PROVE  /\ job.last \in Nat \ {0} /\ job.save \in Nat \ {0} /\ job.test \in Nat
           /\ job.keep \in Nat /\ job.milestones \subseteq Nat \ {0}
           /\ job.kind \in {"math", "docvqa"}
           /\ job.kind = "math" =>
                 /\ job.test > 0 /\ job.keep = 0
                 /\ \A s \in 1 .. job.last : s % job.save = 0 => s % job.test = 0
           /\ \A s \in job.milestones : DueToSave(s)
           /\ DueToSave(job.last)
  BY JobShape, JobKinds DEF IInv, Types, DueToSave

\* The invariant holds when nothing has been launched.
LEMMA InitDisk == Init => DiskInv
  <1> SUFFICES ASSUME Init PROVE DiskInv
    OBVIOUS
  <1>0. IInv
    BY InitInv
  <1>1. /\ job \in Jobs /\ train = <<>> /\ val = {} /\ ckpt = <<>> /\ tracker = 0 /\ torn = FALSE
        /\ pc = "off" /\ step = 0 /\ saved = <<>> /\ sup = "down" /\ tier = 0 /\ capacity = FALSE
        /\ launches = 0 /\ faults = 0 /\ spoilt = FALSE /\ halfLast = FALSE /\ orphaned = FALSE
    BY DEF Init
  <1>2. DOMAIN train = {} /\ DOMAIN ckpt = {}
    BY <1>1
  <1>3. IsFiniteSet({}) /\ Cardinality({}) = 0
    BY FS_EmptySet
  <1>4. OtherTypes
    <2>1. val \subseteq Nat /\ IsFiniteSet(DOMAIN ckpt) /\ \A s \in DOMAIN train : train[s] \in 1 .. launches
      BY <1>1, <1>2, <1>3
    <2>2. torn \in BOOLEAN /\ capacity \in BOOLEAN
          /\ spoilt \in BOOLEAN /\ halfLast \in BOOLEAN /\ orphaned \in BOOLEAN
      BY <1>1, Zenon
    <2>4. saved \in Seq(Nat)
      BY <1>1
    <2>3. tier \in 0 .. Tiers - 1 /\ launches \in 0 .. MaxLaunches /\ faults \in 0 .. MaxFaults
      BY <1>1, TrainingBounds
    <2> QED
      BY <1>1, <2>1, <2>2, <2>3, <2>4 DEF OtherTypes
  <1>5. EverySave /\ SoFarSaved /\ Resumable
    BY <1>1, <1>2 DEF EverySave, SoFarSaved, Resumable, Training, Saving
  <1>6. MilestonesKept
    BY <1>0, <1>1, JobFacts DEF MilestonesKept
  <1>7. Rolling
    <2>1. OldActors = {}
      BY <1>2 DEF OldActors
    <2> QED
      BY <1>0, <1>1, <1>3, <2>1, JobFacts DEF Rolling, Training
  <1>8. Dumped
    BY <1>1, <1>2 DEF Dumped, Saving
  <1>9. Orderly
    BY <1>0, <1>1, <1>2, JobFacts DEF Orderly, Alone, WithinLast, Working, Saving
  <1> QED
    BY <1>4, <1>5, <1>6, <1>7, <1>8, <1>9 DEF DiskInv

\* Loading finds every checkpoint that has an actor.
LEMMA SiblingFacts ==
    ASSUME IInv, DiskInv
    PROVE  SiblingPaths \in Seq(Nat) /\ Range(SiblingPaths) = Siblings
  <1>1. Siblings \in SUBSET DOMAIN ckpt /\ IsFiniteSet(DOMAIN ckpt) /\ DOMAIN ckpt \subseteq Nat
    BY DEF Siblings, DiskInv, OtherTypes, IInv, Types
  <1>2. Siblings \in SUBSET Nat /\ IsFiniteSet(Siblings)
    BY <1>1, FS_Subset
  <1>3. SiblingPaths \in Seq(Siblings) /\ Range(SiblingPaths) = Siblings
    BY <1>2, SortedFacts DEF SiblingPaths
  <1>4. Len(SiblingPaths) \in Nat /\ SiblingPaths \in [1 .. Len(SiblingPaths) -> Siblings]
    BY <1>3
  <1>5. SiblingPaths \in [1 .. Len(SiblingPaths) -> Nat]
    BY <1>2, <1>4
  <1> QED
    BY <1>3, <1>4, <1>5

\* A step of the trainer that leaves the checkpoints, the tracker and the paths
\* alone.
LEMMA CkptsRest ==
    ASSUME IInv, DiskInv, UNCHANGED <<job, ckpt, tracker, torn, saved, spoilt>>,
           pc \notin {"off", "load", "data", "track"}, pc' \in Working \ Saving
    PROVE  SoFarSaved' /\ Resumable' /\ MilestonesKept' /\ Rolling'
  <1>1. Training
    BY DEF Training
  <1>2. SoFarSaved'
    BY DEF SoFarSaved, Working, Saving
  <1>3. Resumable' /\ MilestonesKept'
    BY DEF DiskInv, Resumable, MilestonesKept, Loadable, Has
  <1>4. OldActors' = OldActors
    BY DEF OldActors, Has
  <1>5. Rolling'
    BY <1>1, <1>4 DEF DiskInv, Rolling, Training, Has, Working, Saving
  <1> QED
    BY <1>2, <1>3, <1>5

\* A checkpoint that the tracker names lies at a validated step of a Math run.
LEMMA TrackerValidated ==
    ASSUME IInv, DiskInv, job.kind = "math", tracker # 0, tracker <= job.last
    PROVE  tracker \in Multiples(job.test)
  <1>1. tracker \in 1 .. job.last
    BY JobFacts DEF IInv, Types
  <1>2. tracker = job.last \/ tracker % job.save = 0
    BY <1>1, JobFacts DEF DiskInv, EverySave, DueToSave
  <1> QED
    BY <1>1, <1>2, JobFacts DEF Multiples

\* A loaded trainer knows every checkpoint, and is not past the last step.
LEMMA LoadDisk == IInv /\ DiskInv /\ LoadCheckpoint => DiskInv'
  <1> SUFFICES ASSUME IInv, DiskInv, LoadCheckpoint PROVE DiskInv'
    OBVIOUS
  <1>1. /\ UNCHANGED <<job, train, val, ckpt, tracker, torn, sup, tier, capacity, launches,
                       faults, spoilt, halfLast, orphaned>>
        /\ pc = "load" /\ ~torn /\ saved' = IF tracker = 0 THEN <<>> ELSE SiblingPaths
        /\ \/ job.test > 0 /\ step' = tracker /\ pc' = "val_before_train"
           \/ job.test = 0 /\ step' = tracker + 1 /\ pc' = "gen"
    BY JobFacts DEF LoadCheckpoint, disk, supervisor, history
  <1>2. tracker \in Nat
    BY DEF IInv, Types
  <1>3. saved' \in Seq(Nat) /\ (tracker # 0 => Range(saved') = Siblings)
    BY <1>1, SiblingFacts
  <1>4. OtherTypes'
    BY <1>1, <1>3 DEF DiskInv, OtherTypes
  <1>5. EverySave'
    <2>1. NoneDue(tracker, step')
      BY <1>1, <1>2 DEF NoneDue
    <2>2. UNCHANGED <<job, ckpt, tracker>>
      BY <1>1
    <2> QED
      BY <2>1, <2>2 DEF DiskInv, EverySave, NoneDue, DueToSave
  <1>6. SoFarSaved'
    BY <1>1 DEF SoFarSaved, Saving
  <1>7. Resumable' /\ MilestonesKept'
    BY <1>1 DEF DiskInv, Resumable, MilestonesKept, Loadable, Has
  <1>8. Rolling'
    <2>1. OldActors' = OldActors
      BY <1>1 DEF OldActors, Has
    <2>2. \A s \in DOMAIN ckpt : s <= tracker /\ Has(s, "actor") => s \in Range(saved')
      <3> SUFFICES ASSUME NEW s \in DOMAIN ckpt, s <= tracker, Has(s, "actor")
                   PROVE  s \in Range(saved')
        OBVIOUS
      <3>1. tracker # 0
        BY <1>2 DEF IInv, Types
      <3> QED
        BY <1>3, <3>1 DEF Siblings
    <2> QED
      BY <1>1, <2>1, <2>2 DEF DiskInv, Rolling, Has
  <1>9. Dumped'
    BY <1>1, JobFacts DEF DiskInv, Dumped, Saving, Has, Validated, DueToTest
  <1>10. Orderly'
    <2>1. orphaned => job.kind = "math"
      BY DEF DiskInv, Orderly
    <2>2. ASSUME ~orphaned PROVE Alone' /\ WithinLast'
      <3>1. Alone /\ WithinLast
        BY <2>2 DEF DiskInv, Orderly
      <3>2. tracker < job.last /\ job.last \in Nat
        BY <1>1, <3>1, JobFacts DEF Alone
      <3>3. Alone'
        BY <1>1, <1>2, <3>1, <3>2 DEF Alone, Working, Saving
      <3>4. WithinLast'
        BY <1>1, <3>1 DEF WithinLast, Has, Multiples
      <3> QED
        BY <3>3, <3>4
    <2> QED
      BY <1>1, <2>1, <2>2 DEF Orderly
  <1> QED
    BY <1>4, <1>5, <1>6, <1>7, <1>8, <1>9, <1>10 DEF DiskInv

\* A trainer that ends leaves its marks: what it was writing, and what it spoilt.
LEMMA EndedDisk ==
    ASSUME IInv, DiskInv, UNCHANGED <<job, train, val, ckpt, tracker, launches, orphaned>>,
           pc' = "off", step' = 0, saved' = <<>>, sup' \in {sup, "down"}, tier' = tier,
           torn' \in BOOLEAN, capacity' \in BOOLEAN, spoilt' \in BOOLEAN, halfLast' \in BOOLEAN,
           faults' \in 0 .. MaxFaults,
           torn => torn', torn' => spoilt', spoilt => spoilt', halfLast => halfLast',
           (pc \in {"data", "track"} /\ job.keep > 0 /\ tracker \notin job.milestones \cup {0})
               => spoilt',
           (pc \in {"shards", "hf"} /\ step = job.last) => halfLast'
    PROVE  DiskInv'
  <1>1. OtherTypes'
    BY DEF DiskInv, OtherTypes
  <1>2. EverySave' /\ SoFarSaved' /\ MilestonesKept'
    BY DEF DiskInv, EverySave, SoFarSaved, MilestonesKept, Training, Has, Saving, NoneDue, DueToSave
  <1>3. Resumable'
    BY DEF DiskInv, Resumable, Loadable, Has
  <1>4. Rolling'
    <2>1. OldActors' = OldActors
      BY DEF OldActors, Has
    <2> QED
      BY <2>1 DEF DiskInv, Rolling, Training
  <1>5. Dumped'
    BY DEF DiskInv, Dumped, Saving, Has, Validated, DueToTest
  <1>6. Orderly'
    BY JobFacts DEF DiskInv, Orderly, Alone, WithinLast, Working, Saving, Has, Multiples
  <1> QED
    BY <1>1, <1>2, <1>3, <1>4, <1>5, <1>6 DEF DiskInv

\* Every way for a trainer to end.
LEMMA OffDisk == IInv /\ DiskInv /\ (LoadFails \/ Finish \/ TrainerDies \/ StopAll) => DiskInv'
  <1> SUFFICES ASSUME IInv, DiskInv, LoadFails \/ Finish \/ TrainerDies \/ StopAll PROVE DiskInv'
    OBVIOUS
  <1>1. /\ UNCHANGED <<job, train, val, ckpt, tracker, launches, orphaned, tier>>
        /\ pc' = "off" /\ step' = 0 /\ saved' = <<>> /\ sup' \in {sup, "down"}
    BY DEF LoadFails, Finish, TrainerDies, StopAll, Dies, Off, disk, supervisor, history
  <1>2. /\ faults \in 0 .. MaxFaults /\ torn \in BOOLEAN /\ capacity \in BOOLEAN
        /\ spoilt \in BOOLEAN /\ halfLast \in BOOLEAN
    BY DEF DiskInv, OtherTypes
  <1>3. faults' \in 0 .. MaxFaults
    <2>1. faults' = faults \/ (faults < MaxFaults /\ faults' = faults + 1)
      BY DEF LoadFails, Finish, TrainerDies, StopAll
    <2> QED
      BY <1>2, <2>1, TrainingBounds
  <1>4. capacity' \in {TRUE, capacity} /\ capacity' \in BOOLEAN
    <2>1. capacity' \in {TRUE, capacity}
      BY DEF LoadFails, Finish, TrainerDies, StopAll, supervisor
    <2> QED
      BY <1>2, <2>1, Zenon
  <1>5. CASE LoadFails \/ Finish
    <2>1. /\ UNCHANGED <<torn, spoilt, halfLast>> /\ pc \in {"load", "next"}
      BY <1>5 DEF LoadFails, Finish, disk, history
    <2>2. torn' \in BOOLEAN /\ spoilt' \in BOOLEAN /\ halfLast' \in BOOLEAN
      BY <1>2, <2>1, Zenon
    <2>3. (torn => torn') /\ (torn' => spoilt') /\ (spoilt => spoilt') /\ (halfLast => halfLast')
      BY <2>1 DEF DiskInv, Resumable
    <2>4. /\ (pc \in {"data", "track"} /\ job.keep > 0 /\ tracker \notin job.milestones \cup {0})
                => spoilt'
          /\ (pc \in {"shards", "hf"} /\ step = job.last) => halfLast'
      BY <2>1
    <2> QED
      BY <1>1, <1>3, <1>4, <2>2, <2>3, <2>4, EndedDisk
  <1>6. CASE TrainerDies \/ StopAll
    <2>1. Dies
      BY <1>6 DEF TrainerDies, StopAll
    <2>2. torn' \in {TRUE, torn} /\ torn' \in BOOLEAN
      <3>1. torn' \in {TRUE, torn}
        BY <2>1 DEF Dies
      <3> QED
        BY <1>2, <3>1, Zenon
    <2>3. spoilt' \in BOOLEAN /\ halfLast' \in BOOLEAN
      BY <2>1, Zenon DEF Dies
    <2>4. torn => torn'
      BY <2>2
    <2>5. /\ (torn' => spoilt') /\ (spoilt => spoilt') /\ (halfLast => halfLast')
          /\ (pc \in {"data", "track"} /\ job.keep > 0 /\ tracker \notin job.milestones \cup {0})
                => spoilt'
          /\ (pc \in {"shards", "hf"} /\ step = job.last) => halfLast'
      BY <2>1 DEF Dies
    <2> QED
      BY <1>1, <1>3, <1>4, <2>2, <2>3, <2>4, <2>5, EndedDisk
  <1> QED
    BY <1>5, <1>6

\* One more validated step.
LEMMA ValidatedMore ==
    ASSUME NEW n \in Nat, UNCHANGED job, val \subseteq val',
           Validated(n - 1) \/ (n = 0 /\ 0 \in val'),
           n = 0 \/ ~DueToTest(n) \/ n \in val'
    PROVE  Validated(n)'
  <1>1. \A s \in 1 .. n : s = n \/ (n # 0 /\ s \in 1 .. n - 1)
    OBVIOUS
  <1>2. n = 0 => 1 .. n = {}
    OBVIOUS
  <1>3. 0 \in val'
    BY DEF Validated
  <1>4. ASSUME NEW s \in 1 .. n, s >= job.last \/ s % job.test = 0 PROVE s \in val'
    BY <1>1, <1>2, <1>4 DEF Validated, DueToTest
  <1> QED
    BY <1>3, <1>4 DEF Validated, DueToTest

\* What is not validated yet need not be.
LEMMA ValidatedSame ==
    ASSUME NEW n, UNCHANGED job, val \subseteq val', Validated(n)
    PROVE  Validated(n)'
  BY DEF Validated, DueToTest

\* The validation before training is at the tracker.
LEMMA InitialValidateDisk == IInv /\ DiskInv /\ InitialValidate => DiskInv'
  <1> SUFFICES ASSUME IInv, DiskInv, InitialValidate PROVE DiskInv'
    OBVIOUS
  <1>1. /\ UNCHANGED <<job, train, ckpt, tracker, torn, saved, sup, tier, capacity, launches,
                       faults, spoilt, halfLast, orphaned>>
        /\ pc = "val_before_train" /\ pc' = "gen" /\ step' = step + 1 /\ val' = val \cup {step}
    BY DEF InitialValidate, supervisor, history
  <1>2. step = tracker /\ tracker \in Nat
    BY <1>1 DEF IInv, SavesRedone, Types
  <1>3. SoFarSaved' /\ Resumable' /\ MilestonesKept' /\ Rolling'
    BY <1>1, CkptsRest DEF Working, Saving
  <1>4. OtherTypes'
    BY <1>1, <1>2 DEF DiskInv, OtherTypes
  <1>5. EverySave'
    <2>1. NoneDue(tracker, step + 1)
      BY <1>2 DEF NoneDue
    <2> QED
      BY <1>1, <2>1 DEF DiskInv, EverySave, NoneDue, DueToSave
  <1>6. Dumped'
    <2>1. job.kind = "math" => Validated(tracker)'
      <3> SUFFICES ASSUME job.kind = "math" PROVE Validated(tracker)'
        OBVIOUS
      <3>1. CASE tracker = 0
        BY <1>1, <1>2, <3>1, ValidatedMore
      <3>2. CASE tracker # 0
        <4>1. Validated(tracker)
          BY <1>2, <3>2 DEF DiskInv, Dumped
        <4> QED
          BY <1>1, <4>1, ValidatedSame DEF Validated
      <3> QED
        BY <3>1, <3>2
    <2>2. step' - 1 = tracker'
      BY <1>1, <1>2
    <2> QED
      BY <1>1, <2>1, <2>2 DEF DiskInv, Dumped, Saving, Has, Validated
  <1>7. Orderly'
    <2>1. orphaned => job.kind = "math"
      BY DEF DiskInv, Orderly
    <2>2. ASSUME ~orphaned PROVE Alone' /\ WithinLast'
      <3>1. Alone /\ WithinLast
        BY <2>2 DEF DiskInv, Orderly
      <3>2. step < job.last /\ job.last \in Nat
        BY <1>1, <3>1, JobFacts DEF Alone
      <3>3. Alone'
        BY <1>1, <1>2, <3>1, <3>2 DEF Alone, Working, Saving
      <3>4. job.kind = "math" => val' \subseteq {0} \cup Multiples(job.test)
        <4>1. job.kind = "math" /\ tracker # 0 => tracker \in Multiples(job.test)
          BY <1>2, <3>2, TrackerValidated
        <4> QED
          BY <1>1, <1>2, <3>1, <4>1 DEF WithinLast
      <3>5. WithinLast'
        BY <1>1, <3>1, <3>4 DEF WithinLast, Has, Multiples
      <3> QED
        BY <3>3, <3>5
    <2> QED
      BY <1>1, <2>1, <2>2 DEF Orderly
  <1> QED
    BY <1>3, <1>4, <1>5, <1>6, <1>7 DEF DiskInv

\* Work on a step that leaves the checkpoints and the validations alone.
LEMMA WorkDisk ==
    ASSUME IInv, DiskInv, Generate \/ UpdateActor \/ Validate
    PROVE  DiskInv'
  <1>1. /\ UNCHANGED <<job, ckpt, tracker, torn, step, saved, sup, tier, capacity, launches,
                       faults, spoilt, halfLast, orphaned>>
        /\ pc \in {"gen", "update", "validate"} /\ pc' \in {"update", "validate", "save", "next"}
    BY DEF Generate, UpdateActor, Validate, supervisor, history, disk
  <1>2. step \in Nat \ {0} /\ step > tracker /\ tracker \in Nat
    BY <1>1 DEF IInv, Types, PastTracker
  <1>3. /\ DOMAIN train \subseteq DOMAIN train' /\ DOMAIN train' \subseteq DOMAIN train \cup {step}
        /\ \A s \in DOMAIN train' : train'[s] \in 1 .. launches
    <2>1. \A s \in DOMAIN train : train[s] \in 1 .. launches
      BY DEF DiskInv, OtherTypes
    <2>2. CASE UNCHANGED train
      BY <2>1, <2>2
    <2>3. CASE train' = With(train, step, launches)
      <3>1. launches > 0 /\ launches \in Nat
        BY <1>1 DEF DiskInv, OtherTypes, IInv, Types
      <3> QED
        BY <2>1, <2>3, <3>1 DEF With
    <2> QED
      BY <2>2, <2>3 DEF Generate, UpdateActor, Validate, disk
  <1>4. val \subseteq val' /\ val' \subseteq val \cup {step} /\ (pc = "validate" => step \in val')
        /\ (pc # "validate" => val' = val)
    BY DEF Generate, UpdateActor, Validate, disk
  <1>5. SoFarSaved' /\ Resumable' /\ MilestonesKept' /\ Rolling'
    BY <1>1, CkptsRest DEF Working, Saving
  <1>6. OtherTypes'
    BY <1>1, <1>2, <1>3, <1>4 DEF DiskInv, OtherTypes
  <1>7. EverySave'
    BY <1>1 DEF DiskInv, EverySave, Training, NoneDue, DueToSave
  <1>8. Dumped'
    <2> SUFFICES ASSUME job.kind = "math"
                 PROVE  /\ pc' \in {"gen", "update", "validate"} => Validated(step - 1)'
                        /\ pc' = "validate" => DueToTest(step)
                        /\ pc' \in {"save", "next"} => Validated(step)'
                        /\ tracker > 0 => Validated(tracker)'
      BY <1>1, <1>3 DEF DiskInv, Dumped, Has, Saving, DueToTest
    <2>1. Validated(step - 1) /\ (pc = "validate" => DueToTest(step))
      BY <1>1 DEF DiskInv, Dumped
    <2>2. Validated(step - 1)'
      BY <1>1, <1>4, <2>1, ValidatedSame
    <2>3. tracker > 0 => Validated(tracker)'
      BY <1>1, <1>4, ValidatedSame DEF DiskInv, Dumped
    <2>4. pc' = "validate" => DueToTest(step)
      BY DEF Generate, UpdateActor, Validate, Due, DueToTest
    <2>5. pc' \in {"save", "next"} => ~DueToTest(step) \/ step \in val'
      <3>1. CASE UpdateActor
        BY <3>1, JobFacts DEF UpdateActor, Due, DueToTest
      <3>2. CASE Generate \/ Validate
        BY <3>2 DEF Generate, Validate
      <3> QED
        BY <3>1, <3>2
    <2>6. pc' \in {"save", "next"} => Validated(step)'
      <3> SUFFICES ASSUME pc' \in {"save", "next"} PROVE Validated(step)'
        OBVIOUS
      <3>1. step \in Nat /\ UNCHANGED job /\ (~DueToTest(step) \/ step \in val')
        BY <1>1, <1>2, <2>5
      <3> QED
        BY <1>4, <2>1, <3>1, <1>1, ValidatedMore DEF Validated
    <2> QED
      BY <2>2, <2>3, <2>4, <2>6
  <1>9. Orderly'
    <2>1. orphaned => job.kind = "math"
      BY DEF DiskInv, Orderly
    <2>2. ASSUME ~orphaned PROVE Alone' /\ WithinLast'
      <3>1. Alone /\ WithinLast
        BY <2>2 DEF DiskInv, Orderly
      <3>2. step \in 1 .. job.last
        BY <1>1, <1>2, <3>1, JobFacts DEF Alone, Working
      <3>3. Alone'
        BY <1>1, <3>1, <3>2 DEF Alone, Working, Saving
      <3>4. job.kind = "math" => val' \subseteq {0} \cup Multiples(job.test)
        <4>1. job.kind = "math" /\ pc = "validate" => step \in Multiples(job.test)
          BY <3>2, JobFacts DEF DiskInv, Dumped, DueToTest, Multiples
        <4> QED
          BY <1>4, <3>1, <4>1 DEF WithinLast
      <3>5. WithinLast'
        BY <1>1, <1>3, <3>1, <3>2, <3>4 DEF WithinLast, Has, Multiples
      <3> QED
        BY <3>3, <3>5
    <2> QED
      BY <1>1, <2>1, <2>2 DEF Orderly
  <1> QED
    BY <1>5, <1>6, <1>7, <1>8, <1>9 DEF DiskInv

\* The next step comes after the save of this one, when one is due.
LEMMA NextStepDisk == IInv /\ DiskInv /\ NextStep => DiskInv'
  <1> SUFFICES ASSUME IInv, DiskInv, NextStep PROVE DiskInv'
    OBVIOUS
  <1>1. /\ UNCHANGED <<job, train, val, ckpt, tracker, torn, saved, sup, tier, capacity, launches,
                       faults, spoilt, halfLast, orphaned>>
        /\ pc = "next" /\ pc' = "gen" /\ step' = step + 1 /\ step < job.last
    BY DEF NextStep, disk, supervisor, history
  <1>2. step \in Nat /\ step >= tracker /\ tracker \in Nat /\ step' - 1 = step
    BY <1>1 DEF IInv, Types, InStep, Training
  <1>3. SoFarSaved' /\ Resumable' /\ MilestonesKept' /\ Rolling'
    BY <1>1, CkptsRest DEF Working, Saving
  <1>4. OtherTypes'
    BY <1>1 DEF DiskInv, OtherTypes
  <1>5. EverySave'
    <2>1. NoneDue(tracker, step + 1)
      <3>1. NoneDue(tracker, step) /\ (DueToSave(step) => step = tracker)
        BY <1>1 DEF DiskInv, EverySave, Training, IInv, SavesRedone
      <3>2. ASSUME NEW s \in tracker + 1 .. step PROVE ~DueToSave(s)
        <4>1. s = step \/ s \in tracker + 1 .. step - 1
          BY <1>2
        <4> QED
          BY <1>2, <3>1, <4>1 DEF NoneDue
      <3>3. (step + 1) - 1 = step
        BY <1>2
      <3> QED
        BY <3>2, <3>3, Zenon DEF NoneDue
    <2> QED
      BY <1>1, <2>1 DEF DiskInv, EverySave, NoneDue, DueToSave
  <1>6. Dumped'
    BY <1>1, <1>2 DEF DiskInv, Dumped, Saving, Has, Validated, DueToTest
  <1>7. Orderly'
    <2>1. step + 1 <= job.last
      BY <1>1, <1>2, JobFacts
    <2> QED
      BY <1>1, <2>1 DEF DiskInv, Orderly, Alone, WithinLast, Working, Saving, Has, Multiples
  <1> QED
    BY <1>3, <1>4, <1>5, <1>6, <1>7 DEF DiskInv

\* A save is of a step past the tracker, within the run unless there is an orphan,
\* with no save due in between; what it leaves alone stays in order.
LEMMA SaveFacts ==
    ASSUME IInv, DiskInv, NEW from \in {"save"} \cup Saving, NEW to \in Saving \cup {"next"},
           SaveStep(from, to)
    PROVE  /\ UNCHANGED <<job, train, val, step, sup, tier, capacity, launches, faults,
                          spoilt, halfLast, orphaned>>
           /\ pc = from /\ pc' = to /\ step \in Nat \ {0} /\ tracker \in Nat /\ step > tracker
           /\ DueToSave(step) /\ NoneDue(tracker, step) /\ (~orphaned => step <= job.last)
           /\ \A s \in DOMAIN ckpt : s \in Nat \ {0} /\ (s > tracker => s = step)
  <1>1. /\ UNCHANGED <<job, train, val, step, sup, tier, capacity, launches, faults,
                       spoilt, halfLast, orphaned>>
        /\ pc = from /\ pc' = to
    BY DEF SaveStep, supervisor, history
  <1>2. step \in Nat \ {0} /\ tracker \in Nat /\ step > tracker /\ DueToSave(step)
    BY <1>1 DEF IInv, Types, PastTracker, SavesRedone, Saving
  <1>3. Training
    BY <1>1 DEF Training, Saving
  <1>4. NoneDue(tracker, step) /\ (~orphaned => step <= job.last)
    BY <1>1, <1>3 DEF DiskInv, EverySave, Orderly, Alone, Working, Saving
  <1>5. ASSUME NEW s \in DOMAIN ckpt PROVE s \in Nat \ {0} /\ (s > tracker => s = step)
    <2>1. s \in Nat \ {0} /\ (s > tracker => s >= step) /\ NoneDue(tracker, s)
      BY <1>3 DEF IInv, Types, SavesRedone, DiskInv, EverySave
    <2>2. ~(s > step)
      <3> SUFFICES ASSUME s > step PROVE FALSE
        OBVIOUS
      <3>1. step \in tracker + 1 .. s - 1
        BY <1>2, <2>1
      <3> QED
        BY <1>2, <2>1, <3>1 DEF NoneDue
    <2> QED
      BY <1>2, <2>1, <2>2
  <1> QED
    BY <1>1, <1>2, <1>4, <1>5

\* A part of a checkpoint is written.
LEMMA SaveWritesDisk ==
    ASSUME IInv, DiskInv, NEW from \in {"save", "shards", "hf", "data"},
           NEW to \in {"shards", "hf", "prune", "track"},
           SaveStep(from, to), UNCHANGED <<tracker, torn>>,
           NEW parts, NEW of, NEW pos, SetCkpt(parts, of, pos),
           {"actor", "config"} \subseteq parts,
           to # "shards" => "shards" \in parts,
           to \notin {"shards", "hf"} => "hf" \in parts,
           from = "data" => to = "track",
           \/ to \in {"shards", "hf"} /\ saved' = saved
           \/ to = "prune" /\ saved' = Append(saved, step)
           \/ to = "track" /\ from = "data" /\ saved' = saved
    PROVE  DiskInv'
  <1> DEFINE new == [parts |-> parts, of |-> of, position |-> pos]
  <1>1. /\ UNCHANGED <<job, train, val, step, sup, tier, capacity, launches, faults,
                       spoilt, halfLast, orphaned, tracker, torn>>
        /\ pc = from /\ pc' = to /\ step \in Nat \ {0} /\ tracker \in Nat /\ step > tracker
        /\ DueToSave(step) /\ NoneDue(tracker, step) /\ (~orphaned => step <= job.last)
        /\ \A s \in DOMAIN ckpt : s \in Nat \ {0} /\ (s > tracker => s = step)
    BY SaveFacts DEF Saving
  <1>2. ckpt' = With(ckpt, step, new)
    BY DEF SetCkpt
  <1>3. /\ DOMAIN ckpt' = DOMAIN ckpt \cup {step} /\ ckpt'[step] = new
        /\ \A s \in DOMAIN ckpt : s # step => ckpt'[s] = ckpt[s]
    BY <1>2 DEF With
  <1>4. /\ \A s, part : s # step => (Has(s, part)' <=> Has(s, part))
        /\ \A part : Has(step, part)' <=> part \in parts
    <2>1. new.parts = parts
      OBVIOUS
    <2> HIDE DEF new
    <2>2. ASSUME NEW s, NEW part, s # step PROVE Has(s, part)' <=> Has(s, part)
      BY <1>3, <2>2 DEF Has
    <2>3. ASSUME NEW part PROVE Has(step, part)' <=> part \in parts
      BY <1>1, <1>3, <2>1 DEF Has
    <2> QED
      BY <2>2, <2>3
  <1>5. Training /\ Training'
    BY <1>1 DEF Training
  <1>6. saved \in Seq(Nat) /\ saved' \in Seq(Nat) /\ Range(saved) \subseteq Range(saved')
    <2>1. saved \in Seq(Nat)
      BY DEF DiskInv, OtherTypes
    <2>2. CASE saved' = saved
      BY <2>1, <2>2
    <2>3. CASE saved' = Append(saved, step)
      <3>1. saved' \in Seq(Nat) /\ Len(saved') = Len(saved) + 1
            /\ \A i \in 1 .. Len(saved) : saved'[i] = saved[i]
        BY <1>1, <2>1, <2>3
      <3>2. DOMAIN saved = 1 .. Len(saved) /\ DOMAIN saved \subseteq DOMAIN saved'
        BY <2>1, <3>1
      <3> QED
        BY <2>1, <3>1, <3>2 DEF Range
    <2> QED
      BY <2>2, <2>3
  <1>7. OtherTypes'
    <2>1. IsFiniteSet(DOMAIN ckpt')
      BY <1>3, FS_AddElement DEF DiskInv, OtherTypes
    <2>2. launches > 0
      BY <1>1 DEF DiskInv, OtherTypes
    <2> QED
      BY <1>1, <1>6, <2>1, <2>2 DEF DiskInv, OtherTypes
  <1>8. EverySave'
    BY <1>1, <1>3, <1>5 DEF DiskInv, EverySave, NoneDue, DueToSave
  <1>9. SoFarSaved'
    <2>1. to = "prune" => saved' # <<>> /\ saved'[Len(saved')] = step /\ step \in Range(saved')
      <3> SUFFICES ASSUME to = "prune"
                   PROVE  saved' # <<>> /\ saved'[Len(saved')] = step /\ step \in Range(saved')
        OBVIOUS
      <3>1. saved' = Append(saved, step)
        OBVIOUS
      <3>2. Len(saved') = Len(saved) + 1 /\ saved'[Len(saved) + 1] = step /\ Len(saved) \in Nat
            /\ saved' # <<>>
        BY <1>1, <1>6, <3>1
      <3>3. Len(saved') \in DOMAIN saved' /\ saved'[Len(saved')] = step
        BY <1>6, <3>2
      <3> QED
        BY <3>2, <3>3 DEF Range
    <2>2. to = "track" => step \in Range(saved')
      BY <1>1 DEF DiskInv, SoFarSaved
    <2> QED
      BY <1>1, <1>4, <2>1, <2>2 DEF SoFarSaved, Saving
  <1>10. Resumable'
    <2>1. Loadable(tracker)' <=> Loadable(tracker)
      <3>1. tracker # step
        BY <1>1
      <3>2. Has(tracker, "shards")' <=> Has(tracker, "shards")
        BY <1>1, <1>4, <3>1
      <3> QED
        BY <3>2 DEF Loadable
    <2> QED
      BY <1>1, <2>1 DEF DiskInv, Resumable
  <1>11. MilestonesKept'
    <2>1. \A s \in job.milestones : s <= tracker => s # step
      BY <1>1, JobFacts
    <2> QED
      BY <1>1, <1>4, <2>1 DEF DiskInv, MilestonesKept
  <1>12. Rolling'
    <2>1. OldActors' = OldActors
      BY <1>1, <1>3, <1>4 DEF OldActors
    <2>2. \A s \in DOMAIN ckpt' : s <= tracker => s # step /\ s \in DOMAIN ckpt
      BY <1>1, <1>3
    <2>3. (job.kind \in {"math", "docvqa"} /\ job.keep > 0) =>
             \A s \in DOMAIN ckpt' : s <= tracker /\ Has(s, "actor")' => s \in Range(saved')
      BY <1>4, <1>5, <1>6, <2>2 DEF DiskInv, Rolling
    <2>4. (job.keep > 0 /\ to = "track") => Cardinality(Range(saved') \ job.milestones) <= job.keep
      BY <1>1 DEF DiskInv, Rolling
    <2> QED
      BY <1>1, <2>1, <2>3, <2>4, JobFacts DEF DiskInv, Rolling
  <1>13. Dumped'
    <2>1. job.kind = "math" => Validated(step)
      BY <1>1 DEF DiskInv, Dumped, Saving
    <2>2. job.kind = "math" => \A s \in DOMAIN ckpt' : Has(s, "config")'
      <3> SUFFICES ASSUME job.kind = "math", NEW s \in DOMAIN ckpt' PROVE Has(s, "config")'
        OBVIOUS
      <3>1. CASE s = step
        BY <1>1, <1>4, <3>1
      <3>2. CASE s # step
        <4>1. s \in DOMAIN ckpt
          BY <1>3, <3>2
        <4>2. Has(s, "config")
          BY <4>1 DEF DiskInv, Dumped
        <4> QED
          BY <1>4, <3>2, <4>2
      <3> QED
        BY <3>1, <3>2
    <2> QED
      BY <1>1, <2>1, <2>2 DEF DiskInv, Dumped, Validated, DueToTest, Saving
  <1>14. Orderly'
    <2>1. orphaned => job.kind = "math"
      BY DEF DiskInv, Orderly
    <2>2. ASSUME ~orphaned PROVE Alone' /\ WithinLast'
      <3>1. Alone /\ WithinLast
        BY <2>2 DEF DiskInv, Orderly
      <3>2. step <= job.last /\ job.last \in Nat /\ sup = "child" /\ tracker # job.last
        BY <1>1, <2>2, <3>1, JobFacts DEF Alone
      <3>3. Alone'
        BY <1>1, <1>3, <3>1, <3>2 DEF Alone, Working, Saving
      <3>4. (job.last \in DOMAIN ckpt' /\ ~Has(job.last, "hf")') =>
                halfLast \/ (to \in {"shards", "hf"} /\ step = job.last)
        <4>1. CASE job.last = step
          <5>1. "hf" \in parts => Has(job.last, "hf")'
            BY <1>1, <1>4, <4>1
          <5> QED
            BY <4>1, <5>1
        <4>2. CASE job.last # step
          <5>1. Has(job.last, "hf")' <=> Has(job.last, "hf")
            BY <1>1, <1>4, <4>2
          <5>2. job.last \in DOMAIN ckpt' => job.last \in DOMAIN ckpt
            BY <1>3, <4>2
          <5> QED
            BY <3>1, <4>2, <5>1, <5>2 DEF WithinLast
        <4> QED
          BY <4>1, <4>2
      <3>5. WithinLast'
        BY <1>1, <1>3, <1>4, <3>1, <3>2, <3>4 DEF WithinLast, Multiples
      <3> QED
        BY <3>3, <3>5
    <2> QED
      BY <1>1, <2>1, <2>2 DEF Orderly
  <1> QED
    BY <1>7, <1>8, <1>9, <1>10, <1>11, <1>12, <1>13, <1>14 DEF DiskInv

\* The four writes, each on top of those before it.
LEMMA SavesDisk ==
    ASSUME IInv, DiskInv, SaveConfig \/ SaveShards \/ SaveHfModel \/ SaveData
    PROVE  DiskInv'
  <1> DEFINE there == CkptAt(step).parts
  <1>1. \A part : Has(step, part) => part \in there
    BY DEF Has, CkptAt
  <1>2. UNCHANGED <<tracker, torn>>
    BY DEF SaveConfig, SaveShards, SaveHfModel, SaveData
  <1>3. pc \in Saving => {"actor", "config"} \subseteq there
    BY <1>1 DEF DiskInv, SoFarSaved
  <1>4. pc \in Saving \ {"shards"} => "shards" \in there
    BY <1>1 DEF DiskInv, SoFarSaved
  <1>5. pc = "data" => "hf" \in there
    BY <1>1 DEF DiskInv, SoFarSaved
  <1> HIDE DEF there
  <1>6. CASE SaveConfig
    <2> DEFINE parts == (there \cup {"actor", "config"}) \ {"shards"}
    <2>1. SaveStep("save", "shards") /\ saved' = saved
          /\ SetCkpt(parts, <<>>, CkptAt(step).position)
      BY <1>6 DEF SaveConfig, there
    <2>2. {"actor", "config"} \subseteq parts
      OBVIOUS
    <2> HIDE DEF parts
    <2> QED
      BY <1>2, <2>1, <2>2, SaveWritesDisk
  <1>7. CASE SaveShards
    <2> DEFINE parts == (there \cup {"shards"}) \ {"hf"}
    <2>1. SaveStep("shards", "hf") /\ saved' = saved /\ pc = "shards"
          /\ SetCkpt(parts, model, CkptAt(step).position)
      BY <1>7 DEF SaveShards, SaveStep, there
    <2>2. {"actor", "config"} \subseteq parts /\ "shards" \in parts
      BY <1>3, <2>1 DEF Saving
    <2> HIDE DEF parts
    <2> QED
      BY <1>2, <2>1, <2>2, SaveWritesDisk
  <1>8. CASE SaveHfModel
    <2> DEFINE parts == there \cup {"hf"}
    <2>1. SaveStep("hf", "prune") /\ saved' = Append(saved, step) /\ pc = "hf"
          /\ SetCkpt(parts, model, CkptAt(step).position)
      BY <1>8 DEF SaveHfModel, SaveStep, there
    <2>2. {"actor", "config"} \subseteq parts /\ "shards" \in parts /\ "hf" \in parts
      BY <1>3, <1>4, <2>1 DEF Saving
    <2> HIDE DEF parts
    <2> QED
      BY <1>2, <2>1, <2>2, SaveWritesDisk
  <1>9. CASE SaveData
    <2> DEFINE parts == there \cup {"data"}
    <2>1. SaveStep("data", "track") /\ saved' = saved /\ pc = "data"
          /\ SetCkpt(parts, CkptAt(step).of, position)
      BY <1>9 DEF SaveData, SaveStep, there
    <2>2. {"actor", "config"} \subseteq parts /\ "shards" \in parts /\ "hf" \in parts
      BY <1>3, <1>4, <1>5, <2>1 DEF Saving
    <2> HIDE DEF parts
    <2> QED
      BY <1>2, <2>1, <2>2, SaveWritesDisk
  <1> QED
    BY <1>6, <1>7, <1>8, <1>9

\* What pruning does to the paths: milestones and the save just made stay, and
\* only as many others as are to be kept.
LEMMA PruneFacts ==
    ASSUME IInv, DiskInv, Prune
    PROVE  /\ saved' \in Seq(Nat) /\ Range(saved') \subseteq Range(saved)
           /\ Range(saved) \cap job.milestones \subseteq Range(saved')
           /\ step \in Range(saved')
           /\ job.keep = 0 => saved' = saved
           /\ job.keep > 0 => Cardinality(Range(saved') \ job.milestones) <= job.keep
  <1>1. saved \in Seq(Nat) /\ saved # <<>> /\ saved[Len(saved)] = step /\ step \in Range(saved)
    BY DEF DiskInv, OtherTypes, SoFarSaved, Prune, SaveStep
  <1>2. job.keep \in Nat
    BY JobFacts
  <1>3. saved' = IF job.keep > 0 /\ Len(saved) > job.keep THEN Retained(saved) ELSE saved
    BY DEF Prune
  <1>4. CASE job.keep > 0 /\ Len(saved) > job.keep
    <2>1. job.keep \in Nat \ {0}
      BY <1>2, <1>4
    <2> QED
      BY <1>1, <1>3, <1>4, <2>1, RetainedFacts
  <1>5. CASE ~(job.keep > 0 /\ Len(saved) > job.keep)
    <2>1. saved' = saved
      BY <1>3, <1>5
    <2>2. IsFiniteSet(Range(saved)) /\ Cardinality(Range(saved)) <= Len(saved)
      BY <1>1, RangeSize
    <2>3. /\ IsFiniteSet(Range(saved) \ job.milestones)
          /\ Cardinality(Range(saved) \ job.milestones) <= Cardinality(Range(saved))
      BY <2>2, FS_Subset
    <2>4. Cardinality(Range(saved) \ job.milestones) \in Nat /\ Cardinality(Range(saved)) \in Nat
      BY <2>2, <2>3, FS_CardinalityType
    <2>5. Len(saved) \in Nat
      BY <1>1
    <2>6. job.keep > 0 => Cardinality(Range(saved) \ job.milestones) <= job.keep
      BY <1>2, <1>5, <2>2, <2>3, <2>4, <2>5
    <2> QED
      BY <1>1, <2>1, <2>6
  <1> QED
    BY <1>4, <1>5

\* Pruning takes whole actors, never of a milestone or of the save just made.
LEMMA PruneDisk == IInv /\ DiskInv /\ Prune => DiskInv'
  <1> SUFFICES ASSUME IInv, DiskInv, Prune PROVE DiskInv'
    OBVIOUS
  <1> DEFINE gone == Range(saved) \ Range(saved')
  <1>0. SaveStep("prune", "data") /\ UNCHANGED <<tracker, torn>>
    BY DEF Prune
  <1>1. /\ UNCHANGED <<job, train, val, step, sup, tier, capacity, launches, faults,
                       spoilt, halfLast, orphaned, tracker, torn>>
        /\ pc = "prune" /\ pc' = "data" /\ step \in Nat \ {0} /\ tracker \in Nat /\ step > tracker
        /\ DueToSave(step) /\ NoneDue(tracker, step) /\ (~orphaned => step <= job.last)
        /\ \A s \in DOMAIN ckpt : s \in Nat \ {0} /\ (s > tracker => s = step)
    BY <1>0, SaveFacts DEF Saving
  <1>2. /\ saved' \in Seq(Nat) /\ Range(saved') \subseteq Range(saved)
        /\ Range(saved) \cap job.milestones \subseteq Range(saved')
        /\ step \in Range(saved')
        /\ job.keep = 0 => saved' = saved
        /\ job.keep > 0 => Cardinality(Range(saved') \ job.milestones) <= job.keep
    BY PruneFacts
  <1>3. ckpt' = [s \in DOMAIN ckpt |->
                    IF s \in gone THEN [ckpt[s] EXCEPT !.parts = @ \ ActorParts, !.of = <<>>]
                    ELSE ckpt[s]]
    BY DEF Prune
  <1>4. step \notin gone /\ gone \cap job.milestones = {} /\ (gone # {} => job.keep > 0)
    BY <1>2, JobFacts
  <1> HIDE DEF gone
  <1>5. DOMAIN ckpt' = DOMAIN ckpt
    BY <1>3
  <1>6. /\ \A s, part : s \notin gone => (Has(s, part)' <=> Has(s, part))
        /\ \A s : s \in gone => ~Has(s, "actor")'
        /\ \A s, part : Has(s, part)' => Has(s, part)
    <2>1. ASSUME NEW s \in DOMAIN ckpt, s \in gone
          PROVE  ckpt'[s].parts = ckpt[s].parts \ ActorParts
      <3>1. ckpt'[s] = [ckpt[s] EXCEPT !.parts = @ \ ActorParts, !.of = <<>>]
        BY <1>3, <2>1
      <3>2. ckpt[s] \in Checkpoints
        BY DEF IInv, Types
      <3> QED
        BY <3>1, <3>2 DEF Checkpoints
    <2>2. \A s \in DOMAIN ckpt : s \notin gone => ckpt'[s] = ckpt[s]
      BY <1>3
    <2>3. "actor" \in ActorParts
      BY DEF ActorParts, Parts
    <2>4. ASSUME NEW s, NEW part, s \notin gone PROVE Has(s, part)' <=> Has(s, part)
      BY <1>5, <2>2, <2>4 DEF Has
    <2>5. ASSUME NEW s, s \in gone PROVE ~Has(s, "actor")'
      BY <1>5, <2>1, <2>3, <2>5 DEF Has
    <2>6. ASSUME NEW s, NEW part, Has(s, part)' PROVE Has(s, part)
      <3>1. CASE s \in gone
        <4>1. s \in DOMAIN ckpt /\ part \in ckpt'[s].parts
          BY <1>5, <2>6 DEF Has
        <4> QED
          BY <2>1, <3>1, <4>1 DEF Has
      <3> QED
        BY <2>4, <2>6, <3>1
    <2> QED
      BY <2>4, <2>5, <2>6
  <1>7. Training /\ Training'
    BY <1>1 DEF Training
  <1>8. OtherTypes'
    BY <1>1, <1>2, <1>5 DEF DiskInv, OtherTypes
  <1>9. EverySave'
    BY <1>1, <1>5, <1>7 DEF DiskInv, EverySave, NoneDue, DueToSave
  <1>10. SoFarSaved'
    <2>1. \A part : Has(step, part)' <=> Has(step, part)
      BY <1>1, <1>4, <1>6
    <2>2. Has(step, "actor") /\ Has(step, "config") /\ Has(step, "shards") /\ Has(step, "hf")
      BY <1>1 DEF DiskInv, SoFarSaved, Saving
    <2> QED
      BY <1>1, <1>2, <2>1, <2>2 DEF SoFarSaved, Saving
  <1>11. Resumable'
    <2>1. CASE tracker \in gone
      BY <1>1, <1>4, <2>1 DEF DiskInv, Resumable
    <2>2. CASE tracker \notin gone
      <3>1. Loadable(tracker)' <=> Loadable(tracker)
        BY <1>1, <1>6, <2>2 DEF Loadable
      <3> QED
        BY <1>1, <3>1 DEF DiskInv, Resumable
    <2> QED
      BY <2>1, <2>2
  <1>12. MilestonesKept'
    <2>1. \A s \in job.milestones : s \notin gone
      BY <1>4
    <2> QED
      BY <1>1, <1>6, <2>1 DEF DiskInv, MilestonesKept
  <1>13. Rolling'
    <2> SUFFICES ASSUME job.keep > 0
                 PROVE  /\ Cardinality(OldActors') <= job.keep
                        /\ \A s \in DOMAIN ckpt' : s <= tracker /\ Has(s, "actor")' => s \in Range(saved')
                        /\ Cardinality(Range(saved') \ job.milestones) <= job.keep
      BY <1>1 DEF Rolling
    <2>1. OldActors' \in SUBSET OldActors
      BY <1>1, <1>5, <1>6 DEF OldActors
    <2>2. OldActors \in SUBSET DOMAIN ckpt /\ IsFiniteSet(DOMAIN ckpt)
      BY DEF OldActors, DiskInv, OtherTypes
    <2>3. IsFiniteSet(OldActors)
      BY <2>2, FS_Subset
    <2>4. IsFiniteSet(OldActors') /\ Cardinality(OldActors') <= Cardinality(OldActors)
      BY <2>1, <2>3, FS_Subset
    <2>5. Cardinality(OldActors') \in Nat /\ Cardinality(OldActors) \in Nat /\ job.keep \in Nat
      BY <2>3, <2>4, FS_CardinalityType, JobFacts
    <2>6. Cardinality(OldActors) <= job.keep
      BY DEF DiskInv, Rolling
    <2>7. ASSUME NEW s \in DOMAIN ckpt', s <= tracker, Has(s, "actor")' PROVE s \in Range(saved')
      <3>1. s \in Range(saved)
        BY <1>5, <1>6, <1>7, <2>7 DEF DiskInv, Rolling
      <3>2. s \notin gone
        BY <1>6, <2>7
      <3> QED
        BY <3>1, <3>2 DEF gone
    <2> QED
      BY <1>2, <2>4, <2>5, <2>6, <2>7
  <1>14. Dumped'
    <2>1. job.kind = "math" => \A s \in DOMAIN ckpt' : Has(s, "config")'
      <3> SUFFICES ASSUME job.kind = "math", NEW s \in DOMAIN ckpt' PROVE Has(s, "config")'
        OBVIOUS
      <3>1. s \notin gone
        BY <1>4, JobFacts
      <3>2. Has(s, "config")
        BY <1>5 DEF DiskInv, Dumped
      <3> QED
        BY <1>6, <3>1, <3>2
    <2> QED
      BY <1>1, <2>1 DEF DiskInv, Dumped, Validated, DueToTest, Saving
  <1>15. Orderly'
    <2>1. orphaned => job.kind = "math"
      BY DEF DiskInv, Orderly
    <2>2. ASSUME ~orphaned PROVE Alone' /\ WithinLast'
      <3>1. Alone /\ WithinLast
        BY <2>2 DEF DiskInv, Orderly
      <3>2. step <= job.last /\ job.last \in Nat /\ sup = "child" /\ tracker < job.last
        BY <1>1, <2>2, <3>1, JobFacts DEF Alone
      <3>3. Alone'
        BY <1>1, <1>5, <3>1, <3>2 DEF Alone, Working, Saving
      <3>4. (job.last \in DOMAIN ckpt /\ ~Has(job.last, "hf")') => halfLast
        <4> SUFFICES ASSUME job.last \in DOMAIN ckpt, ~Has(job.last, "hf")' PROVE halfLast
          OBVIOUS
        <4>1. job.last = step
          BY <1>1, <3>2
        <4>2. Has(step, "hf")
          BY <1>1 DEF DiskInv, SoFarSaved
        <4>3. Has(step, "hf")'
          BY <1>1, <1>4, <1>6, <4>2
        <4>4. job'.last = step'
          BY <1>1, <4>1
        <4> QED
          BY <4>3, <4>4
      <3>5. WithinLast'
        BY <1>1, <1>5, <3>1, <3>2, <3>4 DEF WithinLast, Multiples
      <3> QED
        BY <3>3, <3>5
    <2> QED
      BY <1>1, <2>1, <2>2 DEF Orderly
  <1> QED
    BY <1>8, <1>9, <1>10, <1>11, <1>12, <1>13, <1>14, <1>15 DEF DiskInv

\* The numbers in which something may be due before the step, beside the tracker.
LEMMA DueBelow ==
    ASSUME IInv, NoneDue(tracker, step), NEW s \in 1 .. step, DueToSave(s), step \in Nat,
           tracker \in Nat
    PROVE  s <= tracker \/ s = step
  <1>1. ~(s \in tracker + 1 .. step - 1)
    BY DEF NoneDue
  <1> QED
    BY <1>1

\* The tracker moves on to a whole checkpoint.
LEMMA TrackerDisk == IInv /\ DiskInv /\ WriteTracker => DiskInv'
  <1> SUFFICES ASSUME IInv, DiskInv, WriteTracker PROVE DiskInv'
    OBVIOUS
  <1>0. SaveStep("track", "next") /\ tracker' = step /\ UNCHANGED <<ckpt, torn, saved>>
    BY DEF WriteTracker
  <1>1. /\ UNCHANGED <<job, train, val, step, sup, tier, capacity, launches, faults,
                       spoilt, halfLast, orphaned, ckpt, torn, saved>>
        /\ pc = "track" /\ pc' = "next" /\ step \in Nat \ {0} /\ tracker \in Nat /\ step > tracker
        /\ DueToSave(step) /\ NoneDue(tracker, step) /\ (~orphaned => step <= job.last)
        /\ \A s \in DOMAIN ckpt : s \in Nat \ {0} /\ (s > tracker => s = step)
        /\ tracker' = step
    BY <1>0, SaveFacts DEF Saving
  <1>2. /\ Has(step, "actor") /\ Has(step, "config") /\ Has(step, "shards") /\ Has(step, "hf")
        /\ step \in Range(saved) /\ step \in DOMAIN ckpt
    BY <1>1 DEF DiskInv, SoFarSaved, Saving, Has
  <1>3. \A s, part : Has(s, part)' <=> Has(s, part)
    BY <1>1 DEF Has
  <1>4. Training /\ Training' /\ \A s \in 1 .. step : DueToSave(s) => s <= tracker \/ s = step
    BY <1>1, DueBelow DEF Training
  <1>5. OtherTypes'
    BY <1>1 DEF DiskInv, OtherTypes
  <1>6. EverySave'
    <2>1. \A c \in DOMAIN ckpt : NoneDue(step, c)
      <3> SUFFICES ASSUME NEW c \in DOMAIN ckpt PROVE NoneDue(step, c)
        OBVIOUS
      <3>1. NoneDue(tracker, c) /\ c \in Nat
        BY <1>1 DEF DiskInv, EverySave
      <3> QED
        BY <1>1, <3>1 DEF NoneDue
    <2>2. NoneDue(step, step)
      BY <1>1 DEF NoneDue
    <2>3. \A s \in 1 .. step : DueToSave(s) => s \in DOMAIN ckpt
      BY <1>1, <1>2, <1>4 DEF DiskInv, EverySave
    <2> QED
      BY <1>1, <2>1, <2>2, <2>3 DEF EverySave, NoneDue, DueToSave
  <1>7. SoFarSaved'
    BY <1>1 DEF SoFarSaved, Saving
  <1>8. Resumable'
    <2>1. Loadable(tracker)'
      BY <1>1, <1>2, <1>3 DEF Loadable
    <2> QED
      BY <1>1, <2>1 DEF DiskInv, Resumable
  <1>9. MilestonesKept'
    <2> SUFFICES ASSUME NEW s \in job.milestones, s <= step PROVE Has(s, "shards") /\ Has(s, "hf")
      BY <1>1, <1>3 DEF MilestonesKept
    <2>1. s \in 1 .. step /\ DueToSave(s)
      BY <1>1, JobFacts
    <2>2. s <= tracker \/ s = step
      BY <1>4, <2>1
    <2> QED
      BY <1>2, <2>2 DEF DiskInv, MilestonesKept
  <1>10. Rolling'
    <2> SUFFICES ASSUME job.keep > 0
                 PROVE  /\ Cardinality(OldActors') <= job.keep
                        /\ \A s \in DOMAIN ckpt : Has(s, "actor") => s \in Range(saved)
      BY <1>1, <1>3 DEF Rolling
    <2>1. \A s \in DOMAIN ckpt : Has(s, "actor") => s \in Range(saved)
      BY <1>1, <1>2, <1>4 DEF DiskInv, Rolling
    <2>2. OldActors' \in SUBSET (Range(saved) \ job.milestones)
      BY <1>1, <1>3, <2>1 DEF OldActors
    <2>3. Cardinality(Range(saved) \ job.milestones) <= job.keep
      BY <1>1 DEF DiskInv, Rolling
    <2>4. IsFiniteSet(Range(saved) \ job.milestones)
      <3>1. saved \in Seq(Nat)
        BY DEF DiskInv, OtherTypes
      <3> QED
        BY <3>1, RangeSize, FS_Subset
    <2>5. /\ IsFiniteSet(OldActors')
          /\ Cardinality(OldActors') <= Cardinality(Range(saved) \ job.milestones)
      BY <2>2, <2>4, FS_Subset
    <2>6. Cardinality(OldActors') \in Nat /\ Cardinality(Range(saved) \ job.milestones) \in Nat
          /\ job.keep \in Nat
      BY <2>4, <2>5, FS_CardinalityType, JobFacts
    <2> QED
      BY <2>1, <2>3, <2>5, <2>6
  <1>11. Dumped'
    <2>1. \A s \in 1 .. step : s \in DOMAIN train
      <3>1. Len(model) = step
        BY <1>1 DEF IInv, InStep, Training
      <3> QED
        BY <1>4, <3>1 DEF IInv, ModelOnDumps
    <2>2. job.kind = "math" => Validated(step)
      BY <1>1 DEF DiskInv, Dumped, Saving
    <2>3. job.kind = "math" => \A s \in DOMAIN ckpt : Has(s, "config")
      BY DEF DiskInv, Dumped
    <2> QED
      BY <1>1, <1>3, <2>1, <2>2, <2>3 DEF Dumped, Validated, DueToTest, Saving
  <1>12. Orderly'
    <2>1. orphaned => job.kind = "math"
      BY DEF DiskInv, Orderly
    <2>2. ASSUME ~orphaned PROVE Alone' /\ WithinLast'
      <3>1. Alone /\ WithinLast
        BY <2>2 DEF DiskInv, Orderly
      <3>2. step <= job.last /\ job.last \in Nat /\ sup = "child"
        BY <1>1, <2>2, <3>1, JobFacts DEF Alone
      <3>3. Alone'
        BY <1>1, <3>1, <3>2 DEF Alone, Working, Saving
      <3>4. Has(job.last, "hf")' <=> Has(job.last, "hf")
        BY <1>1 DEF Has
      <3>5. step = job.last => Has(job.last, "hf")
        BY <1>2
      <3>6. WithinLast'
        BY <1>1, <3>1, <3>4, <3>5 DEF WithinLast, Multiples
      <3> QED
        BY <3>3, <3>6
    <2> QED
      BY <1>1, <2>1, <2>2 DEF Orderly
  <1> QED
    BY <1>5, <1>6, <1>7, <1>8, <1>9, <1>10, <1>11, <1>12 DEF DiskInv

\* A Math run whose tracker is at the last step is complete, unless there is an
\* orphan to take it further.
LEMMA CompleteAtLast ==
    ASSUME IInv, DiskInv, ~orphaned, job.kind = "math", tracker = job.last
    PROVE  Complete
  <1>1. WithinLast /\ job.last \in Nat \ {0}
    BY JobFacts DEF DiskInv, Orderly
  <1>2. DOMAIN train = 1 .. job.last
    BY <1>1 DEF WithinLast, DiskInv, Dumped
  <1>3. val = {0} \cup Multiples(job.test)
    <2>1. Validated(job.last)
      BY <1>1 DEF DiskInv, Dumped
    <2>2. \A s \in Multiples(job.test) : s \in 1 .. job.last /\ DueToTest(s)
      BY <1>1 DEF Multiples, DueToTest
    <2>3. {0} \cup Multiples(job.test) \subseteq val
      BY <2>1, <2>2 DEF Validated
    <2> QED
      BY <1>1, <2>3 DEF WithinLast
  <1>4. DOMAIN ckpt = Multiples(job.save)
    <2>1. ASSUME NEW c \in DOMAIN ckpt PROVE c \in Multiples(job.save)
      <3>1. c \in 1 .. job.last /\ DueToSave(c)
        BY <1>1 DEF WithinLast, IInv, Types, SavesRedone
      <3> QED
        BY <1>1, <3>1 DEF Multiples, DueToSave
    <2>2. ASSUME NEW s \in Multiples(job.save) PROVE s \in DOMAIN ckpt
      <3>1. s \in 1 .. tracker /\ DueToSave(s)
        BY <1>1 DEF Multiples, DueToSave
      <3> QED
        BY <3>1 DEF DiskInv, EverySave
    <2> QED
      BY <2>1, <2>2
  <1>5. \A s \in DOMAIN ckpt : Has(s, "config")
    BY DEF DiskInv, Dumped
  <1> QED
    BY <1>2, <1>3, <1>4, <1>5 DEF Complete

\* What the supervisor sees when it looks at the disk.
LEMMA ReachedFacts ==
    ASSUME IInv, DiskInv, ~orphaned
    PROVE  /\ Reached => job.last \in DOMAIN ckpt /\ (job.kind = "docvqa" => tracker = job.last)
           /\ ~Reached => torn \/ tracker < job.last
  <1>1. /\ job.last \in Nat \ {0} /\ DueToSave(job.last) /\ job.kind \in {"math", "docvqa"}
        /\ tracker \in Nat /\ tracker <= job.last
    BY JobFacts DEF DiskInv, Orderly, Alone, IInv, Types
  <1>2. CASE job.kind = "math"
    <2>1. Reached <=> Complete
      BY <1>2 DEF Reached
    <2>2. Complete => job.last \in DOMAIN ckpt
      BY <1>1 DEF Complete, Multiples
    <2>3. ~Complete => tracker # job.last
      BY <1>2, CompleteAtLast
    <2> QED
      BY <1>1, <1>2, <2>1, <2>2, <2>3
  <1>3. CASE job.kind = "docvqa"
    <2>1. Reached <=> tracker = job.last /\ ~torn
      BY <1>3 DEF Reached
    <2>2. tracker = job.last => job.last \in DOMAIN ckpt
      BY <1>1 DEF DiskInv, EverySave
    <2> QED
      BY <1>1, <2>1, <2>2
  <1> QED
    BY <1>1, <1>2, <1>3

\* A step of the supervisor that starts nothing.
LEMMA SupervisorDisk ==
    ASSUME IInv, DiskInv, UNCHANGED <<job, disk, trainer, spoilt, halfLast, launches>>,
           faults' \in 0 .. MaxFaults, tier' \in 0 .. Tiers - 1, capacity' \in BOOLEAN,
           orphaned' \in BOOLEAN, orphaned => orphaned', orphaned' => job.kind = "math",
           sup' \in {"down", "inspect", "wait", "child", "accepted", "gave_up"},
           ~orphaned' =>
              /\ sup' # "child" => pc = "off"
              /\ sup' = "wait" => torn \/ tracker < job.last
              /\ sup' = "accepted" => job.last \in DOMAIN ckpt
              /\ (sup' = "accepted" /\ job.kind = "docvqa") => tracker = job.last
    PROVE  DiskInv'
  <1>1. UNCHANGED <<job, train, val, ckpt, tracker, torn, pc, step, model, saved,
                    spoilt, halfLast, launches>>
    BY DEF disk, trainer
  <1>2. OtherTypes'
    BY <1>1 DEF DiskInv, OtherTypes
  <1>3. /\ EverySave' /\ SoFarSaved' /\ Resumable' /\ MilestonesKept'
    BY <1>1 DEF DiskInv, EverySave, SoFarSaved, Resumable, MilestonesKept, Training, Has,
                Loadable, NoneDue, DueToSave
  <1>4. Rolling'
    <2>1. OldActors' = OldActors
      BY <1>1 DEF OldActors, Has
    <2> QED
      BY <1>1, <2>1 DEF DiskInv, Rolling, Training, Has
  <1>5. Dumped'
    BY <1>1 DEF DiskInv, Dumped, Has, Validated, DueToTest
  <1>6. Orderly'
    BY <1>1 DEF DiskInv, Orderly, Alone, WithinLast, Has, Multiples
  <1> QED
    BY <1>2, <1>3, <1>4, <1>5, <1>6 DEF DiskInv

\* A trainer is started only when there is something left to train.
LEMMA LaunchDisk == IInv /\ DiskInv /\ Launch => DiskInv'
  <1> SUFFICES ASSUME IInv, DiskInv, Launch PROVE DiskInv'
    OBVIOUS
  <1>1. /\ UNCHANGED <<job, train, val, ckpt, tracker, torn, step, model, saved, tier, faults,
                       spoilt, halfLast, orphaned>>
        /\ pc = "off" /\ pc' = "load" /\ sup = "wait" /\ sup' = "child" /\ capacity' = FALSE
        /\ launches' = launches + 1 /\ launches < MaxLaunches
    BY DEF Launch, SupervisorStep, disk, history
  <1>2. launches \in 0 .. MaxLaunches /\ MaxLaunches \in Nat /\ \A s \in DOMAIN train : train[s] \in 1 .. launches
    BY TrainingBounds DEF DiskInv, OtherTypes
  <1>3. OtherTypes'
    <2>1. launches' \in 0 .. MaxLaunches /\ launches' > 0
          /\ \A s \in DOMAIN train : train[s] \in 1 .. launches'
      BY <1>1, <1>2
    <2>2. capacity' \in BOOLEAN
      BY <1>1, Zenon
    <2> QED
      BY <1>1, <2>1, <2>2 DEF DiskInv, OtherTypes
  <1>4. /\ EverySave' /\ SoFarSaved' /\ Resumable' /\ MilestonesKept'
    BY <1>1 DEF DiskInv, EverySave, SoFarSaved, Resumable, MilestonesKept, Training, Has,
                Loadable, NoneDue, DueToSave, Saving
  <1>5. Rolling'
    <2>1. OldActors' = OldActors
      BY <1>1 DEF OldActors, Has
    <2> QED
      BY <1>1, <2>1 DEF DiskInv, Rolling, Training
  <1>6. Dumped'
    BY <1>1 DEF DiskInv, Dumped, Has, Validated, DueToTest, Saving
  <1>7. Orderly'
    BY <1>1 DEF DiskInv, Orderly, Alone, WithinLast, Has, Multiples, Working, Saving
  <1> QED
    BY <1>3, <1>4, <1>5, <1>6, <1>7 DEF DiskInv

\* The other steps of the supervisor, and the death of the watchdog alone.
LEMMA SupervisesDisk ==
    ASSUME IInv, DiskInv,
           \/ Start \/ Accept \/ Wait \/ ReapAccepted \/ ReapTransient \/ ReapCapacity
           \/ ReapLowestTier \/ WatchdogDies \/ UNCHANGED vars
    PROVE  DiskInv'
  <1>1. UNCHANGED <<job, disk, trainer, spoilt, halfLast, launches>>
    BY DEF Start, Accept, Wait, ReapAccepted, ReapTransient, ReapCapacity, ReapLowestTier,
           WatchdogDies, Reap, SupervisorStep, history, vars, supervisor
  <1>2. /\ faults \in 0 .. MaxFaults /\ tier \in 0 .. Tiers - 1 /\ capacity \in BOOLEAN
        /\ orphaned \in BOOLEAN /\ (orphaned => job.kind = "math")
        /\ sup \in {"down", "inspect", "wait", "child", "accepted", "gave_up"}
        /\ job.kind \in {"math", "docvqa"}
    BY JobFacts DEF DiskInv, OtherTypes, Orderly
  <1>3. faults' \in 0 .. MaxFaults
    <2>1. faults' = faults \/ (faults < MaxFaults /\ faults' = faults + 1)
      BY DEF Start, Accept, Wait, ReapAccepted, ReapTransient, ReapCapacity, ReapLowestTier,
             WatchdogDies, Reap, SupervisorStep, vars
    <2> QED
      BY <1>2, <2>1, TrainingBounds
  <1>4. tier' \in 0 .. Tiers - 1
    <2>1. tier' = tier \/ tier' = 0 \/ (tier + 1 < Tiers /\ tier' = tier + 1)
      BY DEF Start, Accept, Wait, ReapAccepted, ReapTransient, ReapCapacity, ReapLowestTier,
             WatchdogDies, vars, supervisor
    <2> QED
      BY <1>2, <2>1, TrainingBounds
  <1>5. capacity' \in BOOLEAN
    <2>1. capacity' = capacity
      BY DEF Start, Accept, Wait, ReapAccepted, ReapTransient, ReapCapacity, ReapLowestTier,
             WatchdogDies, vars, supervisor
    <2> QED
      BY <1>2, <2>1
  <1>6. CASE WatchdogDies
    <2>1. orphaned' = TRUE /\ job.kind = "math" /\ sup' = "down"
      BY <1>6 DEF WatchdogDies
    <2>2. orphaned' \in BOOLEAN
      BY <2>1, Zenon
    <2> QED
      BY <1>1, <1>3, <1>4, <1>5, <2>1, <2>2, SupervisorDisk
  <1>7. CASE \/ Start \/ Accept \/ Wait \/ ReapAccepted \/ ReapTransient \/ ReapCapacity
             \/ ReapLowestTier \/ UNCHANGED vars
    <2>1. orphaned' = orphaned
      BY <1>7 DEF Start, Accept, Wait, ReapAccepted, ReapTransient, ReapCapacity, ReapLowestTier,
                  Reap, SupervisorStep, history, vars
    <2>2. orphaned' \in BOOLEAN
      BY <1>2, <2>1
    <2>3. \/ sup' = sup
          \/ /\ sup' \in {"down", "inspect", "gave_up"} /\ (sup # "child" \/ pc = "off")
          \/ /\ sup' = "wait" /\ sup # "child" /\ ~Reached
          \/ /\ sup' = "accepted" /\ Reached /\ (sup # "child" \/ pc = "off")
      <3>1. CASE Start
        BY <3>1 DEF Start, SupervisorStep
      <3>2. CASE Accept
        BY <3>2 DEF Accept, SupervisorStep, Accepted
      <3>3. CASE Wait
        BY <3>3 DEF Wait, SupervisorStep
      <3>4. CASE ReapAccepted
        BY <3>4 DEF ReapAccepted, Reap, SupervisorStep, Accepted
      <3>5. CASE ReapTransient \/ ReapCapacity \/ ReapLowestTier
        BY <3>5 DEF ReapTransient, ReapCapacity, ReapLowestTier, Reap, SupervisorStep
      <3>6. CASE UNCHANGED vars
        BY <3>6 DEF vars, supervisor
      <3> QED
        BY <1>7, <3>1, <3>2, <3>3, <3>4, <3>5, <3>6
    <2>4. ASSUME ~orphaned
          PROVE  /\ sup' # "child" => pc = "off"
                 /\ sup' = "wait" => torn \/ tracker < job.last
                 /\ sup' = "accepted" => job.last \in DOMAIN ckpt
                 /\ (sup' = "accepted" /\ job.kind = "docvqa") => tracker = job.last
      <3>1. Alone
        BY <2>4 DEF DiskInv, Orderly
      <3> QED
        BY <2>3, <2>4, <3>1, ReachedFacts DEF Alone
    <2>5. sup' \in {"down", "inspect", "wait", "child", "accepted", "gave_up"}
      BY <1>2, <2>3
    <2> QED
      BY <1>1, <1>2, <1>3, <1>4, <1>5, <2>1, <2>2, <2>4, <2>5, SupervisorDisk
  <1> QED
    BY <1>6, <1>7

\* Every step keeps the second invariant.
LEMMA StepDisk == IInv /\ DiskInv /\ [Next]_vars => DiskInv'
  <1> SUFFICES ASSUME IInv, DiskInv, [Next]_vars PROVE DiskInv'
    OBVIOUS
  <1>1. CASE TrainerNext
    BY <1>1, LoadDisk, OffDisk, InitialValidateDisk, WorkDisk, SavesDisk, PruneDisk,
       TrackerDisk, NextStepDisk DEF TrainerNext
  <1>2. CASE SupervisorNext
    BY <1>2, LaunchDisk, SupervisesDisk DEF SupervisorNext
  <1>3. CASE TrainerDies \/ StopAll
    BY <1>3, OffDisk
  <1>4. CASE WatchdogDies \/ Stopped \/ UNCHANGED vars
    BY <1>4, SupervisesDisk DEF Stopped
  <1> QED
    BY <1>1, <1>2, <1>3, <1>4 DEF Next

\* What lies on disk, for any jobs, tiers, faults and launches.
LEMMA DiskInvariance == Spec => [](IInv /\ DiskInv)
  <1>1. Init => IInv /\ DiskInv
    BY InitInv, InitDisk
  <1>2. (IInv /\ DiskInv) /\ [Next]_vars => (IInv /\ DiskInv)'
    BY StepInv, StepDisk
  <1> QED
    BY <1>1, <1>2, PTL DEF Spec

\* Every variable of a training run stays of its type: a save or a dump is never of
\* step 0 or of a launch that was not, and the watchdog's tier is one of its list.
THEOREM Typed == Spec => []TypeOK
  <1>1. IInv /\ DiskInv => TypeOK
    <2> SUFFICES ASSUME IInv, DiskInv PROVE TypeOK
      OBVIOUS
    <2>1. \A s \in DOMAIN ckpt : /\ ckpt[s].parts \subseteq Parts
                                 /\ ckpt[s].of \in Seq(Nat) /\ ckpt[s].position \in Nat
      <3> SUFFICES ASSUME NEW s \in DOMAIN ckpt
                   PROVE  /\ ckpt[s].parts \subseteq Parts
                          /\ ckpt[s].of \in Seq(Nat) /\ ckpt[s].position \in Nat
        OBVIOUS
      <3>1. ckpt[s] \in Checkpoints
        BY DEF IInv, Types
      <3> QED
        BY <3>1 DEF Checkpoints
    <2> QED
      BY <2>1 DEF IInv, Types, PcOK, DiskInv, OtherTypes, TypeOK
  <1> QED
    BY <1>1, DiskInvariance, PTL

\* What the tracker names can be loaded, unless a trainer died after its checkpoint
\* was pruned and before the tracker moved on (fsdp_checkpoint_manager.py's rolling
\* retention, ray_trainer.py's tracker written last).
THEOREM Resumes == Spec => []ResumePoint
  <1>1. IInv /\ DiskInv => ResumePoint
    BY DEF DiskInv, Resumable, ResumePoint
  <1> QED
    BY <1>1, DiskInvariance, PTL

\* At most one directory lies past the tracker: that of the next save.
LEMMA OnePastTracker ==
    ASSUME IInv, DiskInv, NEW c \in DOMAIN ckpt, NEW d \in DOMAIN ckpt, c > tracker, d > tracker
    PROVE  c = d
  <1>1. c \in Nat /\ d \in Nat /\ tracker \in Nat /\ DueToSave(c) /\ DueToSave(d)
    BY DEF IInv, Types, SavesRedone
  <1>2. NoneDue(tracker, c) /\ NoneDue(tracker, d)
    BY DEF DiskInv, EverySave
  <1>3. ~(c < d) /\ ~(d < c)
    BY <1>1, <1>2 DEF NoneDue
  <1> QED
    BY <1>1, <1>3

\* Rolling retention never takes a milestone, and keeps at most keep checkpoints
\* beside the milestones and the save in progress (rolling_checkpoint_partition,
\* across resumes that find the siblings on disk again).
THEOREM Retains == Spec => []Retention
  <1>1. IInv /\ DiskInv => Retention
    <2> SUFFICES ASSUME IInv, DiskInv PROVE Retention
      OBVIOUS
    <2> DEFINE U == {s \in DOMAIN ckpt \ job.milestones : Has(s, "actor")}
    <2>1. ASSUME job.keep > 0 PROVE Cardinality(U) <= job.keep + 1
      <3>1. IsFiniteSet(DOMAIN ckpt) /\ Cardinality(OldActors) <= job.keep /\ job.keep \in Nat
        BY <2>1, JobFacts DEF DiskInv, OtherTypes, Rolling
      <3>2. OldActors \in SUBSET DOMAIN ckpt
        BY DEF OldActors
      <3>3. IsFiniteSet(OldActors) /\ Cardinality(OldActors) \in Nat
        BY <3>1, <3>2, FS_Subset, FS_CardinalityType
      <3>4. PICK x : \A s \in DOMAIN ckpt : s > tracker => s = x
        <4>1. CASE \E s \in DOMAIN ckpt : s > tracker
          BY <4>1, OnePastTracker
        <4>2. CASE ~\E s \in DOMAIN ckpt : s > tracker
          BY <4>2
        <4> QED
          BY <4>1, <4>2
      <3>5. U \in SUBSET (OldActors \cup {x})
        <4>1. \A s \in DOMAIN ckpt : s <= tracker \/ s > tracker
          BY DEF IInv, Types
        <4> QED
          BY <3>4, <4>1 DEF OldActors
      <3>6. /\ IsFiniteSet(OldActors \cup {x})
            /\ Cardinality(OldActors \cup {x}) <= Cardinality(OldActors) + 1
        BY <3>3, FS_AddElement
      <3> HIDE DEF U
      <3>7. IsFiniteSet(U) /\ Cardinality(U) <= Cardinality(OldActors \cup {x})
        BY <3>5, <3>6, FS_Subset
      <3>8. Cardinality(U) \in Nat /\ Cardinality(OldActors \cup {x}) \in Nat
        BY <3>6, <3>7, FS_CardinalityType
      <3> QED
        BY <3>1, <3>3, <3>6, <3>7, <3>8
    <2> QED
      BY <2>1 DEF DiskInv, MilestonesKept, Retention
  <1> QED
    BY <1>1, DiskInvariance, PTL

\* A Math run whose tracker is at the last step has every dump and checkpoint that
\* inspect_completion asks for, and nothing else, unless its watchdog died; an
\* accepted run has the last Hugging Face model, unless it was cut or outlived
\* (run_training_until_complete.py, run_four_gpu_experiment_pipeline.sh).
THEOREM CompleteAtTheLast == Spec => []LastIsComplete
  <1>1. IInv /\ DiskInv => LastIsComplete
    <2> SUFFICES ASSUME IInv, DiskInv PROVE LastIsComplete
      OBVIOUS
    <2>1. ~orphaned => step <= job.last
      BY DEF DiskInv, Orderly, Alone
    <2>2. ~orphaned => ((job.kind = "math" /\ tracker = job.last) => Complete)
      BY CompleteAtLast
    <2>3. ASSUME sup = "accepted", ~Has(job.last, "hf")
          PROVE  job.kind = "math" /\ (halfLast \/ orphaned)
      <3>1. CASE orphaned
        BY <3>1 DEF DiskInv, Orderly
      <3>2. CASE ~orphaned
        <4>1. Alone /\ WithinLast
          BY <3>2 DEF DiskInv, Orderly
        <4>2. pc = "off" /\ job.last \in DOMAIN ckpt
          BY <2>3, <4>1 DEF Alone
        <4>3. job.kind # "docvqa"
          BY <2>3, <4>1 DEF Alone, WithinLast
        <4> QED
          BY <2>3, <4>1, <4>2, <4>3, JobFacts DEF WithinLast
      <3> QED
        BY <3>1, <3>2
    <2> QED
      BY <2>1, <2>2, <2>3 DEF LastIsComplete
  <1> QED
    BY <1>1, DiskInvariance, PTL
===============================================================================
