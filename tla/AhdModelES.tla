------------------------------- MODULE AhdModelES -------------------------------
(***************************************************************************)
(* EoH under model ES: batches of candidates generated by perturbed        *)
(* engines and turned into one model update each.  Unlike the other        *)
(* runners, a direction that fails is a candidate with an invalid reward   *)
(* and the batch goes on; and two files have to agree at a resume, the ES  *)
(* history (after every batch) and the population (after every generation).*)
(***************************************************************************)
EXTENDS ESEndpoint, FiniteSets

CONSTANTS
    NEngines,           \* the engines, 1 .. NEngines
    Workers,            \* llm_es_max_workers
    Directions,         \* candidates of a batch
    NOperators,         \* operators of a generation that use model ES
    Generations,        \* ec_n_pop
    RewardsOf(_, _),    \* the rewards what such a model writes can earn
    Invalid,            \* the reward of an invalid candidate
    MaxCrashes,         \* bound: times the driver is killed
    MaxRestarts,        \* bound: times an engine dies and comes back
    MaxTimeouts         \* bound: requests the driver gives up on

Engines == 1 .. NEngines
Tasks == 1 .. Directions

ASSUME BatchShape ==
    /\ NEngines \in Nat \ {0} /\ Workers \in 1 .. NEngines
    /\ Directions \in Nat \ {0} /\ NOperators \in Nat \ {0} /\ Generations \in Nat \ {0}
    /\ Invalid \in Nat
ASSUME BatchBounds ==
    MaxCrashes \in Nat /\ MaxRestarts \in Nat /\ MaxTimeouts \in Nat

VARIABLES
    disk,               \* the batch records in history.json
    saved,              \* n of the last population_generation_<n>.json
    engine,             \* [Engines -> ES state of the server object]
    queue,              \* [Engines -> requests the server has not handled]
    reply,              \* [Engines -> what the driver's request to it came to]
    pc,                 \* where the driver is
    cur,                \* the engine it is talking to outside the pool
    rec,                \* the record being replayed
    mem,                \* model_es_history
    rng,                \* draws taken from model_es_rng
    generation, operator,
    task,               \* [Tasks -> stage and reward of generate_direction]
    crashes, restarts, timeouts

budget == <<crashes, restarts, timeouts>>
local == <<cur, rec, mem, rng, generation, operator, task>>
vars == <<disk, saved, engine, queue, reply, pc, local, budget>>

EngineOf(i) == ((i - 1) % NEngines) + 1

Drawn(n) == [i \in Tasks |-> n + i]
Seed(i) == rng - Directions + i

NoTasks == [i \in Tasks |-> [stage |-> "queued", reward |-> Invalid]]

Init ==
    /\ disk = <<>> /\ saved = 0
    /\ engine = [e \in Engines |-> Blank]
    /\ queue = [e \in Engines |-> <<>>]
    /\ reply = [e \in Engines |-> "none"]
    /\ pc = "down" /\ cur = 1 /\ rec = 1 /\ mem = <<>> /\ rng = 0
    /\ generation = 0 /\ operator = 1 /\ task = NoTasks
    /\ crashes = 0 /\ restarts = 0 /\ timeouts = 0
-----------------------------------------------------------------------------
(* The engines, and HTTP. *)

\* The task whose worker holds the engine's lock.
Holds(i) == task[i].stage \in {"apply", "generate", "revert"}
Holder(e) == {i \in Tasks : EngineOf(i) = e /\ Holds(i)}

\* The server takes its oldest request.  A completion is a program that will earn
\* a reward, or one that cannot be used or run.
Serve(e) ==
    /\ queue[e] # <<>>
    /\ LET m == Head(queue[e])
           done == Handle(engine[e], m)
       IN  /\ engine' = [engine EXCEPT ![e] = done.state]
           /\ queue' = [queue EXCEPT ![e] = Tail(@)]
           /\ reply' = IF m.live
                       THEN [reply EXCEPT ![e] = IF done.ok THEN "ok" ELSE "error"]
                       ELSE reply
           /\ IF m.live /\ m.op = "rollout"
              THEN \E i \in Holder(e) :
                     \E r \in RewardsOf(engine[e].log, engine[e].active) :
                        task' = [task EXCEPT ![i].reward = r]
              ELSE UNCHANGED task
    /\ UNCHANGED <<disk, saved, pc, cur, rec, mem, rng, generation, operator, budget>>

EngineRestart(e) ==
    /\ restarts < MaxRestarts
    /\ restarts' = restarts + 1
    /\ engine' = [engine EXCEPT ![e] = Blank]
    /\ queue' = [queue EXCEPT ![e] = <<>>]
    /\ reply' = [reply EXCEPT ![e] = IF @ = "pending" THEN "error" ELSE @]
    /\ UNCHANGED <<disk, saved, pc, local, crashes, timeouts>>

Post(e, op, arg) ==
    /\ queue' = [queue EXCEPT ![e] = Append(@, Request(op, arg))]
    /\ reply' = [reply EXCEPT ![e] = "pending"]

Consume(e) == reply' = [reply EXCEPT ![e] = "none"]

\* requests.post gives up; the request stays in the server's backlog.
Timeout(e) ==
    /\ reply[e] = "pending"
    /\ timeouts < MaxTimeouts
    /\ timeouts' = timeouts + 1
    /\ reply' = [reply EXCEPT ![e] = "error"]
    /\ queue' = [queue EXCEPT ![e] = Abandoned(@)]
    /\ UNCHANGED <<disk, saved, engine, pc, local, crashes, restarts>>

Die ==
    /\ pc' = "down"
    /\ queue' = [e \in Engines |-> Abandoned(queue[e])]
    /\ reply' = [e \in Engines |-> "none"]
    /\ cur' = 1 /\ rec' = 1 /\ mem' = <<>> /\ rng' = 0
    /\ generation' = 0 /\ operator' = 1 /\ task' = NoTasks

Crash ==
    /\ pc \notin {"down", "done", "refused"}
    /\ crashes < MaxCrashes
    /\ crashes' = crashes + 1
    /\ Die
    /\ UNCHANGED <<disk, saved, engine, restarts, timeouts>>
-----------------------------------------------------------------------------
(* InterfaceEC.__init__: init and restore. *)

\* The operator starts the run; a history and a population there are go with
\* --resume-history, --continue-path and --continue-id.
Launch ==
    /\ pc = "down"
    /\ pc' = "init"
    /\ UNCHANGED <<disk, saved, engine, queue, reply, local, budget>>

\* Outside the pool a failed request is an exception nobody catches.
DriverFails ==
    /\ pc \in {"init", "replay", "update"} /\ reply[cur] = "error"
    /\ Die
    /\ UNCHANGED <<disk, saved, engine, budget>>

InitPost ==
    /\ pc = "init" /\ reply[cur] = "none"
    /\ Post(cur, "init", None)
    /\ UNCHANGED <<disk, saved, engine, pc, local, budget>>

InitDone ==
    /\ pc = "init" /\ reply[cur] = "ok"
    /\ Consume(cur)
    /\ IF cur < NEngines THEN cur' = cur + 1 /\ UNCHANGED pc
                         ELSE cur' = 1 /\ pc' = "restore"
    /\ UNCHANGED <<disk, saved, engine, queue, rec, mem, rng, generation, operator, task, budget>>

\* _restore_model_es_history compares each record with the seed stream before it
\* sends that record; a record it refuses is modelled as refused at once.
Restore ==
    /\ pc = "restore"
    /\ IF \A k \in 1 .. Len(disk) : disk[k].seeds = Drawn((k - 1) * Directions)
       THEN mem' = disk /\ pc' = IF disk = <<>> THEN "start" ELSE "replay"
       ELSE pc' = "refused" /\ UNCHANGED mem
    /\ UNCHANGED <<disk, saved, engine, queue, reply, cur, rec, rng, generation, operator, task, budget>>

\* What an update request carries of a record.
Update(record) == [seeds |-> record.seeds, rewards |-> record.rewards]

ReplayPost ==
    /\ pc = "replay" /\ reply[cur] = "none"
    /\ Post(cur, "update", Update(mem[rec]))
    /\ UNCHANGED <<disk, saved, engine, pc, local, budget>>

ReplayDone ==
    /\ pc = "replay" /\ reply[cur] = "ok"
    /\ Consume(cur)
    /\ IF cur < NEngines
       THEN cur' = cur + 1 /\ UNCHANGED <<rec, pc>>
       ELSE /\ cur' = 1
            /\ IF rec < Len(mem) THEN rec' = rec + 1 /\ UNCHANGED pc
                                 ELSE pc' = "start" /\ UNCHANGED rec
    /\ UNCHANGED <<disk, saved, engine, queue, mem, rng, generation, operator, task, budget>>

\* A mutant of Start: the seed stream is not moved past the replayed draws.
StartStreamAnew ==
    /\ pc = "start"
    /\ disk' = mem /\ rng' = 0
    /\ generation' = saved
    /\ pc' = IF saved < Generations THEN "draw" ELSE "done"
    /\ UNCHANGED <<saved, engine, queue, reply, cur, rec, mem, operator, task, budget>>

\* model_es_rng is moved past the replayed draws, the history is written back,
\* and run() starts at the generation of the population it loads.
Start ==
    /\ pc = "start"
    /\ disk' = mem /\ rng' = Len(mem) * Directions
    /\ generation' = saved
    /\ pc' = IF saved < Generations THEN "draw" ELSE "done"
    /\ UNCHANGED <<saved, engine, queue, reply, cur, rec, mem, operator, task, budget>>
-----------------------------------------------------------------------------
(* _get_algorithm_with_model_es: one batch. *)

Draw ==
    /\ pc = "draw"
    /\ rng' = rng + Directions
    /\ task' = NoTasks
    /\ pc' = "sample"
    /\ UNCHANGED <<disk, saved, engine, queue, reply, cur, rec, mem, generation, operator, budget>>

Becomes(i, stage) == task' = [task EXCEPT ![i].stage = stage]
Fails(i) == task' = [task EXCEPT ![i] = [stage |-> "returned", reward |-> Invalid]]

Running == {i \in Tasks : task[i].stage \notin {"queued", "returned"}}

pool == <<disk, saved, engine, pc, cur, rec, mem, rng, generation, operator, budget>>

\* A free thread of the executor takes the next task and waits for the engine.
Take(i) ==
    /\ pc = "sample" /\ task[i].stage = "queued"
    /\ \A j \in 1 .. i - 1 : task[j].stage # "queued"
    /\ Cardinality(Running) < Workers
    /\ Becomes(i, "waiting")
    /\ UNCHANGED <<pool, queue, reply>>

Acquire(i) ==
    /\ task[i].stage = "waiting" /\ Holder(EngineOf(i)) = {}
    /\ Becomes(i, "apply")
    /\ UNCHANGED <<pool, queue, reply>>

TaskPost(i) ==
    /\ Holds(i) /\ reply[EngineOf(i)] = "none"
    /\ Post(EngineOf(i), IF task[i].stage = "generate" THEN "rollout" ELSE task[i].stage,
            Seed(i))
    /\ UNCHANGED <<pool, task>>

Answered(i, stage, answer) ==
    /\ task[i].stage = stage /\ reply[EngineOf(i)] = answer
    /\ Consume(EngineOf(i))
    /\ UNCHANGED <<pool, queue>>

\* A failed apply fails the direction without a revert: it is outside the try.
Applied(i) ==
    \/ Answered(i, "apply", "ok") /\ Becomes(i, "generate")
    \/ Answered(i, "apply", "error") /\ Fails(i)

\* A mutant of Generated: the revert after the completion is forgotten.
GeneratedNoRevert(i) ==
    \/ Answered(i, "generate", "ok") /\ Becomes(i, "returned")
    \/ Answered(i, "generate", "error") /\ UNCHANGED task

\* get_response tries again until it is answered; then comes the finally clause.
Generated(i) ==
    \/ Answered(i, "generate", "ok") /\ Becomes(i, "revert")
    \/ Answered(i, "generate", "error") /\ UNCHANGED task

\* A failed revert replaces the candidate by an invalid one.
Reverted(i) ==
    \/ Answered(i, "revert", "ok") /\ Becomes(i, "returned")
    \/ Answered(i, "revert", "error") /\ Fails(i)

\* The executor has ended; the evaluators take over (EvaluatorPool).
Collected ==
    /\ pc = "sample" /\ \A i \in Tasks : task[i].stage = "returned"
    /\ pc' = "evaluate"
    /\ UNCHANGED <<disk, saved, engine, queue, reply, local, budget>>

Evaluated ==
    /\ pc = "evaluate"
    /\ pc' = "update"
    /\ UNCHANGED <<disk, saved, engine, queue, reply, local, budget>>

Record == [generation |-> generation, operator |-> operator,
           seeds |-> [i \in Tasks |-> Seed(i)], rewards |-> [i \in Tasks |-> task[i].reward]]

UpdatePost ==
    /\ pc = "update" /\ reply[cur] = "none"
    /\ Post(cur, "update", Update(Record))
    /\ UNCHANGED <<disk, saved, engine, pc, local, budget>>

UpdateDone ==
    /\ pc = "update" /\ reply[cur] = "ok"
    /\ Consume(cur)
    /\ IF cur < NEngines THEN cur' = cur + 1 /\ UNCHANGED pc
                         ELSE cur' = 1 /\ pc' = "persist"
    /\ UNCHANGED <<disk, saved, engine, queue, rec, mem, rng, generation, operator, task, budget>>

\* The next operator, or the end of the generation.
NextOperator ==
    IF operator < NOperators THEN operator' = operator + 1 /\ pc' = "draw"
                             ELSE operator' = 1 /\ pc' = "save"

\* A mutant of Persist: an operator too many.
PersistOneMore ==
    /\ pc = "persist"
    /\ mem' = Append(mem, Record) /\ disk' = mem'
    /\ IF operator <= NOperators THEN operator' = operator + 1 /\ pc' = "draw"
                                 ELSE operator' = 1 /\ pc' = "save"
    /\ UNCHANGED <<saved, engine, queue, reply, cur, rec, rng, generation, task, budget>>

\* A mutant of Persist: the history is written before the record is appended.
PersistBefore ==
    /\ pc = "persist"
    /\ mem' = Append(mem, Record) /\ disk' = mem
    /\ NextOperator
    /\ UNCHANGED <<saved, engine, queue, reply, cur, rec, rng, generation, task, budget>>

Persist ==
    /\ pc = "persist"
    /\ mem' = Append(mem, Record) /\ disk' = mem'
    /\ NextOperator
    /\ UNCHANGED <<saved, engine, queue, reply, cur, rec, rng, generation, task, budget>>

Save ==
    /\ pc = "save"
    /\ saved' = generation + 1 /\ generation' = generation + 1
    /\ pc' = IF generation' < Generations THEN "draw" ELSE "done"
    /\ UNCHANGED <<disk, engine, queue, reply, cur, rec, mem, rng, operator, task, budget>>

Finished ==
    /\ pc = "done" /\ \A e \in Engines : queue[e] = <<>>
    /\ UNCHANGED vars
-----------------------------------------------------------------------------
Driver ==
    \/ Launch \/ DriverFails \/ InitPost \/ InitDone \/ Restore \/ ReplayPost \/ ReplayDone
    \/ Start \/ Draw \/ Collected \/ Evaluated \/ UpdatePost \/ UpdateDone \/ Persist \/ Save

Worker(i) ==
    Take(i) \/ Acquire(i) \/ TaskPost(i) \/ Applied(i) \/ Generated(i) \/ Reverted(i)

Environment == Crash \/ \E e \in Engines : Timeout(e) \/ EngineRestart(e)

Next ==
    \/ Driver \/ Environment \/ Finished
    \/ \E i \in Tasks : Worker(i)
    \/ \E e \in Engines : Serve(e)

\* Processes and threads that can run do; the operator starts a dead run again.
Fairness ==
    /\ WF_vars(Driver)
    /\ \A i \in Tasks : WF_vars(Worker(i))
    /\ \A e \in Engines : WF_vars(Serve(e))

Spec == Init /\ [][Next]_vars /\ Fairness
-----------------------------------------------------------------------------
Rewards == [Tasks -> Nat]
Seeds == [Tasks -> Nat \ {0}]
Updates == [seeds : Seeds, rewards : Rewards]
Records == [generation : 0 .. Generations - 1, operator : 1 .. NOperators,
            seeds : Seeds, rewards : Rewards]

\* Every variable has its type.
TypeOK ==
    /\ disk \in Seq(Records) /\ mem \in Seq(Records) /\ saved \in 0 .. Generations
    /\ engine \in [Engines -> [ready : BOOLEAN, log : Seq(Updates), active : Nat \cup {None}]]
    /\ reply \in [Engines -> {"none", "pending", "ok", "error"}]
    /\ cur \in Engines /\ rec \in Nat \ {0} /\ rng \in Nat
    /\ generation \in 0 .. Generations /\ operator \in 1 .. NOperators
    /\ task \in [Tasks -> [reward : Nat,
          stage : {"queued", "waiting", "apply", "generate", "revert", "returned"}]]

\* The updates of the history, as the engines hold them.
UpdatesOf(records) == [k \in 1 .. Len(records) |-> Update(records[k])]

\* When a batch starts, no request waits anywhere and every engine that did not
\* lose its state is at exactly the durable history and unperturbed, also after
\* batches in which directions failed at their apply or revert.
EnginesInSync ==
    pc \in {"draw", "save", "done"} =>
        \A e \in Engines :
            /\ queue[e] = <<>>
            /\ engine[e].ready => engine[e].log = UpdatesOf(disk) /\ engine[e].active = None

\* A saved population is never ahead of the model: the history holds, without a
\* gap, a batch of every operator for each generation the population went through.
GenerationsCovered ==
    \A g \in 0 .. saved - 1 : \E k \in 0 .. Len(disk) - NOperators :
        \A o \in 1 .. NOperators : disk[k + o].generation = g /\ disk[k + o].operator = o

\* The history is that of one undisturbed model: each reward is one its candidate
\* earns from the model of all batches before, under its own seed, or invalid.
MaxBatches ==
    NOperators * (Generations + MaxCrashes + MaxRestarts + MaxTimeouts)
OrInvalid(log, seed) == RewardsOf(log, seed) \cup {Invalid}

Training == INSTANCE ESTraining
    WITH history <- UpdatesOf(disk), Population <- Directions,
         Generations <- MaxBatches, RewardsOf <- OrInvalid

ImplementsTraining == Training!Spec

\* The run completes once kills, restarts and timeouts end: an engine left with a
\* perturbation costs the rest of its batch and one death of the driver, no more.
EventuallyDone == <>(pc = "done")

\* A resumed run continues from the next generation: no batch of the history is of
\* a generation and operator it already had.
ContinuesFromNext ==
    \A j, k \in 1 .. Len(disk) :
        j # k => <<disk[j].generation, disk[j].operator>>
                 # <<disk[k].generation, disk[k].operator>>
===============================================================================
