# Agentic-ESOpt in TLA+

Agentic-ESOpt trains language-model agents by evolution strategies (ES): a
runner perturbs the weights of a live model server with seeded noise, scores
agent rollouts under each perturbation, takes the noise back, applies a
reward-weighted sum of the noise directions and records seeds and rewards in
`history.json`, from which a later run rebuilds the same weights. Five tasks
(Sudoku, Math, DocVQA, WebArena, AHD) share this loop.

This directory models the parts in which that promise can go wrong, checks them
with TLC and proves the core with TLAPS. Paths below are relative to `src/`.

## 1. Inventory

| Component | State it keeps | Operations | Interacts with | What is hard | What makes it correct |
|---|---|---|---|---|---|
| **ES server object** `algorithms/es/seeded_model_es.py` | live weights, selected tensors, `update_history`, `active_perturbation` | init, apply, revert, update, reset, status | called by the Flask routes | a request is thousands of in-place writes and may raise between two of them; requests are repeated, refused, sent in any order | weights = base + recorded updates + the active perturbation, at every answer; init ends at base |
| **Llama Flask server** `…/llm_local_server/llama31_instruct_server.py`, `batch_retry.py` | the model, one ES object | completions, `/es/*` | runner over HTTP | one request at a time; a request whose client gave up still runs later; out-of-memory splitting of batches | serial, in arrival order; every prompt of a batch answered once |
| **ES client** `algorithms/es/model_es_client.py` | none | one POST per method | server | timeouts | - |
| **Run state** `algorithms/es/run_state.py` | `history.json` | sigma schedule, atomic write, record selection, seed validation, replay, endpoint-serial map | all runners | crash between update and write; resumes of resumes; workers that raise | durable history is a prefix of one uninterrupted run |
| **Sudoku runner** `sudoku-train-time/scripts/run_sudoku_es_train.py` | history, RNG, current generation | init/resume, sample, update, record, evaluate | servers, run state | threads over several endpoints, kills, partial updates | servers in step with the history at every generation |
| **Math runner and worker** `math-train-time/scripts/run_math_es_vllm_train.py`, `vllm_math_es_worker.py` | Ray engines with ES state in each vLLM worker; evaluations as rows of the history | init/resume on all or the first updates, sample, update, evaluate | Ray, vLLM | the worker only keeps a flag for an active perturbation; Ray timeouts; results in any order; partial resumes cut rows | the updates on file are those of one run; every evaluation is of the updates before it |
| **DocVQA runner** `docvqa-train-time/scripts/run_docvqa_es_vllm_train.py` | as Math | as Math | Ray, vLLM | as Math | as Math |
| **WebArena runners** `webarena-train-time/scripts/run_webrl_lite_*_es_train.py`, `scripts/webarena/*` | history, own schedule | sample with retries, parallel update, in-run replay, a test that replays a history | servers, browser environment | the history is rewritten in place; a replay inside the run starts it from an empty list, also in the directory it reads; the test resets servers it has not initialised | every reward and evaluation on file is of the model its records make; a run can be continued |
| **AHD (EoH with model ES)** `ahd-test-time/…/methods/eoh/*.py` | population, `samples.jsonl`, ES history | generate offspring, evaluate in child processes, update | ES client, evaluators | evaluator pool with deadlines; swallowed exceptions; two files that must agree | fitness belongs to its offspring; sampling budget met exactly |
| **Supervisors** `scripts/math/run_training_until_complete.py`, `run_experiment_until_complete.py`, `scripts/docvqa/*` | attempt history, tier | wait for GPUs, launch, classify, fall back, accept | trainers, evaluators, nvidia-smi | they die and are restarted while their children live on; what they inspected is stale when they launch; a fallback kept only in memory | ends with acceptance or at the lowest tier; an accepted run is complete and has a model |
| **GRPO baselines** `algorithms/verl/verl/trainer/ppo/ray_trainer.py`, `…/checkpoint/fsdp_checkpoint_manager.py`, task launchers | rollout dumps, checkpoints, tracker file | resume, generate, update, validate, save part by part, retain | supervisor, data loader | a save is many files; resume trusts one tracker; dumps are rewritten by a redone step | a checkpoint is trained on the dumps beside it; step, updates and batches agree after any resume |
| **Evaluation sharding** `scripts/math/run_four_gpu_eval.py`, `scripts/trace2skill/run_trace2skill_vllm_eval16.py` | one JSONL file, a manifest, archives | serve, resume, ask, append, accept | model servers, supervisor | rows cut or failed, evaluators that outlive their launcher | one successful row per key, nothing recorded is lost |
| **Trace2Skill rollouts**, **Sudoku checkpoint evaluation**, **data preparation and reports** | files | single passes | external frameworks | - | - |

Of the vendored trainer (`algorithms/verl`) only what the GRPO runs depend on is
part of the inventory; WebArena's third-party tree, `assets` and result files are
not.

## 2. Modules

```
ParamSpace ---- ModelES (abstract server) <--- refinement --- SeedReplayES --- MCSeedReplayES
                                                                  |
                                                         SeedReplayESProofs

                                            +-- ESRun ------- MCESRun, ESRunProofs
ESTraining (abstract run) <- refinement ----+-- AhdModelES -- MCAhdModelES, AhdModelESProofs
                                            +-- MathRun ----- MCMathRun, MathRunProofs

ESEndpoint <- extended by ESRun, AhdModelES and WebArenaRun --- MCWebArenaRun
                                                         |
                                                  WebArenaRunProofs

EvaluatorPool --- MCEvaluatorPool          SamplingRun --- MCSamplingRun
      |                                         |
      +----------------- AhdProofs -------------+

GrpoTraining --- MCGrpoTraining            EvalResume --- MCEvalResume
      |                                         |
GrpoTrainingProofs                         EvalResumeProofs
```

**ParamSpace.** A tensor is its displacement from the base weights, a vector of
integer coefficients over noise seeds. `randn` after `manual_seed(seed ^
tensor id)` gives the same direction every time, so a direction is a unit
vector and nothing else about the numbers matters, except rounding, which is
left out.

**SeedReplayES.** One variable per field of `SeedReplayModelES` (`infos` is
`parameter_infos`), the loop in progress (`phase`, `todo`, `pass`), and two
history variables: `snap`, the running sums of the recorded updates, and
`residue`, what interrupted passes left behind. `XBegin` runs from the entry of
the method to its loop, `WriteTensor` is one `add_`, `XEnd` is what follows the
loop; early returns (`already_applied`, `already_reverted`) and raises are
actions of their own. `ResetBegin` with a scope is `init` on an initialised
server: it resets first and selects its tensors in `ResetEnd`. `Fault` is an
exception between two writes, such as CUDA out of memory in `randn`. The
updates' validation errors and the refused update while perturbed are one
action, `UpdateRejected`: they answer with an error and touch nothing.

**ModelES** is the same server as its clients may think of it: each request one
step. Until the first exception inside a pass **SeedReplayES** implements it
through `theta <- Settled`, the weights without what the running request has
written.

**ESRun** composes the runner of `run_sudoku_es_train.py` with several servers.
`pc` follows `main()`: `init`, `load`, `replay`, `start`, `draw`, `sample`,
`update`, `persist`. In `sample` each endpoint has one worker thread
(`eval_sample`: apply, completions, and revert as `finally`), fed from its own
index queue as in `map_endpoint_serial`. A completion that fails or times out is
swallowed: it counts as one that brought nothing (`Failed`, by `mean_valid`'s
"failed rollouts, not missing observations"), the sample goes on, and its reward
(`RewardOf` all its answers) enters the update and the record. Only an apply, or the
last attempt at a revert, raises; then `main` re-raises once the pool's exit has
waited for the other workers. Requests go into the queue of a serial server. `Timeout` makes the runner give up on a request that
stays queued, `Crash` kills the runner and leaves everything it sent,
`ServerRestart` brings a server back with base weights and no ES state.
`Launch` is the operator starting the same command with `--resume-history`.
A server takes a request in one step here, which SeedReplayES justifies.

**ESEndpoint** is the server the HTTP runners talk to: the ES state of its model, what
a request does to it, and requests nobody waits for any more.

**ESTraining** is the user's view: the history of a run on one model that nothing
ever interrupts; Math, whose operator may ask to go back, also uses its `Rewind`.

**AhdModelES** is `_get_algorithm_with_model_es` with the `__init__` and `_restore`
that come before it and the generations of `EOH.run` around it. A batch is a task
per direction: the executor's threads take them in order (`Take`), wait for the
lock of the task's engine (`Acquire`), then apply, generate and revert. What kills
Sudoku's runner is here the end of one candidate (`Fails`): exceptions of a
direction are swallowed, and a generation is asked for again until it is answered.
An exception outside the pool still ends the driver. `disk` grows with every
operator and `saved` with every generation; `Launch` resumes from both. The
operators are those that use model ES; others leave this state alone.

**EvaluatorPool** is `_evaluate_offspring_batch_with_timeout`, through which
AHD scores every generated program. `pc` is the place in the function (`launch`,
`drain`, `scan`, `join` while it waits for a terminated child, `final`); each
child is a process of its own with the stages of `run_eval`. `out_queue.put`
only hands the report to a feeder thread, so writing it takes three steps under
the lock all children share (`TakeLock`, `Write`, `Unlock`), and the process does
not exit before them. `EvaluateDies` is a generated program that ends its
process: after `sys.exit` the `finally` clause meets an unbound `fitness` and
reports nothing. `Killed` takes effect at any stage, so the lock may stay taken.
Children are forked in index order, hence `running` is a set and the scan goes
upwards. A fitness is the candidate it belongs to.

**SamplingRun** is `EOH._run_sampling` in mode `sample` as its operator sees it:
launches, clean or with `--sample-resume-path`, of possibly different totals and
batch sizes, on one directory. A sample is its `sample_index`. `Crash` may cut
the append anywhere: between lines, inside a line (`torn`), or after a line's
text and before its newline (`open`), to which the next append adds its own
first line. AhdProofs extends this module together with EvaluatorPool, hence
`SamplingSpec`, `SamplingInit`, `SamplingNext`, `SamplingTypeOK`, and `loop` for its `pc`.

**MathRun** is `main()` of the Math runner, which DocVQA's runner calls too. An engine
is a Ray actor: `calls` are what the driver has submitted to it, which it takes in
order, `phase` how far `evaluate_perturbation` is (apply, rollouts, revert). Rollouts
may lose cases (`RolloutLoses`): `rollout_batch` catches what generation or
processing raises and scores the case 0, so the sample counts, and `losses` tells
that there was one. What leaves `evaluate_perturbation` ends the run (`RolloutFails`).
The worker behind it keeps only a flag for an active perturbation, so a wrong revert
would go unnoticed: `noise` is what the weights really carry. Its engines die
with the driver, so a relaunch (`LaunchAnew`, or `LaunchResume` on all or on the
first `--resume-generations` updates) meets fresh ones. `disk` holds rows, updates
and evaluations alike; `PrefixThrough` cuts them as `history_prefix_through_updates`
does. `asked` remembers that a launch asked to go back, until its first write.

**WebArenaRun** is the distributed trainer and the test that replays a history,
taking turns on the same servers. The trainer's replay is part of its loop: it
compares case batch, seeds and sigma of each record with what its arguments draw
(`Matches`), sends the recorded rewards as an update, evaluates if that is due and
rewrites the history, in place and from an empty list, in a run directory that may
be the one it replays from. `WriteBegin` and `WriteEnd` are the two halves of
`Path.write_text`; between them the file is `Torn`. The samples of a generation
are one step: what interleaves inside them, and the backlog of a serial server,
is ESRun's subject. `Continue` is an operator who goes on from any readable
history with the arguments it was made with, `LaunchOther` every other launch.

**GrpoTraining** is a GRPO run: `fit()` of the trainer with `pc` at its stages, the
checkpoint manager's save part by part (`SaveConfig`, `SaveShards`, `SaveHfModel`,
`Prune`, `SaveData`, `WriteTracker`), what lies on disk, and the supervisor
around it, as Math's watchdog (every checkpoint kept, exact sets of dumps) or
as the DocVQA pipeline (rolling retention, protected milestones). The actor is the
sequence of launches that made its updates, and a dump the launch that wrote it,
which is what it takes to tell whether a checkpoint was trained on the dumps
beside it. `TrainerDies`, `StopAll` and `WatchdogDies` are the three ways to die.
`JobKinds` is what the launchers set: Math keeps every checkpoint and validates
wherever it saves (`scripts/math/run_training_until_complete.py:247-272`), and the
milestones are steps at which DocVQA's run saves
(`scripts/docvqa/run_four_gpu_experiment_pipeline.sh:171-174`).

**EvalResume** is one evaluation stage: supervisor, launcher and evaluator are
processes of their own, dying together (`StopAll`) or one by one. A row is a key,
the try that made it and its outcome; `CutRow` is an evaluator killed in the
middle of a row of any kind, which may leave the file without a final newline. A
request is answered and its row appended in one step: the block under the lock of
`run_dataset` has no `await`. `ArchiveErrors`, `ArchiveRetries` and `Rewrite` are the
three writes of `prepare_resume_output`. The archives are appended to like the
output and cut like it: `CutArchive` leaves some of the rows and perhaps a part of
the next (`cut` says which archive ends so), and the first row of the next append is
joined to that part (`Archived`).

The `MC*` modules only give constants their values. Operators commented "A
mutant of ..." are the plausible bugs each property is shown to detect; no
specification uses them.

## 3. Runs

| Run | Question | Bounds and why they suffice |
|---|---|---|
| `server` (SeedReplayES.cfg) | Is the per-tensor server the atomic ModelES, does init always restore the base, and after an exception inside a pass, is every change still accounted for? | Two tensors: one selected by `all_linear`, both by `full`, none by `lora`, so scopes change between runs. Two seeds, scales 0 and 1 (0 is legal and makes a perturbation invisible). Two updates: undo must run in reverse over more than one. Two exceptions, so a fault can hit the repair of an earlier one. |
| `server_init_after_fault` | Does init still restore the base after one exception? No: see section 6. | One exception. |
| `run` (ESRun.cfg) | Do crashes, restarts and timeouts ever show in the history or leave a server out of step, and does a relaunched run complete? | Two endpoints and a population of three, so one endpoint serves two items and the other one; two generations, so a replay and a fresh generation meet; two kills, one server restart, two timeouts, which all combine. A sample asks for up to two completions, so it may be worth an answer, an answer and a failure, or failures alone. A revert is tried twice, as WebArena's `post_json_retry` does more often: two timeouts exhaust it, as the first does Sudoku's single attempt. 1.46 million states. |
| `ahd` (AhdModelES.cfg) | The same questions for EoH under model ES, and do its two files agree after a resume? | Two engines with two threads and three directions, so a thread waits for an engine in use; two operators and two generations, so a kill can come between operators, between the files or with a population saved; one kill, one restart, one timeout, which combine. |
| `ahd_continues` | Does a resume continue from the next generation? No: see section 6. | One kill. |
| `math` (MathRun.cfg) | Do faults, fresh launches and partial resumes ever show in the updates or the evaluations on file, and does the run complete? | Two engines and three items, so one engine takes two; three generations with an evaluation every two, so there are rows of both kinds before and after a cut; two faults, of which a rollout that loses cases is one, and one more launch on a finished history. |
| `webarena` (WebArenaRun.cfg) | Whatever launches share the servers and the files, is everything on file of the model its records make, and can a run always be continued? | Two endpoints, so one may be restarted, initialised or updated without the other; two directories; two setups that agree on the first generation; three generations with evaluations after the second and, because it is the last, the third; two faults, one launch made for another purpose and one test. |
| `training` (GrpoTraining.cfg) | Do deaths and resumes ever separate a checkpoint from its dumps, spoil the resume point or the retention, and does the supervisor end? | Math: four steps, saves every two; DocVQA: five steps, saves at every one, one kept beside milestones 3 and 5, so that a step lies between, on and after both. Three deaths: one in a save, one while it is redone, one of the supervisor. Two tiers and five launches. |
| `training_orphan` | Does a trainer stop at the last step? No: see section 6. | One death of the watchdog. |
| `evaluation` (EvalResume.cfg) | Is every key answered once, nothing lost, and the stage accepted, whoever dies? | Three keys and two requests at a time, so that one waits and two are in flight when the first error ends the run; two faults, which may be a failed request and a death in the append to its archive, or a death in the repair of another; rows that ran out of turns need no fault, so their archive has several to be cut between. 1.04 million states. |
| `evaluators` (EvaluatorPool.cfg) | Does every fitness reach its candidate whatever the children do, and does the batch end? | Four candidates, one that cannot be prepared, two workers: one child is replaced while the other runs, and a child that inherits a stuck lock meets its own deadline. |
| `sampling` (SamplingRun.cfg) | What do the files of a sampling run guarantee across kills and relaunches? | Batch sizes 2 and 3, totals 3, 4 and 7, which lie on and off the boundaries of both; four launches, so a resume of a resume can be cut off again. |

The answers of `MCESRun` and the rewards of `MCMathRun` tell apart the models a run could
confuse: they depend on the number of updates, on the first update's content and on the
active perturbation. A generation made again may come out differently: in `MCESRun`
because completions fail, in `MCMathRun` also because seed 1 may earn two rewards, as
sampling at a temperature does. `MCWebArenaRun`'s
depend on the reward before and on the draw, and the first generation may earn two.

Properties:

- `TypeOK`, one per module: types, and the ranges that an off-by-one in a loop would
  leave. In SeedReplayES a loop only writes selected tensors; in MathRun the flag
  of a worker tells whether its weights carry noise.
- `WeightsAccounted`: between requests each selected tensor is base + recorded
  updates + active perturbation + residue of cut passes, others only residue.
- `InitRestoresBase`: as long as no pass was cut short, after a successful init all
  tensors are at base weights (`InitLeavesBase`).
- `RefinesModelES`: up to the first exception, repeated requests do nothing twice,
  refused requests do nothing, updates only land on unperturbed weights, reset is exact.
- `InSync`: when a generation starts, no request of earlier samples, updates or replays
  waits anywhere and every
  initialised server is exactly at the durable history, unperturbed; while samples
  are scored, an endpoint only carries the perturbation of its own item; and at no
  time is a server more than the one unwritten update ahead of the history.
- `ImplementsTraining`: `history.json` is always that of an uninterrupted run on
  one model, where a completion brings an answer of that model under the sample's
  own seed or, if it failed, nothing. Failed completions do show, as zeros; but only
  those of a server that keeps its model: as long as no request has timed out, every
  reward on file is made of answers alone (`Unfailed`), whatever was killed and
  restarted. A sample scored while its server lost the perturbation to a restart, or
  was not there to answer, never gets into the history: the completions are swallowed,
  the revert answers `already_reverted`, but the later update is refused by the
  uninitialised server and the run dies before the record is written.
- `EventuallyDone`: the run completes, so a history the runner wrote is never refused
  by its own validation.
- `EnginesInSync`: the same as `InSync` for EoH's engines, where it has to hold
  although failed directions do not end the run: what a lost apply leaves behind
  makes the batch's update fail, and a lost revert comes before it in the backlog.
- `GenerationsCovered`: the saved population is never ahead of the history.
- `ImplementsTraining` of AhdModelES: the history is that of one undisturbed
  model in which some candidates were invalid.
- `ResultsSettled`: when the batch returns, a candidate that was not timed out has
  exactly its own child's fitness; one that was is invalid, or has its own
  child's late report.
- `ChildrenBounded`: never more than `n_p` evaluator processes; none outlives the
  batch.
- `Returns`: the batch returns, also with a lock nobody will ever release.
- `IndexIsPosition`: `samples.jsonl` is samples 1, 2, 3, ... in order, never more
  than the total of the process that writes it.
- `MissesLessThanABatch`: a finished run misses less than a batch; when every resume
  started on a batch boundary it misses nothing and no sample's generation file is
  lost.
- `ImplementsTraining` of MathRun: the updates on file are those of one undisturbed
  run, in which a sample is worth what its model earns under its seed, with all its cases
  or, if some were lost, with fewer (`Lossless` while no sample lost any); and only a
  launch that asked for fewer takes updates back.
- `EvaluatedAsRecorded`: an evaluation on file was made, on all engines, by the
  unperturbed model of exactly the updates before its row.
- `AsRecorded`: the same for WebArena's rewards, evaluations and tests, with the one
  exception the code has: nothing notices a server that lost its state between an
  update and the evaluation.
- `ContinuesSource`: a replay inside a run makes the recorded generations again or
  stops at the first its arguments draw otherwise, and each generation starts on
  servers that hold the updates on record and nothing else.
- `EventuallyComplete`: whatever earlier launches left in the files and on the
  servers, somebody who goes on has a complete history in the end.
- `DumpsAreLineage`: a checkpoint up to the tracker that has its shards was trained on
  exactly the rollouts whose dumps lie on disk, although steps are redone.
- `InStep`: a trainer's step, its updates and its batches agree after any resume.
- `ResumePoint`: what the tracker names can be loaded, unless a death fell between two
  particular writes (`spoilt`).
- `Retention`: rolling retention never takes a milestone and never keeps too many.
- `LastIsComplete`: no trainer passes the last step and the last checkpoint makes a
  Math run complete, unless the watchdog died alone; an accepted run has the model
  that is evaluated next, except after one particular death of a Math trainer.
- `NotRedone`: no key has two successful rows or is asked when it has one; no launcher
  is near a file an orphaned evaluator still writes; accepted results stay complete.
- `RequestsBounded`: `--concurrency` and `--max-errors` are kept.
- `NothingLost`: a row stays or goes to an archive, except one cut in the output, and one
  whose line in the archive is joined to a part that a death left there; of these there
  are never more than faults.
- `Settles`: of GrpoTraining, every run ends accepted or at its lowest tier; of
  EvalResume, the stage ends accepted; each with the exceptions it names.

**Fairness.** `EventuallyDone`, of the Sudoku and AHD runners, assumes weak fairness of
`main()` (which includes the operator starting a dead run again), of each worker
thread and of each server: each is an operating-system thread or process that
runs whenever it can. Math has the driver and each engine, WebArena the running
process together with the operator who continues an incomplete run, GRPO the
trainer and its supervisor, the evaluation stage its three processes. Crashes,
restarts, timeouts, launches for other purposes and tests have no fairness and
are bounded, so the properties speak about what happens after the last of them.
`Returns` assumes weak fairness of the pool's process, of the clock that lets each
deadline pass and of the kernel that carries out a `SIGKILL`; a child may never
take another step. The other properties are safety properties and need none.

## 4. Proofs

`SeedReplayESProofs` holds for any set of tensors, seeds, scopes, scales and
updates and for any bounds. It assumes what the ASSUMEs of SeedReplayES state: a
scope selects tensors, scales are non-negative, an update is a displacement, `None`
is neither a perturbation nor a scope.

- `TypeCorrect`: `Spec => []TypeOK`.
- `Accounted`: `Spec => []WeightsAccounted`.
- `InitRestores`: `Spec => []InitRestoresBase`.
- `Refinement`: `Spec => RefinesModelES`; this and `InitRestores` speak of the time up
  to the first exception, however many a behaviour has.

`WeightsAccounted` speaks about an idle server and is not inductive: nothing in
it says where the weights are halfway through a pass. `IInv` adds

- `Balanced`: at every moment `theta = residue + records + Written`, where
  `Written` is what the running request has added so far; in an undo loop it is
  the difference of two entries of `snap`;
- `LoopOK`: the vector a loop adds is the one its records call for;
- `SnapChain`: `snap` is the running sum of `history`;
- `ResidueOK`: without an exception there is no residue.

Each conjunct is preserved by a lemma with one step per action; `Balanced` rests
on the group laws of displacements (`VecSums`, `UndoOne`, `BackToOrigin`).
`Refinement` uses `Balanced` to identify the visible weights with the recorded
ones (`SettledIsRecorded`); then a step that leaves the records alone is
invisible and each `XEnd` is the atomic step. `PayloadOK` remembers that an
update pass adds a legal update and what follows a successful init; `FaultsGrow`
makes a step that ends without an exception one that began without.

`AhdProofs`, first about EvaluatorPool: for any batch, any set of candidates that cannot be
prepared and any positive number of workers (`PoolShape`).

- `TypeCorrect`: `Spec => []TypeOK`.
- `Settled`: `Spec => []ResultsSettled`.
- `Bounded`: `Spec => []ChildrenBounded`.

`ResultsSettled` only speaks about the end. Its `IInv` says where a report can be
on the way there:

- `ReportsOK`: a child that got past its write, or ended by itself with a
  fitness, has been heard or its report is in the pipe, and a report carries its
  own child's fitness. Whoever returns with an empty pipe and no child alive has
  therefore heard everyone worth hearing; whoever returns because as many were
  heard as were forked has heard exactly those (`SettledStep`).
- `ResultsOK`: a result is its child's fitness or none, and after the report was
  received it is none only for a child that was timed out;
- `JoinOK`: the child the pool waits for is one it timed out, so a kill never
  makes a report go missing that `ReportsOK` counts on;
- `WorkersOK`: living children are watched, and at most `MaxWorkers` are. That
  `launch_more` keeps the number needs a count: fewer than k+1 members of a set
  of candidates have fewer than k older ones (`OldestFew`, by the injection that
  maps a member to the number of its elders).

`ESRunProofs` holds for any number of endpoints and items, generations, revert
attempts, completions per sample, kills, restarts and timeouts. Its theorems have one
hypothesis, `Scored`: answers are numbers, and so is the reward of any of them. It is
not an ASSUME because it speaks of logs of every
length, which TLC cannot enumerate.

- `Typed`: `Spec => []TypeOK`.
- `Synchronised`: `Spec => []InSync`.
- `Refinement`: `Spec => ImplementsTraining`.
- `NeverRefused`: `Spec => [](pc # "refused")`: wherever a run is killed, the next
  launch accepts the history it left. Each record a run writes carries the seeds that
  come next in the stream (`Acceptable`).

`IInv` says of each endpoint what its backlog, its server, the reply it owes and
its worker's job can be together:

- `Chan`, whoever runs: only the last request of a backlog is waited for, so all
  others are a dead run's; an update can only be the first of them, and when the
  server gets to it, it is the record that comes next. That is why a backlog never
  takes a server further than one update ahead (`Ahead`).
- `Phase`, what `main()` has brought the endpoint to: the endpoints before `cur` have
  answered, those behind it have not been asked, and the one at `cur` is on its way
  (`Asking`, or `Clearing` while an init waits behind the backlog).
- `Working`: how far an item's apply, rollouts and revert are, what the server
  carries meanwhile, and that the answers a job has (`Told`) and the rewards already
  collected are those of the history's model under their own seed, or of failed
  completions, provided the server did not restart since. `Updating` turns the
  proviso into a fact: an endpoint that accepts the update did not restart.
- `Excused`: on a server that is still initialised, only a timeout makes a completion
  fail. So before the first timeout the answers of a job on such a server are the
  model's alone (`Measured`, with `Possible`), and what a lost server made a job swallow is
  never written. `UnfailedInv`, on top of `IInv`, says the same of the records on disk.

The lemmas follow a request: posted (`PostedChan`), served (`Handled`,
`ServedPhase`), given up (`AbandonedChan`), cut off by a restart. `Refinement` then
has one visible step, the write in `persist`, where `Earned` holds of every item.

`AhdModelESProofs` holds for any number of engines, workers, directions, operators and
generations, kills, restarts and timeouts, under `Scored` as ESRun's.

- `TypeCorrect`: `Spec => []TypeOK`.
- `InSync`: `Spec => []EnginesInSync`.
- `Covered`: `Spec => []GenerationsCovered`.
- `NeverRefused`: `Spec => [](pc # "refused")`.
- `Refinement`: `Spec => ImplementsTraining`.
- `Undisturbed`: unless something is killed, restarted or given up on, no request
  fails, and a finished run's history has one batch per operator and generation.

Its engines are ESRun's servers, but a failed direction does not end the run, so an
engine may still carry a perturbation, and may still have requests nobody waits for,
when the batch goes on to its update. `IInv` is built from

- `Chan` and `Phase` as in ESRun. While the pool works, only the direction that holds
  the engine's lock has a request waited for (`OneHolder`, `Held`), and the engine's
  log is the history's whatever directions fail, because a batch's requests never
  touch the log (`Pooled`).
- A reward collected by a direction was earned by the model of the history *if the
  engine did not restart*. `Updating` turns this into a fact as in ESRun: an engine
  that accepts the update did not restart, and is unperturbed afterwards because it
  refuses an update while it is perturbed.
- `Filed`: the history is the stream's, its last records are those of the generation
  under way (`Recent(Progress)`), and `GenerationsCovered`. A kill forgets the place in
  the generation; the records stay, and a later batch of the same generation comes
  after them.

`Refinement` is a bounded training, at most `MaxBatches` records, and the bound
needs an argument of its own. A run dies only if something went wrong with an
engine in it: on an engine with which nothing did (`Sound`) no request fails
(`ServedSound`). `Afforded` counts: the batches made are at most those of the
generations saved, plus a generation's for each fault, plus those of the
generation under way, and an engine that is not sound has not yet cost its
generation. `Exact` and `Ended` are the same count without faults, which gives
`Undisturbed`.

`MathRunProofs` holds for any number of engines and samples, generations, faults and
launches, any evaluation interval, and under `Scored` as ESRun's.

- `Typing`: `FairSpec => []TypeOK`.
- `Evaluations`: `FairSpec => []EvaluatedAsRecorded`.
- `Refinement`: `FairSpec => ImplementsTraining`.
- `NeverRefused`: `FairSpec => [](pc # "refused")`: no history a run has written is
  refused by a later launch. This is the safety half of `EventuallyDone`; the rest of
  that property is TLC's.

`IInv` says at each place of `main()` what its engines have been asked and what they
hold:

- `Sampling` and `Waiting`, while samples are collected: an engine works through its
  own samples and carries noise only for the first of them; a sample waits for one
  engine, once, and has no result while it waits. So a reward goes to its own item,
  and once every item has one no call is left and no noise either. Each reward is
  `Worth` what the history's model earns under the item's seed, with all cases as long
  as `losses = 0`. That the shares
  of the engines make up the population is arithmetic of `%` (`ShareItem`,
  `ShareOnce`).
- `Updates`, from the submission of an update until `ray.get` has all answers: each
  engine either has it still to do, or has it on top of what it had. This is the
  state of a replay as well as of a generation's update.
- `Started`, `InBatch`: the driver's rows are those it will write (`Holding`), the
  engines hold their updates, and generator and generation agree.

The flag never refuses an update because an engine is quiet whenever one is in its
queue: the worker's missing check is harmless under this driver.
`EvaluatedAsRecorded` is inductive once prefixes are understood: the updates of the
rows up to k are a prefix of the updates (`UpdatesPrefix`), one more row adds its
record or nothing (`UpdatesAppend`), and `PrefixThrough` cuts after exactly n of them
(`PrefixKept`). The updates are selected rows, in their order; like EvalResume's these
lemmas count rows by rank. `NeverRefused` has an invariant of its own on top of
`IInv`, `ReplayInv`: the history on disk is numbered from 0, carries the seeds of the
stream and is not longer than the run.

`WebArenaRunProofs` holds for any endpoints, runs, setups and generations, under the
same kind of hypothesis (`Scored`: rewards are in the constant `Scores`).

- `Typed`: `Spec => []TypeOK`.
- `FiledUnderModel`: `Spec => []AsRecorded`.
- `Continued`: `Spec => []ContinuesSource`.

`AsRecorded` speaks of the files; what makes it inductive is `Content`, the same of the
history in memory and of what a process is to replay, and `Progress`, where the
servers are at each place of the program: at the recorded updates, one ahead
between update and record, or blank after a restart (`Clean`).

`GrpoTrainingProofs` holds for any jobs (`JobShape`, `JobKinds`), tiers, deaths and
launches. It has two inductive invariants; the second is proved on top of the first.

- `Lineage`: `Spec => []DumpsAreLineage`.
- `Synchronous`: `Spec => []InStep`.

A step that is redone overwrites its dump, so a checkpoint beyond the tracker may
be older than the dumps beside it. What makes the property true is `SavesRedone`:
checkpoints only exist where a save was due, a later launch is due at the same
steps, and it does not pass such a step without moving the tracker, by which time
the checkpoint has been written again. `ModelOnDumps`, `SaveOfModel` and
`PastTracker` carry the argument through `fit()` and through the parts of a save
(`SaveWrites`, once for all of them). This is `IInv`.

- `Resumes`: `Spec => []ResumePoint`.
- `Retains`: `Spec => []Retention`.
- `CompleteAtTheLast`: `Spec => []LastIsComplete`.
- `Typed`: `Spec => []TypeOK`.

These rest on `DiskInv`:

- `EverySave`: every save that was due up to the tracker has its directory, and none
  is due between the tracker and a directory beyond it. So at most one directory
  lies beyond the tracker (`OnePastTracker`), the extra one that `Retention` allows.
- `Rolling`: at most `keep` checkpoints up to the tracker have an actor beside the
  milestones, and the trainer knows all of them. After a prune the limit holds of the
  paths it knows, which carries the count over the move of the tracker
  (`TrackerDisk`), when one more checkpoint becomes an old one.
- `SoFarSaved`, `Resumable`, `MilestonesKept`: a save has the parts written so far,
  and what the tracker names loses its shards only on the way to its next value.
- `Dumped` and `Orderly`: what is due to be dumped and validated has been, and, unless
  there is an orphan, nothing is beyond the last step. Together they make a Math run
  whose tracker is at the last step complete (`CompleteAtLast`), which is also why
  a watchdog that saw it incomplete never launches a trainer past its end.

What retention keeps is a list, filtered. `SortedFacts`, `FilteredFacts` and `NewestFacts`
prove that `sorted` lists exactly the members of its set, that filtering keeps the
retained paths and that the newest are at most `keep` and include the one just
saved, by counting the elders of each member (`Places`).

`EvalResumeProofs` holds for any finite set of keys and any limits.

- `Bounded`: `Spec => []RequestsBounded`. It is inductive once the requests in
  flight are known to be keys, so that they can be counted (`OneMore`, `OneLess`):
  a failure moves a request from those in flight to the errors.
- `NeverRedone`: `Spec => []NotRedone`. `RInv` adds `Wired`: who holds the GPUs,
  so that a launcher that has not started its evaluator is alone with an incomplete
  file; and `Fresh`: what an evaluator knows of the file it was started on. The rows
  of a key it still asks are gone by the time it asks, not just the successful ones.
- `NoneLost`: `Spec => NothingLost`. Only `Rewrite` takes rows away, and they are in an
  archive by then, as lines of their own or joined to a cut one (`Filed`, in `Fresh`);
  `Paid` counts the joined lines and the archives that end in a cut one against the
  faults: joining a row takes away the cut line it is joined to.
- `Typed`: `Spec => []TypeOK`.

What a resume keeps of a file (`Resumed`) is a selection of lines by rank, and that
the rank reaches every number up to the number of kept lines (`RankOnto`) is an
induction over lines. It goes by the least counterexample, which `NatMin` gets
from the well-foundedness of `<` on the naturals.

`AhdProofs`, then about SamplingRun: for any totals, batch sizes and number of launches.

- `Positions`: `SamplingSpec => []IndexIsPosition`. `Cursor` relates the process to the file:
  between batches it knows the file's length, and while it appends, the rest of its
  batch is what comes next and fits into its total.
- `BatchMissing`: `SamplingSpec => []MissesLessThanABatch`. `Progress` relates the generation
  counter to the length of the file by the rounding of `ceil` (`CeilDivBounds`,
  `CeilDivExact` on a boundary), `Covered` the file to the generations saved.
- `SamplingTyped`: `SamplingSpec => []SamplingTypeOK`.

Every inductive invariant was an invariant of TLC on the module's run before it was
proved.

Every invariant and action property of a passing run is a theorem. Only
model-checked are the liveness properties `Returns`, `EventuallyDone`, `Settles` and
`EventuallyComplete`: liveness under fairness is outside what the prover handles,
and `NeverRefused` is as far as it reaches into them. The disagreements of
section 6 are counterexamples, which TLC finds.

## 5. What is not modelled

- Floating-point rounding: adding and subtracting noise in bfloat16 does not
  restore the bits, so real weights drift; the models work on exact sums.
- Games and scoring: a completion brings an answer of the model it meets, or none if it
  fails; a sample is worth some function of its answers. The completions that a
  Sudoku sample has in flight together follow each other; they only read the model.
- Reward normalisation: an update is the vector it adds.
- Evaluation passes of the Sudoku runner: they send read-only requests and swallow their
  failures as samples do; the time they take before the history is written is the time
  between `update` and `persist`. One of their requests that timed out may wait in
  a backlog when the next generation starts, where it changes nothing; `InSync`
  speaks of all other requests.
- History rows without a result (configuration, resume); Sudoku's initial evaluation.
- Sigma schedules and the validation of arguments; a generation's seeds and scale
  are whatever its arguments draw.
- Math: `--eval-only`, `--reuse-initial-eval-history`, formal evaluations.
- WebArena: the single-endpoint trainer's own `main`, `--eval-only`, browser episodes and
  the judge, the export of a replayed model; a different alpha or normalisation
  in a later launch, which no record would show.
- GRPO: the gradient step, distributed ranks (a save's parts are those of all ranks),
  the supervisor's smoke, export and report stages. A restarted supervisor is
  not so fast that it finds its predecessor's orphan before it holds the GPUs.
- Evaluation: endpoint plans, GPU identities and `--retry-source`; the Sudoku
  checkpoint evaluation.
- AHD's problems, prompts and parsers: a generated program computes a fitness,
  fails, dies or never ends. Evaluation order and wall-clock times, except for
  deadlines. The final drain's own two seconds end only when the pipe is empty.
- The population's contents and its file's own writing: `open(..., 'w')` may leave
  half a file, which the operator passes over for the one before. Reward shaping,
  `llm_es_disable_update`, and exceptions inside a pass of an engine that a
  direction swallows (SeedReplayES has them).
- The best-of files (`pops`, `pops_best`) and the summary of a sampling run.
- The components PROJECT.json lists as not modelled.

## 6. Findings

**init after an exception inside a pass** (`server_init_after_fault`).
`algorithms/es/README.md:45-46` says that calling `/es/init` again restores all
tracked updates and any active perturbation, so that a reused server starts from
the same base weights. `apply` records its perturbation after the last tensor
and `update` its item likewise, so when `randn` raises in the middle, noise stays
in the weights that no record names; the next init succeeds and starts the run
from there. `WeightsAccounted` says precisely what is left: the residue never
grows or shrinks afterwards.

**A trainer goes past its last step** (`training_orphan`). Math's watchdog inspects,
waits for the GPUs and launches without inspecting again; its trainer has a
session of its own and outlives a killed watchdog. The restarted watchdog waits
for that trainer's GPUs, and if the trainer finishes meanwhile, the new one loads
the last checkpoint and trains one step more, whose dump makes the run incomplete
for ever. The other supervisor does inspect again after its wait.

**A resumed EoH run repeats part of a generation** (`ahd_continues`).
`algorithms/es/README.md:91-97` ends with "continue from the next generation". The
history is written after each operator and the population after each generation;
after a kill in between, the model has the updates of operators that the run,
starting at its population's generation, applies again. `GenerationsCovered` is
what remains: nothing is skipped.

Also met while modelling, without a run of their own:

- *A resumed sampling run ends short of its total.* `ahd-test-time/scripts/run_eoh_ahd.py:176`
  says a resumed run is appended to until `--sample-total` is reached. The resume
  computes its first generation as `ceil(samples_written / batch_size)`: samples
  missing from a started batch are never drawn. `MissesLessThanABatch` is what
  remains.
- *Batches are evaluated with an engine still perturbed.* The comment at
  `eoh_interface_EC.py:971-972` says evaluation starts only after every engine has
  returned to the unperturbed model. `apply` is outside the `try` whose `finally`
  reverts, so one that times out is never reverted and the serial server executes
  it later; the update is then refused and ends the run. The restart is clean.
- *WebArena's test needs servers that were initialised before.* Its README (`:161-162`)
  says every `test` resets and initialises the model servers first. On servers that
  have just started, `/es/reset` raises (`seeded_model_es.py:139`) and the test ends at
  `scripts/webarena/replay_es_history_and_eval.py:189`; `run.sh` never passes
  `--skip-reset`. `init` alone would do, since it resets what was initialised.
  In WebArenaRun this is `TestFails` at `reset`.
- *An archived row can be lost.* `prepare_resume_output`'s docstring
  (`scripts/trace2skill/run_trace2skill_vllm_eval16.py:1051`) says it archives the rows selected
  for retry. The archive is appended to without a look at how it ends
  (`:1080-1088`): after a death in the middle of an append, the next resume writes its
  first row behind the half line, where no reader parses it, and then takes it out of
  the output. `NothingLost` is what remains: at most one such row for each fault.
- *WebArena's history is not written atomically.* `algorithms/es/README.md:86-89` says of
  every task that writes use a temporary sibling and `os.replace`;
  `run_webrl_lite_distributed_es_train.py:604` uses `write_text`. A kill there leaves a
  file no later launch can read, and a replay into its own directory that is
  killed, or meets a record its arguments draw otherwise, leaves fewer records
  than it found. `EventuallyComplete` then starts from another file or anew. The
  records have no alpha either, so a replay under another one goes unnoticed.

## 7. Plan

In this order, most important behaviour first:

1. done: ParamSpace, ModelES, SeedReplayES with proofs; ESTraining, ESRun.
2. done: EvaluatorPool with proofs, SamplingRun.
3. done: AhdModelES and the ESEndpoint it shares with ESRun.
4. done: MathRun (with DocVQA), WebArenaRun: rows of several kinds, partial resumes,
   in-run replay, non-atomic writes.
5. done: GrpoTraining and EvalResume with their supervisors, with first proofs.
6. HistoryOps and SigmaSchedule: run_state's selection of records and both schedules
   as pure operators against reference definitions over bounded inputs.
7. done: proofs of every safety property of every module, and of every refinement.
