-------------------------------- MODULE MathRun --------------------------------
(***************************************************************************)
(* The ES runner of run_math_es_vllm_train.py (DocVQA's runner calls the   *)
(* same main) with its in-process engines: Ray actors that take the        *)
(* driver's calls one by one, each a vLLM worker which only keeps a flag   *)
(* for an active perturbation.  A rollout loses cases, which then count 0. *)
(* The run is killed, times out or fails in a rollout and is launched      *)
(* again: anew, on its history, or on the first --resume-generations       *)
(* updates of it.  Evaluations are rows of the history as updates are.     *)
(* The config and resume rows, which carry no result, are left out.        *)
(***************************************************************************)
EXTENDS Integers, FiniteSetsExt, SequencesExt

CONSTANTS
    None,
    NEngines, Population, Generations,
    EvalInterval,           \* --eval-interval, 0 for none
    SkipFinalIntervalEval, FinalEval,
    RewardsOf(_, _),        \* the rewards of a model under a seed's noise
    LossyRewardsOf(_, _),   \* its rewards when some of the cases fail
    MaxFaults,              \* bound: kills, timeouts and failed rollouts
    MaxReruns               \* bound: launches on a finished history

Engines == 1 .. NEngines
Items == 1 .. Population
SeedRange == 1 .. Population * Generations

ASSUME RunShape ==
    /\ NEngines \in Nat \ {0} /\ Population \in Nat \ {0} /\ Generations \in Nat \ {0}
    /\ EvalInterval \in Nat /\ SkipFinalIntervalEval \in BOOLEAN /\ FinalEval \in BOOLEAN
ASSUME RunBounds == MaxFaults \in Nat /\ MaxReruns \in Nat

VARIABLES
    disk,           \* history.json: rows [gen, seeds, rewards, eval]
    engine,         \* [Engines -> worker state: update log, noise, flag]
    calls,          \* [Engines -> actor calls submitted and not finished]
    phase,          \* [Engines -> how far the first call is]
    result,         \* [Items -> reward a finished sample returned, or None]
    failed,         \* a call raised; the driver has not seen it yet
    pc, rows, keep, rec, gen, rng, seeds, samples,      \* the driver's locals
    asked,          \* the launch asked to go back; its first write may do so
    losses,         \* how many samples lost cases
    faults, reruns

driver == <<rows, keep, rec, gen, rng, seeds, samples, asked>>
budget == <<losses, faults, reruns>>
vars == <<disk, engine, calls, phase, result, failed, pc, driver, budget>>

NoNoise == [s \in SeedRange |-> 0]
Fresh == [log |-> <<>>, noise |-> NoNoise, perturbed |-> FALSE]
Idle == \A e \in Engines : calls[e] = <<>>
NoResult == [i \in Items |-> None]

\* completed_update_records: the rows with as many rewards as seeds, not none.
IsUpdate(row) == row.seeds # <<>>
UpdateRows(history) == {i \in 1 .. Len(history) : IsUpdate(history[i])}

\* The row of the n-th update, and the updates in their order.
UpdateAt(history, n) ==
    CHOOSE i \in UpdateRows(history) : Cardinality(UpdateRows(history) \cap (1 .. i)) = n
RecordOf(row) == [seeds |-> row.seeds, rewards |-> row.rewards]
UpdatesOf(history) ==
    [n \in 1 .. Cardinality(UpdateRows(history)) |-> RecordOf(history[UpdateAt(history, n)])]

Init ==
    /\ disk = <<>> /\ rows = <<>>
    /\ engine = [e \in Engines |-> Fresh]
    /\ calls = [e \in Engines |-> <<>>] /\ phase = [e \in Engines |-> "start"]
    /\ result = NoResult /\ samples = NoResult /\ failed = FALSE
    /\ pc = "down" /\ keep = 0 /\ rec = 0 /\ gen = 0 /\ rng = 0 /\ seeds = <<>>
    /\ asked = FALSE /\ losses = 0 /\ faults = 0 /\ reruns = 0

-------------------------------------------------------------------------------
(* The engines *)

\* Adding a multiple of a seed's noise to the weights.
Noised(w, seed, times) == [w EXCEPT !.noise[seed] = @ + times]

\* A mutant of Reverted: the noise is added a second time.
RevertedWrongSign(w, seed) == [Noised(w, seed, 1) EXCEPT !.perturbed = FALSE]

\* Nothing compares the seed with what is applied: the flag is set or cleared.
Applied(w, seed) == [Noised(w, seed, 1) EXCEPT !.perturbed = TRUE]
Reverted(w, seed) == [Noised(w, seed, -1) EXCEPT !.perturbed = FALSE]

\* A rollout earns a reward of the model its weights are; weights that are no
\* model's, with two seeds' noise or a leftover, earn one of their own.
Spoilt == -1
SeedIn(w) == CHOOSE s \in SeedRange : w.noise[s] = 1
Earned(w, lossy) ==
    IF \E s \in SeedRange : w.noise = [NoNoise EXCEPT ![s] = 1]
    THEN IF lossy THEN LossyRewardsOf(w.log, SeedIn(w)) ELSE RewardsOf(w.log, SeedIn(w))
    ELSE {Spoilt}

\* evaluate_perturbation begins: apply_perturbation on the worker.
Apply(e) ==
    /\ calls[e] # <<>> /\ Head(calls[e]).op = "evaluate" /\ phase[e] = "start"
    /\ engine' = [engine EXCEPT ![e] = Applied(@, Head(calls[e]).arg)]
    /\ phase' = [phase EXCEPT ![e] = "rollout"]
    /\ UNCHANGED <<disk, calls, result, failed, pc, driver, budget>>

\* A mutant of Rollout: no finally, the noise stays when the rollouts are over.
RolloutUnreverted(e) ==
    /\ phase[e] = "rollout"
    /\ \E r \in Earned(engine[e], FALSE) :
          result' = [result EXCEPT ![Head(calls[e]).item] = r]
    /\ phase' = [phase EXCEPT ![e] = "start"]
    /\ calls' = [calls EXCEPT ![e] = Tail(@)]
    /\ UNCHANGED <<disk, engine, failed, pc, driver, budget>>

\* The rollouts of one seed's cases, and the revert in the finally clause; the
\* result is the driver's once the call has returned.
RolloutReturns(e, lossy) ==
    /\ phase[e] = "rollout"
    /\ LET call == Head(calls[e]) IN
       /\ \E r \in Earned(engine[e], lossy) : result' = [result EXCEPT ![call.item] = r]
       /\ engine' = [engine EXCEPT ![e] = Reverted(@, call.arg)]
    /\ phase' = [phase EXCEPT ![e] = "start"]
    /\ calls' = [calls EXCEPT ![e] = Tail(@)]
    /\ UNCHANGED <<disk, failed, pc, driver, reruns>>

Rollout(e) == RolloutReturns(e, FALSE) /\ UNCHANGED <<losses, faults>>

\* Cases whose generation or processing raised are scored 0, and the sample counts.
RolloutLoses(e) ==
    /\ RolloutReturns(e, TRUE) /\ faults < MaxFaults
    /\ losses' = losses + 1 /\ faults' = faults + 1

\* A rollout raises: the finally clause reverts, the exception is the result,
\* and the actor takes its next call.
RolloutFails(e) ==
    /\ phase[e] = "rollout" /\ faults < MaxFaults
    /\ engine' = [engine EXCEPT ![e] = Reverted(@, Head(calls[e]).arg)]
    /\ phase' = [phase EXCEPT ![e] = "start"]
    /\ calls' = [calls EXCEPT ![e] = Tail(@)]
    /\ failed' = TRUE /\ faults' = faults + 1
    /\ UNCHANGED <<disk, result, pc, driver, losses, reruns>>

\* update_es: dipu refuses while the flag is set.
Update(e) ==
    /\ calls[e] # <<>> /\ Head(calls[e]).op = "update"
    /\ calls' = [calls EXCEPT ![e] = Tail(@)]
    /\ IF engine[e].perturbed
       THEN failed' = TRUE /\ UNCHANGED engine
       ELSE engine' = [engine EXCEPT ![e].log = Append(@, Head(calls[e]).arg)]
            /\ UNCHANGED failed
    /\ UNCHANGED <<disk, phase, result, pc, driver, budget>>

-------------------------------------------------------------------------------
(* The driver *)

\* The process ends, and with it its engines (ray.kill in the finally clause).
Die ==
    /\ pc' = "down"
    /\ engine' = [e \in Engines |-> Fresh]
    /\ calls' = [e \in Engines |-> <<>>] /\ phase' = [e \in Engines |-> "start"]
    /\ result' = NoResult /\ samples' = NoResult /\ failed' = FALSE
    /\ rows' = <<>> /\ keep' = 0 /\ rec' = 0 /\ gen' = 0 /\ rng' = 0
    /\ seeds' = <<>> /\ asked' = FALSE
    /\ UNCHANGED disk

\* A kill, an engine's death or a failed evaluation, wherever the driver is.
Crash ==
    /\ pc \notin {"down", "done", "refused"} /\ faults < MaxFaults
    /\ faults' = faults + 1 /\ Die /\ UNCHANGED <<losses, reruns>>

\* No sample completed within --ray-result-timeout.
TimeOut ==
    /\ pc = "collect" /\ ~failed /\ faults < MaxFaults
    /\ \E i \in Items : samples[i] = None
    /\ result = NoResult
    /\ faults' = faults + 1 /\ Die /\ UNCHANGED <<losses, reruns>>

\* ray.get raises what the call raised.
Raise == failed /\ Die /\ UNCHANGED budget

CanLaunch ==
    /\ pc = "down" \/ (pc = "done" /\ reruns < MaxReruns)
    /\ reruns' = IF pc = "done" THEN reruns + 1 ELSE reruns
    /\ engine' = [e \in Engines |-> Fresh]
    /\ rec' = 0 /\ seeds' = <<>> /\ samples' = NoResult
    /\ UNCHANGED <<disk, calls, phase, result, failed, losses, faults>>

\* Without --resume-history the history starts over, with or without an
\* evaluation of the base model (--skip-initial-eval).
LaunchAnew ==
    /\ CanLaunch /\ \E first \in {"initial", "loop"} : pc' = first
    /\ rows' = <<>> /\ keep' = 0 /\ gen' = 0 /\ rng' = 0 /\ asked' = TRUE

\* validate_seed_sequence: contiguous from generation 0, and the stream's seeds.
SeedsOf(g) == [i \in Items |-> g * Population + i]
Replayable(history, n) ==
    \A i \in 1 .. n :
        LET row == history[UpdateAt(history, i)]
        IN  row.gen = i - 1 /\ row.seeds = SeedsOf(i - 1)

\* --resume-history with all updates, or with the first k of them.
LaunchResume ==
    /\ CanLaunch
    /\ \E k \in 1 .. Len(UpdatesOf(disk)) :
          /\ keep' = k
          /\ asked' = (k < Len(UpdatesOf(disk)))
          /\ pc' = IF Replayable(disk, k) THEN "replay" ELSE "refused"
    /\ rows' = <<>> /\ gen' = 0 /\ rng' = 0

SubmitUpdate(record) ==
    calls' = [e \in Engines |-> <<[op |-> "update", arg |-> record]>>]

\* Each record in turn, on all engines at once; ray.get waits for all of them.
Replay ==
    /\ pc = "replay" /\ Idle /\ ~failed /\ rec < keep
    /\ SubmitUpdate(UpdatesOf(disk)[rec + 1])
    /\ rec' = rec + 1
    /\ UNCHANGED <<disk, engine, phase, result, failed, pc, rows, keep, gen, rng,
                   seeds, samples, asked, budget>>

\* A mutant of PrefixThrough: a partial replay keeps the whole history.
WholeHistory(history, n) == history

\* history_prefix_through_updates: the rows before the update after the n-th,
\* evaluations of the model of n updates included; all rows if there is none.
PrefixThrough(history, n) ==
    IF n < Len(UpdatesOf(history))
    THEN SubSeq(history, 1, UpdateAt(history, n + 1) - 1)
    ELSE history

\* atomic_write_history; the process remembers what it has written.
Write(history) == rows' = history /\ disk' = history /\ asked' = FALSE

\* Everything is replayed: the history is cut and written, and the generator
\* passes the seeds already drawn.
ResumeReady ==
    /\ pc = "replay" /\ Idle /\ ~failed /\ rec = keep
    /\ IF keep > Generations
       THEN pc' = "refused" /\ UNCHANGED <<disk, rows, gen, rng, asked>>
       ELSE /\ Write(PrefixThrough(disk, keep))
            /\ gen' = keep /\ rng' = keep * Population
            /\ pc' \in {"initial", "loop"}
    /\ UNCHANGED <<engine, calls, phase, result, failed, keep, rec, seeds, samples, budget>>

\* eval_tasks_vllm: every engine evaluates its share of the cases.
Evaluated == {[log |-> engine[e].log, noise |-> engine[e].noise] : e \in Engines}
EvalRow(g) == [gen |-> g, seeds |-> <<>>, rewards |-> <<>>, eval |-> Evaluated]

\* The row is -1 also when a resumed run evaluates the replayed model.
InitialEval ==
    /\ pc = "initial"
    /\ Write(Append(rows, EvalRow(-1)))
    /\ pc' = "loop"
    /\ UNCHANGED <<engine, calls, phase, result, failed, keep, rec, gen, rng, seeds,
                   samples, budget>>

\* Engine e gets every NEngines-th sample, from the e-th on.
ShareSize(e) == (Population - e + NEngines) \div NEngines
Share(e, n) == (n - 1) * NEngines + e

\* The seeds of a generation, and all its samples at once.
Draw ==
    /\ pc = "loop" /\ gen < Generations
    /\ seeds' = [i \in Items |-> rng + i]
    /\ rng' = rng + Population
    /\ LET Call(i) == [op |-> "evaluate", arg |-> rng + i, item |-> i]
       IN  calls' = [e \in Engines |-> [n \in 1 .. ShareSize(e) |-> Call(Share(e, n))]]
    /\ result' = NoResult /\ samples' = NoResult
    /\ pc' = "collect"
    /\ UNCHANGED <<disk, engine, phase, failed, rows, keep, rec, gen, asked, budget>>

\* A mutant of Collect: results are kept in the order they come in.
CollectByArrival(i) ==
    /\ pc = "collect" /\ result[i] # None
    /\ LET free == {j \in Items : samples[j] = None}
       IN  free # {} /\ samples' = [samples EXCEPT ![Min(free)] = result[i]]
    /\ result' = [result EXCEPT ![i] = None]
    /\ UNCHANGED <<disk, engine, calls, phase, failed, pc, rows, keep, rec, gen, rng,
                   seeds, asked, budget>>

\* ray.wait returns a finished sample, in any order; samples_by_idx.
Collect(i) ==
    /\ pc = "collect" /\ result[i] # None
    /\ samples' = [samples EXCEPT ![i] = result[i]]
    /\ result' = [result EXCEPT ![i] = None]
    /\ UNCHANGED <<disk, engine, calls, phase, failed, pc, rows, keep, rec, gen, rng,
                   seeds, asked, budget>>

\* All samples are in: the same update on all engines.
SampledAll ==
    /\ pc = "collect" /\ \A i \in Items : samples[i] # None
    /\ SubmitUpdate([seeds |-> seeds, rewards |-> samples])
    /\ pc' = "update"
    /\ UNCHANGED <<disk, engine, phase, result, failed, driver, budget>>

IntervalEvalDue ==
    LET final == gen + 1 = Generations
    IN  /\ EvalInterval > 0 /\ ((gen + 1) % EvalInterval = 0 \/ final)
        /\ ~(SkipFinalIntervalEval /\ final)

\* ray.get on the updates, the interval evaluation, and only then the record.
Record ==
    /\ pc = "update" /\ Idle /\ ~failed
    /\ Write(Append(rows, [gen |-> gen, seeds |-> seeds, rewards |-> samples,
                           eval |-> IF IntervalEvalDue THEN Evaluated ELSE None]))
    /\ gen' = gen + 1 /\ pc' = "loop"
    /\ UNCHANGED <<engine, calls, phase, result, failed, keep, rec, rng, seeds, samples, budget>>

Finish ==
    /\ pc = "loop" /\ gen = Generations
    /\ IF FinalEval THEN Write(Append(rows, EvalRow(Generations)))
                    ELSE UNCHANGED <<disk, rows, asked>>
    /\ pc' = "done"
    /\ UNCHANGED <<engine, calls, phase, result, failed, keep, rec, gen, rng, seeds,
                   samples, budget>>

\* The user is content with the finished history.
Stop == pc = "done" /\ reruns = MaxReruns /\ UNCHANGED vars

Driver ==
    \/ Raise \/ LaunchAnew \/ LaunchResume \/ Replay \/ ResumeReady \/ InitialEval
    \/ Draw \/ SampledAll \/ Record \/ Finish \/ \E i \in Items : Collect(i)

Worker(e) == Apply(e) \/ Rollout(e) \/ Update(e)

Next ==
    \/ Driver \/ Crash \/ TimeOut \/ Stop
    \/ \E e \in Engines : Worker(e) \/ RolloutLoses(e) \/ RolloutFails(e)

\* Driver and engines go on, and the user launches a run that ended early.
FairSpec ==
    /\ Init /\ [][Next]_vars
    /\ WF_vars(Driver) /\ \A e \in Engines : WF_vars(Worker(e))

-------------------------------------------------------------------------------
(* Properties *)

Records == [seeds : [Items -> SeedRange], rewards : [Items -> Nat]]
\* Every variable has its type: seeds stay inside the run's stream, weights
\* carry at most one seed's noise, and the flag tells whether they do.
TypeOK ==
    /\ pc \in {"down", "refused", "replay", "initial", "loop", "collect", "update", "done"}
    /\ \A row \in ToSet(disk) \cup ToSet(rows) :
          [row EXCEPT !.eval = None] \in
              [gen : -1 .. Generations, seeds : {<<>>} \cup [Items -> SeedRange],
               rewards : {<<>>} \cup [Items -> Nat], eval : {None}]
    /\ \A e \in Engines :
          /\ engine[e].log \in Seq(Records)
          /\ engine[e].noise \in {NoNoise} \cup
                {[NoNoise EXCEPT ![s] = 1] : s \in SeedRange}
          /\ engine[e].perturbed = (engine[e].noise # NoNoise)
          /\ phase[e] \in {"start", "rollout"}
    /\ result \in [Items -> Nat \cup {None}] /\ samples \in [Items -> Nat \cup {None}]
    /\ failed \in BOOLEAN /\ asked \in BOOLEAN
    /\ keep \in Nat /\ rec \in 0 .. keep /\ gen \in 0 .. Generations
    /\ rng \in 0 .. Population * Generations
    /\ seeds \in {<<>>} \cup [Items -> SeedRange]
    /\ losses \in 0 .. faults /\ faults \in 0 .. MaxFaults /\ reruns \in 0 .. MaxReruns

\* A sample is worth what its model earns, all its cases counted or some lost.
AnyRewardsOf(log, s) == RewardsOf(log, s) \cup LossyRewardsOf(log, s)
Training == INSTANCE ESTraining
                WITH history <- UpdatesOf(disk), RewardsOf <- AnyRewardsOf

\* None of these updates has a reward of which cases were lost.
Lossless(updates) ==
    \A n \in 1 .. Len(updates) : \A i \in Items :
        updates[n].rewards[i] \in RewardsOf(SubSeq(updates, 1, n - 1), updates[n].seeds[i])

\* Kills, timeouts, rollouts that raise, full and partial resumes never show in the
\* updates of history.json: they are always those of an uninterrupted run on a
\* single model, rewards with their own seeds' items, and an update is only
\* lost when the launch asked for fewer of them.  Cases that fail inside a rollout
\* do show, as 0, and nothing else makes a reward one of fewer cases.
ImplementsTraining ==
    /\ Training!Init /\ [][Training!Generation \/ (asked /\ Training!Rewind)]_(UpdatesOf(disk))
    /\ [](losses = 0 => Lossless(UpdatesOf(disk)))

\* Whatever was cut, replayed and evaluated again: each evaluation in
\* history.json was made, on all engines, by the unperturbed model of exactly
\* the updates up to its row.
EvaluatedAsRecorded ==
    \A i \in 1 .. Len(disk) :
        disk[i].eval # None =>
            disk[i].eval = {[log |-> UpdatesOf(SubSeq(disk, 1, i)), noise |-> NoNoise]}

\* Once faults and reruns end, the run completes: no history a run has written
\* is refused by a later one, and no engine is left so that it refuses updates.
EventuallyDone == <>[](pc = "done")
================================================================================
