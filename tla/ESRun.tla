--------------------------------- MODULE ESRun ---------------------------------
(***************************************************************************)
(* An ES run of run_sudoku_es_train.py against several model servers: the  *)
(* runner process, the serial request queue of each server, the servers'   *)
(* ES state and history.json.  Requests time out while they stay queued,   *)
(* the runner and the servers die and are started again, and a restarted   *)
(* runner resumes from history.json.                                       *)
(*                                                                         *)
(* A server here takes each request in one step, as ModelES promises; its  *)
(* weights are a function of its log and its active perturbation.          *)
(***************************************************************************)
EXTENDS ESEndpoint

CONSTANTS
    NEndpoints,         \* the number of model servers, 1 .. NEndpoints
    Population, Generations,
    AnswersOf(_, _),    \* what a completion may bring: by the log of the model
                        \* that answers it and the seed that perturbs it
    RewardOf(_),        \* mean_valid: the reward of the answers a sample got
    MaxRequests,        \* bound: completions one sample asks for
    RevertAttempts,     \* 1 for post_json, 3 for WebArena's post_json_retry
    MaxCrashes,         \* bound: times the runner is killed
    MaxRestarts,        \* bound: times a server dies and comes back
    MaxTimeouts         \* bound: requests the runner gives up on

Endpoints == 1 .. NEndpoints
Items == 1 .. Population
SeedRange == 1 .. Population * Generations

ASSUME RunShape ==
    /\ NEndpoints \in Nat \ {0} /\ Population \in Nat \ {0}
    /\ Generations \in Nat \ {0} /\ RevertAttempts \in Nat \ {0}
    /\ MaxRequests \in Nat \ {0}
ASSUME NoReward == None \notin Nat
ASSUME RunBounds ==
    MaxCrashes \in Nat /\ MaxRestarts \in Nat /\ MaxTimeouts \in Nat

VARIABLES
    disk,               \* the update records in history.json
    server,             \* [Endpoints -> ES state of the server object]
    queue,              \* [Endpoints -> requests the server has not handled]
    reply,              \* [Endpoints -> what the runner's request to it came to]
    pc,                 \* where main() is
    cur,                \* the endpoint main() is talking to
    rec,                \* the record being replayed
    mem,                \* the update records main() holds in history
    rng,                \* draws taken from random.Random(--seed)
    seeds,              \* the seeds of this generation
    rewards,            \* [Items -> reward, or None before the item's result is in]
    job,                \* [Endpoints -> the item a worker thread evaluates]
    raised,             \* map_endpoint_serial has re-raised a worker's exception
    crashes, restarts, timeouts

budget == <<crashes, restarts, timeouts>>
vars == <<disk, server, queue, reply, pc, cur, rec, mem, rng, seeds, rewards,
          job, raised, budget>>

\* main()'s local variables, lost with the process.
local == <<cur, rec, mem, rng, seeds, rewards, job, raised>>

NoJob == [item |-> 0, step |-> "none", answers |-> <<>>, tries |-> 0]
NoRewards == [i \in Items |-> None]

\* What a completion that failed or timed out counts as: the turn, or in batched
\* mode the rest of the chunk's boards, brings nothing ("Transport/tool failures
\* are failed rollouts, not missing observations").
Failed == 0

\* The rewards of samples whose every completion brought one of these.
RewardsFrom(answers) ==
    {RewardOf(got) : got \in UNION {[1 .. n -> answers] : n \in 1 .. MaxRequests}}

\* The rewards a sample of that model under that seed may end with.
RewardsOf(log, p) == RewardsFrom(AnswersOf(log, p) \cup {Failed})

Init ==
    /\ disk = <<>>
    /\ server = [e \in Endpoints |-> Blank]
    /\ queue = [e \in Endpoints |-> <<>>]
    /\ reply = [e \in Endpoints |-> "none"]
    /\ pc = "down"
    /\ cur = 1 /\ rec = 1 /\ mem = <<>> /\ rng = 0 /\ seeds = <<>>
    /\ rewards = NoRewards
    /\ job = [e \in Endpoints |-> NoJob]
    /\ raised = FALSE
    /\ crashes = 0 /\ restarts = 0 /\ timeouts = 0

-------------------------------------------------------------------------------
(* The server *)

\* A completion somebody waits for brings an answer of the model the server
\* holds at that moment.
Answer(e, m) ==
    IF m.live /\ m.op = "rollout"
    THEN \E a \in AnswersOf(server[e].log, server[e].active) :
            job' = [job EXCEPT ![e].answers = Append(@, a)]
    ELSE UNCHANGED job

\* A mutant of Serve: a threaded server takes any waiting request.
ServeAnyOrder(e) ==
    /\ \E i \in 1 .. Len(queue[e]) :
          LET m == queue[e][i]
              done == Handle(server[e], m)
          IN  /\ server' = [server EXCEPT ![e] = done.state]
              /\ queue' = [queue EXCEPT
                    ![e] = SubSeq(@, 1, i - 1) \o SubSeq(@, i + 1, Len(@))]
              /\ reply' = IF m.live
                          THEN [reply EXCEPT ![e] = IF done.ok THEN "ok" ELSE "error"]
                          ELSE reply
              /\ Answer(e, m)
    /\ UNCHANGED <<disk, pc, cur, rec, mem, rng, seeds, rewards, raised, budget>>

\* The server takes the oldest request, also one nobody waits for any more.
Serve(e) ==
    /\ queue[e] # <<>>
    /\ LET m == Head(queue[e])
           done == Handle(server[e], m)
       IN  /\ server' = [server EXCEPT ![e] = done.state]
           /\ queue' = [queue EXCEPT ![e] = Tail(@)]
           /\ reply' = IF m.live
                       THEN [reply EXCEPT ![e] = IF done.ok THEN "ok" ELSE "error"]
                       ELSE reply
           /\ Answer(e, m)
    /\ UNCHANGED <<disk, pc, cur, rec, mem, rng, seeds, rewards, raised, budget>>

\* A server process dies and is started again: base weights, not initialised.
ServerRestart(e) ==
    /\ restarts < MaxRestarts
    /\ restarts' = restarts + 1
    /\ server' = [server EXCEPT ![e] = Blank]
    /\ queue' = [queue EXCEPT ![e] = <<>>]
    /\ reply' = [reply EXCEPT ![e] = IF @ = "pending" THEN "error" ELSE @]
    /\ UNCHANGED <<disk, pc, local, crashes, timeouts>>

-------------------------------------------------------------------------------
(* HTTP, as the runner sees it *)

Post(e, op, arg) ==
    /\ queue' = [queue EXCEPT ![e] = Append(@, Request(op, arg))]
    /\ reply' = [reply EXCEPT ![e] = "pending"]

Consume(e) == reply' = [reply EXCEPT ![e] = "none"]

\* urlopen gives up; the request stays in the server's backlog.  A generation
\* that fails on the server is this, with the request served at once.
Timeout(e) ==
    /\ reply[e] = "pending"
    /\ timeouts < MaxTimeouts
    /\ timeouts' = timeouts + 1
    /\ reply' = [reply EXCEPT ![e] = "error"]
    /\ queue' = [queue EXCEPT ![e] = Abandoned(@)]
    /\ UNCHANGED <<disk, server, pc, local, crashes, restarts>>

\* An uncaught exception, or a kill: main() and its threads are gone.
Die ==
    /\ pc' = "down"
    /\ queue' = [e \in Endpoints |-> Abandoned(queue[e])]
    /\ reply' = [e \in Endpoints |-> "none"]
    /\ cur' = 1 /\ rec' = 1 /\ mem' = <<>> /\ rng' = 0 /\ seeds' = <<>>
    /\ rewards' = NoRewards
    /\ job' = [e \in Endpoints |-> NoJob]
    /\ raised' = FALSE

Crash ==
    /\ pc \notin {"down", "done", "refused"}
    /\ crashes < MaxCrashes
    /\ crashes' = crashes + 1
    /\ Die
    /\ UNCHANGED <<disk, server, restarts, timeouts>>

-------------------------------------------------------------------------------
(* main(): init and resume *)

\* The operator starts the run, with --resume-history when there is a history.
Launch ==
    /\ pc = "down"
    /\ pc' = "init"
    /\ UNCHANGED <<disk, server, queue, reply, local, budget>>

\* A request of main() itself failed: post_json raises.
MainFails ==
    /\ pc \in {"init", "replay", "update"}
    /\ reply[cur] = "error"
    /\ Die
    /\ UNCHANGED <<disk, server, budget>>

InitPost ==
    /\ pc = "init" /\ reply[cur] = "none"
    /\ Post(cur, "init", None)
    /\ UNCHANGED <<disk, server, pc, local, budget>>

InitDone ==
    /\ pc = "init" /\ reply[cur] = "ok"
    /\ Consume(cur)
    /\ IF cur < NEndpoints THEN cur' = cur + 1 /\ UNCHANGED pc
                           ELSE cur' = 1 /\ pc' = "load"
    /\ UNCHANGED <<disk, server, queue, rec, mem, rng, seeds, rewards, job, raised, budget>>

\* The seeds the stream yields after n draws.
Drawn(n) == [i \in Items |-> n + i]

\* validate_seed_sequence accepts the records.
SeedSequenceValid(records) ==
    \A g \in 1 .. Len(records) : records[g].seeds = Drawn((g - 1) * Population)

\* read_history, completed_update_records, validate_seed_sequence.
Load ==
    /\ pc = "load"
    /\ IF SeedSequenceValid(disk)
       THEN mem' = disk /\ pc' = IF disk = <<>> THEN "start" ELSE "replay"
       ELSE pc' = "refused" /\ UNCHANGED mem
    /\ UNCHANGED <<disk, server, queue, reply, cur, rec, rng, seeds, rewards, job, raised, budget>>

\* replay_http_updates: every record on every endpoint, in order.
ReplayPost ==
    /\ pc = "replay" /\ reply[cur] = "none"
    /\ Post(cur, "update", mem[rec])
    /\ UNCHANGED <<disk, server, pc, local, budget>>

ReplayDone ==
    /\ pc = "replay" /\ reply[cur] = "ok"
    /\ Consume(cur)
    /\ IF cur < NEndpoints
       THEN cur' = cur + 1 /\ UNCHANGED <<rec, pc>>
       ELSE /\ cur' = 1
            /\ IF rec < Len(mem) THEN rec' = rec + 1 /\ UNCHANGED pc
                                 ELSE pc' = "start" /\ UNCHANGED rec
    /\ UNCHANGED <<disk, server, queue, mem, rng, seeds, rewards, job, raised, budget>>

\* The history is written back and the stream is moved past the replayed draws.
Start ==
    /\ pc = "start"
    /\ disk' = mem
    /\ rng' = Len(mem) * Population
    /\ pc' = IF Len(mem) < Generations THEN "draw" ELSE "done"
    /\ UNCHANGED <<server, queue, reply, cur, rec, mem, seeds, rewards, job, raised, budget>>

-------------------------------------------------------------------------------
(* main(): one generation *)

\* Draw the seeds and give every endpoint's queue its first item.
Draw ==
    /\ pc = "draw"
    /\ seeds' = Drawn(rng)
    /\ rng' = rng + Population
    /\ rewards' = NoRewards
    /\ job' = [e \in Endpoints |->
                  IF e <= Population THEN [NoJob EXCEPT !.item = e, !.step = "apply"] ELSE NoJob]
    /\ pc' = "sample"
    /\ UNCHANGED <<disk, server, queue, reply, cur, rec, mem, raised, budget>>

\* eval_sample posts its next request: apply, a completion, or revert.
WorkerPost(e) ==
    /\ pc = "sample" /\ reply[e] = "none"
    /\ job[e].step \in {"apply", "rollout", "revert"}
    /\ Post(e, job[e].step, seeds[job[e].item])
    /\ UNCHANGED <<disk, server, pc, local, budget>>

\* The worker of e moves on, by what its request came to.
Becomes(e, step) == job' = [job EXCEPT ![e].step = step]

\* apply is outside the try: if it fails, the sample raises and nothing reverts.
WorkerApplied(e) ==
    /\ pc = "sample" /\ job[e].step = "apply" /\ reply[e] \in {"ok", "error"}
    /\ Consume(e)
    /\ Becomes(e, IF reply[e] = "ok" THEN "rollout" ELSE "raised")
    /\ UNCHANGED <<disk, server, queue, pc, cur, rec, mem, rng, seeds, rewards, raised, budget>>

\* A completion that failed is caught inside the sample, as one that brought
\* nothing; another completion follows, or the sample is over.  Completions of a
\* sample that wait together only read the model, so here they follow each other.
WorkerRolledOut(e) ==
    /\ pc = "sample" /\ job[e].step = "rollout" /\ reply[e] \in {"ok", "error"}
    /\ Consume(e)
    /\ LET answers == IF reply[e] = "ok" THEN job[e].answers
                                         ELSE Append(job[e].answers, Failed)
       IN  \/ job' = [job EXCEPT ![e].answers = answers, ![e].step = "revert"]
           \/ /\ Len(answers) < MaxRequests
              /\ job' = [job EXCEPT ![e].answers = answers]
    /\ UNCHANGED <<disk, server, queue, pc, cur, rec, mem, rng, seeds, rewards, raised, budget>>

\* A revert that fails raises once its attempts are used up; the answers of its
\* sample are then lost with it.
WorkerReverted(e) ==
    /\ pc = "sample" /\ job[e].step = "revert" /\ reply[e] \in {"ok", "error"}
    /\ Consume(e)
    /\ CASE reply[e] = "ok" -> Becomes(e, "returned")
         [] reply[e] = "error" /\ job[e].tries + 1 < RevertAttempts ->
               job' = [job EXCEPT ![e].tries = @ + 1]
         [] OTHER -> Becomes(e, "raised")
    /\ UNCHANGED <<disk, server, queue, pc, cur, rec, mem, rng, seeds, rewards, raised, budget>>

\* A mutant of Collect: the endpoints' item queues run one item too far.
CollectOneTooFar(e) ==
    /\ pc = "sample" /\ ~raised /\ job[e].step = "returned"
    /\ rewards' = [rewards EXCEPT ![job[e].item] = RewardOf(job[e].answers)]
    /\ LET next == job[e].item + NEndpoints IN
       job' = [job EXCEPT ![e] =
                  IF next <= Population + 1
                  THEN [NoJob EXCEPT !.item = next, !.step = "apply"] ELSE NoJob]
    /\ UNCHANGED <<disk, server, queue, reply, pc, cur, rec, mem, rng, seeds, raised, budget>>

\* map_endpoint_serial takes a finished future: its result goes to its index
\* and the endpoint gets the next item of its own queue.
Collect(e) ==
    /\ pc = "sample" /\ ~raised /\ job[e].step = "returned"
    /\ rewards' = [rewards EXCEPT ![job[e].item] = RewardOf(job[e].answers)]
    /\ LET next == job[e].item + NEndpoints IN
       job' = [job EXCEPT ![e] =
                  IF next <= Population THEN [NoJob EXCEPT !.item = next, !.step = "apply"]
                                        ELSE NoJob]
    /\ UNCHANGED <<disk, server, queue, reply, pc, cur, rec, mem, rng, seeds, raised, budget>>

\* future.result() re-raises: nothing more is submitted.
CollectRaise(e) ==
    /\ pc = "sample" /\ ~raised /\ job[e].step = "raised"
    /\ raised' = TRUE
    /\ UNCHANGED <<disk, server, queue, reply, pc, cur, rec, mem, rng, seeds, rewards, job, budget>>

\* The pool's exit waits for the workers that still run, then main() dies.
PoolExit ==
    /\ pc = "sample" /\ raised
    /\ \A e \in Endpoints : job[e].step \in {"none", "returned", "raised"}
    /\ Die
    /\ UNCHANGED <<disk, server, budget>>

AllSampled ==
    /\ pc = "sample" /\ ~raised
    /\ \A e \in Endpoints : job[e].step = "none"
    /\ pc' = "update"
    /\ UNCHANGED <<disk, server, queue, reply, local, budget>>

NewRecord == [seeds |-> seeds, rewards |-> rewards]

\* The same update on one endpoint after the other.
UpdatePost ==
    /\ pc = "update" /\ reply[cur] = "none"
    /\ Post(cur, "update", NewRecord)
    /\ UNCHANGED <<disk, server, pc, local, budget>>

UpdateDone ==
    /\ pc = "update" /\ reply[cur] = "ok"
    /\ Consume(cur)
    /\ IF cur < NEndpoints THEN cur' = cur + 1 /\ UNCHANGED pc
                           ELSE cur' = 1 /\ pc' = "persist"
    /\ UNCHANGED <<disk, server, queue, rec, mem, rng, seeds, rewards, job, raised, budget>>

\* history.append(record), atomic_write_history; the periodic evaluation that
\* comes before the write is time in which a crash loses the generation.
Persist ==
    /\ pc = "persist"
    /\ mem' = Append(mem, NewRecord)
    /\ disk' = mem'
    /\ pc' = IF Len(mem') < Generations THEN "draw" ELSE "done"
    /\ UNCHANGED <<server, queue, reply, cur, rec, rng, seeds, rewards, job, raised, budget>>

\* The run is over and nothing is left in a backlog.
Finished ==
    /\ pc = "done" /\ \A e \in Endpoints : queue[e] = <<>>
    /\ UNCHANGED vars

-------------------------------------------------------------------------------
Main ==
    \/ Launch \/ MainFails \/ InitPost \/ InitDone \/ Load \/ ReplayPost \/ ReplayDone
    \/ Start \/ Draw \/ PoolExit \/ AllSampled \/ UpdatePost \/ UpdateDone \/ Persist
    \/ \E e \in Endpoints : Collect(e) \/ CollectRaise(e)

Worker(e) ==
    WorkerPost(e) \/ WorkerApplied(e) \/ WorkerRolledOut(e) \/ WorkerReverted(e)

Environment ==
    Crash \/ \E e \in Endpoints : Timeout(e) \/ ServerRestart(e)

Next ==
    \/ Main
    \/ \E e \in Endpoints : Worker(e) \/ Serve(e)
    \/ Environment
    \/ Finished

Spec == Init /\ [][Next]_vars

\* Every process that can run does, and the operator starts a dead run again;
\* nothing is assumed of crashes, restarts and timeouts.
Fairness ==
    /\ WF_vars(Main)
    /\ \A e \in Endpoints : WF_vars(Worker(e)) /\ WF_vars(Serve(e))

FairSpec == Spec /\ Fairness

-------------------------------------------------------------------------------
(* Properties *)

UpdateRecords == [seeds : [Items -> SeedRange], rewards : [Items -> Nat]]

Requests ==
    [op : {"init"}, arg : {None}, live : BOOLEAN]
        \cup [op : {"apply", "revert", "rollout"}, arg : SeedRange, live : BOOLEAN]
        \cup [op : {"update"}, arg : UpdateRecords, live : BOOLEAN]

\* Every variable has its type.
TypeOK ==
    /\ disk \in Seq(UpdateRecords) /\ mem \in Seq(UpdateRecords)
    /\ server \in [Endpoints -> [ready : BOOLEAN, log : Seq(UpdateRecords),
                                 active : SeedRange \cup {None}]]
    /\ queue \in [Endpoints -> Seq(Requests)]
    /\ reply \in [Endpoints -> {"none", "pending", "ok", "error"}]
    /\ pc \in {"down", "init", "load", "refused", "replay", "start", "draw",
               "sample", "update", "persist", "done"}
    /\ cur \in Endpoints /\ rec \in Nat \ {0} /\ rng \in Nat
    /\ seeds \in {<<>>} \cup [Items -> SeedRange]
    /\ rewards \in [Items -> Nat \cup {None}]
    /\ job \in [Endpoints -> [item : 0 .. Population, answers : Seq(Nat),
                  step : {"none", "apply", "rollout", "revert", "returned", "raised"},
                  tries : 0 .. RevertAttempts]]
    /\ raised \in BOOLEAN
    /\ crashes \in 0 .. MaxCrashes
    /\ restarts \in 0 .. MaxRestarts
    /\ timeouts \in 0 .. MaxTimeouts

\* When a generation starts, and when the run is over, no request of an earlier
\* run's or generation's samples, updates or replay waits anywhere, and each server
\* either lost its state to a restart or is at exactly the durable history,
\* unperturbed.  The init of a
\* restarted run comes behind everything the dead run left in the backlog.  And
\* in between rollouts only ever meet the perturbation of the one item their
\* worker evaluates ("one active job per endpoint", map_endpoint_serial).  At any
\* other time, dead or restarted runners included, a server is ahead of
\* history.json by at most the one update whose write is still to come.
InSync ==
    /\ pc \in {"draw", "done"} =>
          \A e \in Endpoints :
              /\ queue[e] = <<>>
              /\ server[e].ready => server[e].log = disk /\ server[e].active = None
    /\ pc = "sample" =>
          \A e \in Endpoints :
              server[e].active # None =>
                  job[e].item # 0 /\ server[e].active = seeds[job[e].item]
    /\ \A e \in Endpoints :
          LET log == server[e].log IN
          /\ Len(log) <= Len(disk) + 1
          /\ \A i \in 1 .. Len(log) : i <= Len(disk) => log[i] = disk[i]

Training == INSTANCE ESTraining WITH history <- disk

\* Every reward in these records was made of answers alone.
Unfailed(records) ==
    \A g \in 1 .. Len(records), i \in Items :
        records[g].rewards[i] \in
            RewardsFrom(AnswersOf(SubSeq(records, 1, g - 1), records[g].seeds[i]))

\* Crashes, server restarts and resumes never show in history.json: it is always
\* that of an uninterrupted run on a single model, each reward made of answers
\* of the model all earlier generations made, under its own seed.  Completions
\* that failed show, as completions that brought nothing, and in no other way;
\* and as a server that lost its model takes no update, what puts one on file is
\* a timeout (or an error of the generation), never a restart.
ImplementsTraining == Training!Spec /\ [](timeouts = 0 => Unfailed(disk))

\* Once crashes, restarts and timeouts end, the run completes: no server state
\* a dead runner leaves behind blocks its successor, and no history the runner
\* wrote itself is refused when it resumes.
EventuallyDone == <>(pc = "done")
=============================================================================
