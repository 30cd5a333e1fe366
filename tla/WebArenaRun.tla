------------------------------- MODULE WebArenaRun -------------------------------
(***************************************************************************)
(* WebArena's ES trainer and its test, which replays a history and         *)
(* evaluates, take turns on the same model servers.  The trainer replays   *)
(* inside its loop and rewrites the history.json of its run directory row  *)
(* by row, in place; the run directory may be the one it replays from.     *)
(* Processes are killed anywhere, also inside a write, requests fail,      *)
(* servers restart, and launches have other arguments than the run before. *)
(***************************************************************************)
EXTENDS Integers, ESEndpoint

CONSTANTS
    Torn,               \* half-written JSON
    Runs,               \* --run-id: directories under runs/webrl_lite_full_es
    Setups,             \* the other arguments
    Draw(_, _),         \* case batch, seeds and sigma of a generation of a setup
    RewardsOf(_, _),    \* the rewards a model with that log earns under a draw
    NEndpoints, Generations, EvalInterval,
    MaxFaults,          \* bound: kills, failed requests, restarted servers
    MaxOthers,          \* bound: launches not made to continue the run
    MaxTests            \* bound: tests

Endpoints == 1 .. NEndpoints

ASSUME WebArenaShape ==
    /\ NEndpoints \in Nat \ {0} /\ Generations \in Nat /\ EvalInterval \in Nat
    /\ None # Torn
ASSUME WebArenaBounds == MaxFaults \in Nat /\ MaxOthers \in Nat /\ MaxTests \in Nat

VARIABLES
    file,               \* [Runs -> history.json: None, Torn, or [first, updates]]
    server,             \* [Endpoints -> ES state]
    pc, run, setup,     \* the running process and its arguments
    source,             \* the records it is to replay
    history, gen, reward,       \* its locals
    cur,                \* the endpoint that is initialised next
    faults, others, tests

arguments == <<run, setup, source>>
locals == <<history, gen, reward, cur>>
budget == <<faults, others, tests>>
vars == <<file, server, pc, arguments, locals, budget>>

\* The initial evaluation, if any, is the first row; the others are updates.
Empty == [first |-> None, updates |-> <<>>]
Whole(r) == file[r] \notin {None, Torn}
Updates(r) == IF Whole(r) THEN file[r].updates ELSE <<>>
Complete(r) == Len(Updates(r)) = Generations

Init ==
    /\ file = [r \in Runs |-> None]
    /\ server = [e \in Endpoints |-> Blank]
    /\ pc = "down" /\ run = None /\ setup = None /\ source = <<>>
    /\ history = Empty /\ gen = 0 /\ reward = None /\ cur = 1
    /\ faults = 0 /\ others = 0 /\ tests = 0

---------------------------------------------------------------------------------
(* Requests.  A server is serial: what an abandoned request may still do, it has *)
(* done when the next process' init arrives (ESRun has the backlog itself).      *)

Exit ==
    /\ pc' = "down" /\ run' = None /\ setup' = None /\ source' = <<>>
    /\ history' = Empty /\ gen' = 0 /\ reward' = None /\ cur' = 1

Answer(e, op, arg) == Handle(server[e], Request(op, arg))

PostOk(es, op, arg) ==
    /\ \A e \in es : Answer(e, op, arg).ok
    /\ server' = [e \in Endpoints |->
                     IF e \in es THEN Answer(e, op, arg).state ELSE server[e]]

\* A server refuses, or requests time out, carried out or not: the process ends.
PostFails(es, op, arg) ==
    /\ \E lost \in SUBSET es : \E dropped \in SUBSET lost :
          /\ lost # {} \/ \E e \in es : ~Answer(e, op, arg).ok
          /\ lost # {} => faults < MaxFaults
          /\ faults' = IF lost = {} THEN faults ELSE faults + 1
          /\ server' = [e \in Endpoints |->
                           IF e \in es \ dropped THEN Answer(e, op, arg).state ELSE server[e]]
    /\ Exit
    /\ UNCHANGED <<file, others, tests>>

\* A server process dies and is started again.
Restart(e) ==
    /\ faults < MaxFaults /\ faults' = faults + 1
    /\ server' = [server EXCEPT ![e] = Blank]
    /\ UNCHANGED <<file, pc, arguments, locals, others, tests>>

\* A kill, or an episode that raises.
Crash ==
    /\ pc # "down" /\ faults < MaxFaults /\ faults' = faults + 1
    /\ Exit
    /\ UNCHANGED <<file, server, others, tests>>

---------------------------------------------------------------------------------
(* The trainer *)

\* A mutant of Recorded: the row of the initial evaluation is counted as well.
RecordedWithInitial(h) == IF h.first = None THEN Len(h.updates) ELSE Len(h.updates) + 1

\* len(replay_by_generation): the rows of generation 0 or later.
Recorded(h) == Len(h.updates)

\* --replay-history and --replay-generations, -1 for every one.  Anything else
\* than enough records in a whole file raises before the run directory is used.
Launch(r, s, from, n) ==
    LET count == IF n = -1 THEN Recorded(file[from]) ELSE n
    IN  /\ pc = "down"
        /\ IF from = None
           THEN n = 0 /\ source' = <<>>
           ELSE /\ Whole(from)
                /\ count <= Generations /\ count <= Len(file[from].updates)
                /\ source' = SubSeq(file[from].updates, 1, count)
        /\ pc' = "init" /\ run' = r /\ setup' = s
        /\ UNCHANGED <<file, server, locals, faults, tests>>

\* The operator goes on where the run is, in any directory and with the
\* arguments it began with, or begins it when no history can be read.
Continue ==
    /\ ~ \E r \in Runs : Complete(r)
    /\ \E r \in Runs, s \in Setups :
          IF \E x \in Runs : Whole(x)
          THEN \E x \in Runs :
                  /\ Whole(x) /\ Launch(r, s, x, -1)
                  /\ \A i \in 1 .. Len(Updates(x)) : Updates(x)[i].draw = Draw(s, i - 1)
          ELSE Launch(r, s, None, 0)
    /\ UNCHANGED others

\* Any other launch: anew, a part of the records, other arguments.
LaunchOther ==
    /\ others < MaxOthers /\ others' = others + 1
    /\ \E r \in Runs, s \in Setups :
          \/ Launch(r, s, None, 0)
          \/ \E from \in Runs, n \in -1 .. Generations : Launch(r, s, from, n)

\* A mutant of InitEndpoint: the loop does not see its end.
InitEndpointPast ==
    /\ pc = "init" /\ PostOk({cur}, "init", None)
    /\ IF cur <= NEndpoints THEN cur' = cur + 1 /\ UNCHANGED pc
                            ELSE cur' = 1 /\ pc' \in {"initial", "loop"}
    /\ UNCHANGED <<file, arguments, history, gen, reward, budget>>

\* One endpoint after the other; then the initial evaluation, if not skipped.
InitEndpoint ==
    /\ pc = "init" /\ PostOk({cur}, "init", None)
    /\ IF cur < NEndpoints THEN cur' = cur + 1 /\ UNCHANGED pc
                           ELSE cur' = 1 /\ pc' \in {"initial", "loop"}
    /\ UNCHANGED <<file, arguments, history, gen, reward, budget>>

InitFails == pc = "init" /\ PostFails({cur}, "init", None)

\* eval_tasks_distributed: each endpoint has its share, whatever model it holds.
Evaluated == {[ready |-> server[e].ready, log |-> server[e].log] : e \in Endpoints}

InitialEval ==
    /\ pc = "initial"
    /\ history' = [history EXCEPT !.first = Evaluated] /\ pc' = "write"
    /\ UNCHANGED <<file, server, arguments, gen, reward, cur, budget>>

\* Path.write_text opens the file, which empties it, and then writes.
WriteBegin ==
    /\ pc = "write" /\ pc' = "writing"
    /\ file' = [file EXCEPT ![run] = Torn]
    /\ UNCHANGED <<server, arguments, locals, budget>>
WriteEnd ==
    /\ pc = "writing" /\ pc' = "loop"
    /\ file' = [file EXCEPT ![run] = history]
    /\ UNCHANGED <<server, arguments, locals, budget>>

Replaying == gen < Len(source)

\* A mutant of Matches: the recorded case batch, seeds and sigma are not compared.
MatchesUnread == TRUE
Matches == source[gen + 1].draw = Draw(setup, gen)

\* The rewards of a recorded generation that these arguments would draw alike.
Replay ==
    /\ pc = "loop" /\ gen < Generations /\ Replaying /\ Matches
    /\ reward' = source[gen + 1].reward /\ pc' = "update"
    /\ UNCHANGED <<file, server, arguments, history, gen, cur, budget>>

\* Otherwise ValueError, after the earlier generations have been rewritten.
ReplayDiffers ==
    /\ pc = "loop" /\ gen < Generations /\ Replaying /\ ~Matches
    /\ Exit
    /\ UNCHANGED <<file, server, budget>>

\* A new generation: apply, episodes and revert on every endpoint.  (Rewards of a
\* server that restarts in between are never recorded: it refuses the update.)
Sample ==
    /\ pc = "loop" /\ gen < Generations /\ ~Replaying
    /\ \A e \in Endpoints : server[e].ready
    /\ \E e \in Endpoints : reward' \in RewardsOf(server[e].log, Draw(setup, gen))
    /\ pc' = "update"
    /\ UNCHANGED <<file, server, arguments, history, gen, cur, budget>>

\* apply is refused, or an apply or the last try of a revert fails and may leave
\* its perturbation.
SampleFails ==
    /\ pc = "loop" /\ gen < Generations /\ ~Replaying
    /\ \E left \in SUBSET {e \in Endpoints : server[e].ready} :
          /\ server' = [e \in Endpoints |->
                           IF e \in left THEN [server[e] EXCEPT !.active = Draw(setup, gen)]
                                         ELSE server[e]]
          /\ \/ left = {} /\ UNCHANGED faults /\ \E e \in Endpoints : ~server[e].ready
             \/ faults < MaxFaults /\ faults' = faults + 1
    /\ Exit
    /\ UNCHANGED <<file, others, tests>>

Record == [draw |-> Draw(setup, gen), reward |-> reward]

\* A mutant of Update: a replayed generation is not sent to the servers.
UpdateNewOnly ==
    /\ pc = "update" /\ pc' = "record"
    /\ IF Replaying THEN UNCHANGED server ELSE PostOk(Endpoints, "update", Record)
    /\ UNCHANGED <<file, arguments, locals, budget>>

\* The update on all endpoints at once.
Update ==
    /\ pc = "update" /\ pc' = "record"
    /\ PostOk(Endpoints, "update", Record)
    /\ UNCHANGED <<file, arguments, locals, budget>>

UpdateFails == pc = "update" /\ PostFails(Endpoints, "update", Record)

EvalDue ==
    EvalInterval > 0 /\ ((gen + 1) % EvalInterval = 0 \/ gen + 1 = Generations)

\* The evaluation, after a replayed generation too, and the row.
AddRow ==
    /\ pc = "record" /\ pc' = "write"
    /\ history' = [history EXCEPT !.updates =
          Append(@, [draw |-> Draw(setup, gen), reward |-> reward,
                     eval |-> IF EvalDue THEN Evaluated ELSE None])]
    /\ gen' = gen + 1 /\ reward' = None
    /\ UNCHANGED <<file, server, arguments, cur, budget>>

Finish ==
    /\ pc = "loop" /\ gen = Generations
    /\ Exit
    /\ UNCHANGED <<file, server, budget>>

---------------------------------------------------------------------------------
(* The test: replay_es_history_and_eval.py *)

\* Without a history the base model is tested; load_update_history takes the
\* records of a whole file, and --generations the first of them.
LaunchTest ==
    /\ pc = "down" /\ tests < MaxTests /\ tests' = tests + 1
    /\ \/ source' = <<>>
       \/ \E from \in Runs : Whole(from) /\ \E n \in 1 .. Len(Updates(from)) :
             source' = SubSeq(Updates(from), 1, n)
    /\ pc' = "reset"
    /\ UNCHANGED <<file, server, run, setup, locals, faults, others>>

TestStep(from, to) ==
    /\ pc = from /\ pc' = to
    /\ UNCHANGED <<file, arguments, history, reward, cur, budget>>

ResetAll ==
    /\ TestStep("reset", "test_init") /\ PostOk(Endpoints, "reset", None)
    /\ UNCHANGED gen
TestInit ==
    /\ TestStep("test_init", "test_replay") /\ PostOk(Endpoints, "init", None)
    /\ UNCHANGED gen
Sent == [draw |-> source[gen + 1].draw, reward |-> source[gen + 1].reward]
TestReplay ==
    /\ gen < Len(source) /\ TestStep("test_replay", "test_replay")
    /\ PostOk(Endpoints, "update", Sent)
    /\ gen' = gen + 1
TestFails ==
    \/ pc = "reset" /\ PostFails(Endpoints, "reset", None)
    \/ pc = "test_init" /\ PostFails(Endpoints, "init", None)
    \/ pc = "test_replay" /\ gen < Len(source) /\ PostFails(Endpoints, "update", Sent)
Publish ==
    /\ pc = "test_replay" /\ gen = Len(source)
    /\ Exit
    /\ UNCHANGED <<file, server, budget>>

\* The run is complete, and the operator content.
Stop ==
    /\ pc = "down" /\ others = MaxOthers /\ tests = MaxTests
    /\ \E r \in Runs : Complete(r)
    /\ UNCHANGED vars

Trainer ==
    \/ Continue \/ InitEndpoint \/ InitFails \/ InitialEval \/ WriteBegin \/ WriteEnd
    \/ Replay \/ ReplayDiffers \/ Sample \/ SampleFails \/ Update \/ UpdateFails
    \/ AddRow \/ Finish
Test == ResetAll \/ TestInit \/ TestReplay \/ TestFails \/ Publish
Next ==
    \/ Trainer \/ Test \/ LaunchOther \/ LaunchTest \/ Crash \/ Stop
    \/ \E e \in Endpoints : Restart(e)

Spec == Init /\ [][Next]_vars
\* The processes run, and the operator continues a run that is not complete.
FairSpec == Spec /\ WF_vars(Trainer \/ Test)

---------------------------------------------------------------------------------
(* Properties *)

RowsOK(h) ==
    /\ Len(h.updates) <= Generations
    /\ \A i \in 1 .. Len(h.updates) :
          h.updates[i].draw \in {Draw(s, i - 1) : s \in Setups}

\* A process is somewhere in its program, a history has at most one row for each
\* generation, and only a launch knows a run directory.
TypeOK ==
    /\ pc \in {"down", "init", "initial", "loop", "update", "record", "write", "writing",
               "reset", "test_init", "test_replay"}
    /\ \A r \in Runs : Whole(r) => RowsOK(file[r])
    /\ RowsOK(history) /\ (run # None => Len(history.updates) = gen)
    /\ run \in Runs \cup {None} /\ setup \in Setups \cup {None}
    /\ gen \in 0 .. Generations /\ cur \in Endpoints
    /\ Len(source) <= Generations
    /\ faults \in 0 .. MaxFaults /\ others \in 0 .. MaxOthers /\ tests \in 0 .. MaxTests

\* What a server learns of the first n records.
Prefix(records, n) ==
    [i \in 1 .. n |-> [draw |-> records[i].draw, reward |-> records[i].reward]]

\* An evaluation met the model of these updates, or a server that restarted.
EvaluatedOn(evaluation, updates) ==
    evaluation \subseteq {[ready |-> TRUE, log |-> updates], [ready |-> FALSE, log |-> <<>>]}

\* Whatever was killed, continued, begun anew or replayed into the directory it
\* comes from, the rewards of every generation were earned by the model that the
\* records before it make; and an evaluation, in a history or of a test, is of
\* exactly the records it is filed under, or of a server that lost its state after
\* the last update, which nobody notices (L549-L604 of the distributed trainer,
\* L205 of replay_es_history_and_eval.py).
AsRecorded ==
    /\ \A r \in Runs : Whole(r) =>
          /\ file[r].first # None => EvaluatedOn(file[r].first, <<>>)
          /\ \A i \in 1 .. Len(Updates(r)) :
                LET row == Updates(r)[i]
                IN  /\ row.reward \in RewardsOf(Prefix(Updates(r), i - 1), row.draw)
                    /\ row.eval # None => EvaluatedOn(row.eval, Prefix(Updates(r), i))
    /\ pc = "test_replay" => EvaluatedOn(Evaluated, Prefix(source, gen))

\* A process that replays makes the recorded generations again, draw for draw and
\* reward for reward, or none after the first that its arguments draw otherwise;
\* and before each generation every server that did not restart meanwhile holds
\* the updates of its history and nothing else, whatever the processes before it
\* left there (L412-L416 and L459-L488 of the distributed trainer).
ContinuesSource ==
    pc \in {"loop", "update"} =>
        /\ \A i \in 1 .. gen : i <= Len(source) =>
              Prefix(history.updates, gen)[i] = Prefix(source, Len(source))[i]
        /\ \A e \in Endpoints : server[e].ready =>
              server[e].log = Prefix(history.updates, gen) /\ server[e].active = None

\* However the launches before it ended, and whatever they left in the files and
\* on the servers, an operator who goes on has a complete history in the end.
EventuallyComplete == <>[](\E r \in Runs : Complete(r))
=================================================================================
