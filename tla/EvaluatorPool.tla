------------------------------ MODULE EvaluatorPool ------------------------------
(***************************************************************************)
(* AHD's evaluation of a batch of generated programs: at most MaxWorkers   *)
(* forked children at a time, one per candidate, each with a deadline, and *)
(* one multiprocessing.Queue on which they report.  A child's feeder       *)
(* thread writes its report under a lock all children share, so a child    *)
(* that is terminated there never gives the lock back.                     *)
(***************************************************************************)
EXTENDS Naturals, Sequences, FiniteSets

CONSTANTS
    NCandidates,        \* the batch is 1 .. NCandidates
    Unpreparable,       \* candidates whose code cannot be prepared: never forked
    MaxWorkers,         \* n_p
    None                \* no fitness; the invalid objective; no lock holder

Candidates == 1 .. NCandidates

ASSUME PoolShape ==
    /\ NCandidates \in Nat /\ MaxWorkers \in Nat \ {0}
    /\ Unpreparable \subseteq Candidates
    /\ None \notin Candidates

VARIABLES
    pc,                 \* where _evaluate_offspring_batch_with_timeout is
    running,            \* the children it watches
    todo,               \* those the scan in progress has still to look at
    results,            \* [Candidates -> the candidate whose fitness it is, or None]
    received,           \* received_indices
    child,              \* [Candidates -> stage of the child process]
    fitness,            \* [Candidates -> what the child computed: finite or None]
    pipe,               \* the reports in the queue's pipe
    lock,               \* the child that holds the queue's write lock
    expired,            \* children past their deadline
    timedOut            \* children the pool terminated (timeout_intervals)

vars == <<pc, running, todo, results, received, child, fitness, pipe, lock,
          expired, timedOut>>
parent == <<pc, running, todo, results, received, timedOut>>

Stages == {"unborn", "evaluating", "reporting", "locked", "written", "leaving", "gone"}
Alive(i) == child[i] \notin {"unborn", "gone"}

\* launch_more, given the children that stay: the oldest candidates that were
\* never forked, as many as there is room for.
LaunchMore(left) ==
    LET fresh == {i \in Candidates \ Unpreparable : child[i] = "unborn"}
        older(i) == {j \in fresh : j < i}
    IN  {i \in fresh : Cardinality(older(i)) + Cardinality(left) < MaxWorkers}

Fork(left) ==
    LET new == LaunchMore(left)
    IN  /\ running' = left \cup new
        /\ child' = [i \in Candidates |-> IF i \in new THEN "evaluating" ELSE child[i]]

Forked == {i \in Candidates : child[i] # "unborn"}

\* Children are forked in order, so the scan's next child is the lowest.
Scanning(i) == i \in todo /\ \A j \in todo : i <= j

Init ==
    /\ pc = "launch" /\ running = {} /\ todo = {}
    /\ child = [i \in Candidates |-> "unborn"]
    /\ results = [i \in Candidates |-> None] /\ received = {}
    /\ fitness = [i \in Candidates |-> None] /\ pipe = <<>> /\ lock = None
    /\ expired = {} /\ timedOut = {}
-----------------------------------------------------------------------------
(* The children. *)

\* evaluate returns, or raises and the fitness is None.
Evaluate(i) ==
    /\ child[i] = "evaluating"
    /\ child' = [child EXCEPT ![i] = "reporting"]
    /\ \E f \in {i, None} : fitness' = [fitness EXCEPT ![i] = f]
    /\ UNCHANGED <<parent, pipe, lock, expired>>

\* The generated program ends the process: sys.exit leaves fitness unbound and
\* the finally clause raises; a segmentation fault runs no clause at all.
EvaluateDies(i) ==
    /\ child[i] = "evaluating"
    /\ child' = [child EXCEPT ![i] = "gone"]
    /\ UNCHANGED <<parent, fitness, pipe, lock, expired>>

\* out_queue.put: the feeder thread takes the lock, writes and releases it; the
\* process does not end before its feeder has.
TakeLock(i) ==
    /\ child[i] = "reporting" /\ lock = None
    /\ lock' = i
    /\ child' = [child EXCEPT ![i] = "locked"]
    /\ UNCHANGED <<parent, fitness, pipe, expired>>

Write(i) ==
    /\ child[i] = "locked"
    /\ pipe' = Append(pipe, [idx |-> i, fitness |-> fitness[i]])
    /\ child' = [child EXCEPT ![i] = "written"]
    /\ UNCHANGED <<parent, fitness, lock, expired>>

Unlock(i) ==
    /\ child[i] = "written"
    /\ lock' = None
    /\ child' = [child EXCEPT ![i] = "leaving"]
    /\ UNCHANGED <<parent, fitness, pipe, expired>>

Leave(i) ==
    /\ child[i] = "leaving"
    /\ child' = [child EXCEPT ![i] = "gone"]
    /\ UNCHANGED <<parent, fitness, pipe, lock, expired>>

Child(i) ==
    \/ Evaluate(i) \/ EvaluateDies(i) \/ TakeLock(i)
    \/ Write(i) \/ Unlock(i) \/ Leave(i)

\* self.timeout seconds have passed since the child was started.
Deadline(i) ==
    /\ i \in running \ expired
    /\ expired' = expired \cup {i}
    /\ UNCHANGED <<parent, child, fitness, pipe, lock>>
-----------------------------------------------------------------------------
(* The pool. *)

Launch ==
    /\ pc = "launch"
    /\ Fork({})
    /\ pc' = IF running' = {} THEN "final" ELSE "drain"
    /\ UNCHANGED <<todo, results, received, fitness, pipe, lock, expired, timedOut>>

\* One report off the queue; only a finite fitness is stored.
Receive(report) ==
    /\ received' = received \cup {report.idx}
    /\ results' = IF report.fitness = None THEN results
                  ELSE [results EXCEPT ![report.idx] = report.fitness]
    /\ pipe' = Tail(pipe)

Drain ==
    /\ pc = "drain" /\ pipe # <<>>
    /\ Receive(Head(pipe))
    /\ UNCHANGED <<pc, running, todo, child, fitness, lock, expired, timedOut>>

Drained ==
    /\ pc = "drain" /\ pipe = <<>>
    /\ pc' = "scan" /\ todo' = running
    /\ UNCHANGED <<running, results, received, child, fitness, pipe, lock, expired, timedOut>>

\* A mutant of ScanGone: without the continue, the scan goes on with the child
\* it has just taken off the list.
ScanGoneAgain(i) ==
    /\ pc = "scan" /\ Scanning(i) /\ ~Alive(i) /\ i \in running
    /\ Fork(running \ {i})
    /\ UNCHANGED <<pc, todo, results, received, fitness, pipe, lock, expired, timedOut>>

ScanGone(i) ==
    /\ pc = "scan" /\ Scanning(i) /\ ~Alive(i)
    /\ todo' = todo \ {i}
    /\ Fork(running \ {i})
    /\ UNCHANGED <<pc, results, received, fitness, pipe, lock, expired, timedOut>>

ScanAlive(i) ==
    /\ pc = "scan" /\ Scanning(i) /\ Alive(i) /\ i \notin expired
    /\ todo' = todo \ {i}
    /\ UNCHANGED <<pc, running, results, received, child, fitness, pipe, lock,
                   expired, timedOut>>

\* proc.terminate(): the pool now waits for the child to end, first for two
\* seconds and then, after proc.kill(), for good.
Terminate(i) ==
    /\ pc = "scan" /\ Scanning(i) /\ Alive(i) /\ i \in expired
    /\ pc' = "join" /\ timedOut' = timedOut \cup {i}
    /\ UNCHANGED <<running, todo, results, received, child, fitness, pipe, lock, expired>>

\* SIGTERM, or SIGKILL after two seconds, ends the child wherever it is.
Killed(i) ==
    /\ pc = "join" /\ Scanning(i) /\ Alive(i)
    /\ child' = [child EXCEPT ![i] = "gone"]
    /\ UNCHANGED <<parent, fitness, pipe, lock, expired>>

\* A mutant of Joined: the pool terminates a late child and does not wait.
JoinedAtOnce(i) ==
    /\ pc = "join" /\ Scanning(i)
    /\ pc' = "scan" /\ todo' = todo \ {i}
    /\ results' = [results EXCEPT ![i] = None]
    /\ Fork(running \ {i})
    /\ UNCHANGED <<received, fitness, pipe, lock, expired, timedOut>>

Joined(i) ==
    /\ pc = "join" /\ Scanning(i) /\ ~Alive(i)
    /\ pc' = "scan" /\ todo' = todo \ {i}
    /\ results' = [results EXCEPT ![i] = None]
    /\ Fork(running \ {i})
    /\ UNCHANGED <<received, fitness, pipe, lock, expired, timedOut>>

\* time.sleep(0.1), then the loop condition.
Scanned ==
    /\ pc = "scan" /\ todo = {}
    /\ pc' = IF running = {} THEN "final" ELSE "drain"
    /\ UNCHANGED <<running, todo, results, received, child, fitness, pipe, lock,
                   expired, timedOut>>

\* The drain after the loop: until every forked child has been heard, or until
\* two seconds have passed, which is long enough to empty a pipe nobody writes.
FinalDrain ==
    /\ pc = "final" /\ Cardinality(received) < Cardinality(Forked) /\ pipe # <<>>
    /\ Receive(Head(pipe))
    /\ UNCHANGED <<pc, running, todo, child, fitness, lock, expired, timedOut>>

\* A mutant of Return: no drain after the loop.
ReturnAtOnce ==
    /\ pc = "final"
    /\ pc' = "done"
    /\ UNCHANGED <<running, todo, results, received, child, fitness, pipe, lock,
                   expired, timedOut>>

\* A mutant of Return: the drain has no deadline of its own.
ReturnWhenAllHeard ==
    /\ pc = "final" /\ received = Forked
    /\ pc' = "done"
    /\ UNCHANGED <<running, todo, results, received, child, fitness, pipe, lock,
                   expired, timedOut>>

Return ==
    /\ pc = "final" /\ (pipe = <<>> \/ Cardinality(received) = Cardinality(Forked))
    /\ pc' = "done"
    /\ UNCHANGED <<running, todo, results, received, child, fitness, pipe, lock,
                   expired, timedOut>>

Done == pc = "done" /\ UNCHANGED vars

Pool ==
    \/ Launch \/ Drain \/ Drained \/ Scanned \/ FinalDrain \/ Return
    \/ \E i \in Candidates : ScanGone(i) \/ ScanAlive(i) \/ Terminate(i) \/ Joined(i)

Next ==
    \/ Pool \/ Done
    \/ \E i \in Candidates : Child(i) \/ Deadline(i) \/ Killed(i)

\* The pool's process runs whenever it can, a deadline passes, and the kernel
\* ends a process that was sent SIGKILL.  Nothing is assumed of the children.
Fairness ==
    /\ WF_vars(Pool)
    /\ \A i \in Candidates : WF_vars(Deadline(i)) /\ WF_vars(Killed(i))

Spec == Init /\ [][Next]_vars /\ Fairness
-----------------------------------------------------------------------------
Reports == [idx : Candidates, fitness : Candidates \cup {None}]

TypeOK ==
    /\ pc \in {"launch", "drain", "scan", "join", "final", "done"}
    /\ running \subseteq Candidates /\ todo \subseteq running
    /\ results \in [Candidates -> Candidates \cup {None}]
    /\ received \subseteq Candidates
    /\ child \in [Candidates -> Stages]
    /\ fitness \in [Candidates -> Candidates \cup {None}]
    /\ pipe \in Seq(Reports) /\ lock \in Candidates \cup {None}
    /\ expired \subseteq Candidates /\ timedOut \subseteq expired

\* When the batch returns, every candidate the pool did not time out has exactly
\* the fitness its own child computed: a report that reaches the queue between
\* the loop's last drain and the child's exit is not turned into an invalid
\* objective, as the comment before the final drain says.  A candidate that was
\* timed out is invalid unless its own report was already on its way.
ResultsSettled ==
    pc = "done" =>
        \A i \in Candidates :
            IF i \in timedOut THEN results[i] \in {None, fitness[i]}
                              ELSE results[i] = fitness[i]

\* Never more than n_p evaluator processes exist, also while late ones are being
\* terminated and replaced, and none outlives the batch.
ChildrenBounded ==
    LET alive == {i \in Candidates : Alive(i)}
    IN  /\ Cardinality(alive) <= MaxWorkers
        /\ pc \in {"final", "done"} => alive = {}

\* The batch returns even if children never finish, die without a report or are
\* terminated while they hold the queue's lock, which starves every later child.
Returns == <>(pc = "done")
=============================================================================
