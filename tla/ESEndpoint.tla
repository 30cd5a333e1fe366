------------------------------- MODULE ESEndpoint -------------------------------
(***************************************************************************)
(* One model server as the runners see it: the ES state of its model, in   *)
(* which each request is one step as ModelES promises, and the backlog of  *)
(* a Flask server that handles one request at a time.  Its weights are a   *)
(* function of the log of updates and the active perturbation.             *)
(***************************************************************************)
EXTENDS Naturals, Sequences

CONSTANT None           \* no perturbation; nothing

\* A server that has just started: base weights, not initialised.
Blank == [ready |-> FALSE, log |-> <<>>, active |-> None]

\* A mutant of Initialised: init keeps the perturbation of the run before.
InitialisedDirty(s) == [ready |-> TRUE, log |-> <<>>, active |-> s.active]

\* init resets what an earlier run left: no updates, no perturbation.
Initialised(s) == [s EXCEPT !.ready = TRUE, !.log = <<>>, !.active = None]

\* The ES state after a request that is accepted.
Changed(s, m) ==
    CASE m.op = "init" -> Initialised(s)
      [] m.op = "apply" -> [s EXCEPT !.active = m.arg]
      [] m.op = "revert" -> [s EXCEPT !.active = None]
      [] m.op = "update" -> [s EXCEPT !.log = Append(@, m.arg)]
      [] m.op = "reset" -> [s EXCEPT !.log = <<>>, !.active = None]
      [] m.op = "rollout" -> s

\* A mutant of Handle: an update does not look for an active perturbation.
HandlePerturbedUpdate(s, m) ==
    LET accepts == CASE m.op \in {"init", "rollout"} -> TRUE
                     [] m.op = "apply" -> s.ready /\ s.active \in {None, m.arg}
                     [] m.op = "revert" -> s.active \in {None, m.arg}
                     [] m.op \in {"update", "reset"} -> s.ready
    IN  [ok |-> accepts, state |-> IF accepts THEN Changed(s, m) ELSE s]

\* A mutant of Handle: an update is taken by a server that lost its state.
HandleUninitialised(s, m) ==
    LET accepts == CASE m.op \in {"init", "rollout"} -> TRUE
                     [] m.op = "apply" -> s.ready /\ s.active \in {None, m.arg}
                     [] m.op = "revert" -> s.active \in {None, m.arg}
                     [] m.op = "update" -> s.active = None
                     [] m.op = "reset" -> s.ready
    IN  [ok |-> accepts, state |-> IF accepts THEN Changed(s, m) ELSE s]

\* The answer to a request, ok or a RuntimeError, and the ES state after it.
Handle(s, m) ==
    LET accepts == CASE m.op \in {"init", "rollout"} -> TRUE
                     [] m.op = "apply" -> s.ready /\ s.active \in {None, m.arg}
                     [] m.op = "revert" -> s.active \in {None, m.arg}
                     [] m.op = "update" -> s.ready /\ s.active = None
                     [] m.op = "reset" -> s.ready
    IN  [ok |-> accepts, state |-> IF accepts THEN Changed(s, m) ELSE s]

\* A request somebody waits for.
Request(op, arg) == [op |-> op, arg |-> arg, live |-> TRUE]

\* Nobody waits for the requests in q any more.
Abandoned(q) == [i \in 1 .. Len(q) |-> [q[i] EXCEPT !.live = FALSE]]
=================================================================================
