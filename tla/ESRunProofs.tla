------------------------------ MODULE ESRunProofs ------------------------------
(***************************************************************************)
(* Proofs about an ES run against model servers that die, time out and     *)
(* keep what a dead runner left in their backlog: every server is where    *)
(* history.json says (InSync), and history.json is that of a training      *)
(* nothing interrupted (ESTraining), for any number of servers, items,     *)
(* generations, revert attempts, kills, restarts and timeouts.             *)
(***************************************************************************)
EXTENDS ESRun, SequenceTheorems, TLAPS

\* Answers are numbers, and so is what a sample is worth by its answers.
Scored ==
    /\ \A log \in Seq(UpdateRecords), p \in SeedRange \cup {None} :
          AnswersOf(log, p) \subseteq Nat
    /\ \A answers \in Seq(Nat) : answers # <<>> => RewardOf(answers) \in Nat

-------------------------------------------------------------------------------
(* The inductive invariant: what is true of one endpoint's backlog q, server  *)
(* state s, reply r and job j.                                                *)

LastOf(q) == q[Len(q)]

Logs == Seq(UpdateRecords)
States == [ready : BOOLEAN, log : Logs, active : SeedRange \cup {None}]
Queues == Seq(Requests)
Replies == {"none", "pending", "ok", "error"}
Jobs == [item : 0 .. Population, answers : Seq(Nat),
         step : {"none", "apply", "rollout", "revert", "returned", "raised"},
         tries : 0 .. RevertAttempts]

\* The server holds exactly this log, unless it has restarted.
At(s, log) == s.ready => s.log = log /\ s.active = None

\* Nothing is under way on the endpoint.
Idle(q, s, r, log) == q = <<>> /\ r = "none" /\ At(s, log)

\* The one request under way is m, which takes the server from before to after.
Asking(q, s, r, m, before, after) ==
    /\ r = "none" => q = <<>> /\ At(s, before)
    /\ r = "pending" => q = <<m>> /\ At(s, before)
    /\ r = "ok" => At(s, after)

\* An init waits behind whatever an earlier run left.
Clearing(q, s, r) ==
    /\ r = "pending" => LastOf(q) = Request("init", None)
    /\ r = "ok" => At(s, <<>>)

\* The log is history.json, or lacks records of it, or is one update ahead.
Ahead(log) ==
    /\ Len(log) <= Len(disk) + 1
    /\ \A i \in 1 .. Len(log) : i <= Len(disk) => log[i] = disk[i]

\* Whatever the runner does: only the last request of a backlog is waited for,
\* only the first can be an update, and it is the one that comes next.
Chan(q, s, r) ==
    /\ \A i \in 1 .. Len(q) : q[i].live <=> (i = Len(q) /\ r = "pending")
    /\ r = "pending" => q # <<>>
    /\ r = "ok" => q = <<>>
    /\ \A i \in 1 .. Len(q) : q[i].op = "update" => i = 1
    /\ ~s.ready => s = Blank
    /\ Ahead(s.log)
    /\ (q # <<>> /\ q[1].op = "update" /\ s.ready) =>
          /\ Len(s.log) <= Len(disk)
          /\ Len(s.log) < Len(disk) => q[1].arg = disk[Len(s.log) + 1]

\* map_endpoint_serial's queues: the items e evaluates.
Owner(i) == ((i - 1) % NEndpoints) + 1

\* What a completion may count as: an answer of the model, or, once a request
\* has timed out, nothing.
Possible(log, p) == AnswersOf(log, p) \cup {a \in {Failed} : timeouts > 0}

Earned(i) == rewards[i] \in RewardsFrom(Possible(disk, seeds[i]))

Within(answers, set) == \A i \in 1 .. Len(answers) : answers[i] \in set

\* Every request in the backlog is about the item under evaluation.
OfItem(q, seed) ==
    \A i \in 1 .. Len(q) : q[i].op \in {"apply", "rollout", "revert"} /\ q[i].arg = seed

\* The perturbation on the server, by how far the worker is.
Perturbed(q, s, r, j, seed) ==
    /\ s.active # None => j.step # "none" /\ s.active = seed
    /\ s.ready => s.log = disk
    /\ j.step \in {"none", "returned", "raised"} => r = "none"
    /\ (j.step \in {"none", "returned"} \/ (j.step = "apply" /\ r = "none")) =>
          q = <<>> /\ s.active = None
    /\ (j.step = "apply" /\ r = "pending") => q = <<Request("apply", seed)>>
    /\ j.step = "rollout" => \A i \in 1 .. Len(q) : q[i].op = "rollout"
    /\ ((j.step = "apply" /\ r = "ok") \/ j.step = "rollout") /\ s.ready => s.active = seed
    /\ (j.step = "revert" /\ r = "pending") => LastOf(q) = Request("revert", seed)
    /\ (j.step = "revert" /\ r = "ok") => s.active = None

\* The answers the worker holds: none before its first completion, some after
\* its last, and each an answer of the perturbed model unless the server is lost.
Measured(s, r, j, seed) ==
    /\ j.step = "apply" => j.answers = <<>>
    /\ (j.step = "rollout" /\ r # "ok") => Len(j.answers) < MaxRequests
    /\ ((j.step = "rollout" /\ r = "ok") \/ j.step \in {"revert", "returned"}) =>
          Len(j.answers) \in 1 .. MaxRequests
    /\ (j.step \in {"rollout", "revert", "returned"} /\ s.ready) =>
          Within(j.answers, Possible(disk, seed))

\* The rewards collected of the items before this one.
Collected(e, s, j) ==
    \A i \in Items : (Owner(i) = e /\ (j.step = "none" \/ i < j.item)) =>
        rewards[i] # None /\ (s.ready => Earned(i))

Working(e, q, s, r, j) ==
    /\ j.step # "none" => j.item \in Items /\ Owner(j.item) = e
    /\ OfItem(q, seeds[j.item])
    /\ Perturbed(q, s, r, j, seeds[j.item])
    /\ Measured(s, r, j, seeds[j.item])
    /\ Collected(e, s, j)

Updating(e, q, s, r) ==
    /\ e < cur => Idle(q, s, r, Append(mem, NewRecord))
    /\ e > cur => Idle(q, s, r, mem)
    /\ e = cur =>
          Asking(q, s, r, Request("update", NewRecord), mem, Append(mem, NewRecord))
    /\ (e < cur \/ (e = cur /\ r = "ok") \/ (s.ready /\ r # "error")) =>
          \A i \in Items : Owner(i) = e => Earned(i)

Replaying(e, q, s, r) ==
    /\ e < cur => Idle(q, s, r, SubSeq(mem, 1, rec))
    /\ e > cur => Idle(q, s, r, SubSeq(mem, 1, rec - 1))
    /\ e = cur => Asking(q, s, r, Request("update", mem[rec]),
                         SubSeq(mem, 1, rec - 1), SubSeq(mem, 1, rec))

\* What main() has brought the endpoint to.
Phase(e, q, s, r, j) ==
    /\ pc = "down" => r = "none"
    /\ pc = "init" => /\ e < cur => Idle(q, s, r, <<>>)
                      /\ e > cur => r = "none"
                      /\ e = cur => Clearing(q, s, r)
    /\ pc = "load" => Idle(q, s, r, <<>>)
    /\ pc = "replay" => Replaying(e, q, s, r)
    /\ pc \in {"start", "draw", "done"} => Idle(q, s, r, mem)
    /\ pc = "sample" => Working(e, q, s, r, j)
    /\ pc = "update" => Updating(e, q, s, r)
    /\ pc = "persist" => Idle(q, s, r, Append(mem, NewRecord))

\* main()'s own variables.
Shared ==
    /\ pc \in {"down", "load", "start", "draw", "sample", "persist", "done"} => cur = 1
    /\ pc \in {"down", "init", "load"} => rec = 1
    /\ pc = "replay" => rec \in 1 .. Len(mem)
    /\ pc \in {"replay", "start", "draw", "sample", "update", "persist", "done"} => mem = disk
    /\ pc = "draw" => rng = Len(mem) * Population
    /\ pc \in {"draw", "sample", "update", "persist"} => Len(mem) < Generations
    /\ pc \in {"sample", "update", "persist"} => seeds = Drawn(Len(mem) * Population)
    /\ pc \in {"sample", "update", "persist"} => rng = (Len(mem) + 1) * Population
    /\ pc \in {"update", "persist"} => \A i \in Items : rewards[i] # None
    /\ pc = "persist" => \A i \in Items : Earned(i)

\* A completion fails on a server that kept its model only by timing out.
Excused(s, r, j) ==
    (pc = "sample" /\ j.step = "rollout" /\ r = "error" /\ s.ready) => timeouts > 0

Local(e) ==
    /\ Chan(queue[e], server[e], reply[e])
    /\ Phase(e, queue[e], server[e], reply[e], job[e])
    /\ Excused(server[e], reply[e], job[e])

IInv == TypeOK /\ Shared /\ \A e \in Endpoints : Local(e)

-------------------------------------------------------------------------------
(* Sequences and requests *)

\* A backlog is empty when its length is.
LEMMA EmptyBacklog ==
    /\ <<>> \in Queues /\ Len(<<>>) = 0
    /\ \A q \in Queues : Len(q) \in Nat /\ (q = <<>> <=> Len(q) = 0)
  <1>1. \A q \in Queues : Len(q) \in Nat /\ (q # <<>> => Len(q) \in Nat \ {0})
    BY EmptySeq, LenProperties DEF Queues
  <1> QED
    BY <1>1, EmptySeq DEF Queues

\* A backlog without its head.
LEMMA TailFacts ==
    ASSUME NEW q \in Queues, q # <<>>
    PROVE  /\ Head(q) \in Requests /\ Head(q) = q[1]
           /\ Tail(q) \in Queues /\ Len(Tail(q)) = Len(q) - 1 /\ Len(q) \in Nat \ {0}
           /\ \A i \in 1 .. Len(Tail(q)) : Tail(q)[i] = q[i + 1]
           /\ Len(q) = 1 => Tail(q) = <<>>
           /\ Len(q) # 1 => Tail(q) # <<>> /\ LastOf(Tail(q)) = LastOf(q)
  <1>1. /\ Head(q) = q[1] /\ Tail(q) \in Queues /\ Len(Tail(q)) = Len(q) - 1
        /\ Len(q) \in Nat \ {0} /\ \A i \in 1 .. Len(Tail(q)) : Tail(q)[i] = q[i + 1]
    BY DEF Queues
  <1>2. Head(q) \in Requests
    BY <1>1 DEF Queues
  <1>0. Tail(q) = <<>> <=> Len(Tail(q)) = 0
    BY <1>1, EmptyBacklog, Zenon
  <1>3. Len(q) = 1 => Tail(q) = <<>>
    BY <1>0, <1>1
  <1>4. ASSUME Len(q) # 1 PROVE Tail(q) # <<>> /\ LastOf(Tail(q)) = LastOf(q)
    <2>1. Len(q) - 1 \in 1 .. Len(Tail(q)) /\ (Len(q) - 1) + 1 = Len(q)
      BY <1>1, <1>4
    <2>2. Tail(q)[Len(q) - 1] = q[Len(q)]
      BY <1>1, <2>1
    <2>3. Tail(q) # <<>>
      BY <1>0, <1>1, <1>4
    <2> QED
      BY <1>1, <2>2, <2>3 DEF LastOf
  <1> QED
    BY <1>1, <1>2, <1>3, <1>4

\* A backlog with one more request.
LEMMA AppendFacts ==
    ASSUME NEW q \in Queues, NEW m \in Requests
    PROVE  /\ Append(q, m) \in Queues /\ Len(Append(q, m)) = Len(q) + 1 /\ Len(q) \in Nat
           /\ Append(q, m) # <<>> /\ LastOf(Append(q, m)) = m
           /\ \A i \in 1 .. Len(q) : Append(q, m)[i] = q[i]
           /\ Append(q, m)[Len(q) + 1] = m
           /\ q = <<>> => Append(q, m) = <<m>>
  <1>1. /\ Append(q, m) \in Queues /\ Len(Append(q, m)) = Len(q) + 1 /\ Len(q) \in Nat
        /\ \A i \in 1 .. Len(q) : Append(q, m)[i] = q[i]
        /\ Append(q, m)[Len(q) + 1] = m
    BY DEF Queues
  <1>2. Append(q, m) # <<>> /\ LastOf(Append(q, m)) = m
    <2>1. Append(q, m) = <<>> <=> Len(Append(q, m)) = 0
      BY <1>1, EmptyBacklog, Zenon
    <2> QED
      BY <1>1, <2>1 DEF LastOf
  <1>3. Append(<<>>, m) = <<m>>
    OBVIOUS
  <1> QED
    BY <1>1, <1>2, <1>3

\* A backlog nobody waits for.
LEMMA AbandonedFacts ==
    ASSUME NEW q \in Queues
    PROVE  /\ Abandoned(q) \in Queues /\ Len(Abandoned(q)) = Len(q) /\ Len(q) \in Nat
           /\ \A i \in 1 .. Len(q) :
                 /\ Abandoned(q)[i].op = q[i].op /\ Abandoned(q)[i].arg = q[i].arg
                 /\ Abandoned(q)[i].live = FALSE
           /\ Abandoned(q) = <<>> <=> q = <<>>
  <1>1. \A i \in 1 .. Len(q) : q[i] \in Requests
    BY DEF Queues
  <1>2. \A m \in Requests :
          /\ [m EXCEPT !.live = FALSE] \in Requests
          /\ [m EXCEPT !.live = FALSE].op = m.op /\ [m EXCEPT !.live = FALSE].arg = m.arg
          /\ [m EXCEPT !.live = FALSE].live = FALSE
    BY DEF Requests
  <1>3. Len(q) \in Nat
    BY DEF Queues
  <1>4. Abandoned(q) \in [1 .. Len(q) -> Requests]
    BY <1>1, <1>2 DEF Abandoned
  <1>5. Abandoned(q) \in Queues /\ Len(Abandoned(q)) = Len(q)
    BY <1>3, <1>4 DEF Queues
  <1>6. \A i \in 1 .. Len(q) : Abandoned(q)[i] = [q[i] EXCEPT !.live = FALSE]
    BY DEF Abandoned
  <1>7. Abandoned(q) = <<>> <=> q = <<>>
    BY <1>5, EmptyBacklog
  <1>8. \A i \in 1 .. Len(q) :
          /\ Abandoned(q)[i].op = q[i].op /\ Abandoned(q)[i].arg = q[i].arg
          /\ Abandoned(q)[i].live = FALSE
    <2> TAKE i \in 1 .. Len(q)
    <2>1. q[i] \in Requests /\ Abandoned(q)[i] = [q[i] EXCEPT !.live = FALSE]
      BY <1>1, <1>6
    <2> QED
      BY <2>1, <1>2
  <1> QED
    BY <1>3, <1>5, <1>7, <1>8

\* What a log with one more update holds.
LEMMA LogAppend ==
    ASSUME NEW log \in Logs, NEW record \in UpdateRecords
    PROVE  /\ Append(log, record) \in Logs /\ Len(Append(log, record)) = Len(log) + 1
           /\ Len(log) \in Nat
           /\ \A i \in 1 .. Len(log) : Append(log, record)[i] = log[i]
           /\ Append(log, record)[Len(log) + 1] = record
  BY DEF Logs

\* Replaying record n takes the first n - 1 records to the first n.
LEMMA PrefixNext ==
    ASSUME NEW log \in Logs, NEW n \in 1 .. Len(log)
    PROVE  /\ SubSeq(log, 1, n - 1) \in Logs /\ Len(SubSeq(log, 1, n - 1)) = n - 1
           /\ SubSeq(log, 1, n) \in Logs
           /\ log[n] \in UpdateRecords
           /\ Append(SubSeq(log, 1, n - 1), log[n]) = SubSeq(log, 1, n)
  <1>1. /\ SubSeq(log, 1, n - 1) \in Logs /\ Len(SubSeq(log, 1, n - 1)) = n - 1
        /\ \A i \in 1 .. n - 1 : SubSeq(log, 1, n - 1)[i] = log[i]
    BY DEF Logs
  <1>2. /\ SubSeq(log, 1, n) \in Logs /\ Len(SubSeq(log, 1, n)) = n
        /\ \A i \in 1 .. n : SubSeq(log, 1, n)[i] = log[i]
    BY DEF Logs
  <1>3. log[n] \in UpdateRecords
    BY DEF Logs
  <1>4. /\ Append(SubSeq(log, 1, n - 1), log[n]) \in Logs
        /\ Len(Append(SubSeq(log, 1, n - 1), log[n])) = n
        /\ \A i \in 1 .. n - 1 : Append(SubSeq(log, 1, n - 1), log[n])[i] = log[i]
        /\ Append(SubSeq(log, 1, n - 1), log[n])[n] = log[n]
    BY <1>1, <1>3, LogAppend
  <1>5. \A i \in 1 .. n : Append(SubSeq(log, 1, n - 1), log[n])[i] = SubSeq(log, 1, n)[i]
    BY <1>2, <1>4
  <1> QED
    BY <1>1, <1>2, <1>3, <1>4, <1>5 DEF Logs

\* All of a log, and none of it.
LEMMA PrefixEnds ==
    ASSUME NEW log \in Logs
    PROVE  SubSeq(log, 1, Len(log)) = log /\ SubSeq(log, 1, 0) = <<>>
  BY DEF Logs

-------------------------------------------------------------------------------
(* Answers and rewards *)

\* What a completion may count as is a number.
LEMMA PossibleTypes ==
    ASSUME Scored, NEW log \in Logs, NEW p \in SeedRange \cup {None}
    PROVE  Possible(log, p) \subseteq Nat /\ AnswersOf(log, p) \subseteq Possible(log, p)
  BY DEF Scored, Possible, Failed, Logs

\* One more answer.
LEMMA AnswersAppend ==
    ASSUME NEW answers \in Seq(Nat), NEW a \in Nat, NEW set
    PROVE  /\ Append(answers, a) \in Seq(Nat) /\ Len(answers) \in Nat
           /\ Len(Append(answers, a)) = Len(answers) + 1
           /\ Within(answers, set) /\ a \in set => Within(Append(answers, a), set)
  BY DEF Within

\* A sample whose answers are among these has one of their rewards.
LEMMA RewardHad ==
    ASSUME NEW answers \in Seq(Nat), Len(answers) \in 1 .. MaxRequests, NEW set,
           Within(answers, set)
    PROVE  RewardOf(answers) \in RewardsFrom(set)
  <1>1. answers \in [1 .. Len(answers) -> set]
    BY DEF Within
  <1> QED
    BY <1>1 DEF RewardsFrom

\* More answers to choose from make more rewards.
LEMMA RewardsGrow ==
    ASSUME NEW small, NEW large, small \subseteq large
    PROVE  RewardsFrom(small) \subseteq RewardsFrom(large)
  <1> SUFFICES ASSUME NEW n \in 1 .. MaxRequests, NEW got \in [1 .. n -> small]
               PROVE  RewardOf(got) \in RewardsFrom(large)
    BY DEF RewardsFrom
  <1>1. got \in [1 .. n -> large]
    OBVIOUS
  <1> QED
    BY <1>1 DEF RewardsFrom

\* A timeout more takes nothing away from what was earned before.
LEMMA EarnedKept ==
    ASSUME UNCHANGED <<disk, seeds, rewards>>, timeouts > 0 => timeouts' > 0
    PROVE  /\ \A i : Earned(i) => Earned(i)'
           /\ \A answers, p : Within(answers, Possible(disk, p)) =>
                                  Within(answers, Possible(disk, p)')
  <1>1. \A p : Possible(disk, p) \subseteq Possible(disk, p)'
    BY DEF Possible
  <1>2. ASSUME NEW i, Earned(i) PROVE Earned(i)'
    <2>1. RewardsFrom(Possible(disk, seeds[i])) \subseteq RewardsFrom(Possible(disk, seeds[i]))'
      BY <1>1, RewardsGrow
    <2> QED
      BY <1>2, <2>1 DEF Earned
  <1> QED
    BY <1>1, <1>2 DEF Within

-------------------------------------------------------------------------------
(* One request at the server *)

\* What a request may do to the ES state, by its operation.
Effect(s, m, ok, t) ==
    /\ t \in States
    /\ ~ok => t = s
    /\ m.op = "init" => ok /\ t.ready /\ t.log = <<>> /\ t.active = None
    /\ m.op = "rollout" => ok /\ t = s
    /\ m.op \in {"apply", "revert"} => t.ready = s.ready /\ t.log = s.log
    /\ m.op = "apply" => t.active \in {s.active, m.arg} /\ (ok => s.ready /\ t.active = m.arg)
    /\ m.op = "revert" => t.active \in {s.active, None} /\ (ok => t.active = None)
    /\ m.op = "update" => /\ t.ready = s.ready /\ t.active = s.active
                          /\ (s.ready /\ s.active = None) <=> ok
                          /\ ok => t.log = Append(s.log, m.arg)

\* The server's handlers do no more than that.
LEMMA Handled ==
    ASSUME NEW s \in States, NEW m \in Requests
    PROVE  Effect(s, m, Handle(s, m).ok, Handle(s, m).state)
  <1> SUFFICES ASSUME NEW ok, NEW t, ok = Handle(s, m).ok, t = Handle(s, m).state
               PROVE  Effect(s, m, ok, t)
    OBVIOUS
  <1>1. CASE m.op = "init"
    <2>1. <<>> \in Logs
      BY EmptySeq DEF Logs
    <2>2. ok = TRUE /\ t = Initialised(s)
      BY <1>1 DEF Handle, Changed
    <2>3. t \in States /\ t.ready /\ t.log = <<>> /\ t.active = None
      BY <2>1, <2>2 DEF Initialised, States
    <2> QED
      BY <1>1, <2>2, <2>3 DEF Effect
  <1>2. CASE m.op = "rollout"
    BY <1>2 DEF Handle, Changed, States, Logs, Requests, Effect
  <1>3. CASE m.op = "apply"
    <2>1. m.arg \in SeedRange
      BY <1>3 DEF Requests
    <2>2. [s EXCEPT !.active = m.arg] \in States
      BY <2>1 DEF States
    <2> QED
      BY <1>3, <2>2 DEF Handle, Changed, States, Effect
  <1>4. CASE m.op = "revert"
    <2>1. [s EXCEPT !.active = None] \in States
      BY DEF States
    <2>2. CASE s.active \in {None, m.arg}
      <3>1. ok = TRUE /\ t = [s EXCEPT !.active = None]
        BY <1>4, <2>2 DEF Handle, Changed
      <3>2. t.ready = s.ready /\ t.log = s.log /\ t.active = None /\ t \in States
        BY <2>1, <3>1 DEF States
      <3> QED
        BY <1>4, <3>1, <3>2 DEF Effect
    <2>3. CASE s.active \notin {None, m.arg}
      <3>1. ok = (s.active \in {None, m.arg})
        BY <1>4 DEF Handle
      <3>2. ~ok
        BY <2>3, <3>1
      <3>3. t = IF ok THEN Changed(s, m) ELSE s
        BY DEF Handle
      <3> QED
        BY <1>4, <3>2, <3>3 DEF Effect
    <2> QED
      BY <2>2, <2>3
  <1>5. CASE m.op = "update"
    <2>1. m.arg \in UpdateRecords
      BY <1>5 DEF Requests
    <2>2. Append(s.log, m.arg) \in Logs
      BY <2>1, LogAppend DEF States
    <2> QED
      BY <1>5, <2>2 DEF Handle, Changed, States, Logs, Effect
  <1> QED
    BY <1>1, <1>2, <1>3, <1>4, <1>5 DEF Requests

\* Only an init makes a restarted server ready; nothing else changes it.
LEMMA HandledBlank ==
    ASSUME NEW s \in States, NEW m \in Requests, s = Blank, m.op # "init"
    PROVE  Handle(s, m).state = Blank
  <1>1. CASE m.op = "revert"
    BY <1>1 DEF Handle, Changed, Blank
  <1>2. CASE m.op \in {"apply", "update", "rollout"}
    BY <1>2 DEF Handle, Changed, Blank
  <1> QED
    BY <1>1, <1>2 DEF Requests

\* The answer the runner sees when its request was the one that was handled.
Answered(m, ok, r) == IF m.live THEN IF ok THEN "ok" ELSE "error" ELSE r

\* A served update was the next one, so the log stays next to history.json.
LEMMA ServedAhead ==
    ASSUME disk \in Logs, NEW q \in Queues, NEW s \in States, NEW r, NEW ok, NEW t,
           q # <<>>, Chan(q, s, r), Effect(s, Head(q), ok, t)
    PROVE  Ahead(t.log)
  <1> DEFINE m == Head(q)
  <1>1. m \in Requests /\ m = q[1]
    BY TailFacts
  <1>2. Ahead(s.log) /\ s.log \in Logs
    BY DEF Chan, States
  <1>3. CASE m.op \in {"rollout", "apply", "revert"} \/ ~ok
    BY <1>2, <1>3 DEF Effect
  <1>4. CASE m.op = "init"
    <2>1. t.log = <<>> /\ Len(<<>>) = 0 /\ Len(disk) \in Nat
      BY <1>4, EmptyBacklog DEF Effect, Logs
    <2> QED
      BY <2>1 DEF Ahead
  <1>5. CASE m.op = "update" /\ ok
    <2>1. t.log = Append(s.log, m.arg) /\ s.ready /\ m.arg \in UpdateRecords
      BY <1>1, <1>5 DEF Effect, Requests
    <2>2. Len(s.log) <= Len(disk) /\ (Len(s.log) < Len(disk) => m.arg = disk[Len(s.log) + 1])
      BY <1>1, <1>5, <2>1 DEF Chan
    <2>3. /\ Len(t.log) = Len(s.log) + 1 /\ Len(s.log) \in Nat /\ Len(disk) \in Nat
          /\ \A i \in 1 .. Len(s.log) : t.log[i] = s.log[i]
          /\ t.log[Len(s.log) + 1] = m.arg
      BY <1>2, <2>1, LogAppend DEF Logs
    <2>4. \A i \in 1 .. Len(t.log) : i <= Len(disk) => t.log[i] = disk[i]
      <3> TAKE i \in 1 .. Len(t.log)
      <3>1. CASE i \in 1 .. Len(s.log)
        BY <1>2, <2>3, <3>1 DEF Ahead
      <3>2. CASE i = Len(s.log) + 1
        BY <2>2, <2>3, <3>2
      <3> QED
        BY <2>3, <3>1, <3>2
    <2> QED
      BY <2>2, <2>3, <2>4 DEF Ahead
  <1> QED
    BY <1>1, <1>3, <1>4, <1>5 DEF Requests

\* The backlog keeps its shape when the server takes its head.
LEMMA ServedChan ==
    ASSUME disk \in Logs, NEW q \in Queues, NEW s \in States, NEW r, NEW ok, NEW t,
           q # <<>>, Chan(q, s, r), Effect(s, Head(q), ok, t), s = Blank /\ Head(q).op # "init" => t = Blank
    PROVE  Chan(Tail(q), t, Answered(Head(q), ok, r))
  <1> DEFINE m == Head(q)
             w == Answered(m, ok, r)
  <1>1. /\ m = q[1] /\ Len(q) \in Nat \ {0} /\ Len(Tail(q)) = Len(q) - 1 /\ m \in Requests
        /\ \A i \in 1 .. Len(Tail(q)) : Tail(q)[i] = q[i + 1]
        /\ Len(q) = 1 => Tail(q) = <<>>
        /\ Len(q) # 1 => Tail(q) # <<>>
    BY TailFacts
  <1>0. m.live <=> (1 = Len(q) /\ r = "pending")
    <2>1. 1 \in 1 .. Len(q)
      BY <1>1
    <2>2. q[1].live <=> (1 = Len(q) /\ r = "pending")
      BY <2>1, Zenon DEF Chan
    <2> QED
      BY <1>1, <2>2, Zenon
  <1>2. m.live => Len(q) = 1
    BY <1>0
  <1>3. ~m.live => w = r
    BY DEF Answered
  <1>4. m.live => w # "pending"
    BY DEF Answered
  <1>5. \A i \in 1 .. Len(Tail(q)) : Tail(q)[i].live <=> (i = Len(Tail(q)) /\ w = "pending")
    <2> TAKE i \in 1 .. Len(Tail(q))
    <2>1. i + 1 \in 1 .. Len(q) /\ Len(q) # 1 /\ Tail(q)[i] = q[i + 1]
      BY <1>1
    <2>2. q[i + 1].live <=> (i + 1 = Len(q) /\ r = "pending")
      BY <2>1, Zenon DEF Chan
    <2>3. Tail(q)[i].live <=> (i + 1 = Len(q) /\ r = "pending")
      BY <2>1, <2>2, Zenon
    <2>4. w = r
      BY <1>2, <1>3, <2>1
    <2>5. i + 1 = Len(q) <=> i = Len(Tail(q))
      BY <1>1
    <2> QED
      BY <2>3, <2>4, <2>5, Zenon
  <1>6. w = "pending" => Tail(q) # <<>>
    <2> SUFFICES ASSUME w = "pending" PROVE Tail(q) # <<>>
      OBVIOUS
    <2>1. ~m.live /\ r = "pending"
      BY <1>3, <1>4
    <2> QED
      BY <1>0, <1>1, <2>1
  <1>7. w = "ok" => Tail(q) = <<>>
    BY <1>1, <1>2, <1>3 DEF Chan
  <1>8. \A i \in 1 .. Len(Tail(q)) : Tail(q)[i].op # "update"
    <2> TAKE i \in 1 .. Len(Tail(q))
    <2>1. i + 1 \in 1 .. Len(q) /\ i + 1 # 1 /\ Tail(q)[i] = q[i + 1]
      BY <1>1
    <2> QED
      BY <2>1 DEF Chan
  <1>9. Tail(q) # <<>> => Tail(q)[1].op # "update"
    BY <1>1, <1>8
  <1>10. ~t.ready => t = Blank
    <2> SUFFICES ASSUME ~t.ready PROVE t = Blank
      OBVIOUS
    <2>1. m.op # "init" /\ ~s.ready
      BY <1>1 DEF Effect, Requests
    <2> QED
      BY <2>1 DEF Chan
  <1>11. Ahead(t.log)
    BY ServedAhead
  <1> QED
    BY <1>5, <1>6, <1>7, <1>8, <1>9, <1>10, <1>11 DEF Chan

\* A request is posted when none is waited for; an update into an empty backlog.
LEMMA PostedChan ==
    ASSUME disk \in Logs, NEW q \in Queues, NEW s \in States, NEW m \in Requests,
           Chan(q, s, "none"), m.live,
           m.op = "update" =>
              /\ q = <<>>
              /\ s.ready => /\ Len(s.log) <= Len(disk)
                            /\ Len(s.log) < Len(disk) => m.arg = disk[Len(s.log) + 1]
    PROVE  Chan(Append(q, m), s, "pending")
  <1> DEFINE p == Append(q, m)
  <1>1. /\ p \in Queues /\ Len(p) = Len(q) + 1 /\ Len(q) \in Nat /\ p # <<>>
        /\ \A i \in 1 .. Len(q) : p[i] = q[i]
        /\ p[Len(q) + 1] = m
    BY AppendFacts
  <1>2. Len(<<>>) = 0
    BY EmptyBacklog
  <1>3. \A i \in 1 .. Len(p) : p[i].live <=> (i = Len(p) /\ "pending" = "pending")
    <2> TAKE i \in 1 .. Len(p)
    <2>1. CASE i \in 1 .. Len(q)
      <3>1. q[i].live <=> (i = Len(q) /\ "none" = "pending")
        BY <2>1 DEF Chan
      <3> QED
        BY <1>1, <2>1, <3>1
    <2>2. CASE i = Len(q) + 1
      BY <1>1, <2>2
    <2> QED
      BY <1>1, <2>1, <2>2
  <1>4. \A i \in 1 .. Len(p) : p[i].op = "update" => i = 1
    BY <1>1, <1>2 DEF Chan
  <1>5. (p[1].op = "update" /\ s.ready) =>
            /\ Len(s.log) <= Len(disk)
            /\ Len(s.log) < Len(disk) => p[1].arg = disk[Len(s.log) + 1]
    <2>1. CASE q = <<>>
      BY <1>1, <1>2, <2>1
    <2>2. CASE q # <<>>
      <3>1. Len(q) # 0
        BY <2>2, EmptyBacklog
      <3>2. p[1] = q[1]
        BY <1>1, <3>1
      <3> QED
        BY <2>2, <3>2 DEF Chan
    <2> QED
      BY <2>1, <2>2
  <1> QED
    BY <1>1, <1>3, <1>4, <1>5 DEF Chan

\* A backlog the runner has given up on.
LEMMA AbandonedChan ==
    ASSUME NEW q \in Queues, NEW s \in States, NEW r, NEW w \in {"none", "error"},
           Chan(q, s, r)
    PROVE  Chan(Abandoned(q), s, w)
  <1>1. /\ Len(Abandoned(q)) = Len(q) /\ Len(q) \in Nat
        /\ \A i \in 1 .. Len(q) :
              /\ Abandoned(q)[i].op = q[i].op /\ Abandoned(q)[i].arg = q[i].arg
              /\ Abandoned(q)[i].live = FALSE
        /\ Abandoned(q) = <<>> <=> q = <<>>
    BY AbandonedFacts
  <1>2. q # <<>> => 1 \in 1 .. Len(q)
    BY EmptyBacklog
  <1> QED
    BY <1>1, <1>2 DEF Chan

\* A server that has just started has no backlog.
LEMMA RestartedChan ==
    ASSUME disk \in Logs, NEW w, w # "pending"
    PROVE  Chan(<<>>, Blank, w)
  <1>1. Len(<<>>) = 0 /\ Len(disk) \in Nat
    BY EmptyBacklog DEF Logs
  <1> QED
    BY <1>1 DEF Chan, Blank, Ahead

\* The runner has taken an answer.
LEMMA ConsumedChan ==
    ASSUME NEW q, NEW s, NEW r \in {"ok", "error"}, Chan(q, s, r)
    PROVE  Chan(q, s, "none")
  BY DEF Chan

-------------------------------------------------------------------------------
(* A server takes a request: what main() has brought the endpoint to stays    *)
(* true.                                                                      *)

\* Which request is at the head, when somebody waits and when nobody does.
LEMMA HeadFacts ==
    ASSUME NEW q \in Queues, NEW s, NEW r \in Replies, q # <<>>, Chan(q, s, r)
    PROVE  /\ Head(q).live <=> (Len(q) = 1 /\ r = "pending")
           /\ r # "ok"
           /\ Len(q) = 1 => Head(q) = LastOf(q)
           /\ Head(q) = q[1] /\ 1 \in 1 .. Len(q)
  <1>1. Head(q) = q[1] /\ Len(q) \in Nat \ {0}
    BY TailFacts
  <1>2. 1 \in 1 .. Len(q)
    BY <1>1
  <1>3. q[1].live <=> (1 = Len(q) /\ r = "pending")
    BY <1>2, Zenon DEF Chan
  <1>4. Head(q).live <=> (1 = Len(q) /\ r = "pending")
    BY <1>1, <1>3, Zenon
  <1> QED
    BY <1>1, <1>2, <1>4 DEF Chan, LastOf

\* The answer, by whether somebody waits.
LEMMA AnswerFacts ==
    ASSUME NEW m, NEW ok, NEW r
    PROVE  /\ ~m.live => Answered(m, ok, r) = r
           /\ m.live => Answered(m, ok, r) \in {"ok", "error"}
           /\ m.live /\ Answered(m, ok, r) = "ok" => ok
  BY DEF Answered

\* An update on the endpoint main() talks to.
LEMMA ServedAsking ==
    ASSUME NEW q \in Queues, NEW s \in States, NEW r \in Replies, NEW ok, NEW t,
           q # <<>>, Chan(q, s, r), Effect(s, Head(q), ok, t),
           NEW record, NEW before, Asking(q, s, r, Request("update", record), before, Append(before, record))
    PROVE  /\ Asking(Tail(q), t, Answered(Head(q), ok, r), Request("update", record),
                     before, Append(before, record))
           /\ Answered(Head(q), ok, r) # "none"
           /\ Answered(Head(q), ok, r) # "error" => r # "error" /\ s.ready
           /\ Answered(Head(q), ok, r) \in {"ok", "error"}
  <1> DEFINE m == Head(q)
             w == Answered(m, ok, r)
  <1>1. r \in {"pending", "error"}
    BY HeadFacts DEF Asking, Replies
  <1>2. CASE r = "error"
    <2>1. w = "error"
      BY <1>2, HeadFacts, AnswerFacts
    <2> QED
      BY <2>1 DEF Asking
  <1>3. CASE r = "pending"
    <2>1. q = <<Request("update", record)>> /\ At(s, before)
      BY <1>3 DEF Asking
    <2>2. m = Request("update", record)
      BY <2>1
    <2>3. m.op = "update" /\ m.arg = record /\ m.live
      BY <2>2 DEF Request
    <2>4. w \in {"ok", "error"} /\ (w = "ok" => ok)
      BY <2>3, AnswerFacts
    <2>5. ok => s.ready /\ t.log = Append(before, record) /\ t.active = None
      BY <2>1, <2>3 DEF Effect, At
    <2> QED
      BY <1>3, <2>4, <2>5 DEF Asking, At
  <1> QED
    BY <1>1, <1>2, <1>3

\* The init of a launch.
LEMMA ServedClearing ==
    ASSUME NEW q \in Queues, NEW s \in States, NEW r \in Replies, NEW ok, NEW t,
           q # <<>>, Chan(q, s, r), Effect(s, Head(q), ok, t), Clearing(q, s, r)
    PROVE  Clearing(Tail(q), t, Answered(Head(q), ok, r))
  <1> DEFINE m == Head(q)
             w == Answered(m, ok, r)
  <1>1. CASE m.live
    <2>1. r = "pending" /\ m = LastOf(q)
      BY <1>1, HeadFacts
    <2>2. m = Request("init", None)
      BY <2>1 DEF Clearing
    <2>3. m.op = "init"
      BY <2>2 DEF Request
    <2>4. At(t, <<>>)
      BY <2>3 DEF Effect, At
    <2> QED
      BY <1>1, <2>4, AnswerFacts DEF Clearing
  <1>2. CASE ~m.live
    <2>1. w = r /\ r # "ok" /\ (r = "pending" => Len(q) # 1)
      BY <1>2, HeadFacts, AnswerFacts
    <2>2. r = "pending" => LastOf(Tail(q)) = LastOf(q)
      BY <2>1, TailFacts
    <2> QED
      BY <2>1, <2>2 DEF Clearing
  <1> QED
    BY <1>1, <1>2

\* A request of a worker at the server: it is about the worker's own item.
LEMMA ServedPerturbed ==
    ASSUME NEW q \in Queues, NEW s \in States, NEW r \in Replies, NEW ok, NEW t,
           NEW j \in Jobs, NEW seed,
           q # <<>>, Chan(q, s, r), Effect(s, Head(q), ok, t),
           OfItem(q, seed), Perturbed(q, s, r, j, seed)
    PROVE  /\ OfItem(Tail(q), seed)
           /\ Perturbed(Tail(q), t, Answered(Head(q), ok, r), j, seed)
           /\ t.ready = s.ready
           /\ j.step \notin {"none", "returned"}
           /\ Head(q).live => j.step = Head(q).op
           /\ (Head(q).live /\ Head(q).op = "rollout" /\ s.ready) => s.active = seed /\ s.log = disk
  <1> DEFINE m == Head(q)
             w == Answered(m, ok, r)
  <1>1. m = q[1] /\ 1 \in 1 .. Len(q) /\ r # "ok" /\ (m.live <=> (Len(q) = 1 /\ r = "pending"))
    BY HeadFacts
  <1>2. m.op \in {"apply", "rollout", "revert"} /\ m.arg = seed
    BY <1>1 DEF OfItem
  <1>3. OfItem(Tail(q), seed)
    <2> SUFFICES ASSUME NEW i \in 1 .. Len(Tail(q))
                 PROVE  /\ Tail(q)[i].op \in {"apply", "rollout", "revert"}
                        /\ Tail(q)[i].arg = seed
      BY DEF OfItem
    <2>1. i + 1 \in 1 .. Len(q) /\ Tail(q)[i] = q[i + 1]
      BY TailFacts
    <2> QED
      BY <2>1 DEF OfItem
  <1>4. /\ t.ready = s.ready /\ t.log = s.log /\ t.active \in {s.active, seed, None}
        /\ m.op = "revert" => t.active \in {s.active, None} /\ (ok => t.active = None)
        /\ m.op = "apply" /\ ok => t.active = seed
        /\ m.op = "rollout" => t = s
    BY <1>2 DEF Effect
  <1>5. /\ j.step \notin {"none", "returned"}
        /\ ~(j.step = "apply" /\ r = "none")
    BY DEF Perturbed
  <1>6. ~m.live => w = r
    BY AnswerFacts
  <1>7. m.live => w \in {"ok", "error"} /\ (w = "ok" => ok) /\ Len(q) = 1 /\ r = "pending"
    BY <1>1, AnswerFacts
  <1>8. j.step = "apply" /\ r = "pending" => m.live /\ m.op = "apply"
    <2> SUFFICES ASSUME j.step = "apply", r = "pending"
                 PROVE  m.live /\ m.op = "apply"
      OBVIOUS
    <2>1. q = <<Request("apply", seed)>>
      BY DEF Perturbed
    <2>2. m = Request("apply", seed)
      BY <2>1
    <2> QED
      BY <2>2 DEF Request
  <1>8a. j.step = "rollout" => m.op = "rollout"
    BY <1>1 DEF Perturbed
  <1>8b. j.step = "rollout" => \A i \in 1 .. Len(Tail(q)) : Tail(q)[i].op = "rollout"
    <2> SUFFICES ASSUME j.step = "rollout", NEW i \in 1 .. Len(Tail(q))
                 PROVE  Tail(q)[i].op = "rollout"
      OBVIOUS
    <2>1. i + 1 \in 1 .. Len(q) /\ Tail(q)[i] = q[i + 1]
      BY TailFacts
    <2> QED
      BY <2>1 DEF Perturbed
  <1>9. j.step = "revert" /\ m.live => m.op = "revert"
    <2> SUFFICES ASSUME j.step = "revert", m.live PROVE m.op = "revert"
      OBVIOUS
    <2>1. m = LastOf(q) /\ r = "pending"
      BY <1>1, HeadFacts
    <2>2. m = Request("revert", seed)
      BY <2>1 DEF Perturbed
    <2> QED
      BY <2>2 DEF Request
  <1>10. j.step = "raised" => ~m.live
    BY <1>7 DEF Perturbed
  <1>11. m.live => j.step = m.op
    BY <1>5, <1>7, <1>8, <1>8a, <1>9, <1>10 DEF Jobs
  <1>12. j.step = "revert" /\ w = "pending" => LastOf(Tail(q)) = Request("revert", seed)
    <2> SUFFICES ASSUME j.step = "revert", w = "pending"
                 PROVE  LastOf(Tail(q)) = Request("revert", seed)
      OBVIOUS
    <2>1. ~m.live /\ r = "pending" /\ Len(q) # 1
      BY <1>1, <1>6, <1>7
    <2>2. LastOf(Tail(q)) = LastOf(q)
      BY <2>1, TailFacts
    <2> QED
      BY <2>1, <2>2 DEF Perturbed
  <1>13. j.step = "apply" => w \notin {"none", "pending"}
    BY <1>1, <1>5, <1>6, <1>7, <1>8 DEF Replies
  <1>13a. j.step = "rollout" /\ t.ready => t.active = seed
    BY <1>4, <1>8a DEF Perturbed
  <1>14. j.step = "apply" /\ w = "ok" => t.active = seed
    BY <1>1, <1>4, <1>6, <1>7, <1>11
  <1>15. j.step = "revert" /\ w = "ok" => t.active = None
    BY <1>1, <1>4, <1>6, <1>7, <1>11
  <1>16. j.step = "raised" => w = "none"
    BY <1>6, <1>10 DEF Perturbed
  <1>17. /\ t.active # None => j.step # "none" /\ t.active = seed
         /\ t.ready => t.log = disk
    BY <1>4, <1>5 DEF Perturbed
  <1>18. Perturbed(Tail(q), t, w, j, seed)
    BY <1>5, <1>8b, <1>12, <1>13, <1>13a, <1>14, <1>15, <1>16, <1>17 DEF Perturbed
  <1>19. (m.live /\ m.op = "rollout" /\ s.ready) => s.active = seed /\ s.log = disk
    BY <1>7, <1>11 DEF Perturbed
  <1> QED
    BY <1>3, <1>4, <1>5, <1>11, <1>18, <1>19

\* A completion somebody waits for brings an answer of the server's model.
Told(m, s, j, k) ==
    IF m.live /\ m.op = "rollout"
    THEN \E a \in AnswersOf(s.log, s.active) : k = [j EXCEPT !.answers = Append(j.answers, a)]
    ELSE k = j

\* The answers are all that changes of the worker's job.
LEMMA ToldFacts ==
    ASSUME NEW m, NEW s, NEW j \in Jobs, NEW k, Told(m, s, j, k)
    PROVE  /\ k.item = j.item /\ k.step = j.step
           /\ ~(m.live /\ m.op = "rollout") => k = j
           /\ m.live /\ m.op = "rollout" =>
                 \E a \in AnswersOf(s.log, s.active) : k.answers = Append(j.answers, a)
  BY DEF Told, Jobs

\* A worker's request at the server, with the answer it may bring.
LEMMA ServedWorking ==
    ASSUME Scored, disk \in Logs,
           NEW e, NEW q \in Queues, NEW s \in States, NEW r \in Replies, NEW ok, NEW t,
           NEW j \in Jobs, NEW k,
           q # <<>>, Chan(q, s, r), Effect(s, Head(q), ok, t), Told(Head(q), s, j, k),
           Working(e, q, s, r, j)
    PROVE  Working(e, Tail(q), t, Answered(Head(q), ok, r), k)
  <1> DEFINE m == Head(q)
             w == Answered(m, ok, r)
             seed == seeds[j.item]
  <1>1. OfItem(q, seed) /\ Perturbed(q, s, r, j, seed) /\ Measured(s, r, j, seed) /\ Collected(e, s, j)
    BY DEF Working
  <1>2. /\ k.item = j.item /\ k.step = j.step
        /\ ~(m.live /\ m.op = "rollout") => k = j
        /\ m.live /\ m.op = "rollout" =>
              \E a \in AnswersOf(s.log, s.active) : k.answers = Append(j.answers, a)
    BY ToldFacts
  <1>3. /\ OfItem(Tail(q), seed)
        /\ Perturbed(Tail(q), t, w, j, seed)
        /\ t.ready = s.ready
        /\ j.step \notin {"none", "returned"}
        /\ m.live => j.step = m.op
        /\ (m.live /\ m.op = "rollout" /\ s.ready) => s.active = seed /\ s.log = disk
    BY <1>1, ServedPerturbed
  <1>4. Perturbed(Tail(q), t, w, k, seed)
    BY <1>2, <1>3 DEF Perturbed
  <1>5. Measured(t, w, k, seed)
    <2>1. CASE m.live /\ m.op = "rollout"
      <3>1. k.step = "rollout" /\ j.step = "rollout" /\ r = "pending" /\ w \in {"ok", "error"}
        BY <1>2, <1>3, <2>1, HeadFacts, AnswerFacts
      <3>2. PICK a \in AnswersOf(s.log, s.active) : k.answers = Append(j.answers, a)
        BY <1>2, <2>1
      <3>3. a \in Nat /\ j.answers \in Seq(Nat)
        BY DEF Scored, States, Jobs, Logs
      <3>4. Len(j.answers) < MaxRequests /\ (s.ready => Within(j.answers, Possible(disk, seed)))
        BY <1>1, <3>1 DEF Measured
      <3>5. s.ready => a \in Possible(disk, seed)
        BY <1>3, <2>1, <3>2 DEF Possible
      <3>6. /\ Len(k.answers) = Len(j.answers) + 1 /\ Len(j.answers) \in Nat
            /\ s.ready => Within(k.answers, Possible(disk, seed))
        BY <3>2, <3>3, <3>4, <3>5, AnswersAppend
      <3>7. ok /\ w = "ok"
        BY <2>1 DEF Effect, Answered
      <3>8. t.ready = s.ready
        BY <1>3
      <3>9. Len(k.answers) \in 1 .. MaxRequests
        BY <3>4, <3>6, RunShape
      <3> HIDE DEF w, m
      <3> QED
        BY <3>1, <3>6, <3>7, <3>8, <3>9 DEF Measured
    <2>2. CASE ~(m.live /\ m.op = "rollout")
      <3>1. k = j
        BY <1>2, <2>2
      <3>2. j.step = "rollout" => w # "ok" /\ w = r
        BY <1>3, <2>2, HeadFacts, AnswerFacts
      <3> QED
        BY <1>1, <1>3, <3>1, <3>2 DEF Measured
    <2> QED
      BY <2>1, <2>2
  <1>6. Collected(e, t, k)
    BY <1>1, <1>2, <1>3 DEF Collected
  <1>7. k.step # "none" => k.item \in Items /\ Owner(k.item) = e
    BY <1>2 DEF Working
  <1> QED
    BY <1>2, <1>3, <1>4, <1>5, <1>6, <1>7 DEF Working

\* The endpoints main() is not talking to have nothing to serve, but for what
\* an earlier run left and for the workers' own requests.
LEMMA ServedPhase ==
    ASSUME Scored, Shared, disk \in Logs, cur \in Endpoints,
           NEW e \in Endpoints, NEW q \in Queues, NEW s \in States, NEW r \in Replies,
           NEW ok, NEW t, NEW j \in Jobs, NEW k,
           q # <<>>, Chan(q, s, r), Effect(s, Head(q), ok, t), Told(Head(q), s, j, k),
           Phase(e, q, s, r, j)
    PROVE  Phase(e, Tail(q), t, Answered(Head(q), ok, r), k)
  <1> DEFINE w == Answered(Head(q), ok, r)
  <1>1. r = "none" => w = "none"
    BY HeadFacts, AnswerFacts
  <1>2. pc = "down" => w = "none"
    BY <1>1 DEF Phase
  <1>3. pc = "init" => /\ ~(e < cur)
                       /\ e > cur => w = "none"
                       /\ e = cur => Clearing(Tail(q), t, w)
    BY <1>1, ServedClearing DEF Phase, Idle
  <1>4. pc \notin {"load", "start", "draw", "done", "persist"}
    BY DEF Phase, Idle
  <1>5. pc = "replay" => Replaying(e, Tail(q), t, w)
    <2> SUFFICES ASSUME pc = "replay" PROVE Replaying(e, Tail(q), t, w)
      OBVIOUS
    <2>1. Replaying(e, q, s, r)
      BY DEF Phase
    <2>2. ~(e < cur) /\ ~(e > cur)
      BY <2>1 DEF Replaying, Idle
    <2>3. e = cur
      BY <2>2 DEF Endpoints
    <2>4. mem \in Logs /\ rec \in 1 .. Len(mem)
      BY DEF Shared
    <2>5. Append(SubSeq(mem, 1, rec - 1), mem[rec]) = SubSeq(mem, 1, rec)
      BY <2>4, PrefixNext
    <2>6. Asking(q, s, r, Request("update", mem[rec]), SubSeq(mem, 1, rec - 1),
                 Append(SubSeq(mem, 1, rec - 1), mem[rec]))
      BY <2>1, <2>3, <2>5 DEF Replaying
    <2>7. Asking(Tail(q), t, w, Request("update", mem[rec]), SubSeq(mem, 1, rec - 1),
                 Append(SubSeq(mem, 1, rec - 1), mem[rec]))
      BY <2>6, ServedAsking
    <2> QED
      BY <2>2, <2>5, <2>7 DEF Replaying
  <1>6. pc = "update" => Updating(e, Tail(q), t, w)
    <2> SUFFICES ASSUME pc = "update" PROVE Updating(e, Tail(q), t, w)
      OBVIOUS
    <2>1. Updating(e, q, s, r)
      BY DEF Phase
    <2>2. ~(e < cur) /\ ~(e > cur)
      BY <2>1 DEF Updating, Idle
    <2>3. e = cur
      BY <2>2 DEF Endpoints
    <2>4. Asking(q, s, r, Request("update", NewRecord), mem, Append(mem, NewRecord))
      BY <2>1, <2>3 DEF Updating
    <2>5. /\ Asking(Tail(q), t, w, Request("update", NewRecord), mem, Append(mem, NewRecord))
          /\ w # "error" => r # "error" /\ s.ready
          /\ w \in {"ok", "error"}
      BY <2>4, ServedAsking
    <2>6. w # "error" => \A i \in Items : Owner(i) = e => Earned(i)
      BY <2>1, <2>5 DEF Updating
    <2> QED
      BY <2>2, <2>5, <2>6 DEF Updating
  <1>7. pc = "sample" => Working(e, Tail(q), t, w, k)
    BY ServedWorking DEF Phase
  <1> QED
    BY <1>2, <1>3, <1>4, <1>5, <1>6, <1>7 DEF Phase

-------------------------------------------------------------------------------
(* The runner gives up on a request; a server starts again. *)

\* A request the runner gave up on leaves it with an error and nothing known.
LEMMA TimedOutPhase ==
    ASSUME cur \in Endpoints, NEW e \in Endpoints, NEW q \in Queues, NEW s \in States,
           NEW j \in Jobs, Phase(e, q, s, "pending", j)
    PROVE  Phase(e, Abandoned(q), s, "error", j)
  <1>1. pc \notin {"down", "load", "start", "draw", "done", "persist"}
    BY DEF Phase, Idle
  <1>2. pc = "init" => ~(e < cur) /\ ~(e > cur) /\ Clearing(Abandoned(q), s, "error")
    BY DEF Phase, Idle, Clearing
  <1>3. pc = "replay" => Replaying(e, Abandoned(q), s, "error")
    BY DEF Phase, Replaying, Idle, Asking
  <1>4. pc = "update" => Updating(e, Abandoned(q), s, "error")
    BY DEF Phase, Updating, Idle, Asking
  <1>5. ASSUME pc = "sample" PROVE Working(e, Abandoned(q), s, "error", j)
    <2>1. Working(e, q, s, "pending", j)
      BY <1>5 DEF Phase
    <2>2. OfItem(Abandoned(q), seeds[j.item])
      BY <2>1, AbandonedFacts DEF Working, OfItem
    <2>3. Perturbed(Abandoned(q), s, "error", j, seeds[j.item])
      BY <2>1, AbandonedFacts DEF Working, Perturbed
    <2>4. Measured(s, "error", j, seeds[j.item])
      BY <2>1 DEF Working, Measured
    <2> QED
      BY <2>1, <2>2, <2>3, <2>4 DEF Working
  <1> QED
    BY <1>1, <1>2, <1>3, <1>4, <1>5 DEF Phase

\* A restarted server is not ready: it promises nothing and accepts no update.
LEMMA RestartedPhase ==
    ASSUME cur \in Endpoints, NEW e \in Endpoints, NEW q \in Queues, NEW s \in States,
           NEW r \in Replies, NEW w \in Replies, w = IF r = "pending" THEN "error" ELSE r,
           NEW j \in Jobs, Phase(e, q, s, r, j)
    PROVE  Phase(e, <<>>, Blank, w, j)
  <1>1. ~Blank.ready /\ Blank.active = None
    BY DEF Blank
  <1>2. (r = "none" => w = "none") /\ w # "pending" /\ (w = "none" <=> r = "none")
         /\ (w = "ok" <=> r = "ok")
    OBVIOUS
  <1>3. \A log : At(Blank, log) /\ (Idle(q, s, r, log) => Idle(<<>>, Blank, w, log))
    BY <1>1, <1>2 DEF Idle, At
  <1>4. \A m, before, after : Asking(<<>>, Blank, w, m, before, after)
    BY <1>2, <1>3 DEF Asking
  <1>5. pc = "init" => /\ e < cur => Idle(<<>>, Blank, w, <<>>)
                       /\ e > cur => w = "none"
                       /\ e = cur => Clearing(<<>>, Blank, w)
    BY <1>2, <1>3 DEF Phase, Clearing
  <1>6. pc = "replay" => Replaying(e, <<>>, Blank, w)
    BY <1>3, <1>4 DEF Phase, Replaying
  <1>7. pc = "update" => Updating(e, <<>>, Blank, w)
    BY <1>1, <1>2, <1>3, <1>4 DEF Phase, Updating
  <1>8. ASSUME pc = "sample" PROVE Working(e, <<>>, Blank, w, j)
    <2>1. Working(e, q, s, r, j)
      BY <1>8 DEF Phase
    <2>2. OfItem(<<>>, seeds[j.item])
      BY EmptyBacklog DEF OfItem
    <2>3. Perturbed(<<>>, Blank, w, j, seeds[j.item])
      BY <1>1, <1>2, <2>1 DEF Working, Perturbed
    <2>4. Measured(Blank, w, j, seeds[j.item])
      BY <1>1, <1>2, <2>1 DEF Working, Measured
    <2>5. Collected(e, Blank, j)
      BY <1>1, <2>1 DEF Working, Collected
    <2> QED
      BY <2>1, <2>2, <2>3, <2>4, <2>5 DEF Working
  <1>9. /\ pc = "down" => w = "none"
        /\ pc = "load" => Idle(<<>>, Blank, w, <<>>)
        /\ pc \in {"start", "draw", "done"} => Idle(<<>>, Blank, w, mem)
        /\ pc = "persist" => Idle(<<>>, Blank, w, Append(mem, NewRecord))
    BY <1>2, <1>3 DEF Phase
  <1> QED
    BY <1>5, <1>6, <1>7, <1>8, <1>9 DEF Phase

-------------------------------------------------------------------------------
(* The steps of one endpoint *)

\* What the types say of one endpoint.
LEMMA EndpointTypes ==
    ASSUME TypeOK, NEW e \in Endpoints
    PROVE  /\ queue[e] \in Queues /\ server[e] \in States /\ reply[e] \in Replies
           /\ job[e] \in Jobs /\ disk \in Logs /\ mem \in Logs /\ cur \in Endpoints
  BY DEF TypeOK, Queues, States, Replies, Jobs, Logs

main == <<disk, pc, cur, rec, mem, rng, seeds, rewards>>

\* While main() stands still, its invariant does.
LEMMA SharedKept ==
    ASSUME Shared, UNCHANGED main, timeouts > 0 => timeouts' > 0
    PROVE  Shared'
  <1>1. \A i : Earned(i) => Earned(i)'
    BY EarnedKept DEF main
  <1> QED
    BY <1>1 DEF main, Shared

\* While main() stands still, what it has brought an endpoint to means the same.
LEMMA LocalKept ==
    ASSUME UNCHANGED main, timeouts > 0 => timeouts' > 0, NEW e,
           Chan(queue'[e], server'[e], reply'[e]),
           Phase(e, queue'[e], server'[e], reply'[e], job'[e]),
           Excused(server[e], reply[e], job[e])'
    PROVE  Local(e)'
  <1>1. Chan(queue[e], server[e], reply[e])'
    BY DEF main, Chan, Ahead
  <1>2. /\ NewRecord' = NewRecord /\ (\A i : Earned(i) => Earned(i)')
        /\ \A answers, p : Within(answers, Possible(disk, p)) =>
                               Within(answers, Possible(disk, p)')
    BY EarnedKept DEF main, NewRecord
  <1>3. pc = "replay" => Replaying(e, queue[e], server[e], reply[e])'
    BY DEF main, Phase, Replaying, Idle, Asking, At
  <1>4. pc = "update" => Updating(e, queue[e], server[e], reply[e])'
    BY <1>2 DEF main, Phase, Updating, Idle, Asking, At
  <1>5. ASSUME pc = "sample" PROVE Working(e, queue[e], server[e], reply[e], job[e])'
    <2>1. Working(e, queue'[e], server'[e], reply'[e], job'[e])
      BY <1>5 DEF Phase
    <2>2. Collected(e, server[e], job[e])'
      BY <1>2, <2>1 DEF main, Working, Collected
    <2>3. Perturbed(queue[e], server[e], reply[e], job[e], seeds[job[e].item])'
      BY <2>1 DEF main, Working, Perturbed
    <2>4. Measured(server[e], reply[e], job[e], seeds[job[e].item])'
      BY <1>2, <2>1 DEF main, Working, Measured
    <2> QED
      BY <2>1, <2>2, <2>3, <2>4 DEF main, Working, OfItem
  <1>6. /\ pc = "down" => reply'[e] = "none"
        /\ pc = "init" => /\ e < cur => Idle(queue[e], server[e], reply[e], <<>>)'
                          /\ e > cur => reply'[e] = "none"
                          /\ e = cur => Clearing(queue[e], server[e], reply[e])'
        /\ pc = "load" => Idle(queue[e], server[e], reply[e], <<>>)'
    BY DEF Phase, Idle, At, Clearing
  <1>7. /\ pc \in {"start", "draw", "done"} => Idle(queue[e], server[e], reply[e], mem)'
        /\ pc = "persist" => Idle(queue[e], server[e], reply[e], Append(mem, NewRecord))'
    BY <1>2 DEF main, Phase, Idle, At
  <1>8. pc' = pc /\ cur' = cur
    BY DEF main
  <1> QED
    BY <1>1, <1>3, <1>4, <1>5, <1>6, <1>7, <1>8 DEF Local, Phase, Excused

\* A step of one endpoint keeps the invariant when it does so there.
LEMMA EndpointStep ==
    ASSUME IInv, NEW e \in Endpoints,
           NEW q \in Queues, NEW s \in States, NEW r \in Replies, NEW j \in Jobs,
           UNCHANGED main,
           queue' = [queue EXCEPT ![e] = q], server' = [server EXCEPT ![e] = s],
           reply' = [reply EXCEPT ![e] = r], job' = [job EXCEPT ![e] = j],
           raised' \in BOOLEAN, crashes' \in 0 .. MaxCrashes,
           restarts' \in 0 .. MaxRestarts, timeouts' \in 0 .. MaxTimeouts,
           timeouts > 0 => timeouts' > 0,
           Chan(q, s, r), Phase(e, q, s, r, j),
           (pc = "sample" /\ j.step = "rollout" /\ r = "error" /\ s.ready) => timeouts' > 0
    PROVE  IInv'
  <1>1. TypeOK'
    <2>1. TypeOK
      BY DEF IInv
    <2>2. /\ queue' \in [Endpoints -> Queues] /\ server' \in [Endpoints -> States]
          /\ reply' \in [Endpoints -> Replies] /\ job' \in [Endpoints -> Jobs]
      BY <2>1 DEF TypeOK, Queues, States, Replies, Jobs, Logs
    <2> QED
      BY <2>1, <2>2 DEF TypeOK, main, Queues, States, Replies, Jobs, Logs
  <1>2. Shared'
    BY SharedKept DEF IInv
  <1>3. ASSUME NEW d \in Endpoints PROVE Local(d)'
    <2>1. /\ queue'[d] = IF d = e THEN q ELSE queue[d]
          /\ server'[d] = IF d = e THEN s ELSE server[d]
          /\ reply'[d] = IF d = e THEN r ELSE reply[d]
          /\ job'[d] = IF d = e THEN j ELSE job[d]
      BY DEF IInv, TypeOK
    <2>2. Local(d)
      BY DEF IInv
    <2>3. Chan(queue'[d], server'[d], reply'[d])
      BY <2>1, <2>2 DEF Local
    <2>4. Phase(d, queue'[d], server'[d], reply'[d], job'[d])
      BY <2>1, <2>2 DEF Local
    <2>5. Excused(server[d], reply[d], job[d])'
      BY <2>1, <2>2 DEF Local, Excused, main
    <2> QED
      BY <2>3, <2>4, <2>5, LocalKept
  <1> QED
    BY <1>1, <1>2, <1>3 DEF IInv

\* The bounds on what the environment does.
LEMMA BudgetTypes ==
    ASSUME TypeOK
    PROVE  /\ raised \in BOOLEAN /\ crashes \in 0 .. MaxCrashes
           /\ restarts \in 0 .. MaxRestarts /\ timeouts \in 0 .. MaxTimeouts
           /\ crashes < MaxCrashes => crashes + 1 \in 0 .. MaxCrashes
           /\ restarts < MaxRestarts => restarts + 1 \in 0 .. MaxRestarts
           /\ timeouts < MaxTimeouts => timeouts + 1 \in 0 .. MaxTimeouts
  BY RunBounds DEF TypeOK

\* Leaving an endpoint's part alone is a special case of setting it.
LEMMA SetItself ==
    ASSUME TypeOK, NEW e \in Endpoints
    PROVE  /\ queue = [queue EXCEPT ![e] = queue[e]]
           /\ server = [server EXCEPT ![e] = server[e]]
           /\ reply = [reply EXCEPT ![e] = reply[e]]
           /\ job = [job EXCEPT ![e] = job[e]]
  BY DEF TypeOK

\* A server takes its oldest request.
LEMMA ServeStep ==
    ASSUME Scored, IInv, NEW e \in Endpoints, Serve(e)
    PROVE  IInv'
  <1> DEFINE m == Head(queue[e])
             ok == Handle(server[e], m).ok
             t == Handle(server[e], m).state
             w == Answered(m, ok, reply[e])
  <1>1. /\ queue[e] \in Queues /\ server[e] \in States /\ reply[e] \in Replies /\ job[e] \in Jobs
        /\ disk \in Logs /\ cur \in Endpoints
    BY EndpointTypes DEF IInv
  <1>2. queue[e] # <<>> /\ UNCHANGED <<main, raised, crashes, restarts, timeouts>>
    BY DEF Serve, main, budget
  <1>3. m \in Requests /\ Tail(queue[e]) \in Queues
    BY <1>1, <1>2, TailFacts
  <1>4. Effect(server[e], m, ok, t)
    BY <1>1, <1>3, Handled
  <1>5. t \in States
    BY <1>4 DEF Effect
  <1>6. w \in Replies
    BY <1>1 DEF Answered, Replies
  <1>7. /\ queue' = [queue EXCEPT ![e] = Tail(queue[e])]
        /\ server' = [server EXCEPT ![e] = t]
        /\ reply' = [reply EXCEPT ![e] = w]
    BY SetItself DEF Serve, Answered, IInv
  <1>8. PICK k \in Jobs : Told(m, server[e], job[e], k) /\ job' = [job EXCEPT ![e] = k]
    <2>1. CASE m.live /\ m.op = "rollout"
      <3>1. PICK a \in AnswersOf(server[e].log, server[e].active) :
                job' = [job EXCEPT ![e].answers = Append(@, a)]
        BY <2>1 DEF Serve, Answer
      <3>2. a \in Nat /\ job[e].answers \in Seq(Nat)
        BY <1>1 DEF Scored, States, Logs, Jobs
      <3>3. [job[e] EXCEPT !.answers = Append(job[e].answers, a)] \in Jobs
        BY <1>1, <3>2, AnswersAppend DEF Jobs
      <3>4. job' = [job EXCEPT ![e] = [job[e] EXCEPT !.answers = Append(job[e].answers, a)]]
        BY <1>1, <3>1 DEF Jobs
      <3> QED
        BY <2>1, <3>1, <3>3, <3>4 DEF Told
    <2>2. CASE ~(m.live /\ m.op = "rollout")
      <3>1. job' = [job EXCEPT ![e] = job[e]]
        BY <2>2, SetItself DEF Serve, Answer, IInv
      <3> QED
        BY <1>1, <2>2, <3>1 DEF Told
    <2> QED
      BY <2>1, <2>2
  <1>9. Chan(queue[e], server[e], reply[e]) /\ Phase(e, queue[e], server[e], reply[e], job[e]) /\ Shared
    BY DEF IInv, Local
  <1>10. Chan(Tail(queue[e]), t, w)
    BY <1>1, <1>2, <1>3, <1>4, <1>9, ServedChan, HandledBlank
  <1>11. Phase(e, Tail(queue[e]), t, w, k)
    BY <1>1, <1>2, <1>3, <1>4, <1>8, <1>9, ServedPhase
  <1>12. /\ raised' \in BOOLEAN /\ crashes' \in 0 .. MaxCrashes
         /\ restarts' \in 0 .. MaxRestarts /\ timeouts' \in 0 .. MaxTimeouts
         /\ timeouts > 0 => timeouts' > 0
    BY <1>2, BudgetTypes DEF IInv
  <1>13. (pc = "sample" /\ k.step = "rollout" /\ w = "error" /\ t.ready) => timeouts' > 0
    <2> SUFFICES ASSUME pc = "sample", k.step = "rollout", w = "error", t.ready
                 PROVE  timeouts > 0
      BY <1>2
    <2>0. k.step = job[e].step
      <3>1. Told(m, server[e], job[e], k) /\ job[e] \in Jobs
        BY <1>1, <1>8
      <3> QED
        BY <3>1 DEF Told, Jobs
    <2>1. Working(e, queue[e], server[e], reply[e], job[e]) /\ job[e].step = "rollout"
      BY <1>9, <2>0 DEF Phase
    <2>2. m.op = "rollout"
      BY <1>1, <1>2, <2>1, HeadFacts, <1>9 DEF Working, Perturbed
    <2>3. ok /\ server[e].ready
      BY <1>4, <2>2 DEF Effect
    <2>4. reply[e] = "error"
      BY <2>3 DEF Answered
    <2> QED
      BY <2>1, <2>3, <2>4 DEF IInv, Local, Excused
  <1> HIDE DEF w, t, ok, m
  <1> QED
    BY <1>2, <1>3, <1>5, <1>6, <1>7, <1>8, <1>10, <1>11, <1>12, <1>13, EndpointStep

\* The runner gives up on a request.
LEMMA TimeoutStep ==
    ASSUME IInv, NEW e \in Endpoints, Timeout(e)
    PROVE  IInv'
  <1>1. /\ queue[e] \in Queues /\ server[e] \in States /\ reply[e] \in Replies /\ job[e] \in Jobs
        /\ cur \in Endpoints
    BY EndpointTypes DEF IInv
  <1>2. /\ reply[e] = "pending" /\ timeouts < MaxTimeouts /\ timeouts' = timeouts + 1
        /\ UNCHANGED <<main, raised, crashes, restarts>>
        /\ queue' = [queue EXCEPT ![e] = Abandoned(queue[e])]
        /\ reply' = [reply EXCEPT ![e] = "error"]
        /\ server' = [server EXCEPT ![e] = server[e]] /\ job' = [job EXCEPT ![e] = job[e]]
    BY SetItself DEF Timeout, main, local, IInv
  <1>3. Chan(queue[e], server[e], reply[e]) /\ Phase(e, queue[e], server[e], reply[e], job[e])
    BY DEF IInv, Local
  <1>4. Chan(Abandoned(queue[e]), server[e], "error") /\ Abandoned(queue[e]) \in Queues
    BY <1>1, <1>3, AbandonedChan, AbandonedFacts
  <1>5. Phase(e, Abandoned(queue[e]), server[e], "error", job[e])
    BY <1>1, <1>2, <1>3, TimedOutPhase
  <1>6. /\ raised' \in BOOLEAN /\ crashes' \in 0 .. MaxCrashes
        /\ restarts' \in 0 .. MaxRestarts /\ timeouts' \in 0 .. MaxTimeouts /\ timeouts' > 0
    BY <1>2, BudgetTypes DEF IInv
  <1>7. "error" \in Replies
    BY DEF Replies
  <1> QED
    BY <1>1, <1>2, <1>4, <1>5, <1>6, <1>7, EndpointStep

\* A server dies and comes back.
LEMMA RestartStep ==
    ASSUME IInv, NEW e \in Endpoints, ServerRestart(e)
    PROVE  IInv'
  <1> DEFINE w == IF reply[e] = "pending" THEN "error" ELSE reply[e]
  <1>1. /\ queue[e] \in Queues /\ server[e] \in States /\ reply[e] \in Replies /\ job[e] \in Jobs
        /\ cur \in Endpoints /\ disk \in Logs
    BY EndpointTypes DEF IInv
  <1>2. /\ restarts < MaxRestarts /\ restarts' = restarts + 1
        /\ UNCHANGED <<main, raised, crashes, timeouts>>
        /\ queue' = [queue EXCEPT ![e] = <<>>] /\ server' = [server EXCEPT ![e] = Blank]
        /\ reply' = [reply EXCEPT ![e] = w] /\ job' = [job EXCEPT ![e] = job[e]]
    BY SetItself DEF ServerRestart, main, local, IInv
  <1>3. w \in Replies /\ w # "pending"
    BY <1>1 DEF Replies
  <1>4. Phase(e, queue[e], server[e], reply[e], job[e])
    BY DEF IInv, Local
  <1>5. Chan(<<>>, Blank, w) /\ Phase(e, <<>>, Blank, w, job[e])
    BY <1>1, <1>3, <1>4, RestartedChan, RestartedPhase
  <1>6. <<>> \in Queues /\ Blank \in States
    BY EmptySeq DEF Queues, Blank, States, Logs
  <1>7. /\ raised' \in BOOLEAN /\ crashes' \in 0 .. MaxCrashes
        /\ restarts' \in 0 .. MaxRestarts /\ timeouts' \in 0 .. MaxTimeouts
        /\ timeouts > 0 => timeouts' > 0
    BY <1>2, BudgetTypes DEF IInv
  <1>8. ~Blank.ready
    BY DEF Blank
  <1> HIDE DEF w
  <1> QED
    BY <1>1, <1>2, <1>3, <1>5, <1>6, <1>7, <1>8, EndpointStep

-------------------------------------------------------------------------------
(* Which endpoint evaluates which item, and which seeds a generation draws *)

\* Dividing by the number of endpoints.
LEMMA ModFacts ==
    ASSUME NEW n \in Nat \ {0}, NEW a \in Nat
    PROVE  /\ a % n \in 0 .. n - 1 /\ a \div n \in Nat /\ a = (a \div n) * n + (a % n)
           /\ a < n => a % n = a
  OBVIOUS

\* Two numbers of one residue less than a period apart are equal.
LEMMA SameResidue ==
    ASSUME NEW n \in Nat \ {0}, NEW k \in Nat, NEW l \in Nat, NEW r \in Nat,
           k * n + r <= l * n + r, l * n + r < k * n + r + n
    PROVE  k = l
  <1>1. ASSUME k + 1 <= l PROVE FALSE
    <2>1. (k + 1) * n <= l * n /\ (k + 1) * n = k * n + n
      BY <1>1
    <2> QED
      BY <2>1
  <1>2. ASSUME l + 1 <= k PROVE FALSE
    <2>1. (l + 1) * n <= k * n /\ (l + 1) * n = l * n + n
      BY <1>2
    <2> QED
      BY <2>1
  <1> QED
    BY <1>1, <1>2

\* A period on, the residue is the same.
LEMMA NextResidue ==
    ASSUME NEW n \in Nat \ {0}, NEW a \in Nat
    PROVE  (a + n) % n = a % n
  <1> DEFINE k == a \div n
             l == (a + n) \div n
  <1>0. a + n \in Nat
    OBVIOUS
  <1>a. k \in Nat /\ a = k * n + (a % n) /\ a % n \in 0 .. n - 1
    BY ModFacts
  <1>b. l \in Nat /\ a + n = l * n + ((a + n) % n) /\ (a + n) % n \in 0 .. n - 1
    BY <1>0, ModFacts
  <1>1. /\ k \in Nat /\ a = k * n + (a % n) /\ a % n \in 0 .. n - 1
        /\ l \in Nat /\ a + n = l * n + ((a + n) % n) /\ (a + n) % n \in 0 .. n - 1
    BY <1>a, <1>b
  <1> HIDE DEF k, l
  <1>2. ASSUME l <= k PROVE FALSE
    <2>1. l * n <= k * n
      BY <1>1, <1>2
    <2> QED
      BY <1>1, <2>1
  <1>3. ASSUME k + 2 <= l PROVE FALSE
    <2>1. (k + 2) * n <= l * n /\ (k + 2) * n = k * n + n + n
      BY <1>1, <1>3
    <2> QED
      BY <1>1, <2>1
  <1>4. l = k + 1
    BY <1>1, <1>2, <1>3
  <1>5. l * n = k * n + n
    BY <1>1, <1>4
  <1> QED
    BY <1>1, <1>5

\* The queues of map_endpoint_serial: every NEndpoints-th item, from item e on.
LEMMA OwnerFacts ==
    /\ \A i \in Nat \ {0} : Owner(i) \in Endpoints /\ Owner(i + NEndpoints) = Owner(i)
    /\ \A e \in Endpoints : Owner(e) = e
    /\ \A a, b \in Nat \ {0} : (Owner(a) = Owner(b) /\ a <= b /\ b < a + NEndpoints) => a = b
  <1>1. NEndpoints \in Nat \ {0}
    BY RunShape
  <1>2. ASSUME NEW i \in Nat \ {0}
        PROVE  Owner(i) \in Endpoints /\ Owner(i + NEndpoints) = Owner(i)
    <2>1. i - 1 \in Nat /\ (i + NEndpoints) - 1 = (i - 1) + NEndpoints
      BY <1>1
    <2>2. (i - 1) % NEndpoints \in 0 .. NEndpoints - 1
      BY <1>1, <2>1, ModFacts
    <2>3. ((i - 1) + NEndpoints) % NEndpoints = (i - 1) % NEndpoints
      BY <1>1, <2>1, NextResidue
    <2> QED
      BY <1>1, <2>1, <2>2, <2>3 DEF Owner, Endpoints
  <1>3. ASSUME NEW e \in Endpoints PROVE Owner(e) = e
    <2>1. e - 1 \in Nat /\ e - 1 < NEndpoints /\ (e - 1) + 1 = e
      BY <1>1 DEF Endpoints
    <2>2. (e - 1) % NEndpoints = e - 1
      BY <1>1, <2>1, ModFacts
    <2> QED
      BY <2>1, <2>2 DEF Owner
  <1>4. ASSUME NEW a \in Nat \ {0}, NEW b \in Nat \ {0}, Owner(a) = Owner(b), a <= b,
               b < a + NEndpoints
        PROVE  a = b
    <2> DEFINE k == (a - 1) \div NEndpoints
               l == (b - 1) \div NEndpoints
               r == (a - 1) % NEndpoints
    <2>1. a - 1 \in Nat /\ b - 1 \in Nat
      OBVIOUS
    <2>2. k \in Nat /\ r \in 0 .. NEndpoints - 1 /\ a - 1 = k * NEndpoints + r
      BY <1>1, <2>1, ModFacts
    <2>3. /\ l \in Nat /\ (b - 1) % NEndpoints \in 0 .. NEndpoints - 1
          /\ b - 1 = l * NEndpoints + ((b - 1) % NEndpoints)
      BY <1>1, <2>1, ModFacts
    <2>4. (b - 1) % NEndpoints = r
      BY <1>4, <2>2, <2>3 DEF Owner
    <2>5. b - 1 = l * NEndpoints + r /\ r \in Nat
      BY <1>1, <2>2, <2>3, <2>4
    <2> HIDE DEF k, l, r
    <2>6. k = l
      <3>1. k * NEndpoints \in Nat /\ l * NEndpoints \in Nat
        BY <1>1, <2>2, <2>3
      <3>2. /\ k * NEndpoints + r <= l * NEndpoints + r
            /\ l * NEndpoints + r < k * NEndpoints + r + NEndpoints
        BY <1>1, <1>4, <2>2, <2>5, <3>1
      <3> QED
        BY <1>1, <2>2, <2>3, <2>5, <3>2, SameResidue
    <2> QED
      BY <2>1, <2>2, <2>5, <2>6
  <1> QED
    BY <1>2, <1>3, <1>4

\* The seeds of a generation that is still to be done are in the run's range.
LEMMA DrawnTypes ==
    ASSUME NEW done \in Nat, done < Generations
    PROVE  /\ Drawn(done * Population) \in [Items -> SeedRange]
           /\ done * Population \in Nat
           /\ done * Population + Population = (done + 1) * Population
           /\ (done + 1) * Population \in Nat
  <1>1. Population \in Nat \ {0} /\ Generations \in Nat \ {0}
    BY RunShape
  <1>2. /\ (done + 1) * Population <= Population * Generations
        /\ (done + 1) * Population = done * Population + Population
        /\ done * Population \in Nat /\ Population * Generations \in Nat
    <2>1. (done + 1) * Population <= Generations * Population
      BY <1>1
    <2> QED
      BY <1>1, <2>1
  <1> DEFINE n == done * Population
  <1>3. n \in Nat /\ n + Population <= Population * Generations /\ n + Population = (done + 1) * Population
    BY <1>1, <1>2
  <1> HIDE DEF n
  <1>4. \A i \in Items : n + i \in SeedRange
    BY <1>1, <1>2, <1>3 DEF Items, SeedRange
  <1>5. Drawn(n) \in [Items -> SeedRange]
    BY <1>4 DEF Drawn
  <1> QED
    BY <1>1, <1>3, <1>5 DEF n

-------------------------------------------------------------------------------
(* Requests *)

\* A request is posted where main() or a worker waits for none.
LEMMA PostStep ==
    ASSUME IInv, NEW e \in Endpoints, NEW op, NEW arg, Request(op, arg) \in Requests,
           reply[e] = "none", Post(e, op, arg),
           UNCHANGED <<main, server, job, raised, crashes, restarts, timeouts>>,
           op = "update" =>
              /\ queue[e] = <<>>
              /\ server[e].ready =>
                    /\ Len(server[e].log) <= Len(disk)
                    /\ Len(server[e].log) < Len(disk) => arg = disk[Len(server[e].log) + 1],
           Phase(e, Append(queue[e], Request(op, arg)), server[e], "pending", job[e])
    PROVE  IInv'
  <1> DEFINE m == Request(op, arg)
  <1>1. /\ queue[e] \in Queues /\ server[e] \in States /\ job[e] \in Jobs /\ disk \in Logs
        /\ "pending" \in Replies
    BY EndpointTypes DEF IInv, Replies
  <1>2. m.live /\ m.op = op /\ m.arg = arg
    BY DEF Request
  <1>3. Chan(queue[e], server[e], "none")
    BY DEF IInv, Local
  <1>4. Chan(Append(queue[e], m), server[e], "pending")
    BY <1>1, <1>2, <1>3, PostedChan
  <1>5. Append(queue[e], m) \in Queues
    BY <1>1, AppendFacts
  <1>6. /\ queue' = [queue EXCEPT ![e] = Append(queue[e], m)]
        /\ reply' = [reply EXCEPT ![e] = "pending"]
        /\ server' = [server EXCEPT ![e] = server[e]] /\ job' = [job EXCEPT ![e] = job[e]]
    BY SetItself DEF Post, IInv
  <1>7. /\ raised' \in BOOLEAN /\ crashes' \in 0 .. MaxCrashes
        /\ restarts' \in 0 .. MaxRestarts /\ timeouts' \in 0 .. MaxTimeouts
    BY BudgetTypes DEF IInv
  <1> HIDE DEF m
  <1> QED
    BY <1>1, <1>4, <1>5, <1>6, <1>7, EndpointStep DEF m

\* A backlog of one request that was posted into an empty one.
LEMMA OnlyRequest ==
    ASSUME NEW m \in Requests, NEW q, q = <<>>
    PROVE  Append(q, m) = <<m>> /\ LastOf(Append(q, m)) = m
  <1>1. <<>> \in Queues
    BY EmptyBacklog
  <1> QED
    BY <1>1, AppendFacts

\* Which requests there are.
LEMMA RequestTypes ==
    /\ Request("init", None) \in Requests
    /\ \A op \in {"apply", "revert", "rollout"}, seed \in SeedRange : Request(op, seed) \in Requests
    /\ \A record \in UpdateRecords : Request("update", record) \in Requests
  BY DEF Request, Requests

\* main() initialises an endpoint behind whatever its backlog holds.
LEMMA InitPostStep == IInv /\ InitPost => IInv'
  <1> SUFFICES ASSUME IInv, InitPost PROVE IInv'
    OBVIOUS
  <1>1. /\ pc = "init" /\ reply[cur] = "none" /\ Post(cur, "init", None)
        /\ UNCHANGED <<main, server, job, raised, crashes, restarts, timeouts>>
    BY DEF InitPost, main, local, budget
  <1>2. cur \in Endpoints /\ queue[cur] \in Queues
    BY EndpointTypes DEF IInv, TypeOK
  <1>3. LastOf(Append(queue[cur], Request("init", None))) = Request("init", None)
    BY <1>2, AppendFacts, RequestTypes
  <1>4. ~(cur < cur)
    BY <1>2 DEF Endpoints
  <1>5. Phase(cur, Append(queue[cur], Request("init", None)), server[cur], "pending", job[cur])
    BY <1>1, <1>3, <1>4 DEF Phase, Clearing
  <1> QED
    BY <1>1, <1>2, <1>5, RequestTypes, PostStep

\* main() replays a record of history.json on an endpoint that lacks it.
LEMMA ReplayPostStep == IInv /\ ReplayPost => IInv'
  <1> SUFFICES ASSUME IInv, ReplayPost PROVE IInv'
    OBVIOUS
  <1>1. /\ pc = "replay" /\ reply[cur] = "none" /\ Post(cur, "update", mem[rec])
        /\ UNCHANGED <<main, server, job, raised, crashes, restarts, timeouts>>
    BY DEF ReplayPost, main, local, budget
  <1>2. cur \in Endpoints /\ mem \in Logs /\ ~(cur < cur)
    BY EndpointTypes DEF IInv, TypeOK, Endpoints
  <1>3. rec \in 1 .. Len(mem) /\ mem = disk
    BY <1>1 DEF IInv, Shared
  <1>4. Phase(cur, queue[cur], server[cur], reply[cur], job[cur])
    BY <1>2 DEF IInv, Local
  <1>5. queue[cur] = <<>> /\ At(server[cur], SubSeq(mem, 1, rec - 1))
    BY <1>1, <1>4 DEF Phase, Replaying, Asking
  <1>6. mem[rec] \in UpdateRecords /\ Len(SubSeq(mem, 1, rec - 1)) = rec - 1 /\ Len(mem) \in Nat
    BY <1>2, <1>3, PrefixNext DEF Logs
  <1>7. Request("update", mem[rec]) \in Requests
    BY <1>6, RequestTypes
  <1>8. server[cur].ready => /\ Len(server[cur].log) <= Len(disk)
                             /\ mem[rec] = disk[Len(server[cur].log) + 1]
    BY <1>3, <1>5, <1>6 DEF At
  <1>9. Append(queue[cur], Request("update", mem[rec])) = <<Request("update", mem[rec])>>
    BY <1>5, <1>7, OnlyRequest
  <1>10. Phase(cur, Append(queue[cur], Request("update", mem[rec])), server[cur], "pending", job[cur])
    BY <1>1, <1>2, <1>5, <1>9 DEF Phase, Replaying, Asking
  <1> QED
    BY <1>1, <1>2, <1>5, <1>7, <1>8, <1>10, PostStep

\* A generation that is done makes a record.
LEMMA NewRecordType ==
    ASSUME TypeOK, Shared, pc \in {"update", "persist"}
    PROVE  NewRecord \in UpdateRecords
  <1>1. Len(mem) < Generations /\ seeds = Drawn(Len(mem) * Population) /\ Len(mem) \in Nat
        /\ \A i \in Items : rewards[i] # None
    BY DEF Shared, TypeOK
  <1>2. seeds \in [Items -> SeedRange]
    BY <1>1, DrawnTypes
  <1>3. rewards \in [Items -> Nat]
    BY <1>1 DEF TypeOK
  <1> QED
    BY <1>2, <1>3 DEF NewRecord, UpdateRecords

\* main() sends the generation's update to an endpoint that is at history.json.
LEMMA UpdatePostStep == IInv /\ UpdatePost => IInv'
  <1> SUFFICES ASSUME IInv, UpdatePost PROVE IInv'
    OBVIOUS
  <1>1. /\ pc = "update" /\ reply[cur] = "none" /\ Post(cur, "update", NewRecord)
        /\ UNCHANGED <<main, server, job, raised, crashes, restarts, timeouts>>
    BY DEF UpdatePost, main, local, budget
  <1>2. cur \in Endpoints /\ mem \in Logs /\ ~(cur < cur)
    BY EndpointTypes DEF IInv, TypeOK, Endpoints
  <1>3. mem = disk
    BY <1>1 DEF IInv, Shared
  <1>4. Phase(cur, queue[cur], server[cur], reply[cur], job[cur])
    BY <1>2 DEF IInv, Local
  <1>5. queue[cur] = <<>> /\ At(server[cur], mem)
    BY <1>1, <1>4 DEF Phase, Updating, Asking
  <1>6. NewRecord \in UpdateRecords
    BY <1>1, NewRecordType DEF IInv
  <1>7. Request("update", NewRecord) \in Requests
    BY <1>6, RequestTypes
  <1>8. server[cur].ready => /\ Len(server[cur].log) <= Len(disk)
                             /\ ~(Len(server[cur].log) < Len(disk))
    BY <1>2, <1>3, <1>5 DEF At, Logs
  <1>9. Append(queue[cur], Request("update", NewRecord)) = <<Request("update", NewRecord)>>
    BY <1>5, <1>7, OnlyRequest
  <1>10. Phase(cur, Append(queue[cur], Request("update", NewRecord)), server[cur], "pending", job[cur])
    BY <1>1, <1>2, <1>4, <1>5, <1>9 DEF Phase, Updating, Asking
  <1> QED
    BY <1>1, <1>2, <1>5, <1>7, <1>8, <1>10, PostStep

\* A worker posts its next request, about its own item.
LEMMA WorkerPostStep ==
    ASSUME IInv, NEW e \in Endpoints, WorkerPost(e)
    PROVE  IInv'
  <1> DEFINE j == job[e]
             seed == seeds[j.item]
             m == Request(j.step, seed)
             p == Append(queue[e], m)
  <1>1. /\ pc = "sample" /\ reply[e] = "none" /\ j.step \in {"apply", "rollout", "revert"}
        /\ Post(e, j.step, seed)
        /\ UNCHANGED <<main, server, job, raised, crashes, restarts, timeouts>>
    BY DEF WorkerPost, main, local, budget
  <1>2. queue[e] \in Queues
    BY EndpointTypes DEF IInv
  <1>3. Working(e, queue[e], server[e], reply[e], j)
    BY <1>1 DEF IInv, Local, Phase
  <1>4. seed \in SeedRange
    <2>1. j.item \in Items
      BY <1>1, <1>3 DEF Working
    <2>2. Len(mem) \in Nat /\ Len(mem) < Generations /\ seeds = Drawn(Len(mem) * Population)
      BY <1>1 DEF IInv, Shared, TypeOK
    <2>3. seeds \in [Items -> SeedRange]
      BY <2>2, DrawnTypes
    <2> QED
      BY <2>1, <2>3
  <1>5. m \in Requests
    BY <1>1, <1>4, RequestTypes
  <1>6. /\ Len(p) = Len(queue[e]) + 1 /\ Len(queue[e]) \in Nat
        /\ \A i \in 1 .. Len(queue[e]) : p[i] = queue[e][i]
        /\ p[Len(queue[e]) + 1] = m /\ LastOf(p) = m
        /\ queue[e] = <<>> => p = <<m>>
    BY <1>2, <1>5, AppendFacts
  <1>7. m.op = j.step /\ m.arg = seed
    BY DEF Request
  <1>8. OfItem(p, seed)
    <2> SUFFICES ASSUME NEW i \in 1 .. Len(p)
                 PROVE  p[i].op \in {"apply", "rollout", "revert"} /\ p[i].arg = seed
      BY DEF OfItem
    <2>1. CASE i \in 1 .. Len(queue[e])
      BY <1>3, <1>6, <2>1 DEF Working, OfItem
    <2>2. CASE i = Len(queue[e]) + 1
      BY <1>1, <1>6, <1>7, <2>2
    <2> QED
      BY <1>6, <2>1, <2>2
  <1>9. Perturbed(p, server[e], "pending", j, seed)
    <2>1. Perturbed(queue[e], server[e], "none", j, seed)
      BY <1>1, <1>3 DEF Working
    <2>2. j.step = "apply" => p = <<m>>
      BY <1>6, <2>1 DEF Perturbed
    <2>3. j.step = "rollout" => \A i \in 1 .. Len(p) : p[i].op = "rollout"
      <3> SUFFICES ASSUME j.step = "rollout", NEW i \in 1 .. Len(p) PROVE p[i].op = "rollout"
        OBVIOUS
      <3>1. CASE i \in 1 .. Len(queue[e])
        BY <1>6, <2>1, <3>1 DEF Perturbed
      <3>2. CASE i = Len(queue[e]) + 1
        BY <1>6, <1>7, <3>2
      <3> QED
        BY <1>6, <3>1, <3>2
    <2> HIDE DEF p, j, seed
    <2> QED
      BY <1>1, <1>6, <2>1, <2>2, <2>3 DEF Perturbed, m
  <1>10. Measured(server[e], "pending", j, seed)
    BY <1>1, <1>3 DEF Working, Measured
  <1>11. Working(e, p, server[e], "pending", j)
    BY <1>3, <1>8, <1>9, <1>10 DEF Working
  <1>12. Phase(e, p, server[e], "pending", j)
    BY <1>1, <1>11 DEF Phase
  <1> QED
    BY <1>1, <1>5, <1>12, PostStep

-------------------------------------------------------------------------------
(* A worker moves on *)

\* A worker that has taken an answer goes to its next step, k.
LEMMA MoveStep ==
    ASSUME IInv, NEW e \in Endpoints, NEW k \in Jobs, pc = "sample",
           reply[e] \in {"ok", "error"}, Consume(e), job' = [job EXCEPT ![e] = k],
           UNCHANGED <<main, queue, server, raised, crashes, restarts, timeouts>>,
           Working(e, queue[e], server[e], "none", k)
    PROVE  IInv'
  <1>1. queue[e] \in Queues /\ server[e] \in States /\ "none" \in Replies
    BY EndpointTypes DEF IInv, Replies
  <1>2. Chan(queue[e], server[e], "none")
    BY ConsumedChan DEF IInv, Local
  <1>3. Phase(e, queue[e], server[e], "none", k)
    BY DEF Phase
  <1>4. /\ queue' = [queue EXCEPT ![e] = queue[e]] /\ server' = [server EXCEPT ![e] = server[e]]
        /\ reply' = [reply EXCEPT ![e] = "none"]
    BY SetItself DEF Consume, IInv
  <1>5. /\ raised' \in BOOLEAN /\ crashes' \in 0 .. MaxCrashes
        /\ restarts' \in 0 .. MaxRestarts /\ timeouts' \in 0 .. MaxTimeouts
    BY BudgetTypes DEF IInv
  <1> QED
    BY <1>1, <1>2, <1>3, <1>4, <1>5, EndpointStep

\* What the moves of a worker have in common.
LEMMA WorkerFacts ==
    ASSUME IInv, NEW e \in Endpoints, pc = "sample"
    PROVE  /\ job[e] \in Jobs
           /\ Working(e, queue[e], server[e], reply[e], job[e])
           /\ reply[e] = "ok" => queue[e] = <<>>
           /\ \A step : job' = [job EXCEPT ![e].step = step] =>
                           job' = [job EXCEPT ![e] = [job[e] EXCEPT !.step = step]]
  <1>1. job[e] \in Jobs
    BY EndpointTypes DEF IInv
  <1>2. Working(e, queue[e], server[e], reply[e], job[e])
    BY DEF IInv, Local, Phase
  <1>3. reply[e] = "ok" => queue[e] = <<>>
    BY DEF IInv, Local, Chan
  <1> QED
    BY <1>1, <1>2, <1>3

\* The perturbation is in place, or the sample fails.
LEMMA AppliedStep ==
    ASSUME IInv, NEW e \in Endpoints, WorkerApplied(e)
    PROVE  IInv'
  <1> DEFINE step == IF reply[e] = "ok" THEN "rollout" ELSE "raised"
             k == [job[e] EXCEPT !.step = step]
  <1>1. /\ pc = "sample" /\ job[e].step = "apply" /\ reply[e] \in {"ok", "error"} /\ Consume(e)
        /\ job' = [job EXCEPT ![e].step = step]
        /\ UNCHANGED <<main, queue, server, raised, crashes, restarts, timeouts>>
    BY DEF WorkerApplied, Becomes, main, budget
  <1>2. /\ job[e] \in Jobs
        /\ Working(e, queue[e], server[e], reply[e], job[e])
        /\ reply[e] = "ok" => queue[e] = <<>>
        /\ job' = [job EXCEPT ![e] = k]
    BY <1>1, WorkerFacts
  <1>3. /\ k \in Jobs /\ k.item = job[e].item /\ k.answers = job[e].answers
        /\ k.step = step /\ step \in {"rollout", "raised"}
        /\ step = "rollout" => reply[e] = "ok" /\ queue[e] = <<>>
    BY <1>1, <1>2 DEF Jobs
  <1>4. Perturbed(queue[e], server[e], "none", k, seeds[k.item])
    BY <1>1, <1>2, <1>3, EmptyBacklog DEF Working, Perturbed
  <1>5. Measured(server[e], "none", k, seeds[k.item])
    <2>1. k.answers = <<>>
      BY <1>1, <1>2, <1>3 DEF Working, Measured
    <2> QED
      BY <1>3, <2>1, EmptySeq, RunShape DEF Measured, Within
  <1>6. Collected(e, server[e], k)
    BY <1>1, <1>2, <1>3 DEF Working, Collected
  <1>7. Working(e, queue[e], server[e], "none", k)
    BY <1>1, <1>2, <1>3, <1>4, <1>5, <1>6 DEF Working
  <1> HIDE DEF k
  <1> QED
    BY <1>1, <1>2, <1>3, <1>7, MoveStep

\* A completion is over, also one that failed: another follows, or revert.
LEMMA RolledOutStep ==
    ASSUME Scored, IInv, NEW e \in Endpoints, WorkerRolledOut(e)
    PROVE  IInv'
  <1> DEFINE answers == IF reply[e] = "ok" THEN job[e].answers ELSE Append(job[e].answers, Failed)
             seed == seeds[job[e].item]
  <1>1. /\ pc = "sample" /\ job[e].step = "rollout" /\ reply[e] \in {"ok", "error"} /\ Consume(e)
        /\ UNCHANGED <<main, queue, server, raised, crashes, restarts, timeouts>>
    BY DEF WorkerRolledOut, main, budget
  <1>2. /\ job[e] \in Jobs
        /\ Working(e, queue[e], server[e], reply[e], job[e])
        /\ reply[e] = "ok" => queue[e] = <<>>
    BY <1>1, WorkerFacts
  <1>3. job[e].answers \in Seq(Nat) /\ Failed \in Nat
    BY <1>2 DEF Jobs, Failed
  <1>4. /\ answers \in Seq(Nat) /\ Len(answers) \in 1 .. MaxRequests
        /\ server[e].ready => Within(answers, Possible(disk, seed))
    <2>1. Measured(server[e], reply[e], job[e], seed)
      BY <1>2 DEF Working
    <2>2. CASE reply[e] = "ok"
      BY <1>1, <1>3, <2>1, <2>2 DEF Measured
    <2>3. CASE reply[e] = "error"
      <3>1. answers = Append(job[e].answers, Failed)
        BY <2>3
      <3>2. server[e].ready => Failed \in Possible(disk, seed)
        BY <1>1, <2>3 DEF IInv, Local, Excused, Possible
      <3>3. Len(job[e].answers) < MaxRequests
            /\ (server[e].ready => Within(job[e].answers, Possible(disk, seed)))
        BY <1>1, <2>1, <2>3 DEF Measured
      <3> HIDE DEF answers
      <3>4. /\ answers \in Seq(Nat) /\ Len(answers) = Len(job[e].answers) + 1
            /\ Len(job[e].answers) \in Nat
            /\ server[e].ready => Within(answers, Possible(disk, seed))
        BY <1>3, <3>1, <3>2, <3>3, AnswersAppend
      <3> QED
        BY <3>3, <3>4, RunShape
    <2> QED
      BY <1>1, <2>2, <2>3
  <1>5. PICK step \in {"revert", "rollout"} :
            /\ job' = [job EXCEPT ![e] = [job[e] EXCEPT !.answers = answers, !.step = step]]
            /\ step = "rollout" => Len(answers) < MaxRequests
    <2> HIDE DEF answers
    <2>1. job \in [Endpoints -> Jobs]
      BY DEF IInv, TypeOK, Jobs
    <2>2. CASE job' = [job EXCEPT ![e].answers = answers, ![e].step = "revert"]
      <3>1. job' = [job EXCEPT ![e] = [job[e] EXCEPT !.answers = answers, !.step = "revert"]]
        BY <2>1, <2>2 DEF Jobs
      <3> QED
        BY <3>1
    <2>3. CASE Len(answers) < MaxRequests /\ job' = [job EXCEPT ![e].answers = answers]
      <3>1. job' = [job EXCEPT ![e] = [job[e] EXCEPT !.answers = answers, !.step = "rollout"]]
        BY <1>1, <2>1, <2>3 DEF Jobs
      <3> QED
        BY <2>3, <3>1
    <2> QED
      BY <2>2, <2>3 DEF WorkerRolledOut, answers
  <1> DEFINE k == [job[e] EXCEPT !.answers = answers, !.step = step]
  <1> HIDE DEF answers
  <1>6. k \in Jobs /\ k.item = job[e].item /\ k.answers = answers /\ k.step = step
    BY <1>2, <1>4 DEF Jobs
  <1> HIDE DEF k
  <1>7. Perturbed(queue[e], server[e], "none", k, seed)
    BY <1>1, <1>2, <1>6 DEF Working, Perturbed
  <1>8. Measured(server[e], "none", k, seed)
    BY <1>4, <1>5, <1>6 DEF Measured
  <1>9. Collected(e, server[e], k)
    BY <1>1, <1>2, <1>6 DEF Working, Collected
  <1>10. Working(e, queue[e], server[e], "none", k)
    BY <1>1, <1>2, <1>6, <1>7, <1>8, <1>9 DEF Working
  <1>11. job' = [job EXCEPT ![e] = k]
    BY <1>5 DEF k
  <1> QED
    BY <1>1, <1>6, <1>10, <1>11, MoveStep

\* The perturbation is taken off, or the sample fails, or revert is tried again.
LEMMA RevertedStep ==
    ASSUME IInv, NEW e \in Endpoints, WorkerReverted(e)
    PROVE  IInv'
  <1>1. /\ pc = "sample" /\ job[e].step = "revert" /\ reply[e] \in {"ok", "error"} /\ Consume(e)
        /\ UNCHANGED <<main, queue, server, raised, crashes, restarts, timeouts>>
    BY DEF WorkerReverted, main, budget
  <1>2. /\ job[e] \in Jobs
        /\ Working(e, queue[e], server[e], reply[e], job[e])
        /\ reply[e] = "ok" => queue[e] = <<>>
        /\ \A step : job' = [job EXCEPT ![e].step = step] =>
                        job' = [job EXCEPT ![e] = [job[e] EXCEPT !.step = step]]
    BY <1>1, WorkerFacts
  <1>3. CASE \/ reply[e] = "ok"
             \/ reply[e] = "error" /\ ~(job[e].tries + 1 < RevertAttempts)
    <2> DEFINE step == IF reply[e] = "ok" THEN "returned" ELSE "raised"
               k == [job[e] EXCEPT !.step = step]
    <2>1. job' = [job EXCEPT ![e].step = step]
      BY <1>1, <1>3 DEF WorkerReverted, Becomes
    <2>2. job' = [job EXCEPT ![e] = k]
      BY <1>2, <2>1
    <2>3. /\ k \in Jobs /\ k.item = job[e].item /\ k.answers = job[e].answers
          /\ k.step = step /\ step \in {"returned", "raised"}
          /\ step = "returned" => reply[e] = "ok"
      BY <1>2 DEF Jobs
    <2> HIDE DEF k, step
    <2>4. Perturbed(queue[e], server[e], "none", k, seeds[k.item])
      BY <1>1, <1>2, <2>3 DEF Working, Perturbed
    <2>5. Measured(server[e], "none", k, seeds[k.item])
      BY <1>1, <1>2, <2>3 DEF Working, Measured
    <2>6. Collected(e, server[e], k)
      BY <1>1, <1>2, <2>3 DEF Working, Collected
    <2>7. Working(e, queue[e], server[e], "none", k)
      BY <1>1, <1>2, <2>3, <2>4, <2>5, <2>6 DEF Working
    <2> QED
      BY <1>1, <2>2, <2>3, <2>7, MoveStep
  <1>4. CASE reply[e] = "error" /\ job[e].tries + 1 < RevertAttempts
    <2> DEFINE k == [job[e] EXCEPT !.tries = @ + 1]
    <2>1. job' = [job EXCEPT ![e] = k]
      <3>1. job' = [job EXCEPT ![e].tries = @ + 1]
        BY <1>1, <1>4 DEF WorkerReverted
      <3> QED
        BY <3>1
    <2>2. job[e].tries + 1 \in 0 .. RevertAttempts
      BY <1>2, <1>4, RunShape DEF Jobs
    <2>3. /\ k \in Jobs /\ k.item = job[e].item /\ k.answers = job[e].answers /\ k.step = "revert"
      BY <1>1, <1>2, <2>2 DEF Jobs
    <2> HIDE DEF k
    <2>4. Perturbed(queue[e], server[e], "none", k, seeds[k.item])
      BY <1>1, <1>2, <2>3 DEF Working, Perturbed
    <2>5. Measured(server[e], "none", k, seeds[k.item])
      BY <1>1, <1>2, <2>3 DEF Working, Measured
    <2>6. Collected(e, server[e], k)
      BY <1>1, <1>2, <2>3 DEF Working, Collected
    <2>7. Working(e, queue[e], server[e], "none", k)
      BY <1>1, <1>2, <2>3, <2>4, <2>5, <2>6 DEF Working
    <2> QED
      BY <1>1, <2>1, <2>3, <2>7, MoveStep
  <1> QED
    BY <1>1, <1>3, <1>4

-------------------------------------------------------------------------------
(* The steps of main() *)

\* Where main() only takes answers, the backlogs stay what they are.
LEMMA ChanSame ==
    ASSUME NEW e, Chan(queue[e], server[e], reply[e]),
           queue'[e] = queue[e], server'[e] = server[e], disk' = disk,
           \/ reply'[e] = reply[e]
           \/ reply[e] \in {"ok", "error"} /\ reply'[e] = "none"
    PROVE  Chan(queue[e], server[e], reply[e])'
  <1>1. Chan(queue[e], server[e], reply'[e])
    BY ConsumedChan
  <1> QED
    BY <1>1 DEF Chan, Ahead

\* main() dies, and with it all it knew.
LEMMA DieStep ==
    ASSUME IInv, Die, UNCHANGED <<disk, server>>,
           crashes' \in 0 .. MaxCrashes, restarts' \in 0 .. MaxRestarts,
           timeouts' \in 0 .. MaxTimeouts
    PROVE  IInv'
  <1>1. TypeOK
    BY DEF IInv
  <1>2. \A e \in Endpoints : queue[e] \in Queues /\ server[e] \in States
    BY <1>1, EndpointTypes
  <1>3. queue' \in [Endpoints -> Queues]
    <2>1. \A e \in Endpoints : Abandoned(queue[e]) \in Queues
      BY <1>2, AbandonedFacts
    <2> QED
      BY <2>1 DEF Die
  <1>4. <<>> \in Logs
    BY EmptySeq DEF Logs
  <1>5. 1 \in Endpoints
    BY RunShape DEF Endpoints
  <1>6. rewards' \in [Items -> Nat \cup {None}]
    BY DEF Die, NoRewards
  <1>7. job' \in [Endpoints -> Jobs]
    <2>1. NoJob \in Jobs
      BY RunShape DEF NoJob, Jobs
    <2> QED
      BY <2>1 DEF Die
  <1>8. reply' \in [Endpoints -> Replies]
    BY DEF Die, Replies
  <1>9. TypeOK'
    <2>1. pc' = "down" /\ cur' = 1 /\ rec' = 1 /\ mem' = <<>> /\ rng' = 0 /\ seeds' = <<>> /\ raised' = FALSE
      BY DEF Die
    <2>2. disk' \in Logs /\ mem' \in Logs /\ server' \in [Endpoints -> States]
      BY <1>1, <1>4, <2>1 DEF TypeOK, States, Logs
    <2>3. cur' \in Endpoints /\ rec' \in Nat \ {0} /\ rng' \in Nat
      BY <1>5, <2>1
    <2>5. raised' \in BOOLEAN
      BY <2>1, Zenon
    <2>4. seeds' \in {<<>>} \cup [Items -> SeedRange]
      BY <2>1
    <2> QED
      BY <1>3, <1>6, <1>7, <1>8, <2>1, <2>2, <2>3, <2>4, <2>5
      DEF TypeOK, Queues, Jobs, Replies, Logs, States
  <1>10. Shared'
    BY DEF Die, Shared
  <1>11. ASSUME NEW e \in Endpoints PROVE Local(e)'
    <2>1. queue'[e] = Abandoned(queue[e]) /\ reply'[e] = "none" /\ pc' = "down"
      BY <1>11 DEF Die
    <2>2. Chan(queue[e], server[e], reply[e])
      BY DEF IInv, Local
    <2>3. Chan(Abandoned(queue[e]), server[e], "none")
      BY <1>2, <2>2, AbandonedChan
    <2>4. Chan(queue[e], server[e], reply[e])'
      BY <2>1, <2>3 DEF Chan, Ahead
    <2> QED
      BY <2>1, <2>4 DEF Local, Phase, Excused
  <1> QED
    BY <1>9, <1>10, <1>11 DEF IInv

\* A kill, a failed request of main() and the exit of a pool that raised.
LEMMA DeathStep ==
    ASSUME IInv, Crash \/ MainFails \/ PoolExit
    PROVE  IInv'
  <1>1. Die /\ UNCHANGED <<disk, server>>
    BY DEF Crash, MainFails, PoolExit
  <1>2. crashes' \in 0 .. MaxCrashes /\ restarts' \in 0 .. MaxRestarts /\ timeouts' \in 0 .. MaxTimeouts
    BY BudgetTypes DEF Crash, MainFails, PoolExit, budget, IInv
  <1> QED
    BY <1>1, <1>2, DieStep

\* What main() leaves alone when it only moves on.
unmoved == <<queue, server, job, raised, crashes, restarts, timeouts>>

\* The operator starts a run.
LEMMA LaunchStep == IInv /\ Launch => IInv'
  <1> SUFFICES ASSUME IInv, Launch PROVE IInv'
    OBVIOUS
  <1>1. /\ pc = "down" /\ pc' = "init"
        /\ UNCHANGED <<unmoved, reply, disk, cur, rec, mem, rng, seeds, rewards>>
    BY DEF Launch, local, budget, unmoved
  <1>2. TypeOK'
    BY <1>1 DEF IInv, TypeOK, unmoved
  <1>3. Shared /\ cur = 1 /\ rec = 1
    BY <1>1 DEF IInv, Shared
  <1>4. Shared'
    BY <1>1, <1>3 DEF Shared
  <1>5. ASSUME NEW e \in Endpoints PROVE Local(e)'
    <2>1. Local(e) /\ reply[e] = "none"
      BY <1>1 DEF IInv, Local, Phase
    <2>2. Chan(queue[e], server[e], reply[e])'
      BY <1>1, <2>1, ChanSame DEF Local, unmoved
    <2>3. ~(e < cur)
      BY <1>3 DEF Endpoints
    <2> QED
      BY <1>1, <2>1, <2>2, <2>3 DEF Local, Phase, Excused, Clearing
  <1> QED
    BY <1>2, <1>4, <1>5 DEF IInv

\* The reply main() has waited for is taken, the others stay.
LEMMA ConsumeFacts ==
    ASSUME TypeOK, Consume(cur)
    PROVE  /\ reply' \in [Endpoints -> {"none", "pending", "ok", "error"}]
           /\ reply'[cur] = "none"
           /\ \A e \in Endpoints : e # cur => reply'[e] = reply[e]
  BY DEF Consume, TypeOK

\* Endpoint numbers: the next one, and the first.
LEMMA EndpointOrder ==
    ASSUME NEW c \in Endpoints
    PROVE  /\ c < NEndpoints => c + 1 \in Endpoints
           /\ 1 \in Endpoints
           /\ \A e \in Endpoints : /\ e < c + 1 <=> (e < c \/ e = c)
                                   /\ e > c + 1 => e > c
                                   /\ e = c + 1 => e > c
                                   /\ ~(e < 1) /\ (e = 1 \/ e > 1)
                                   /\ ~(c < NEndpoints) => (e < c \/ e = c)
                                   /\ e # c => e < c \/ e > c
                                   /\ ~(c < c) /\ ~(c > c)
  BY RunShape DEF Endpoints

\* An endpoint has answered init: it is empty, unperturbed and without updates.
LEMMA InitDoneStep == IInv /\ InitDone => IInv'
  <1> SUFFICES ASSUME IInv, InitDone PROVE IInv'
    OBVIOUS
  <1>1. /\ pc = "init" /\ reply[cur] = "ok" /\ Consume(cur)
        /\ UNCHANGED <<unmoved, disk, rec, mem, rng, seeds, rewards>>
        /\ cur < NEndpoints => cur' = cur + 1 /\ pc' = "init"
        /\ ~(cur < NEndpoints) => cur' = 1 /\ pc' = "load"
    BY DEF InitDone, budget, unmoved
  <1>2. TypeOK /\ cur \in Endpoints /\ rec = 1
    BY <1>1 DEF IInv, TypeOK, Shared
  <1>3. /\ reply' \in [Endpoints -> {"none", "pending", "ok", "error"}] /\ reply'[cur] = "none"
        /\ \A e \in Endpoints : e # cur => reply'[e] = reply[e]
    BY <1>1, <1>2, ConsumeFacts
  <1>4. cur' \in Endpoints /\ pc' \in {"init", "load"}
    BY <1>1, <1>2, EndpointOrder
  <1>5. TypeOK'
    BY <1>1, <1>2, <1>3, <1>4 DEF TypeOK, unmoved
  <1>6. Shared'
    BY <1>1, <1>2 DEF Shared
  <1>7. ASSUME NEW e \in Endpoints PROVE Local(e)'
    <2>1. Chan(queue[e], server[e], reply[e]) /\ Phase(e, queue[e], server[e], reply[e], job[e])
      BY DEF IInv, Local
    <2>2. Chan(queue[e], server[e], reply[e])'
      BY <1>1, <1>3, <2>1, ChanSame DEF unmoved
    <2>3. (e < cur \/ e = cur) => Idle(queue[e], server[e], reply'[e], <<>>)
      BY <1>1, <1>2, <1>3, <2>1, EndpointOrder DEF Phase, Clearing, Chan, Idle
    <2>4. e > cur => reply'[e] = "none"
      BY <1>1, <1>2, <1>3, <2>1, EndpointOrder DEF Phase
    <2>5. CASE cur < NEndpoints
      <3>1. e < cur' => Idle(queue'[e], server'[e], reply'[e], <<>>)
        BY <1>1, <1>2, <2>3, <2>5, EndpointOrder DEF unmoved
      <3>2. (e > cur' \/ e = cur') => reply'[e] = "none"
        BY <1>1, <1>2, <2>4, <2>5, EndpointOrder
      <3> QED
        BY <1>1, <2>2, <2>5, <3>1, <3>2 DEF Local, Phase, Excused, Clearing, Idle, At
    <2>6. CASE ~(cur < NEndpoints)
      <3>1. Idle(queue'[e], server'[e], reply'[e], <<>>)
        BY <1>1, <1>2, <2>3, <2>6, EndpointOrder DEF unmoved
      <3> QED
        BY <1>1, <2>2, <2>6, <3>1 DEF Local, Phase, Excused, Idle, At
    <2> QED
      BY <2>5, <2>6
  <1> QED
    BY <1>5, <1>6, <1>7 DEF IInv

\* The history is read, and replayed if it holds anything.
LEMMA LoadStep == IInv /\ Load => IInv'
  <1> SUFFICES ASSUME IInv, Load PROVE IInv'
    OBVIOUS
  <1>1. /\ pc = "load" /\ UNCHANGED <<unmoved, reply, disk, cur, rec, rng, seeds, rewards>>
        /\ \/ mem' = disk /\ pc' = "start" /\ disk = <<>>
           \/ mem' = disk /\ pc' = "replay" /\ disk # <<>>
           \/ mem' = mem /\ pc' = "refused"
    BY DEF Load, budget, unmoved
  <1>2. TypeOK /\ cur = 1 /\ rec = 1 /\ disk \in Logs
    BY <1>1 DEF IInv, Shared, TypeOK, Logs
  <1>3. TypeOK'
    BY <1>1, <1>2 DEF TypeOK, unmoved, Logs
  <1>4. disk # <<>> => 1 \in 1 .. Len(disk)
    <2>1. disk # <<>> => Len(disk) \in Nat \ {0}
      BY <1>2, EmptySeq DEF Logs
    <2> QED
      BY <2>1
  <1>5. Shared'
    BY <1>1, <1>2, <1>4 DEF Shared
  <1>6. ASSUME NEW e \in Endpoints PROVE Local(e)'
    <2>1. Chan(queue[e], server[e], reply[e]) /\ Idle(queue[e], server[e], reply[e], <<>>)
      BY <1>1 DEF IInv, Local, Phase
    <2>2. Chan(queue[e], server[e], reply[e])'
      BY <1>1, <2>1, ChanSame DEF unmoved
    <2>3. SubSeq(disk, 1, 1 - 1) = <<>>
      BY <1>2, PrefixEnds
    <2>4. ~(e < cur)
      BY <1>2, EndpointOrder DEF Endpoints
    <2>5. pc' = "replay" => Replaying(e, queue[e], server[e], reply[e])'
      BY <1>1, <1>2, <2>1, <2>3, <2>4 DEF Replaying, Idle, Asking, At, unmoved
    <2>6. pc' = "start" => Idle(queue[e], server[e], reply[e], mem)'
      BY <1>1, <2>1 DEF Idle, At, unmoved
    <2> QED
      BY <1>1, <2>2, <2>5, <2>6 DEF Local, Phase, Excused
  <1> QED
    BY <1>3, <1>5, <1>6 DEF IInv

\* An endpoint has the record; the next endpoint, or the next record, is due.
LEMMA ReplayDoneStep == IInv /\ ReplayDone => IInv'
  <1> SUFFICES ASSUME IInv, ReplayDone PROVE IInv'
    OBVIOUS
  <1>1. /\ pc = "replay" /\ reply[cur] = "ok" /\ Consume(cur)
        /\ UNCHANGED <<unmoved, disk, mem, rng, seeds, rewards>>
        /\ \/ cur < NEndpoints /\ cur' = cur + 1 /\ pc' = "replay" /\ rec' = rec
           \/ ~(cur < NEndpoints) /\ cur' = 1 /\ rec < Len(mem) /\ rec' = rec + 1 /\ pc' = "replay"
           \/ ~(cur < NEndpoints) /\ cur' = 1 /\ ~(rec < Len(mem)) /\ rec' = rec /\ pc' = "start"
    BY DEF ReplayDone, budget, unmoved
  <1>2. TypeOK /\ cur \in Endpoints /\ rec \in 1 .. Len(mem) /\ mem = disk /\ mem \in Logs /\ Len(mem) \in Nat
    BY <1>1 DEF IInv, TypeOK, Shared, Logs
  <1>3. /\ reply' \in [Endpoints -> {"none", "pending", "ok", "error"}] /\ reply'[cur] = "none"
        /\ \A e \in Endpoints : e # cur => reply'[e] = reply[e]
    BY <1>1, <1>2, ConsumeFacts
  <1>4. cur' \in Endpoints /\ pc' \in {"replay", "start"} /\ rec' \in 1 .. Len(mem)
    BY <1>1, <1>2, EndpointOrder
  <1>5. TypeOK'
    BY <1>1, <1>2, <1>3, <1>4 DEF TypeOK, unmoved
  <1>6. Shared'
    BY <1>1, <1>2, <1>4 DEF Shared
  <1>7. ASSUME NEW e \in Endpoints PROVE Local(e)'
    <2> DEFINE after == SubSeq(mem, 1, rec)
               before == SubSeq(mem, 1, rec - 1)
    <2>1. Chan(queue[e], server[e], reply[e]) /\ Replaying(e, queue[e], server[e], reply[e])
      BY <1>1 DEF IInv, Local, Phase
    <2>2. Chan(queue[e], server[e], reply[e])'
      BY <1>1, <1>3, <2>1, ChanSame DEF unmoved
    <2>3. e < cur => Idle(queue[e], server[e], reply'[e], after)
      BY <1>2, <1>3, <2>1, EndpointOrder DEF Replaying, Idle
    <2>4. e = cur => Idle(queue[e], server[e], reply'[e], after)
      BY <1>1, <1>3, <2>1 DEF Replaying, Asking, Chan, Idle
    <2>5. e > cur => Idle(queue[e], server[e], reply'[e], before)
      BY <1>2, <1>3, <2>1, EndpointOrder DEF Replaying, Idle
    <2> HIDE DEF after, before
    <2>6. CASE cur < NEndpoints
      <3>1. cur' = cur + 1 /\ pc' = "replay" /\ rec' = rec /\ mem' = mem
        BY <1>1, <2>6
      <3>2. e < cur' => Idle(queue'[e], server'[e], reply'[e], after)
        BY <1>1, <1>2, <2>3, <2>4, <3>1, EndpointOrder DEF unmoved
      <3>3. (e > cur' \/ e = cur') => Idle(queue'[e], server'[e], reply'[e], before)
        BY <1>1, <1>2, <2>5, <3>1, EndpointOrder DEF unmoved
      <3>4. Replaying(e, queue[e], server[e], reply[e])'
        BY <3>1, <3>2, <3>3 DEF Replaying, Idle, Asking, At, after, before
      <3> QED
        BY <2>2, <3>1, <3>4 DEF Local, Phase, Excused
    <2>7. CASE ~(cur < NEndpoints)
      <3>1. Idle(queue'[e], server'[e], reply'[e], after) /\ cur' = 1 /\ mem' = mem
        BY <1>1, <1>2, <2>3, <2>4, <2>7, EndpointOrder DEF unmoved
      <3>2. CASE rec < Len(mem)
        <4>1. pc' = "replay" /\ rec' = rec + 1 /\ rec' - 1 = rec
          BY <1>1, <1>2, <2>7, <3>2
        <4>2. ~(e < cur')
          BY <3>1, EndpointOrder
        <4>3. Replaying(e, queue[e], server[e], reply[e])'
          BY <3>1, <4>1, <4>2 DEF Replaying, Idle, Asking, At, after
        <4> QED
          BY <2>2, <4>1, <4>3 DEF Local, Phase, Excused
      <3>3. CASE ~(rec < Len(mem))
        <4>1. pc' = "start" /\ rec = Len(mem)
          BY <1>1, <1>2, <2>7, <3>3
        <4>2. after = mem
          BY <1>2, <4>1, PrefixEnds DEF after
        <4> QED
          BY <2>2, <3>1, <4>1, <4>2 DEF Local, Phase, Excused, Idle, At
      <3> QED
        BY <3>2, <3>3
    <2> QED
      BY <2>6, <2>7
  <1> QED
    BY <1>5, <1>6, <1>7 DEF IInv

\* The run goes on where history.json ends.
LEMMA StartStep == IInv /\ Start => IInv'
  <1> SUFFICES ASSUME IInv, Start PROVE IInv'
    OBVIOUS
  <1>1. /\ pc = "start" /\ disk' = mem /\ rng' = Len(mem) * Population
        /\ pc' = IF Len(mem) < Generations THEN "draw" ELSE "done"
        /\ UNCHANGED <<unmoved, reply, cur, rec, mem, seeds, rewards>>
    BY DEF Start, budget, unmoved
  <1>2. TypeOK /\ mem = disk /\ cur = 1 /\ Len(mem) \in Nat
    BY <1>1 DEF IInv, TypeOK, Shared
  <1>3. TypeOK'
    <2>1. rng' \in Nat
      BY <1>1, <1>2, RunShape
    <2> QED
      BY <1>1, <1>2, <2>1 DEF TypeOK, unmoved
  <1>4. Shared'
    BY <1>1, <1>2 DEF Shared
  <1>5. ASSUME NEW e \in Endpoints PROVE Local(e)'
    <2>1. Chan(queue[e], server[e], reply[e]) /\ Idle(queue[e], server[e], reply[e], mem)
      BY <1>1 DEF IInv, Local, Phase
    <2>2. Chan(queue[e], server[e], reply[e])'
      BY <1>1, <1>2, <2>1, ChanSame DEF unmoved
    <2> QED
      BY <1>1, <2>1, <2>2 DEF Local, Phase, Excused, Idle, At, unmoved
  <1> QED
    BY <1>3, <1>4, <1>5 DEF IInv

\* A generation begins with every endpoint at history.json and nothing on its way.
LEMMA DrawStep == IInv /\ Draw => IInv'
  <1> SUFFICES ASSUME IInv, Draw PROVE IInv'
    OBVIOUS
  <1> DEFINE First(e) == IF e <= Population THEN [NoJob EXCEPT !.item = e, !.step = "apply"] ELSE NoJob
  <1>1. /\ pc = "draw" /\ pc' = "sample" /\ seeds' = Drawn(rng) /\ rng' = rng + Population
        /\ rewards' = NoRewards /\ job' = [e \in Endpoints |-> First(e)]
        /\ UNCHANGED <<disk, server, queue, reply, cur, rec, mem, raised, crashes, restarts, timeouts>>
    BY DEF Draw, budget
  <1>0. TypeOK /\ Len(mem) \in Nat
    BY DEF IInv, TypeOK
  <1>2. /\ TypeOK /\ cur = 1 /\ mem = disk /\ Len(mem) \in Nat /\ Len(mem) < Generations
        /\ rng = Len(mem) * Population
    BY <1>0, <1>1 DEF IInv, Shared
  <1>3. /\ seeds' = Drawn(Len(mem) * Population) /\ seeds' \in [Items -> SeedRange]
        /\ rng' = (Len(mem) + 1) * Population /\ rng' \in Nat
    BY <1>1, <1>2, DrawnTypes
  <1>4. ASSUME NEW e \in Endpoints
        PROVE  /\ First(e) \in Jobs
               /\ First(e).answers = <<>>
               /\ \/ First(e).step = "apply" /\ First(e).item = e /\ e \in Items
                  \/ First(e).step = "none" /\ Population < e
    <2>1. e \in Nat \ {0} /\ Population \in Nat
      BY RunShape DEF Endpoints
    <2>2. NoJob \in Jobs /\ NoJob.step = "none" /\ NoJob.answers = <<>>
      BY <2>1, RunShape DEF NoJob, Jobs
    <2>3. CASE e <= Population
      <3>1. e \in 0 .. Population /\ e \in Items
        BY <2>1, <2>3 DEF Items
      <3>2. First(e) = [NoJob EXCEPT !.item = e, !.step = "apply"]
        BY <2>3
      <3> QED
        BY <2>2, <3>1, <3>2 DEF Jobs
    <2>4. CASE ~(e <= Population)
      BY <2>1, <2>2, <2>4
    <2> QED
      BY <2>3, <2>4
  <1>5. job' \in [Endpoints -> Jobs] /\ \A e \in Endpoints : job'[e] = First(e)
    BY <1>1, <1>4
  <1>6. rewards' \in [Items -> Nat \cup {None}]
    BY <1>1 DEF NoRewards
  <1>7. TypeOK'
    BY <1>1, <1>2, <1>3, <1>5, <1>6 DEF TypeOK, Jobs
  <1>8. Shared'
    BY <1>1, <1>2, <1>3 DEF Shared
  <1> HIDE DEF First
  <1>9. ASSUME NEW e \in Endpoints PROVE Local(e)'
    <2>1. Chan(queue[e], server[e], reply[e]) /\ Idle(queue[e], server[e], reply[e], mem)
      BY <1>1 DEF IInv, Local, Phase
    <2>2. Chan(queue[e], server[e], reply[e])'
      BY <1>1, <2>1, ChanSame
    <2>3. /\ queue'[e] = <<>> /\ reply'[e] = "none"
          /\ server'[e].ready => server'[e].log = disk' /\ server'[e].active = None
          /\ server'[e].active = None
      BY <1>1, <1>2, <2>1 DEF Idle, At, Chan, Blank
    <2>4. OfItem(queue'[e], seeds'[job'[e].item])
      BY <2>3, EmptyBacklog DEF OfItem
    <2>5. job'[e].step \in {"none", "apply"}
      BY <1>4, <1>5
    <2>6. Perturbed(queue[e], server[e], reply[e], job[e], seeds[job[e].item])'
      BY <2>3, <2>5 DEF Perturbed
    <2>7. Measured(server[e], reply[e], job[e], seeds[job[e].item])'
      BY <1>4, <1>5, <2>5 DEF Measured
    <2>8. Owner(e) = e /\ (\A i \in Items : Owner(i) = e => ~(i < e) /\ ~(Population < e))
      <3>1. Owner(e) = e
        BY OwnerFacts
      <3>2. ASSUME NEW i \in Items, Owner(i) = e, i < e PROVE FALSE
        <4>1. i \in Endpoints
          BY <3>2, RunShape DEF Items, Endpoints
        <4> QED
          BY <3>2, <4>1, OwnerFacts DEF Endpoints
      <3>3. ASSUME NEW i \in Items, Owner(i) = e, Population < e PROVE FALSE
        <4>1. i < e
          BY <3>3, RunShape DEF Items, Endpoints
        <4> QED
          BY <3>2, <3>3, <4>1
      <3> QED
        BY <3>1, <3>2, <3>3
    <2>9. Collected(e, server[e], job[e])'
      BY <1>4, <1>5, <2>8 DEF Collected
    <2>10. job'[e].step # "none" => job'[e].item \in Items /\ Owner(job'[e].item) = e
      BY <1>4, <1>5, <2>8
    <2>11. Working(e, queue[e], server[e], reply[e], job[e])'
      BY <2>4, <2>6, <2>7, <2>9, <2>10 DEF Working, OfItem
    <2> QED
      BY <1>1, <2>2, <2>3, <2>11 DEF Local, Phase, Excused
  <1> QED
    BY <1>7, <1>8, <1>9 DEF IInv

\* The item after the one that is done: the next in the endpoint's queue.
NextJob(j) ==
    IF j.item + NEndpoints <= Population
    THEN [NoJob EXCEPT !.item = j.item + NEndpoints, !.step = "apply"] ELSE NoJob

\* A worker that is done takes the next item; all before it are then collected.
LEMMA NextJobFacts ==
    ASSUME NEW e, NEW j \in Jobs, j.item \in Items, Owner(j.item) = e
    PROVE  /\ NextJob(j) \in Jobs /\ NextJob(j).step \in {"none", "apply"}
           /\ NextJob(j).answers = <<>>
           /\ NextJob(j).step # "none" => NextJob(j).item \in Items /\ Owner(NextJob(j).item) = e
           /\ \A i \in Items :
                 (Owner(i) = e /\ (NextJob(j).step = "none" \/ i < NextJob(j).item)) =>
                    i < j.item \/ i = j.item
  <1>1. /\ j.item \in Nat \ {0} /\ NEndpoints \in Nat \ {0} /\ Population \in Nat
        /\ RevertAttempts \in Nat /\ Items \subseteq Nat \ {0}
    BY RunShape DEF Items
  <1>2. NoJob \in Jobs /\ NoJob.step = "none" /\ NoJob.answers = <<>>
    BY <1>1 DEF NoJob, Jobs
  <1>3. \A i \in Items : Owner(i) = e /\ i < j.item + NEndpoints => i < j.item \/ i = j.item
    <2> SUFFICES ASSUME NEW i \in Items, Owner(i) = e, i < j.item + NEndpoints, j.item <= i
                 PROVE  j.item = i
      BY <1>1
    <2> QED
      BY <1>1, OwnerFacts
  <1>4. CASE j.item + NEndpoints <= Population
    <2> DEFINE next == j.item + NEndpoints
    <2>1. next \in 0 .. Population /\ next \in Items
      BY <1>1, <1>4 DEF Items
    <2>2. NextJob(j) = [NoJob EXCEPT !.item = next, !.step = "apply"]
      BY <1>4 DEF NextJob
    <2>3. /\ NextJob(j) \in Jobs /\ NextJob(j).step = "apply" /\ NextJob(j).item = next
          /\ NextJob(j).answers = <<>>
      BY <1>2, <2>1, <2>2 DEF Jobs
    <2>4. Owner(next) = e
      BY <1>1, OwnerFacts
    <2> QED
      BY <1>3, <2>1, <2>3, <2>4
  <1>5. CASE ~(j.item + NEndpoints <= Population)
    <2>1. NextJob(j) = NoJob
      BY <1>5 DEF NextJob
    <2>2. \A i \in Items : i < j.item + NEndpoints
      BY <1>1, <1>5 DEF Items
    <2> QED
      BY <1>2, <1>3, <2>1, <2>2
  <1> QED
    BY <1>4, <1>5

\* A sample's reward goes to its item; no other endpoint's items are touched.
LEMMA CollectStep ==
    ASSUME Scored, IInv, NEW e \in Endpoints, Collect(e)
    PROVE  IInv'
  <1> DEFINE item == job[e].item
             reward == RewardOf(job[e].answers)
  <1>1. /\ pc = "sample" /\ pc' = "sample" /\ job[e].step = "returned"
        /\ rewards' = [rewards EXCEPT ![item] = reward]
        /\ job' = [job EXCEPT ![e] = NextJob(job[e])]
        /\ UNCHANGED <<disk, server, queue, reply, cur, rec, mem, rng, seeds, raised,
                       crashes, restarts, timeouts>>
    BY DEF Collect, NextJob, budget
  <1>2. TypeOK /\ Shared /\ job[e] \in Jobs /\ job \in [Endpoints -> Jobs]
    BY EndpointTypes DEF IInv, TypeOK, Jobs
  <1>3. Working(e, queue[e], server[e], reply[e], job[e])
    BY <1>1 DEF IInv, Local, Phase
  <1>4. /\ item \in Items /\ Owner(item) = e /\ reward # None /\ reward \in Nat
        /\ server[e].ready => reward \in RewardsFrom(Possible(disk, seeds[item]))
    <2>1. item \in Items /\ Owner(item) = e /\ Measured(server[e], reply[e], job[e], seeds[item])
      BY <1>1, <1>3 DEF Working
    <2>2. job[e].answers \in Seq(Nat) /\ Len(job[e].answers) \in 1 .. MaxRequests
          /\ (server[e].ready => Within(job[e].answers, Possible(disk, seeds[item])))
      BY <1>1, <1>2, <2>1 DEF Measured, Jobs
    <2>3. job[e].answers # <<>>
      BY <2>2, EmptySeq
    <2>4. reward \in Nat
      BY <2>2, <2>3 DEF Scored
    <2>5. server[e].ready => reward \in RewardsFrom(Possible(disk, seeds[item]))
      BY <2>2, RewardHad
    <2> QED
      BY <2>1, <2>4, <2>5, NoReward
  <1>5. /\ rewards' \in [Items -> Nat \cup {None}] /\ rewards'[item] = reward
        /\ \A i \in Items : i # item => rewards'[i] = rewards[i]
    BY <1>1, <1>2, <1>4 DEF TypeOK
  <1>6. /\ NextJob(job[e]) \in Jobs /\ NextJob(job[e]).step \in {"none", "apply"}
        /\ NextJob(job[e]).step # "none" =>
              NextJob(job[e]).item \in Items /\ Owner(NextJob(job[e]).item) = e
        /\ \A i \in Items :
              (Owner(i) = e /\ (NextJob(job[e]).step = "none" \/ i < NextJob(job[e]).item)) =>
                 i < item \/ i = item
        /\ NextJob(job[e]).answers = <<>>
    BY <1>2, <1>4, NextJobFacts
  <1>7. /\ job' \in [Endpoints -> Jobs] /\ job'[e] = NextJob(job[e])
        /\ \A d \in Endpoints : d # e => job'[d] = job[d]
    BY <1>1, <1>2, <1>6
  <1>8. TypeOK'
    BY <1>1, <1>2, <1>5, <1>7 DEF TypeOK, Jobs
  <1>9. Shared'
    BY <1>1, <1>2 DEF Shared
  <1>10. ASSUME NEW d \in Endpoints PROVE Chan(queue[d], server[d], reply[d])'
    BY <1>1, ChanSame DEF IInv, Local
  <1> HIDE DEF item, reward
  <1>11. Working(e, queue[e], server[e], reply[e], job[e])'
    <2>1. queue[e] = <<>> /\ server[e].active = None /\ reply[e] = "none" /\ (server[e].ready => server[e].log = disk)
      BY <1>1, <1>3 DEF Working, Perturbed
    <2>2. OfItem(queue'[e], seeds'[job'[e].item])
      BY <1>1, <2>1, EmptyBacklog DEF OfItem
    <2>3. Perturbed(queue[e], server[e], reply[e], job[e], seeds[job[e].item])'
      BY <1>1, <1>6, <1>7, <2>1 DEF Perturbed
    <2>4. Measured(server[e], reply[e], job[e], seeds[job[e].item])'
      BY <1>6, <1>7 DEF Measured
    <2>5. Collected(e, server[e], job[e])'
      <3> SUFFICES ASSUME NEW i \in Items, Owner(i) = e,
                          job'[e].step = "none" \/ i < job'[e].item
                   PROVE  rewards'[i] # None /\ (server'[e].ready => Earned(i)')
        BY DEF Collected
      <3>1. i < item \/ i = item
        BY <1>6, <1>7
      <3>2. CASE i = item
        <4>1. server[e].ready => rewards'[i] \in RewardsFrom(Possible(disk', seeds'[i]))
          BY <1>1, <1>4, <1>5, <3>2
        <4>2. RewardsFrom(Possible(disk', seeds'[i])) = RewardsFrom(Possible(disk, seeds[i]))'
          BY <1>1 DEF Possible
        <4> QED
          BY <1>1, <1>4, <1>5, <3>2, <4>1, <4>2 DEF Earned
      <3>3. CASE i # item
        <4>1. rewards[i] # None /\ (server[e].ready => Earned(i))
          BY <1>3, <3>1, <3>3 DEF Working, Collected, item
        <4> QED
          BY <1>1, <1>5, <3>3, <4>1 DEF Earned, Possible
      <3> QED
        BY <3>2, <3>3
    <2> QED
      BY <1>6, <1>7, <2>2, <2>3, <2>4, <2>5 DEF Working, OfItem
  <1>12. ASSUME NEW d \in Endpoints, d # e PROVE Working(d, queue[d], server[d], reply[d], job[d])'
    <2>1. Working(d, queue[d], server[d], reply[d], job[d]) /\ job'[d] = job[d]
      BY <1>1, <1>7, <1>12 DEF IInv, Local, Phase
    <2>2. Collected(d, server[d], job[d])'
      <3> SUFFICES ASSUME NEW i \in Items, Owner(i) = d,
                          job[d].step = "none" \/ i < job[d].item
                   PROVE  rewards'[i] # None /\ (server[d].ready => Earned(i)')
        BY <1>1, <2>1 DEF Collected
      <3>1. rewards'[i] = rewards[i]
        BY <1>4, <1>5, <1>12
      <3> QED
        BY <1>1, <2>1, <3>1 DEF Working, Collected, Earned, Possible
    <2>3. Perturbed(queue[d], server[d], reply[d], job[d], seeds[job[d].item])'
      BY <1>1, <2>1 DEF Working, Perturbed
    <2>4. Measured(server[d], reply[d], job[d], seeds[job[d].item])'
      BY <1>1, <2>1 DEF Working, Measured, Possible
    <2>5. OfItem(queue[d], seeds[job[d].item])'
      BY <1>1, <2>1 DEF Working, OfItem
    <2> QED
      BY <2>1, <2>2, <2>3, <2>4, <2>5 DEF Working
  <1>13. ASSUME NEW d \in Endpoints PROVE Excused(server[d], reply[d], job[d])'
    BY <1>1, <1>6, <1>7 DEF IInv, Local, Excused
  <1>14. \A d \in Endpoints : Local(d)'
    BY <1>1, <1>10, <1>11, <1>12, <1>13 DEF Local, Phase
  <1> QED
    BY <1>8, <1>9, <1>14 DEF IInv

\* A sample raised: nothing more is submitted.
LEMMA CollectRaiseStep ==
    ASSUME IInv, NEW e \in Endpoints, CollectRaise(e)
    PROVE  IInv'
  <1>1. raised' = TRUE /\ UNCHANGED <<main, queue, server, reply, job, crashes, restarts, timeouts>>
    BY DEF CollectRaise, main, budget
  <1>2. raised' \in BOOLEAN
    BY <1>1, Zenon
  <1>3. TypeOK'
    BY <1>1, <1>2 DEF IInv, TypeOK, main
  <1>4. Shared'
    BY <1>1, SharedKept DEF IInv
  <1>5. ASSUME NEW d \in Endpoints PROVE Local(d)'
    <2>1. Excused(server[d], reply[d], job[d])'
      BY <1>1 DEF IInv, Local, Excused, main
    <2> QED
      BY <1>1, <2>1, LocalKept DEF IInv, Local
  <1> QED
    BY <1>3, <1>4, <1>5 DEF IInv

\* Every item has its reward.
LEMMA AllSampledStep == IInv /\ AllSampled => IInv'
  <1> SUFFICES ASSUME IInv, AllSampled PROVE IInv'
    OBVIOUS
  <1>1. /\ pc = "sample" /\ pc' = "update" /\ \A e \in Endpoints : job[e].step = "none"
        /\ UNCHANGED <<unmoved, reply, disk, cur, rec, mem, rng, seeds, rewards>>
    BY DEF AllSampled, local, budget, unmoved
  <1>2. TypeOK /\ Shared /\ cur = 1 /\ mem = disk
    BY <1>1 DEF IInv, Shared
  <1>3. \A e \in Endpoints : Working(e, queue[e], server[e], reply[e], job[e])
    BY <1>1 DEF IInv, Local, Phase
  <1>4. \A i \in Items : Owner(i) \in Endpoints
    BY RunShape, OwnerFacts DEF Items
  <1>5. \A e \in Endpoints : \A i \in Items : Owner(i) = e =>
             rewards[i] # None /\ (server[e].ready => Earned(i))
    BY <1>1, <1>3 DEF Working, Collected
  <1>6. TypeOK'
    BY <1>1, <1>2 DEF TypeOK, unmoved
  <1>7. Shared'
    BY <1>1, <1>2, <1>4, <1>5 DEF Shared
  <1>8. ASSUME NEW e \in Endpoints PROVE Local(e)'
    <2>1. Chan(queue[e], server[e], reply[e])'
      BY <1>1, ChanSame DEF IInv, Local, unmoved
    <2>2. /\ queue[e] = <<>> /\ reply[e] = "none"
          /\ server[e].ready => server[e].log = mem /\ server[e].active = None
      BY <1>1, <1>2, <1>3 DEF Working, Perturbed
    <2>3. ~(e < cur)
      BY <1>2, EndpointOrder
    <2>4. server'[e].ready => \A i \in Items : Owner(i) = e => Earned(i)'
      BY <1>1, <1>5 DEF unmoved, Earned, Possible
    <2>5. Updating(e, queue[e], server[e], reply[e])'
      BY <1>1, <2>2, <2>3, <2>4 DEF Updating, Idle, Asking, At, unmoved
    <2> QED
      BY <1>1, <2>1, <2>5 DEF Local, Phase, Excused
  <1> QED
    BY <1>6, <1>7, <1>8 DEF IInv

\* An endpoint has the update; when the last one has, every reward was earned
\* by the model history.json makes.
LEMMA UpdateDoneStep == IInv /\ UpdateDone => IInv'
  <1> SUFFICES ASSUME IInv, UpdateDone PROVE IInv'
    OBVIOUS
  <1>1. /\ pc = "update" /\ reply[cur] = "ok" /\ Consume(cur)
        /\ UNCHANGED <<unmoved, disk, rec, mem, rng, seeds, rewards>>
        /\ \/ cur < NEndpoints /\ cur' = cur + 1 /\ pc' = "update"
           \/ ~(cur < NEndpoints) /\ cur' = 1 /\ pc' = "persist"
    BY DEF UpdateDone, budget, unmoved
  <1>2. TypeOK /\ Shared /\ cur \in Endpoints /\ mem = disk
    BY <1>1 DEF IInv, TypeOK, Shared
  <1>3. /\ reply' \in [Endpoints -> {"none", "pending", "ok", "error"}] /\ reply'[cur] = "none"
        /\ \A e \in Endpoints : e # cur => reply'[e] = reply[e]
    BY <1>1, <1>2, ConsumeFacts
  <1>4. cur' \in Endpoints /\ pc' \in {"update", "persist"}
    BY <1>1, <1>2, EndpointOrder
  <1>5. TypeOK'
    BY <1>1, <1>2, <1>3, <1>4 DEF TypeOK, unmoved
  <1>6. \A e \in Endpoints : Updating(e, queue[e], server[e], reply[e])
    BY <1>1 DEF IInv, Local, Phase
  <1>7. \A e \in Endpoints : (e < cur \/ e = cur) =>
            /\ Idle(queue[e], server[e], reply'[e], Append(mem, NewRecord))
            /\ \A i \in Items : Owner(i) = e => Earned(i)
    <2> SUFFICES ASSUME NEW e \in Endpoints, e < cur \/ e = cur
                 PROVE  /\ Idle(queue[e], server[e], reply'[e], Append(mem, NewRecord))
                        /\ \A i \in Items : Owner(i) = e => Earned(i)
      OBVIOUS
    <2>1. CASE e < cur
      BY <1>2, <1>3, <1>6, <2>1, EndpointOrder DEF Updating, Idle
    <2>2. CASE e = cur
      <3>1. Chan(queue[e], server[e], reply[e])
        BY DEF IInv, Local
      <3> QED
        BY <1>1, <1>3, <1>6, <2>2, <3>1 DEF Updating, Asking, Chan, Idle
    <2> QED
      BY <2>1, <2>2
  <1>8. \A e \in Endpoints : e > cur =>
            /\ Idle(queue[e], server[e], reply'[e], mem)
            /\ server[e].ready => \A i \in Items : Owner(i) = e => Earned(i)
    <2> SUFFICES ASSUME NEW e \in Endpoints, e > cur
                 PROVE  /\ Idle(queue[e], server[e], reply'[e], mem)
                        /\ server[e].ready => \A i \in Items : Owner(i) = e => Earned(i)
      OBVIOUS
    <2>1. Idle(queue[e], server[e], reply[e], mem) /\ reply'[e] = reply[e]
      BY <1>2, <1>3, <1>6, EndpointOrder DEF Updating
    <2> QED
      BY <1>6, <2>1 DEF Idle, Updating
  <1>9. Shared'
    <2>1. \A i \in Items : Owner(i) \in Endpoints
      BY RunShape, OwnerFacts DEF Items
    <2>2. pc' = "persist" => \A i \in Items : Earned(i)'
      <3> SUFFICES ASSUME pc' = "persist", NEW i \in Items PROVE Earned(i)'
        OBVIOUS
      <3>1. Owner(i) < cur \/ Owner(i) = cur
        BY <1>1, <1>2, <2>1, EndpointOrder
      <3>2. Earned(i)
        BY <1>7, <2>1, <3>1
      <3> QED
        BY <1>1, <3>2 DEF Earned, Possible, unmoved
    <2> QED
      BY <1>1, <1>2, <2>2 DEF Shared
  <1>10. NewRecord' = NewRecord /\ (\A i : Earned(i)' <=> Earned(i))
    BY <1>1 DEF NewRecord, Earned, Possible, unmoved
  <1>11. ASSUME NEW e \in Endpoints PROVE Local(e)'
    <2>1. Chan(queue[e], server[e], reply[e])'
      BY <1>1, <1>3, ChanSame DEF IInv, Local, unmoved
    <2>2. CASE cur < NEndpoints
      <3>1. cur' = cur + 1 /\ pc' = "update"
        BY <1>1, <2>2
      <3>2. e < cur' => /\ Idle(queue'[e], server'[e], reply'[e], Append(mem, NewRecord))
                        /\ \A i \in Items : Owner(i) = e => Earned(i)
        BY <1>1, <1>2, <1>7, <3>1, EndpointOrder DEF unmoved
      <3>3. (e > cur' \/ e = cur') =>
               /\ Idle(queue'[e], server'[e], reply'[e], mem)
               /\ server'[e].ready => \A i \in Items : Owner(i) = e => Earned(i)
        BY <1>1, <1>2, <1>8, <3>1, EndpointOrder DEF unmoved
      <3>4. e < cur' \/ e > cur' \/ e = cur'
        BY <1>4, EndpointOrder
      <3>5. Updating(e, queue[e], server[e], reply[e])'
        <4>1. /\ e < cur' => Idle(queue[e], server[e], reply[e], Append(mem, NewRecord))'
              /\ (e > cur' \/ e = cur') => Idle(queue[e], server[e], reply[e], mem)'
          BY <1>1, <1>10, <3>2, <3>3 DEF Idle, At
        <4>2. e = cur' => Asking(queue[e], server[e], reply[e], Request("update", NewRecord),
                                 mem, Append(mem, NewRecord))'
          BY <4>1 DEF Idle, Asking, At
        <4>3. (e < cur' \/ (e = cur' /\ reply'[e] = "ok") \/ (server'[e].ready /\ reply'[e] # "error"))
                 => \A i \in Items : Owner(i) = e => Earned(i)'
          BY <1>10, <3>2, <3>3, <3>4 DEF Idle
        <4> QED
          BY <4>1, <4>2, <4>3 DEF Updating
      <3> QED
        BY <2>1, <3>1, <3>5 DEF Local, Phase, Excused
    <2>3. CASE ~(cur < NEndpoints)
      <3>1. Idle(queue'[e], server'[e], reply'[e], Append(mem, NewRecord)) /\ pc' = "persist"
        BY <1>1, <1>2, <1>7, <2>3, EndpointOrder DEF unmoved
      <3> QED
        BY <1>1, <1>10, <2>1, <3>1 DEF Local, Phase, Excused, Idle, At
    <2> QED
      BY <2>2, <2>3
  <1> QED
    BY <1>5, <1>9, <1>11 DEF IInv

\* The generation is on file; every server holds exactly what is.
LEMMA PersistStep == IInv /\ Persist => IInv'
  <1> SUFFICES ASSUME IInv, Persist PROVE IInv'
    OBVIOUS
  <1>1. /\ pc = "persist" /\ mem' = Append(mem, NewRecord) /\ disk' = Append(mem, NewRecord)
        /\ pc' = IF Len(Append(mem, NewRecord)) < Generations THEN "draw" ELSE "done"
        /\ UNCHANGED <<unmoved, reply, cur, rec, rng, seeds, rewards>>
    BY DEF Persist, budget, unmoved
  <1>2. TypeOK /\ Shared /\ cur = 1 /\ mem = disk /\ mem \in Logs
    BY <1>1 DEF IInv, Shared, TypeOK, Logs
  <1>3. rng = (Len(mem) + 1) * Population
    BY <1>1, <1>2 DEF Shared
  <1>4. NewRecord \in UpdateRecords
    BY <1>1, <1>2, NewRecordType
  <1>5. /\ mem' \in Logs /\ Len(mem') = Len(mem) + 1 /\ Len(mem) \in Nat
        /\ disk' \in Logs /\ Len(disk') = Len(mem) + 1
        /\ \A i \in 1 .. Len(mem) : disk'[i] = mem[i]
    BY <1>1, <1>2, <1>4, LogAppend
  <1>6. TypeOK'
    BY <1>1, <1>2, <1>5 DEF TypeOK, unmoved, Logs
  <1>7. Shared'
    <2>1. rng' = Len(mem') * Population
      BY <1>1, <1>3, <1>5
    <2>2. pc' \in {"draw", "done"} /\ (pc' = "draw" => Len(mem') < Generations)
      BY <1>1
    <2> QED
      BY <1>1, <1>2, <2>1, <2>2 DEF Shared
  <1>8. ASSUME NEW e \in Endpoints PROVE Local(e)'
    <2>1. /\ Chan(queue[e], server[e], reply[e])
          /\ Idle(queue[e], server[e], reply[e], Append(mem, NewRecord))
      BY <1>1 DEF IInv, Local, Phase
    <2>2. queue'[e] = <<>> /\ reply'[e] = "none" /\ server'[e] = server[e]
      BY <1>1, <2>1 DEF Idle, unmoved
    <2>3. server[e].ready => server[e].log = disk' /\ server[e].active = None
      BY <1>1, <2>1 DEF Idle, At
    <2>4. ~server[e].ready => server[e] = Blank
      BY <2>1 DEF Chan
    <2>5. Len(server[e].log) <= Len(disk') + 1
          /\ \A i \in 1 .. Len(server[e].log) : i <= Len(disk') => server[e].log[i] = disk'[i]
      <3>1. CASE server[e].ready
        BY <1>5, <2>3, <3>1
      <3>2. CASE ~server[e].ready
        <4>1. Len(server[e].log) = 0
          BY <2>4, <3>2, EmptyBacklog DEF Blank
        <4> QED
          BY <1>5, <4>1
      <3> QED
        BY <3>1, <3>2
    <2>6. Len(<<>>) = 0
      BY EmptyBacklog
    <2>7. Chan(queue[e], server[e], reply[e])'
      BY <2>2, <2>4, <2>5, <2>6 DEF Chan, Ahead
    <2>8. Idle(queue[e], server[e], reply[e], mem)'
      BY <1>1, <2>2, <2>3 DEF Idle, At
    <2> QED
      BY <1>1, <2>7, <2>8 DEF Local, Phase, Excused
  <1> QED
    BY <1>6, <1>7, <1>8 DEF IInv

-------------------------------------------------------------------------------
(* The invariant, and what follows from it *)

\* A run that was never started satisfies the invariant.
LEMMA InitIInv == Init => IInv
  <1> SUFFICES ASSUME Init PROVE IInv
    OBVIOUS
  <1>1. <<>> \in Logs /\ <<>> \in Queues /\ Len(<<>>) = 0
    BY EmptySeq, EmptyBacklog DEF Logs
  <1>2. Blank \in States /\ ~Blank.ready /\ Blank.log = <<>>
    BY <1>1 DEF Blank, States
  <1>3. /\ disk = <<>> /\ mem = <<>> /\ pc = "down" /\ cur = 1 /\ rec = 1 /\ rng = 0 /\ seeds = <<>>
        /\ server = [e \in Endpoints |-> Blank] /\ queue = [e \in Endpoints |-> <<>>]
        /\ reply = [e \in Endpoints |-> "none"] /\ rewards = NoRewards
        /\ job = [e \in Endpoints |-> NoJob]
        /\ crashes = 0 /\ restarts = 0 /\ timeouts = 0
    BY DEF Init
  <1>4. raised \in BOOLEAN
    <2>1. raised = FALSE
      BY DEF Init
    <2> QED
      BY <2>1, Zenon
  <1>5. TypeOK
    <2>1. 1 \in Endpoints
      BY RunShape DEF Endpoints
    <2>2. NoJob \in Jobs
      BY RunShape DEF NoJob, Jobs
    <2>3. rewards \in [Items -> Nat \cup {None}]
      BY <1>3 DEF NoRewards
    <2>4. crashes \in 0 .. MaxCrashes /\ restarts \in 0 .. MaxRestarts /\ timeouts \in 0 .. MaxTimeouts
      BY <1>3, RunBounds
    <2>5. /\ server \in [Endpoints -> States] /\ queue \in [Endpoints -> Queues]
          /\ reply \in [Endpoints -> Replies] /\ job \in [Endpoints -> Jobs]
      BY <1>1, <1>2, <1>3, <2>2 DEF Replies
    <2>6. disk \in Logs /\ mem \in Logs /\ cur \in Endpoints /\ rec \in Nat \ {0} /\ rng \in Nat
      BY <1>1, <1>3, <2>1
    <2> QED
      BY <1>3, <1>4, <2>3, <2>4, <2>5, <2>6 DEF TypeOK, Logs, States, Queues, Replies, Jobs
  <1>6. Shared
    BY <1>3 DEF Shared
  <1>7. ASSUME NEW e \in Endpoints PROVE Local(e)
    <2>1. Chan(<<>>, Blank, "none")
      BY <1>1, <1>3, RestartedChan
    <2> QED
      BY <1>3, <2>1 DEF Local, Phase, Excused
  <1> QED
    BY <1>5, <1>6, <1>7 DEF IInv

\* Standing still keeps the invariant.
LEMMA StutterStep == IInv /\ UNCHANGED vars => IInv'
  <1> SUFFICES ASSUME IInv, UNCHANGED vars PROVE IInv'
    OBVIOUS
  <1>1. UNCHANGED <<main, queue, server, reply, job, raised, crashes, restarts, timeouts>>
    BY DEF vars, main, budget
  <1>2. TypeOK'
    BY <1>1 DEF IInv, TypeOK, main
  <1>3. Shared'
    BY <1>1, SharedKept DEF IInv
  <1>4. ASSUME NEW d \in Endpoints PROVE Local(d)'
    <2>1. Excused(server[d], reply[d], job[d])'
      BY <1>1 DEF IInv, Local, Excused, main
    <2> QED
      BY <1>1, <2>1, LocalKept DEF IInv, Local
  <1> QED
    BY <1>2, <1>3, <1>4 DEF IInv

\* Every step keeps the invariant.
LEMMA StepIInv ==
    ASSUME Scored
    PROVE  IInv /\ [Next]_vars => IInv'
  <1> SUFFICES ASSUME IInv, [Next]_vars PROVE IInv'
    OBVIOUS
  <1>1. CASE Launch \/ InitPost \/ InitDone \/ Load
    BY <1>1, LaunchStep, InitPostStep, InitDoneStep, LoadStep
  <1>2. CASE ReplayPost \/ ReplayDone \/ Start \/ Draw
    BY <1>2, ReplayPostStep, ReplayDoneStep, StartStep, DrawStep
  <1>3. CASE AllSampled \/ UpdatePost \/ UpdateDone \/ Persist
    BY <1>3, AllSampledStep, UpdatePostStep, UpdateDoneStep, PersistStep
  <1>4. CASE MainFails \/ PoolExit \/ Crash
    BY <1>4, DeathStep
  <1>5. CASE \E e \in Endpoints : Collect(e) \/ CollectRaise(e)
    BY <1>5, CollectStep, CollectRaiseStep
  <1>6. CASE \E e \in Endpoints : Worker(e)
    BY <1>6, WorkerPostStep, AppliedStep, RolledOutStep, RevertedStep DEF Worker
  <1>7. CASE \E e \in Endpoints : Serve(e)
    BY <1>7, ServeStep
  <1>8. CASE \E e \in Endpoints : Timeout(e) \/ ServerRestart(e)
    BY <1>8, TimeoutStep, RestartStep
  <1>9. CASE Finished \/ UNCHANGED vars
    BY <1>9, StutterStep DEF Finished
  <1> QED
    BY <1>1, <1>2, <1>3, <1>4, <1>5, <1>6, <1>7, <1>8, <1>9 DEF Next, Main, Environment

\* Every variable keeps its type.
THEOREM Typed ==
    ASSUME Scored
    PROVE  Spec => []TypeOK
  <1>1. IInv => TypeOK
    BY DEF IInv
  <1> QED
    BY <1>1, InitIInv, StepIInv, PTL DEF Spec

\* What the invariant says of the servers.
LEMMA IInvSync == IInv => InSync
  <1> SUFFICES ASSUME IInv PROVE InSync
    OBVIOUS
  <1>1. \A e \in Endpoints : /\ Chan(queue[e], server[e], reply[e])
                             /\ Phase(e, queue[e], server[e], reply[e], job[e])
    BY DEF IInv, Local
  <1>2. pc \in {"draw", "done"} =>
          \A e \in Endpoints :
              /\ queue[e] = <<>>
              /\ server[e].ready => server[e].log = disk /\ server[e].active = None
    BY <1>1 DEF IInv, Shared, Phase, Idle, At
  <1>3. pc = "sample" =>
          \A e \in Endpoints :
              server[e].active # None =>
                  job[e].item # 0 /\ server[e].active = seeds[job[e].item]
    <2> SUFFICES ASSUME pc = "sample", NEW e \in Endpoints, server[e].active # None
                 PROVE  job[e].item # 0 /\ server[e].active = seeds[job[e].item]
      OBVIOUS
    <2>1. Working(e, queue[e], server[e], reply[e], job[e])
      BY <1>1 DEF Phase
    <2>2. job[e].step # "none" /\ server[e].active = seeds[job[e].item]
      BY <2>1 DEF Working, Perturbed
    <2>3. job[e].item \in Items
      BY <2>1, <2>2 DEF Working
    <2> QED
      BY <2>2, <2>3 DEF Items
  <1>4. \A e \in Endpoints : Ahead(server[e].log)
    BY <1>1 DEF Chan
  <1> QED
    BY <1>2, <1>3, <1>4 DEF InSync, Ahead

\* No server is ever anywhere but where history.json says: at the start and the
\* end of a generation exactly there, with an empty backlog; during it off by
\* the perturbation of the one item its worker evaluates; never more than the
\* one update ahead that is still to be written.
THEOREM Synchronised ==
    ASSUME Scored
    PROVE  Spec => []InSync
  BY InitIInv, StepIInv, IInvSync, PTL DEF Spec

-------------------------------------------------------------------------------
(* history.json is that of an uninterrupted training *)

\* A write of history.json is a generation of the training; all else leaves it.
LEMMA StepTraining ==
    ASSUME IInv, [Next]_vars
    PROVE  [Training!Generation]_disk
  <1>1. CASE Persist
    <2>1. /\ pc = "persist" /\ disk' = Append(mem, NewRecord)
          /\ TypeOK /\ Shared
      BY <1>1 DEF Persist, IInv
    <2>2. /\ mem = disk /\ Len(mem) < Generations /\ seeds = Drawn(Len(mem) * Population)
          /\ \A i \in Items : Earned(i)
      BY <2>1 DEF Shared
    <2>3. seeds = Training!SeedsOf(Len(disk))
      BY <2>2 DEF Drawn, Training!SeedsOf, Items
    <2>4. ASSUME NEW i \in 1 .. Population PROVE rewards[i] \in RewardsOf(disk, seeds[i])
      <3>1. rewards[i] \in RewardsFrom(Possible(disk, seeds[i]))
        BY <2>2 DEF Earned, Items
      <3>2. Possible(disk, seeds[i]) \subseteq AnswersOf(disk, seeds[i]) \cup {Failed}
        BY DEF Possible
      <3> QED
        BY <3>1, <3>2, RewardsGrow DEF RewardsOf
    <2>5. rewards \in [1 .. Population ->
                         UNION {RewardsOf(disk, seeds[i]) : i \in 1 .. Population}]
      <3>1. rewards \in [1 .. Population -> Nat \cup {None}]
        BY <2>1 DEF TypeOK, Items
      <3>2. \A i \in 1 .. Population :
               rewards[i] \in UNION {RewardsOf(disk, seeds[k]) : k \in 1 .. Population}
        BY <2>4
      <3> QED
        BY <3>1, <3>2
    <2>6. NewRecord \in [seeds : {Training!SeedsOf(Len(disk))},
                         rewards : [1 .. Population ->
                            UNION {RewardsOf(disk, Training!SeedsOf(Len(disk))[i]) :
                                      i \in 1 .. Population}]]
      BY <2>3, <2>5 DEF NewRecord
    <2>7. \A i \in 1 .. Population : NewRecord.rewards[i] \in RewardsOf(disk, NewRecord.seeds[i])
      BY <2>4 DEF NewRecord
    <2>8. disk' = Append(disk, NewRecord) /\ Len(disk) < Generations
      BY <2>1, <2>2
    <2> QED
      BY <2>6, <2>7, <2>8 DEF Training!Generation, Training!GenerationAfter
  <1>2. CASE Start
    <2>1. disk' = mem /\ mem = disk
      BY <1>2 DEF Start, IInv, Shared
    <2> QED
      BY <2>1
  <1>3. CASE Launch \/ InitPost \/ InitDone \/ Load \/ ReplayPost \/ ReplayDone \/ Draw
               \/ AllSampled \/ UpdatePost \/ UpdateDone \/ MainFails \/ PoolExit \/ Crash
    BY <1>3 DEF Launch, InitPost, InitDone, Load, ReplayPost, ReplayDone, Draw, AllSampled,
                UpdatePost, UpdateDone, MainFails, PoolExit, Crash
  <1>4. CASE \E e \in Endpoints : Collect(e) \/ CollectRaise(e) \/ Worker(e) \/ Serve(e)
                                     \/ Timeout(e) \/ ServerRestart(e)
    BY <1>4 DEF Collect, CollectRaise, Worker, WorkerPost, WorkerApplied, WorkerRolledOut,
                WorkerReverted, Serve, Timeout, ServerRestart
  <1>5. CASE Finished \/ UNCHANGED vars
    BY <1>5 DEF Finished, vars
  <1> QED
    BY <1>1, <1>2, <1>3, <1>4, <1>5 DEF Next, Main, Environment

\* Records whose rewards were made of answers alone, with another such record.
LEMMA UnfailedAppend ==
    ASSUME NEW log \in Logs, NEW record \in UpdateRecords, Unfailed(log),
           \A i \in Items : record.rewards[i] \in RewardsFrom(AnswersOf(log, record.seeds[i]))
    PROVE  Unfailed(Append(log, record))
  <1> DEFINE longer == Append(log, record)
  <1>1. /\ Len(log) \in Nat /\ longer \in Logs /\ Len(longer) = Len(log) + 1
        /\ longer[Len(log) + 1] = record
        /\ \A n \in 1 .. Len(log) : longer[n] = log[n]
    BY LogAppend
  <1> HIDE DEF longer
  <1>2. ASSUME NEW n \in 0 .. Len(log) PROVE SubSeq(longer, 1, n) = SubSeq(log, 1, n)
    <2>1. /\ Len(SubSeq(longer, 1, n)) = n /\ SubSeq(longer, 1, n) \in Logs
          /\ \A i \in 1 .. n : SubSeq(longer, 1, n)[i] = longer[i]
      BY <1>1 DEF Logs
    <2>2. /\ Len(SubSeq(log, 1, n)) = n /\ SubSeq(log, 1, n) \in Logs
          /\ \A i \in 1 .. n : SubSeq(log, 1, n)[i] = log[i]
      BY <1>1 DEF Logs
    <2>3. \A i \in 1 .. n : longer[i] = log[i]
      BY <1>1
    <2>4. \A i \in 1 .. n : SubSeq(longer, 1, n)[i] = SubSeq(log, 1, n)[i]
      BY <2>1, <2>2, <2>3
    <2> HIDE DEF longer
    <2> QED
      BY <2>1, <2>2, <2>4 DEF Logs
  <1>3. SubSeq(log, 1, Len(log)) = log
    BY PrefixEnds
  <1>4. ASSUME NEW n \in 1 .. Len(longer), NEW i \in Items
        PROVE  longer[n].rewards[i] \in
                  RewardsFrom(AnswersOf(SubSeq(longer, 1, n - 1), longer[n].seeds[i]))
    <2>1. n - 1 \in 0 .. Len(log) /\ (n \in 1 .. Len(log) \/ n = Len(log) + 1)
      BY <1>1
    <2>2. CASE n \in 1 .. Len(log)
      BY <1>1, <1>2, <2>1, <2>2 DEF Unfailed
    <2>3. CASE n = Len(log) + 1
      <3>1. n - 1 = Len(log)
        BY <1>1, <2>3
      <3>2. SubSeq(longer, 1, n - 1) = log /\ longer[n] = record
        BY <1>1, <1>2, <1>3, <2>1, <2>3, <3>1
      <3> QED
        BY <3>2
    <2> QED
      BY <2>1, <2>2, <2>3
  <1> QED
    BY <1>4 DEF Unfailed, longer

UnfailedInv == timeouts = 0 => Unfailed(disk)

\* Before anything has timed out, a generation is recorded with answers alone.
LEMMA StepUnfailed ==
    ASSUME IInv, UnfailedInv, [Next]_vars
    PROVE  UnfailedInv'
  <1> SUFFICES ASSUME timeouts' = 0 PROVE Unfailed(disk)'
    BY DEF UnfailedInv
  <1>1. disk' = disk => Unfailed(disk)' = Unfailed(disk)
    BY DEF Unfailed
  <1>2. CASE Persist
    <2>1. /\ pc = "persist" /\ disk' = Append(mem, NewRecord) /\ timeouts = 0
          /\ TypeOK /\ Shared
      BY <1>2 DEF Persist, IInv, budget
    <2>2. mem = disk /\ disk \in Logs /\ NewRecord \in UpdateRecords
      BY <2>1, NewRecordType DEF Shared, TypeOK, Logs
    <2>3. \A i \in Items : NewRecord.rewards[i] \in RewardsFrom(AnswersOf(disk, NewRecord.seeds[i]))
      <3> TAKE i \in Items
      <3>1. Earned(i)
        BY <2>1 DEF Shared
      <3>2. Possible(disk, seeds[i]) = AnswersOf(disk, seeds[i])
        BY <2>1 DEF Possible
      <3> QED
        BY <3>1, <3>2 DEF Earned, NewRecord
    <2>4. Unfailed(Append(disk, NewRecord))
      BY <2>1, <2>2, <2>3, UnfailedAppend DEF UnfailedInv
    <2>5. disk' = Append(disk, NewRecord)
      BY <2>1, <2>2
    <2> QED
      BY <2>4, <2>5 DEF Unfailed
  <1>3. CASE disk' = disk
    <2>1. timeouts = 0
      <3>1. timeouts \in Nat
        BY DEF IInv, TypeOK
      <3>2. CASE \E e \in Endpoints : Timeout(e)
        BY <3>1, <3>2 DEF Timeout
      <3>3. CASE ~(\E e \in Endpoints : Timeout(e))
        BY <3>3 DEF Next, Main, Environment, Finished, Launch, InitPost, InitDone, Load,
           ReplayPost, ReplayDone, Start, Draw, Collect, CollectRaise, AllSampled, UpdatePost,
           UpdateDone, Persist, MainFails, PoolExit, Crash, Worker, WorkerPost, WorkerApplied,
           WorkerRolledOut, WorkerReverted, Serve, ServerRestart, vars, budget
      <3> QED
        BY <3>2, <3>3
    <2> QED
      BY <1>1, <1>3, <2>1 DEF UnfailedInv
  <1>4. CASE ~Persist /\ disk' # disk
    <2>1. CASE Start
      BY <1>4, <2>1 DEF Start, IInv, Shared
    <2>2. CASE ~Start
      BY <1>4, <2>2 DEF Next, Main, Environment, Finished, Launch, InitPost, InitDone, Load,
           ReplayPost, ReplayDone, Draw, Collect, CollectRaise, AllSampled, UpdatePost,
           UpdateDone, MainFails, PoolExit, Crash, Worker, WorkerPost, WorkerApplied,
           WorkerRolledOut, WorkerReverted, Serve, ServerRestart, Timeout, vars
    <2> QED
      BY <2>1, <2>2
  <1> QED
    BY <1>2, <1>3, <1>4

\* Whatever dies, restarts and times out, history.json is that of a training
\* that nothing interrupted: its seeds are the stream's, and every reward was
\* earned by the model of all generations before it, under its own seed.  A
\* completion that failed counts as nothing there, and only once one has timed
\* out is there such a reward at all.
THEOREM Refinement ==
    ASSUME Scored
    PROVE  Spec => ImplementsTraining
  <1>1. Init => Training!Init /\ UnfailedInv
    <2>1. Unfailed(<<>>)
      BY EmptySeq DEF Unfailed
    <2> QED
      BY <2>1 DEF Init, Training!Init, UnfailedInv
  <1>2. Spec => []IInv
    BY InitIInv, StepIInv, PTL DEF Spec
  <1>3. IInv /\ [Next]_vars => [Training!Generation]_disk
    BY StepTraining
  <1>4. IInv /\ UnfailedInv /\ [Next]_vars => UnfailedInv'
    BY StepUnfailed
  <1>5. Spec => [](timeouts = 0 => Unfailed(disk))
    BY <1>1, <1>2, <1>4, PTL DEF Spec, UnfailedInv
  <1> QED
    BY <1>1, <1>2, <1>3, <1>5, PTL DEF Spec, ImplementsTraining, Training!Spec

-------------------------------------------------------------------------------
(* A resume accepts what the runner wrote *)

\* The history a resume will read carries the seeds of the stream.
Acceptable == pc # "refused" /\ SeedSequenceValid(disk)

\* A generation more is one more generation of the stream.
LEMMA StepAcceptable ==
    ASSUME IInv, Acceptable, [Next]_vars
    PROVE  Acceptable'
  <1>1. disk \in Logs /\ Len(disk) \in Nat
    BY DEF IInv, TypeOK, Logs
  <1>2. CASE disk' = disk
    BY <1>2 DEF Acceptable, SeedSequenceValid, Load, Next, Main, Environment, Finished, Launch,
                InitPost, InitDone, ReplayPost, ReplayDone, Start, Draw, Collect, CollectRaise,
                AllSampled, UpdatePost, UpdateDone, Persist, MainFails, PoolExit, Crash, Die,
                Worker, WorkerPost, WorkerApplied, WorkerRolledOut, WorkerReverted, Serve,
                Timeout, ServerRestart, vars, budget
  <1>3. CASE disk' # disk
    <2>1. Training!Generation
      BY <1>3, StepTraining
    <2>2. PICK record : /\ disk' = Append(disk, record)
                        /\ record.seeds = Training!SeedsOf(Len(disk))
      BY <2>1 DEF Training!Generation, Training!GenerationAfter
    <2>3. record.seeds = Drawn(((Len(disk) + 1) - 1) * Population)
      BY <1>1, <2>2 DEF Training!SeedsOf, Drawn, Items
    <2>4. /\ Len(disk') = Len(disk) + 1 /\ disk'[Len(disk) + 1] = record
          /\ \A g \in 1 .. Len(disk) : disk'[g] = disk[g]
      BY <1>1, <2>2 DEF Logs
    <2>5. \A g \in 1 .. Len(disk') : disk'[g].seeds = Drawn((g - 1) * Population)
      <3> TAKE g \in 1 .. Len(disk')
      <3>1. CASE g \in 1 .. Len(disk)
        BY <2>4, <3>1 DEF Acceptable, SeedSequenceValid
      <3>2. CASE g = Len(disk) + 1
        BY <2>3, <2>4, <3>2
      <3> QED
        BY <1>1, <2>4, <3>1, <3>2
    <2>6. SeedSequenceValid(disk)'
      BY <2>5 DEF SeedSequenceValid, Drawn, Items
    <2>7. pc' # "refused"
      BY <1>3 DEF Acceptable, Load, Next, Main, Environment, Finished, Launch,
                InitPost, InitDone, ReplayPost, ReplayDone, Start, Draw, Collect, CollectRaise,
                AllSampled, UpdatePost, UpdateDone, Persist, MainFails, PoolExit, Crash, Die,
                Worker, WorkerPost, WorkerApplied, WorkerRolledOut, WorkerReverted, Serve,
                Timeout, ServerRestart, vars, budget
    <2> QED
      BY <2>6, <2>7 DEF Acceptable
  <1> QED
    BY <1>2, <1>3

\* No history that a run has written, wherever it was killed, is refused by
\* validate_seed_sequence when the next launch resumes from it: the safety half of
\* EventuallyDone.
THEOREM NeverRefused ==
    ASSUME Scored
    PROVE  Spec => [](pc # "refused")
  <1>1. Init => IInv /\ Acceptable
    BY InitIInv, EmptySeq DEF Init, Acceptable, SeedSequenceValid
  <1>2. IInv /\ Acceptable /\ [Next]_vars => (IInv /\ Acceptable)'
    BY StepIInv, StepAcceptable
  <1>3. IInv /\ Acceptable => pc # "refused"
    BY DEF Acceptable
  <1> QED
    BY <1>1, <1>2, <1>3, PTL DEF Spec

=============================================================================
