---------------------------- MODULE AhdModelESProofs ----------------------------
(***************************************************************************)
(* Proofs about EoH under model ES: every engine is where history.json     *)
(* says (EnginesInSync), the population never runs ahead of the model      *)
(* (GenerationsCovered), and history.json is that of a training nothing    *)
(* interrupted (ESTraining), for any number of engines, workers,           *)
(* directions, operators, generations, kills, restarts and timeouts.       *)
(***************************************************************************)
EXTENDS AhdModelES, SequenceTheorems, TLAPS

\* What a program earns is a number. (Not an ASSUME: it is about logs of every
\* length, which TLC cannot enumerate.)
Scored ==
    \A log \in Seq(Updates), p \in Nat \cup {None} : RewardsOf(log, p) \subseteq Nat

-------------------------------------------------------------------------------
(* The inductive invariant: what is true of one engine's backlog q, ES state  *)
(* s and reply r, and of the directions k of the batch.                       *)

LastOf(q) == q[Len(q)]

Logs == Seq(Updates)
States == [ready : BOOLEAN, log : Logs, active : Nat \cup {None}]
PoolOps == {"apply", "rollout", "revert"}
Requests ==
    [op : {"init"}, arg : {None}, live : BOOLEAN]
        \cup [op : PoolOps, arg : Nat, live : BOOLEAN]
        \cup [op : {"update"}, arg : Updates, live : BOOLEAN]
Queues == Seq(Requests)
Replies == {"none", "pending", "ok", "error"}
Stages == {"queued", "waiting", "apply", "generate", "revert", "returned"}
Batches == [Tasks -> [reward : Nat, stage : Stages]]

\* Only the last request of a backlog is waited for.
Chan(q, r) ==
    /\ \A n \in 1 .. Len(q) : q[n].live <=> (n = Len(q) /\ r = "pending")
    /\ r = "pending" => q # <<>>
    /\ r = "ok" => q = <<>>

\* The engine holds exactly this log, unless it has restarted.
At(s, log) == s.ready => s.log = log /\ s.active = None

\* Nothing is under way on the engine.
Idle(q, s, r, log) == q = <<>> /\ r = "none" /\ At(s, log)

\* An init waits behind whatever an earlier run left.
Clearing(q, s, r) ==
    /\ r = "pending" => LastOf(q) = Request("init", None)
    /\ r = "ok" => At(s, <<>>)

\* The updates of the history, its first n, and those with the batch under way.
Trained == UpdatesOf(disk)
Replayed(n) == SubSeq(Trained, 1, n)
NextLog == Append(Trained, Update(Record))

Replaying(e, q, s, r) ==
    /\ e < cur => Idle(q, s, r, Replayed(rec))
    /\ e > cur => Idle(q, s, r, Replayed(rec - 1))
    /\ e = cur =>
          /\ r = "none" => q = <<>> /\ At(s, Replayed(rec - 1))
          /\ r = "pending" => /\ q = <<Request("update", Trained[rec])>>
                              /\ At(s, Replayed(rec - 1))
          /\ r = "ok" => At(s, Replayed(rec))

\* The directions whose turn on the engine it ever is; holding its lock.
Of(e) == {i \in Tasks : EngineOf(i) = e}
Locking == {"apply", "generate", "revert"}
Free(e, k) == \A i \in Of(e) : k[i].stage \notin Locking

\* A reward the direction earns from the model of the history, or invalid.
Earns(i, reward) == reward \in OrInvalid(Trained, Seed(i))
AllEarned(e) == \A i \in Of(e) : Earns(i, task[i].reward)

\* How far the direction that holds the engine is.
Applying(i, q, s, r) ==
    /\ r = "pending" => LastOf(q) = Request("apply", Seed(i))
    /\ (r = "ok" /\ s.ready) => s.active = Seed(i)

Generating(i, t, q, s, r) ==
    /\ \A n \in 1 .. Len(q) : q[n].op = "rollout"
    /\ s.ready => s.active = Seed(i)
    /\ (r = "ok" /\ s.ready) => Earns(i, t.reward)

Reverting(i, t, q, s, r) ==
    /\ r = "pending" => LastOf(q) = Request("revert", Seed(i))
    /\ s.ready => Earns(i, t.reward)

Held(i, t, q, s, r) ==
    /\ t.stage = "apply" => Applying(i, q, s, r)
    /\ t.stage = "generate" => Generating(i, t, q, s, r)
    /\ t.stage = "revert" => Reverting(i, t, q, s, r)
    /\ t.stage = "returned" => (s.ready => Earns(i, t.reward))

\* While the pool works: its requests are the batch's, and the engine's model is
\* the history's; only the direction that holds the engine waits for it.
Pooled(q, s) ==
    /\ \A n \in 1 .. Len(q) : q[n].op \in PoolOps
    /\ s.ready => s.log = Trained

Working(e, q, s, r, k) ==
    /\ Pooled(q, s)
    /\ Free(e, k) => r = "none"
    /\ \A i \in Of(e) : Held(i, k[i], q, s, r)

Updating(e, q, s, r) ==
    /\ e < cur => Idle(q, s, r, NextLog) /\ AllEarned(e)
    /\ e > cur => r = "none" /\ Pooled(q, s) /\ (s.ready => AllEarned(e))
    /\ e = cur =>
          /\ r = "none" => Pooled(q, s) /\ (s.ready => AllEarned(e))
          /\ r = "pending" =>
                /\ LastOf(q) = Request("update", Update(Record))
                /\ \A n \in 1 .. Len(q) - 1 : q[n].op \in PoolOps
                /\ s.ready => s.log = Trained /\ AllEarned(e)
          /\ r = "ok" => At(s, NextLog) /\ AllEarned(e)

\* What the driver has brought the engine to.
Phase(e, q, s, r, k) ==
    /\ pc = "down" => r = "none"
    /\ pc = "init" => /\ e < cur => Idle(q, s, r, <<>>)
                      /\ e > cur => r = "none"
                      /\ e = cur => Clearing(q, s, r)
    /\ pc = "restore" => Idle(q, s, r, <<>>)
    /\ pc = "replay" => Replaying(e, q, s, r)
    /\ pc \in {"start", "draw", "save", "done"} => Idle(q, s, r, Trained)
    /\ pc \in {"sample", "evaluate"} => Working(e, q, s, r, k)
    /\ pc = "update" => Updating(e, q, s, r)
    /\ pc = "persist" => Idle(q, s, r, NextLog)

Before == {"down", "init", "restore", "replay", "start"}
InBatch == {"sample", "evaluate", "update", "persist"}

\* The driver's own variables.
Driven ==
    /\ pc \in Before \cup InBatch \cup {"draw", "save", "done"}
    /\ pc \notin {"init", "replay", "update"} => cur = 1
    /\ pc \in {"down", "init", "restore"} => rec = 1
    /\ pc = "replay" => rec \in 1 .. Len(disk)
    /\ pc \notin {"down", "init", "restore"} => mem = disk
    /\ pc \in Before \cup {"save"} => operator = 1
    /\ pc \in InBatch \cup {"draw", "save"} => generation = saved /\ saved < Generations
    /\ pc \in {"draw", "save"} => rng = Len(disk) * Directions
    /\ pc \in InBatch => rng = Len(disk) * Directions + Directions

\* The directions of the batch, as far as the driver knows.
Batched ==
    /\ pc # "sample" => \A i \in Tasks : task[i].stage \in {"queued", "returned"}
    /\ pc \in {"evaluate", "update", "persist"} => \A i \in Tasks : task[i].stage = "returned"
    /\ pc = "persist" => \A i \in Tasks : Earns(i, task[i].reward)

OneHolder ==
    \A i, j \in Tasks : (Holds(i) /\ Holds(j) /\ EngineOf(i) = EngineOf(j)) => i = j

\* How many records of the current generation the history has.
Progress ==
    IF pc \in InBatch \cup {"draw"} THEN operator - 1 ELSE IF pc = "save" THEN NOperators ELSE 0

\* The last n records are the first n operators' of the generation under way.
Recent(n) ==
    /\ n <= Len(disk)
    /\ \A o \in 1 .. n : LET row == disk[Len(disk) - n + o]
                         IN  row.generation = saved /\ row.operator = o

\* The seeds of the history are those of the stream.
Streamed == \A n \in 1 .. Len(disk) : disk[n].seeds = Drawn((n - 1) * Directions)

Filed == Streamed /\ GenerationsCovered /\ Recent(Progress)

Typed ==
    /\ TypeOK
    /\ queue \in [Engines -> Queues]
    /\ crashes \in 0 .. MaxCrashes /\ restarts \in 0 .. MaxRestarts
    /\ timeouts \in 0 .. MaxTimeouts

Local(e) ==
    Chan(queue[e], reply[e]) /\ Phase(e, queue[e], engine[e], reply[e], task)

IInv ==
    /\ Typed /\ Driven /\ Batched /\ OneHolder /\ Filed
    /\ \A e \in Engines : Local(e)

-------------------------------------------------------------------------------
(* Sequences and requests *)

\* A backlog is empty when its length is.
LEMMA EmptyBacklog ==
    /\ <<>> \in Queues /\ Len(<<>>) = 0
    /\ \A q \in Queues : Len(q) \in Nat /\ (q = <<>> <=> Len(q) = 0)
  <1>1. \A q \in Queues : Len(q) \in Nat /\ (q # <<>> => Len(q) \in Nat \ {0})
    BY EmptySeq, LenProperties DEF Queues
  <1> QED
    BY <1>1, EmptySeq DEF Queues

\* A backlog without its head.
LEMMA TailFacts ==
    ASSUME NEW q \in Queues, q # <<>>
    PROVE  /\ Head(q) \in Requests /\ Head(q) = q[1] /\ 1 \in 1 .. Len(q)
           /\ Tail(q) \in Queues /\ Len(Tail(q)) = Len(q) - 1 /\ Len(q) \in Nat \ {0}
           /\ \A n \in 1 .. Len(Tail(q)) : n + 1 \in 1 .. Len(q) /\ Tail(q)[n] = q[n + 1]
           /\ Len(q) = 1 => Tail(q) = <<>> /\ Head(q) = LastOf(q)
           /\ Len(q) # 1 => Tail(q) # <<>> /\ LastOf(Tail(q)) = LastOf(q)
  <1>1. /\ Head(q) = q[1] /\ Tail(q) \in Queues /\ Len(Tail(q)) = Len(q) - 1
        /\ Len(q) \in Nat \ {0} /\ \A n \in 1 .. Len(Tail(q)) : Tail(q)[n] = q[n + 1]
    BY DEF Queues
  <1>2. Head(q) \in Requests
    BY <1>1 DEF Queues
  <1>3. Tail(q) = <<>> <=> Len(Tail(q)) = 0
    BY <1>1, EmptyBacklog, Zenon
  <1>4. ASSUME Len(q) # 1 PROVE Tail(q) # <<>> /\ LastOf(Tail(q)) = LastOf(q)
    <2>1. Len(q) - 1 \in 1 .. Len(Tail(q)) /\ (Len(q) - 1) + 1 = Len(q)
      BY <1>1, <1>4
    <2>2. Tail(q)[Len(q) - 1] = q[Len(q)]
      BY <1>1, <2>1
    <2>3. Tail(q) # <<>>
      BY <1>1, <1>3, <1>4
    <2> QED
      BY <1>1, <2>2, <2>3 DEF LastOf
  <1>5. Len(q) = 1 => Tail(q) = <<>> /\ Head(q) = LastOf(q)
    BY <1>1, <1>3 DEF LastOf
  <1>6. \A n \in 1 .. Len(Tail(q)) : n + 1 \in 1 .. Len(q)
    BY <1>1
  <1> QED
    BY <1>1, <1>2, <1>4, <1>5, <1>6

\* A backlog with one more request.
LEMMA AppendFacts ==
    ASSUME NEW q \in Queues, NEW m \in Requests
    PROVE  /\ Append(q, m) \in Queues /\ Len(Append(q, m)) = Len(q) + 1 /\ Len(q) \in Nat
           /\ Append(q, m) # <<>> /\ LastOf(Append(q, m)) = m
           /\ \A n \in 1 .. Len(q) : Append(q, m)[n] = q[n]
           /\ Append(q, m)[Len(q) + 1] = m
           /\ q = <<>> => Append(q, m) = <<m>>
  <1>1. /\ Append(q, m) \in Queues /\ Len(Append(q, m)) = Len(q) + 1 /\ Len(q) \in Nat
        /\ \A n \in 1 .. Len(q) : Append(q, m)[n] = q[n]
        /\ Append(q, m)[Len(q) + 1] = m
    BY DEF Queues
  <1>2. Append(q, m) # <<>> /\ LastOf(Append(q, m)) = m
    <2>1. Append(q, m) = <<>> <=> Len(Append(q, m)) = 0
      BY <1>1, EmptyBacklog, Zenon
    <2> QED
      BY <1>1, <2>1 DEF LastOf
  <1>3. Append(<<>>, m) = <<m>>
    OBVIOUS
  <1> QED
    BY <1>1, <1>2, <1>3

\* A backlog nobody waits for.
LEMMA AbandonedFacts ==
    ASSUME NEW q \in Queues
    PROVE  /\ Abandoned(q) \in Queues /\ Len(Abandoned(q)) = Len(q) /\ Len(q) \in Nat
           /\ \A n \in 1 .. Len(q) : Abandoned(q)[n].op = q[n].op /\ Abandoned(q)[n].live = FALSE
           /\ Abandoned(q) = <<>> <=> q = <<>>
  <1>1. \A n \in 1 .. Len(q) : q[n] \in Requests
    BY DEF Queues
  <1>2. \A m \in Requests :
          /\ [m EXCEPT !.live = FALSE] \in Requests
          /\ [m EXCEPT !.live = FALSE].op = m.op /\ [m EXCEPT !.live = FALSE].live = FALSE
    BY DEF Requests
  <1>3. Len(q) \in Nat
    BY DEF Queues
  <1>4. Abandoned(q) \in [1 .. Len(q) -> Requests]
    BY <1>1, <1>2 DEF Abandoned
  <1>5. Abandoned(q) \in Queues /\ Len(Abandoned(q)) = Len(q)
    BY <1>3, <1>4 DEF Queues
  <1>6. \A n \in 1 .. Len(q) : Abandoned(q)[n] = [q[n] EXCEPT !.live = FALSE]
    BY DEF Abandoned
  <1>7. Abandoned(q) = <<>> <=> q = <<>>
    BY <1>5, EmptyBacklog
  <1>8. \A n \in 1 .. Len(q) : Abandoned(q)[n].op = q[n].op /\ Abandoned(q)[n].live = FALSE
    BY <1>1, <1>2, <1>6
  <1> QED
    BY <1>3, <1>5, <1>7, <1>8

\* Which requests there are.
LEMMA RequestTypes ==
    /\ \A op, arg : /\ Request(op, arg).op = op /\ Request(op, arg).arg = arg
                    /\ Request(op, arg).live = TRUE
    /\ Request("init", None) \in Requests
    /\ \A op \in PoolOps, arg \in Nat : Request(op, arg) \in Requests
    /\ \A update \in Updates : Request("update", update) \in Requests
  BY DEF Request, Requests, PoolOps

-------------------------------------------------------------------------------
(* The history and the logs *)

\* What an update request carries of a record is an update.
LEMMA UpdateTypes ==
    /\ \A record \in Records : Update(record) \in Updates
    /\ \A records \in Seq(Records) :
          /\ UpdatesOf(records) \in Logs /\ Len(UpdatesOf(records)) = Len(records)
          /\ Len(records) \in Nat
          /\ \A n \in 1 .. Len(records) : /\ UpdatesOf(records)[n] = Update(records[n])
                                          /\ records[n] \in Records
  <1>1. \A record \in Records : Update(record) \in Updates
    BY DEF Update, Updates, Records
  <1>2. ASSUME NEW records \in Seq(Records)
        PROVE  /\ UpdatesOf(records) \in Logs /\ Len(UpdatesOf(records)) = Len(records)
               /\ Len(records) \in Nat
               /\ \A n \in 1 .. Len(records) : /\ UpdatesOf(records)[n] = Update(records[n])
                                               /\ records[n] \in Records
    <2>1. Len(records) \in Nat /\ \A n \in 1 .. Len(records) : records[n] \in Records
      OBVIOUS
    <2>2. UpdatesOf(records) \in [1 .. Len(records) -> Updates]
      BY <1>1, <2>1 DEF UpdatesOf
    <2>3. UpdatesOf(records) \in Logs /\ Len(UpdatesOf(records)) = Len(records)
      BY <2>1, <2>2 DEF Logs
    <2>4. \A n \in 1 .. Len(records) : UpdatesOf(records)[n] = Update(records[n])
      BY DEF UpdatesOf
    <2> QED
      BY <2>1, <2>3, <2>4
  <1> QED
    BY <1>1, <1>2

\* One more record is one more update.
LEMMA UpdatesAppend ==
    ASSUME NEW records \in Seq(Records), NEW record \in Records
    PROVE  UpdatesOf(Append(records, record)) = Append(UpdatesOf(records), Update(record))
  <1> DEFINE more == Append(records, record)
             log == Append(UpdatesOf(records), Update(record))
  <1>1. /\ more \in Seq(Records) /\ Len(more) = Len(records) + 1 /\ Len(records) \in Nat
        /\ \A n \in 1 .. Len(records) : more[n] = records[n]
        /\ more[Len(records) + 1] = record
    OBVIOUS
  <1>2. /\ UpdatesOf(records) \in Logs /\ Len(UpdatesOf(records)) = Len(records)
        /\ Update(record) \in Updates
        /\ \A n \in 1 .. Len(records) : UpdatesOf(records)[n] = Update(records[n])
    BY UpdateTypes
  <1>3. /\ log \in Logs /\ Len(log) = Len(records) + 1
        /\ \A n \in 1 .. Len(records) : log[n] = UpdatesOf(records)[n]
        /\ log[Len(records) + 1] = Update(record)
    BY <1>2 DEF Logs
  <1>4. /\ UpdatesOf(more) \in Logs /\ Len(UpdatesOf(more)) = Len(more)
        /\ \A n \in 1 .. Len(more) : UpdatesOf(more)[n] = Update(more[n])
    BY <1>1, UpdateTypes
  <1> HIDE DEF more, log
  <1>5. \A n \in 1 .. Len(records) + 1 : UpdatesOf(more)[n] = log[n]
    <2> TAKE n \in 1 .. Len(records) + 1
    <2>1. CASE n \in 1 .. Len(records)
      BY <1>1, <1>2, <1>3, <1>4, <2>1
    <2>2. CASE n = Len(records) + 1
      BY <1>1, <1>3, <1>4, <2>2
    <2> QED
      BY <1>1, <2>1, <2>2
  <1>6. UpdatesOf(more) = log
    BY <1>1, <1>3, <1>4, <1>5 DEF Logs
  <1> QED
    BY <1>6 DEF more, log

\* Replaying update n takes the first n - 1 updates to the first n.
LEMMA PrefixNext ==
    ASSUME NEW log \in Logs, NEW n \in 1 .. Len(log)
    PROVE  /\ SubSeq(log, 1, n - 1) \in Logs /\ log[n] \in Updates
           /\ Append(SubSeq(log, 1, n - 1), log[n]) = SubSeq(log, 1, n)
  <1>1. /\ SubSeq(log, 1, n - 1) \in Logs /\ Len(SubSeq(log, 1, n - 1)) = n - 1
        /\ \A i \in 1 .. n - 1 : SubSeq(log, 1, n - 1)[i] = log[i]
    BY DEF Logs
  <1>2. /\ SubSeq(log, 1, n) \in Logs /\ Len(SubSeq(log, 1, n)) = n
        /\ \A i \in 1 .. n : SubSeq(log, 1, n)[i] = log[i]
    BY DEF Logs
  <1>3. log[n] \in Updates
    BY DEF Logs
  <1> DEFINE next == Append(SubSeq(log, 1, n - 1), log[n])
  <1>4. /\ next \in Logs /\ Len(next) = (n - 1) + 1
        /\ \A i \in 1 .. n - 1 : next[i] = SubSeq(log, 1, n - 1)[i]
        /\ next[(n - 1) + 1] = log[n]
    BY <1>1, <1>3 DEF Logs
  <1>5. Len(next) = n /\ \A i \in 1 .. n : next[i] = SubSeq(log, 1, n)[i]
    BY <1>1, <1>2, <1>4
  <1> HIDE DEF next
  <1>6. next = SubSeq(log, 1, n)
    BY <1>2, <1>4, <1>5 DEF Logs
  <1> QED
    BY <1>1, <1>3, <1>6 DEF next

\* All of a log, and none of it.
LEMMA PrefixEnds ==
    ASSUME NEW log \in Logs
    PROVE  SubSeq(log, 1, Len(log)) = log /\ SubSeq(log, 1, 0) = <<>>
  BY DEF Logs

-------------------------------------------------------------------------------
(* One request at the engine *)

\* What a request may do to the ES state, by its operation.
Effect(s, m, ok, t) ==
    /\ t \in States /\ ok \in BOOLEAN
    /\ ~ok => t = s
    /\ m.op = "init" => ok /\ t.ready /\ t.log = <<>> /\ t.active = None
    /\ m.op = "rollout" => ok /\ t = s
    /\ m.op \in PoolOps => t.ready = s.ready /\ t.log = s.log
    /\ m.op = "apply" => /\ ok => t.active = m.arg
                         /\ (s.ready /\ s.active = None) => ok
    /\ m.op = "revert" => /\ ok => t.active = None
                          /\ s.active \in {None, m.arg} => ok
    /\ m.op = "update" => /\ t.ready = s.ready /\ t.active = s.active
                          /\ ok <=> s.ready /\ s.active = None
                          /\ ok => t.log = Append(s.log, m.arg)

\* The server's handlers do no more than that.
LEMMA Handled ==
    ASSUME NEW s \in States, NEW m \in Requests
    PROVE  Effect(s, m, Handle(s, m).ok, Handle(s, m).state)
  <1> SUFFICES ASSUME NEW ok, NEW t, ok = Handle(s, m).ok, t = Handle(s, m).state
               PROVE  Effect(s, m, ok, t)
    OBVIOUS
  <1>0. t = (IF ok THEN Changed(s, m) ELSE s)
    BY DEF Handle
  <1>1. CASE m.op = "init"
    <2>1. <<>> \in Logs
      BY EmptySeq DEF Logs
    <2>2. ok = TRUE /\ t = Initialised(s)
      BY <1>1 DEF Handle, Changed
    <2>3. t \in States /\ t.ready /\ t.log = <<>> /\ t.active = None
      BY <2>1, <2>2 DEF Initialised, States
    <2> QED
      BY <1>1, <2>2, <2>3 DEF Effect, PoolOps
  <1>2. CASE m.op = "rollout"
    <2>1. ok = TRUE /\ t = s
      BY <1>2 DEF Handle, Changed
    <2> QED
      BY <1>2, <2>1 DEF Effect
  <1>3. CASE m.op = "apply"
    <2>1. m.arg \in Nat
      BY <1>3 DEF Requests, PoolOps
    <2>2. [s EXCEPT !.active = m.arg] \in States
      BY <2>1 DEF States
    <2>3. ok = (s.ready /\ s.active \in {None, m.arg})
      BY <1>3 DEF Handle
    <2>4. t = IF ok THEN [s EXCEPT !.active = m.arg] ELSE s
      BY <1>0, <1>3 DEF Changed
    <2>5. ok => t.ready = s.ready /\ t.log = s.log /\ t.active = m.arg
      BY <2>4 DEF States
    <2>6. ok \in BOOLEAN /\ t \in States /\ ((s.ready /\ s.active = None) => ok)
      BY <2>2, <2>3, <2>4 DEF States
    <2> QED
      BY <1>3, <2>4, <2>5, <2>6 DEF Effect
  <1>4. CASE m.op = "revert"
    <2>1. [s EXCEPT !.active = None] \in States
      BY DEF States
    <2>2. ok = (s.active \in {None, m.arg})
      BY <1>4 DEF Handle
    <2>3. t = IF ok THEN [s EXCEPT !.active = None] ELSE s
      BY <1>0, <1>4 DEF Changed
    <2>4. ok => t.ready = s.ready /\ t.log = s.log /\ t.active = None
      BY <2>3 DEF States
    <2>5. ok \in BOOLEAN /\ t \in States
      BY <2>1, <2>2, <2>3
    <2> QED
      BY <1>4, <2>2, <2>3, <2>4, <2>5 DEF Effect
  <1>5. CASE m.op = "update"
    <2>1. m.arg \in Updates
      BY <1>5 DEF Requests, PoolOps
    <2>2. Append(s.log, m.arg) \in Logs
      BY <2>1 DEF States, Logs
    <2>3. ok = (s.ready /\ s.active = None)
      BY <1>5 DEF Handle
    <2>4. t = IF ok THEN [s EXCEPT !.log = Append(@, m.arg)] ELSE s
      BY <1>0, <1>5 DEF Changed
    <2>5. t.ready = s.ready /\ t.active = s.active /\ (ok => t.log = Append(s.log, m.arg))
      BY <2>4 DEF States
    <2>6. t \in States
      BY <2>2, <2>4 DEF States
    <2>7. ok \in BOOLEAN /\ (ok <=> s.ready /\ s.active = None)
      BY <2>3 DEF States
    <2> QED
      BY <1>5, <2>4, <2>5, <2>6, <2>7, Zenon DEF Effect, PoolOps
  <1> QED
    BY <1>1, <1>2, <1>3, <1>4, <1>5 DEF Requests, PoolOps

\* The answer the driver sees when its request was the one that was handled.
Reply(m, ok, r) == IF m.live THEN IF ok THEN "ok" ELSE "error" ELSE r

\* The backlog without its head, and what its sender now knows.
LEMMA ServedFacts ==
    ASSUME NEW q \in Queues, NEW r \in Replies, NEW ok \in BOOLEAN, q # <<>>, Chan(q, r)
    PROVE  LET m == Head(q)
               w == Reply(m, ok, r)
           IN  /\ Chan(Tail(q), w) /\ w \in Replies /\ r # "ok"
               /\ m.live => /\ r = "pending" /\ Len(q) = 1 /\ m = LastOf(q) /\ Tail(q) = <<>>
                            /\ w = (IF ok THEN "ok" ELSE "error")
               /\ ~m.live => w = r
               /\ (~m.live /\ r = "pending") => LastOf(Tail(q)) = LastOf(q) /\ Len(q) # 1
  <1> DEFINE m == Head(q)
             w == Reply(m, ok, r)
  <1>1. /\ m = q[1] /\ 1 \in 1 .. Len(q) /\ Len(q) \in Nat \ {0} /\ Len(Tail(q)) = Len(q) - 1
        /\ \A n \in 1 .. Len(Tail(q)) : n + 1 \in 1 .. Len(q) /\ Tail(q)[n] = q[n + 1]
        /\ Len(q) = 1 => Tail(q) = <<>> /\ m = LastOf(q)
        /\ Len(q) # 1 => Tail(q) # <<>> /\ LastOf(Tail(q)) = LastOf(q)
    BY TailFacts
  <1>2. q[1].live <=> (1 = Len(q) /\ r = "pending")
    BY <1>1, Zenon DEF Chan
  <1>3. m.live <=> (1 = Len(q) /\ r = "pending")
    BY <1>1, <1>2, Zenon
  <1>4. m.live => w = (IF ok THEN "ok" ELSE "error")
    BY DEF Reply
  <1>5. ~m.live => w = r
    BY DEF Reply
  <1>6. w \in Replies /\ r # "ok"
    BY <1>4, <1>5 DEF Chan, Replies
  <1>7. \A n \in 1 .. Len(Tail(q)) : Tail(q)[n].live <=> (n = Len(Tail(q)) /\ w = "pending")
    <2> TAKE n \in 1 .. Len(Tail(q))
    <2>1. n + 1 \in 1 .. Len(q) /\ Len(q) # 1 /\ Tail(q)[n] = q[n + 1]
      BY <1>1
    <2>2. q[n + 1].live <=> (n + 1 = Len(q) /\ r = "pending")
      BY <2>1, Zenon DEF Chan
    <2>3. Tail(q)[n].live <=> (n + 1 = Len(q) /\ r = "pending")
      BY <2>1, <2>2, Zenon
    <2>4. w = r
      BY <1>3, <1>5, <2>1
    <2>5. n + 1 = Len(q) <=> n = Len(Tail(q))
      BY <1>1
    <2> QED
      BY <2>3, <2>4, <2>5, Zenon
  <1>8. w = "pending" => Tail(q) # <<>>
    BY <1>1, <1>3, <1>4, <1>5
  <1>9. w = "ok" => Tail(q) = <<>>
    BY <1>1, <1>3, <1>5, <1>6
  <1>10. Chan(Tail(q), w)
    BY <1>7, <1>8, <1>9, Zenon DEF Chan
  <1>11. /\ m.live => r = "pending" /\ Len(q) = 1 /\ m = LastOf(q) /\ Tail(q) = <<>>
         /\ (~m.live /\ r = "pending") => LastOf(Tail(q)) = LastOf(q) /\ Len(q) # 1
    BY <1>1, <1>3
  <1> QED
    BY <1>4, <1>5, <1>6, <1>10, <1>11

\* A request is posted when none is waited for.
LEMMA PostedChan ==
    ASSUME NEW q \in Queues, NEW m \in Requests, Chan(q, "none"), m.live = TRUE
    PROVE  Chan(Append(q, m), "pending")
  <1> DEFINE p == Append(q, m)
  <1>1. /\ Len(p) = Len(q) + 1 /\ Len(q) \in Nat /\ p # <<>>
        /\ \A n \in 1 .. Len(q) : p[n] = q[n]
        /\ p[Len(q) + 1] = m
    BY AppendFacts
  <1>2. \A n \in 1 .. Len(p) : p[n].live <=> (n = Len(p) /\ "pending" = "pending")
    <2> TAKE n \in 1 .. Len(p)
    <2>1. CASE n \in 1 .. Len(q)
      <3>1. q[n].live <=> (n = Len(q) /\ "none" = "pending")
        BY <2>1 DEF Chan
      <3> QED
        BY <1>1, <2>1, <3>1
    <2>2. CASE n = Len(q) + 1
      BY <1>1, <2>2
    <2> QED
      BY <1>1, <2>1, <2>2
  <1> QED
    BY <1>1, <1>2 DEF Chan

\* A backlog the driver has given up on.
LEMMA AbandonedChan ==
    ASSUME NEW q \in Queues, NEW w \in {"none", "error"}
    PROVE  Chan(Abandoned(q), w)
  BY AbandonedFacts DEF Chan

\* An engine that has just started has no backlog.
LEMMA EmptyChan ==
    ASSUME NEW w, w # "pending"
    PROVE  Chan(<<>>, w)
  BY EmptyBacklog DEF Chan

\* The driver has taken an answer.
LEMMA ConsumedChan ==
    ASSUME NEW q, NEW r \in {"ok", "error"}, Chan(q, r)
    PROVE  Chan(q, "none")
  BY DEF Chan

-------------------------------------------------------------------------------
(* The engine takes a request: what it has been brought to stays true.        *)

\* The init of a launch.
LEMMA ServedClearing ==
    ASSUME NEW q \in Queues, NEW s \in States, NEW r \in Replies, NEW ok, NEW t,
           q # <<>>, Chan(q, r), Effect(s, Head(q), ok, t), Clearing(q, s, r)
    PROVE  Clearing(Tail(q), t, Reply(Head(q), ok, r))
  <1> DEFINE m == Head(q)
             w == Reply(m, ok, r)
  <1>1. ok \in BOOLEAN
    BY DEF Effect
  <1>2. CASE m.live
    <2>1. m = LastOf(q) /\ r = "pending" /\ w # "pending"
      BY <1>1, <1>2, ServedFacts
    <2>2. m.op = "init"
      BY <2>1, RequestTypes DEF Clearing
    <2>3. At(t, <<>>)
      BY <2>2 DEF Effect, At
    <2> QED
      BY <2>1, <2>3 DEF Clearing
  <1>3. CASE ~m.live
    <2>1. w = r /\ r # "ok" /\ (r = "pending" => LastOf(Tail(q)) = LastOf(q))
      BY <1>1, <1>3, ServedFacts
    <2> QED
      BY <2>1 DEF Clearing
  <1> QED
    BY <1>2, <1>3

\* A record's update on the engine the driver replays to.
LEMMA ServedReplaying ==
    ASSUME Trained \in Logs, rec \in 1 .. Len(Trained), cur \in Engines,
           NEW e \in Engines, NEW q \in Queues, NEW s \in States, NEW r \in Replies,
           NEW ok, NEW t, q # <<>>, Chan(q, r), Effect(s, Head(q), ok, t),
           Replaying(e, q, s, r)
    PROVE  Replaying(e, Tail(q), t, Reply(Head(q), ok, r))
  <1> DEFINE m == Head(q)
             w == Reply(m, ok, r)
  <1>1. ok \in BOOLEAN
    BY DEF Effect
  <1>2. e = cur /\ r \in {"pending", "error"}
    <2>1. e < cur \/ e > cur \/ e = cur
      BY DEF Engines
    <2> QED
      BY <1>1, <2>1, ServedFacts DEF Replaying, Idle, Replies
  <1>3. CASE r = "error"
    <2>1. w = "error"
      BY <1>1, <1>3, ServedFacts
    <2> QED
      BY <1>2, <2>1 DEF Replaying, Engines
  <1>4. CASE r = "pending"
    <2>1. q = <<Request("update", Trained[rec])>> /\ At(s, Replayed(rec - 1))
      BY <1>2, <1>4 DEF Replaying
    <2>2. m = Request("update", Trained[rec])
      BY <2>1
    <2>3. m.op = "update" /\ m.arg = Trained[rec] /\ m.live
      BY <2>2, RequestTypes
    <2>4. w = IF ok THEN "ok" ELSE "error"
      BY <1>1, <2>3, ServedFacts
    <2>5. ok => s.ready /\ s.active = None /\ t.active = None /\ t.log = Append(s.log, m.arg)
      BY <2>3 DEF Effect
    <2>6. Append(Replayed(rec - 1), Trained[rec]) = Replayed(rec)
      BY PrefixNext DEF Replayed
    <2>7. ok => At(t, Replayed(rec))
      BY <2>1, <2>3, <2>5, <2>6 DEF At
    <2> QED
      BY <1>2, <2>4, <2>7 DEF Replaying, Engines
  <1> QED
    BY <1>2, <1>3, <1>4

\* A request of the pool leaves the model as it is.
LEMMA ServedPooled ==
    ASSUME NEW q \in Queues, NEW s \in States, NEW ok, NEW t,
           q # <<>>, Effect(s, Head(q), ok, t), Pooled(q, s)
    PROVE  /\ Pooled(Tail(q), t) /\ Head(q).op \in PoolOps
           /\ t.ready = s.ready /\ t.log = s.log
  <1>1. Head(q).op \in PoolOps
    BY TailFacts DEF Pooled
  <1>2. \A n \in 1 .. Len(Tail(q)) : Tail(q)[n].op \in PoolOps
    BY TailFacts DEF Pooled
  <1>3. t.ready = s.ready /\ t.log = s.log
    BY <1>1 DEF Effect
  <1> QED
    BY <1>1, <1>2, <1>3 DEF Pooled

\* An apply, a revert, or a rollout nobody waits for.
LEMMA ServedWorking ==
    ASSUME NEW e \in Engines, NEW q \in Queues, NEW s \in States, NEW r \in Replies,
           NEW ok, NEW t, q # <<>>, Chan(q, r), Effect(s, Head(q), ok, t),
           ~(Head(q).live /\ Head(q).op = "rollout"), Working(e, q, s, r, task)
    PROVE  Working(e, Tail(q), t, Reply(Head(q), ok, r), task)
  <1> DEFINE m == Head(q)
             w == Reply(m, ok, r)
  <1>1. /\ ok \in BOOLEAN /\ Pooled(Tail(q), t) /\ m.op \in PoolOps
        /\ t.ready = s.ready /\ t.log = s.log
    BY ServedPooled DEF Effect, Working
  <1>2. /\ r # "ok"
        /\ m.live => /\ r = "pending" /\ m = LastOf(q)
                     /\ w = (IF ok THEN "ok" ELSE "error")
        /\ ~m.live => w = r
        /\ (~m.live /\ r = "pending") => LastOf(Tail(q)) = LastOf(q)
    BY <1>1, ServedFacts
  <1> HIDE DEF w
  <1>3. w = "pending" => r = "pending" /\ LastOf(Tail(q)) = LastOf(q)
    BY <1>2
  <1>4. w = "ok" => ok /\ m.live /\ m = LastOf(q) /\ r = "pending"
    BY <1>2
  <1>5. Free(e, task) => w = "none"
    BY <1>2 DEF Working
  <1>6. ASSUME NEW i \in Of(e) PROVE Held(i, task[i], Tail(q), t, w)
    <2>1. Held(i, task[i], q, s, r)
      BY <1>6 DEF Working
    <2>2. ASSUME task[i].stage = "apply" PROVE Applying(i, Tail(q), t, w)
      <3>1. Applying(i, q, s, r)
        BY <2>1, <2>2 DEF Held
      <3>2. w = "ok" => m.op = "apply" /\ m.arg = Seed(i)
        BY <1>4, <3>1, RequestTypes DEF Applying
      <3> QED
        BY <1>3, <1>4, <3>1, <3>2 DEF Applying, Effect
    <2>3. ASSUME task[i].stage = "generate" PROVE Generating(i, task[i], Tail(q), t, w)
      <3>1. Generating(i, task[i], q, s, r)
        BY <2>1, <2>3 DEF Held
      <3>2. m.op = "rollout" /\ \A n \in 1 .. Len(Tail(q)) : Tail(q)[n].op = "rollout"
        BY <3>1, TailFacts DEF Generating
      <3>3. t = s /\ w # "ok"
        BY <1>4, <3>2 DEF Effect
      <3> QED
        BY <3>1, <3>2, <3>3 DEF Generating
    <2>4. ASSUME task[i].stage = "revert" PROVE Reverting(i, task[i], Tail(q), t, w)
      <3>1. Reverting(i, task[i], q, s, r)
        BY <2>1, <2>4 DEF Held
      <3> QED
        BY <1>1, <1>3, <3>1 DEF Reverting
    <2> QED
      BY <1>1, <2>1, <2>2, <2>3, <2>4 DEF Held
  <1> QED
    BY <1>1, <1>5, <1>6 DEF Working, w

\* A completion: it is of the direction that holds the engine, and its program
\* earns what the model of the history does under that direction's seed.
LEMMA ServedRollout ==
    ASSUME OneHolder, task \in Batches,
           NEW e \in Engines, NEW q \in Queues, NEW s \in States, NEW r \in Replies,
           NEW ok, NEW t, q # <<>>, Chan(q, r), Effect(s, Head(q), ok, t),
           Head(q).live, Head(q).op = "rollout", Working(e, q, s, r, task),
           NEW i \in Holder(e), NEW reward \in RewardsOf(s.log, s.active)
    PROVE  /\ task[i].stage = "generate" /\ i \in Of(e)
           /\ Working(e, Tail(q), t, Reply(Head(q), ok, r), [task EXCEPT ![i].reward = reward])
  <1> DEFINE m == Head(q)
             k == [task EXCEPT ![i].reward = reward]
  <1>1. ok = TRUE /\ t = s
    BY DEF Effect
  <1>2. m = LastOf(q) /\ Tail(q) = <<>> /\ r = "pending" /\ Reply(m, ok, r) = "ok"
    BY <1>1, ServedFacts
  <1>3. i \in Tasks /\ i \in Of(e) /\ task[i].stage \in Locking
    BY DEF Holder, Holds, Of, Locking
  <1>4. Held(i, task[i], q, s, r)
    BY <1>3 DEF Working
  <1>5. task[i].stage = "generate"
    <2>1. task[i].stage # "apply" /\ task[i].stage # "revert"
      BY <1>2, <1>4, RequestTypes DEF Held, Applying, Reverting
    <2> QED
      BY <1>3, <2>1 DEF Locking
  <1>6. Pooled(Tail(q), t)
    BY ServedPooled DEF Working
  <1>7. /\ k[i].stage = "generate" /\ k[i].reward = reward
        /\ \A j \in Tasks : j # i => k[j] = task[j]
    BY <1>3, <1>5 DEF Batches
  <1>8. s.ready => s.active = Seed(i) /\ Earns(i, reward)
    BY <1>4, <1>5 DEF Held, Generating, Working, Pooled, Earns, OrInvalid
  <1>9. ASSUME NEW j \in Of(e) PROVE Held(j, k[j], <<>>, s, "ok")
    <2>1. CASE j = i
      <3>1. Generating(i, k[i], <<>>, s, "ok")
        BY <1>7, <1>8, EmptyBacklog DEF Generating
      <3> QED
        BY <1>7, <2>1, <3>1 DEF Held
    <2>2. CASE j # i
      <3>1. j \in Tasks /\ k[j] = task[j] /\ EngineOf(j) = e /\ EngineOf(i) = e
        BY <1>3, <1>7, <1>9, <2>2 DEF Of
      <3>2. task[j].stage \notin {"apply", "generate", "revert"}
        BY <1>3, <2>2, <3>1 DEF OneHolder, Holds, Locking
      <3>3. Held(j, task[j], q, s, r)
        BY <1>9 DEF Working
      <3> QED
        BY <3>1, <3>2, <3>3 DEF Held
    <2> QED
      BY <2>1, <2>2
  <1>10. ~Free(e, k)
    BY <1>3, <1>7 DEF Free, Locking
  <1> QED
    BY <1>1, <1>2, <1>3, <1>5, <1>6, <1>9, <1>10 DEF Working

\* The update of a batch on the engine the driver is at, behind what the pool left.
LEMMA ServedUpdating ==
    ASSUME cur \in Engines,
           NEW e \in Engines, NEW q \in Queues, NEW s \in States, NEW r \in Replies,
           NEW ok, NEW t, q # <<>>, Chan(q, r), Effect(s, Head(q), ok, t),
           Updating(e, q, s, r)
    PROVE  Updating(e, Tail(q), t, Reply(Head(q), ok, r))
  <1> DEFINE m == Head(q)
             w == Reply(m, ok, r)
  <1>0. ok \in BOOLEAN
    BY DEF Effect
  <1>1. /\ r # "ok"
        /\ m.live => /\ r = "pending" /\ m = LastOf(q)
                     /\ w = (IF ok THEN "ok" ELSE "error")
        /\ ~m.live => w = r
        /\ (~m.live /\ r = "pending") => LastOf(Tail(q)) = LastOf(q) /\ Len(q) # 1
    BY <1>0, ServedFacts
  <1> HIDE DEF w
  <1>2. ~(e < cur) /\ (e > cur \/ e = cur) /\ ~(e > cur /\ e = cur)
    BY DEF Updating, Idle, Engines
  <1>3. CASE r = "none" \/ e > cur
    <2>1. r = "none" /\ Pooled(q, s) /\ (s.ready => AllEarned(e))
      BY <1>2, <1>3 DEF Updating
    <2>2. w = "none" /\ Pooled(Tail(q), t) /\ t.ready = s.ready
      BY <1>1, <2>1, ServedPooled
    <2> QED
      BY <1>2, <2>1, <2>2 DEF Updating, w
  <1>4. CASE e = cur /\ r = "error"
    <2>1. w = "error"
      BY <1>1, <1>4
    <2> QED
      BY <1>2, <1>4, <2>1 DEF Updating, w
  <1>5. CASE e = cur /\ r = "pending"
    <2>1. /\ LastOf(q) = Request("update", Update(Record))
          /\ \A n \in 1 .. Len(q) - 1 : q[n].op \in PoolOps
          /\ s.ready => s.log = Trained /\ AllEarned(e)
      BY <1>5 DEF Updating
    <2>2. CASE m.live
      <3>1. m.op = "update" /\ m.arg = Update(Record) /\ w = IF ok THEN "ok" ELSE "error"
        BY <1>1, <2>1, <2>2, RequestTypes
      <3>2. ok => s.ready /\ t.active = None /\ t.log = Append(s.log, m.arg) /\ s.active = None
        BY <3>1 DEF Effect
      <3>3. ok => At(t, NextLog) /\ AllEarned(e)
        BY <2>1, <3>1, <3>2 DEF At, NextLog
      <3> QED
        BY <1>2, <1>5, <3>1, <3>3 DEF Updating, w
    <2>3. CASE ~m.live
      <3>1. w = "pending" /\ LastOf(Tail(q)) = LastOf(q) /\ Len(q) # 1
        BY <1>1, <1>5, <2>3
      <3>2. /\ m = q[1] /\ Len(q) \in Nat \ {0} /\ Len(Tail(q)) = Len(q) - 1
            /\ \A n \in 1 .. Len(Tail(q)) : Tail(q)[n] = q[n + 1]
        BY TailFacts
      <3>3. m.op \in PoolOps /\ \A n \in 1 .. Len(Tail(q)) - 1 : Tail(q)[n].op \in PoolOps
        <4>1. 1 \in 1 .. Len(q) - 1
          BY <3>1, <3>2
        <4>2. \A n \in 1 .. Len(Tail(q)) - 1 : n + 1 \in 1 .. Len(q) - 1 /\ n \in 1 .. Len(Tail(q))
          BY <3>2
        <4> QED
          BY <2>1, <3>2, <4>1, <4>2
      <3>4. t.ready = s.ready /\ t.log = s.log
        BY <3>3 DEF Effect
      <3> QED
        BY <1>2, <1>5, <2>1, <3>1, <3>3, <3>4 DEF Updating, w
    <2> QED
      BY <2>2, <2>3
  <1>6. r = "none" \/ r = "pending" \/ r = "error"
    BY <1>1 DEF Replies
  <1> QED
    BY <1>2, <1>3, <1>4, <1>5, <1>6

\* The types, engine by engine.
LEMMA EngineTypes ==
    ASSUME Typed, NEW e \in Engines
    PROVE  /\ queue[e] \in Queues /\ engine[e] \in States /\ reply[e] \in Replies
           /\ cur \in Engines /\ task \in Batches
           /\ Trained \in Logs /\ Len(Trained) = Len(disk) /\ Len(disk) \in Nat
           /\ \A n \in 1 .. Len(disk) : Trained[n] = Update(disk[n])
  <1>1. disk \in Seq(Records)
    BY DEF Typed, TypeOK
  <1>2. /\ queue[e] \in Queues /\ engine[e] \in States /\ reply[e] \in Replies
        /\ cur \in Engines /\ task \in Batches
    BY DEF Typed, TypeOK, States, Replies, Logs, Batches, Stages
  <1> QED
    BY <1>1, <1>2, UpdateTypes DEF Trained

\* Engines the driver is not talking to have nothing to serve, but for what an
\* earlier run left and for the directions' own requests.
LEMMA ServedPhase ==
    ASSUME Typed, Driven,
           NEW e \in Engines, NEW q \in Queues, NEW s \in States, NEW r \in Replies,
           NEW ok, NEW t, q # <<>>, Chan(q, r), Effect(s, Head(q), ok, t),
           ~(Head(q).live /\ Head(q).op = "rollout"), Phase(e, q, s, r, task)
    PROVE  Phase(e, Tail(q), t, Reply(Head(q), ok, r), task)
  <1> DEFINE w == Reply(Head(q), ok, r)
  <1>1. ok \in BOOLEAN /\ cur \in Engines
    BY EngineTypes DEF Effect
  <1>2. r = "none" => w = "none"
    BY <1>1, ServedFacts
  <1>3. pc = "down" => w = "none"
    BY <1>2 DEF Phase
  <1>4. pc = "init" => /\ ~(e < cur)
                       /\ e > cur => w = "none"
                       /\ e = cur => Clearing(Tail(q), t, w)
    BY <1>2, ServedClearing DEF Phase, Idle
  <1>5. pc \notin {"restore", "start", "draw", "save", "done", "persist"}
    BY DEF Phase, Idle
  <1>6. pc = "replay" => Replaying(e, Tail(q), t, w)
    BY <1>1, EngineTypes, ServedReplaying DEF Phase, Driven
  <1>7. pc = "update" => Updating(e, Tail(q), t, w)
    BY <1>1, ServedUpdating DEF Phase
  <1>8. pc \in {"sample", "evaluate"} => Working(e, Tail(q), t, w, task)
    BY ServedWorking DEF Phase
  <1> QED
    BY <1>3, <1>4, <1>5, <1>6, <1>7, <1>8 DEF Phase

-------------------------------------------------------------------------------
(* The driver gives up on a request; an engine starts again. *)

\* A request the driver gave up on leaves it with an error and nothing known.
LEMMA TimedOutPhase ==
    ASSUME cur \in Engines, NEW e \in Engines, NEW q \in Queues, NEW s \in States,
           Phase(e, q, s, "pending", task)
    PROVE  Phase(e, Abandoned(q), s, "error", task)
  <1>1. pc \notin {"down", "restore", "start", "draw", "save", "done", "persist"}
    BY DEF Phase, Idle
  <1>2. pc = "init" => ~(e < cur) /\ ~(e > cur) /\ Clearing(Abandoned(q), s, "error")
    BY DEF Phase, Idle, Clearing
  <1>3. pc = "replay" => Replaying(e, Abandoned(q), s, "error")
    BY DEF Phase, Replaying, Idle
  <1>4. pc = "update" => Updating(e, Abandoned(q), s, "error")
    BY DEF Phase, Updating, Idle
  <1>5. ASSUME pc \in {"sample", "evaluate"} PROVE Working(e, Abandoned(q), s, "error", task)
    <2>1. Working(e, q, s, "pending", task)
      BY <1>5 DEF Phase
    <2>2. Pooled(Abandoned(q), s) /\ ~Free(e, task)
      BY <2>1, AbandonedFacts DEF Working, Pooled
    <2>3. ASSUME NEW i \in Of(e) PROVE Held(i, task[i], Abandoned(q), s, "error")
      <3>1. Held(i, task[i], q, s, "pending")
        BY <2>1 DEF Working
      <3>2. task[i].stage = "generate" =>
                \A n \in 1 .. Len(Abandoned(q)) : Abandoned(q)[n].op = "rollout"
        BY <3>1, AbandonedFacts DEF Held, Generating
      <3> QED
        BY <3>1, <3>2 DEF Held, Applying, Generating, Reverting
    <2> QED
      BY <2>2, <2>3 DEF Working
  <1> QED
    BY <1>1, <1>2, <1>3, <1>4, <1>5 DEF Phase

\* A restarted engine is not ready: it promises nothing.
LEMMA RestartedPhase ==
    ASSUME cur \in Engines, NEW e \in Engines, NEW q \in Queues, NEW s \in States,
           NEW r \in Replies, NEW w \in Replies, w = IF r = "pending" THEN "error" ELSE r,
           Phase(e, q, s, r, task)
    PROVE  Phase(e, <<>>, Blank, w, task)
  <1>1. ~Blank.ready /\ \A n : n \notin 1 .. Len(<<>>)
    BY EmptyBacklog DEF Blank
  <1>2. (r = "none" <=> w = "none") /\ w # "pending" /\ (w = "ok" <=> r = "ok")
    OBVIOUS
  <1>3. \A log : At(Blank, log) /\ (Idle(q, s, r, log) => Idle(<<>>, Blank, w, log))
    BY <1>1, <1>2 DEF Idle, At
  <1>4. Pooled(<<>>, Blank)
    BY <1>1 DEF Pooled
  <1>5. pc = "init" => /\ e < cur => Idle(<<>>, Blank, w, <<>>)
                       /\ e > cur => w = "none"
                       /\ e = cur => Clearing(<<>>, Blank, w)
    BY <1>2, <1>3 DEF Phase, Clearing
  <1>6. pc = "replay" => Replaying(e, <<>>, Blank, w)
    BY <1>2, <1>3 DEF Phase, Replaying
  <1>7. pc = "update" => Updating(e, <<>>, Blank, w)
    BY <1>1, <1>2, <1>3, <1>4 DEF Phase, Updating
  <1>8. ASSUME pc \in {"sample", "evaluate"} PROVE Working(e, <<>>, Blank, w, task)
    <2>1. Working(e, q, s, r, task)
      BY <1>8 DEF Phase
    <2>2. ASSUME NEW i \in Of(e) PROVE Held(i, task[i], <<>>, Blank, w)
      BY <1>1, <1>2 DEF Held, Applying, Generating, Reverting
    <2> QED
      BY <1>2, <1>4, <2>1, <2>2 DEF Working
  <1>9. /\ pc = "down" => w = "none"
        /\ pc = "restore" => Idle(<<>>, Blank, w, <<>>)
        /\ pc \in {"start", "draw", "save", "done"} => Idle(<<>>, Blank, w, Trained)
        /\ pc = "persist" => Idle(<<>>, Blank, w, NextLog)
    BY <1>2, <1>3 DEF Phase
  <1> QED
    BY <1>5, <1>6, <1>7, <1>8, <1>9 DEF Phase

-------------------------------------------------------------------------------
(* The steps of one engine, and of the directions on it *)

driver == <<disk, saved, pc, cur, rec, mem, rng, generation, operator>>

\* While the driver stands still, the history and the seeds of a batch do, too.
LEMMA HistoryKept ==
    ASSUME UNCHANGED <<disk, rng>>
    PROVE  /\ Trained' = Trained /\ (\A n : Replayed(n)' = Replayed(n))
           /\ \A i : Seed(i)' = Seed(i)
           /\ \A i, reward : Earns(i, reward)' <=> Earns(i, reward)
  <1>1. Trained' = Trained
    BY DEF Trained, UpdatesOf
  <1>2. \A i : Seed(i)' = Seed(i)
    BY DEF Seed
  <1> QED
    BY <1>1, <1>2 DEF Replayed, Earns, OrInvalid

\* A direction is where it was on its engine.
LEMMA WorkingKept ==
    ASSUME UNCHANGED <<disk, rng>>, NEW e,
           Working(e, queue'[e], engine'[e], reply'[e], task')
    PROVE  Working(e, queue[e], engine[e], reply[e], task)'
  <1>1. Pooled(queue[e], engine[e])' /\ (Free(e, task)' => reply'[e] = "none")
    BY HistoryKept DEF Working, Pooled, Free
  <1>2. ASSUME NEW i \in Of(e) PROVE Held(i, task[i], queue[e], engine[e], reply[e])'
    <2>1. Held(i, task'[i], queue'[e], engine'[e], reply'[e])
      BY <1>2 DEF Working
    <2>2. task'[i].stage = "apply" => Applying(i, queue[e], engine[e], reply[e])'
      BY <2>1, HistoryKept DEF Held, Applying, LastOf
    <2>3. task'[i].stage = "generate" =>
              Generating(i, task[i], queue[e], engine[e], reply[e])'
      BY <2>1, HistoryKept DEF Held, Generating
    <2>4. task'[i].stage = "revert" =>
              Reverting(i, task[i], queue[e], engine[e], reply[e])'
      BY <2>1, HistoryKept DEF Held, Reverting, LastOf
    <2> QED
      BY <2>1, <2>2, <2>3, <2>4, HistoryKept DEF Held
  <1> QED
    BY <1>1, <1>2 DEF Working

\* While the driver stands still, what it has brought an engine to means the same.
LEMMA LocalKept ==
    ASSUME UNCHANGED driver, task' = task \/ pc = "sample", NEW e,
           Chan(queue'[e], reply'[e]),
           Phase(e, queue'[e], engine'[e], reply'[e], task')
    PROVE  Local(e)'
  <1>1. /\ pc' = pc /\ cur' = cur /\ rec' = rec
        /\ UNCHANGED <<disk, rng>> /\ UNCHANGED <<generation, operator>>
    BY DEF driver
  <1>2. Chan(queue[e], reply[e])'
    BY DEF Chan
  <1>3. pc # "sample" => /\ NextLog' = NextLog /\ Update(Record)' = Update(Record)
                         /\ AllEarned(e)' <=> AllEarned(e)
    <2> SUFFICES ASSUME task' = task
                 PROVE  /\ NextLog' = NextLog /\ Update(Record)' = Update(Record)
                        /\ AllEarned(e)' <=> AllEarned(e)
      OBVIOUS
    <2>1. Update(Record)' = Update(Record)
      BY <1>1 DEF Update, Record, Seed
    <2>2. AllEarned(e)' <=> AllEarned(e)
      BY <1>1, HistoryKept DEF AllEarned
    <2> QED
      BY <1>1, <2>1, <2>2, HistoryKept DEF NextLog
  <1>4. pc = "replay" => Replaying(e, queue[e], engine[e], reply[e])'
    BY <1>1, HistoryKept DEF Phase, Replaying, Idle, At
  <1>5. pc = "update" => Updating(e, queue[e], engine[e], reply[e])'
    BY <1>1, <1>3, HistoryKept DEF Phase, Updating, Idle, At, Pooled, LastOf
  <1>6. pc \in {"sample", "evaluate"} => Working(e, queue[e], engine[e], reply[e], task)'
    BY <1>1, WorkingKept DEF Phase
  <1>7. /\ pc = "down" => reply'[e] = "none"
        /\ pc = "init" => /\ e < cur => Idle(queue[e], engine[e], reply[e], <<>>)'
                          /\ e > cur => reply'[e] = "none"
                          /\ e = cur => Clearing(queue[e], engine[e], reply[e])'
        /\ pc = "restore" => Idle(queue[e], engine[e], reply[e], <<>>)'
    BY DEF Phase, Idle, At, Clearing, LastOf
  <1>8. /\ pc \in {"start", "draw", "save", "done"} =>
               Idle(queue[e], engine[e], reply[e], Trained)'
        /\ pc = "persist" => Idle(queue[e], engine[e], reply[e], NextLog)'
    BY <1>1, <1>3, HistoryKept DEF Phase, Idle, At
  <1> QED
    BY <1>1, <1>2, <1>4, <1>5, <1>6, <1>7, <1>8 DEF Local, Phase

\* While the driver stands still, its own part of the invariant does.
LEMMA DriverKept ==
    ASSUME Driven, Batched, Filed, UNCHANGED driver, task' = task \/ pc = "sample"
    PROVE  Driven' /\ Batched' /\ Filed'
  <1>1. /\ pc' = pc /\ cur' = cur /\ rec' = rec /\ mem' = mem /\ rng' = rng /\ disk' = disk
        /\ operator' = operator /\ generation' = generation /\ saved' = saved
    BY DEF driver
  <1>2. Driven'
    BY <1>1 DEF Driven
  <1>3. Batched'
    <2>1. CASE pc = "sample"
      BY <1>1, <2>1 DEF Batched
    <2>2. CASE task' = task
      BY <1>1, <2>2, HistoryKept DEF Batched
    <2> QED
      BY <2>1, <2>2
  <1>4. Filed'
    BY <1>1 DEF Filed, Streamed, GenerationsCovered, Recent, Progress
  <1> QED
    BY <1>2, <1>3, <1>4

\* A step of one engine, or of a direction on it, keeps the invariant when it does
\* so there.
LEMMA EngineStep ==
    ASSUME IInv, NEW e \in Engines,
           NEW q \in Queues, NEW s \in States, NEW r \in Replies, NEW k \in Batches,
           UNCHANGED driver,
           queue' = [queue EXCEPT ![e] = q], engine' = [engine EXCEPT ![e] = s],
           reply' = [reply EXCEPT ![e] = r], task' = k,
           k = task \/ pc = "sample", \A i \in Tasks \ Of(e) : k[i] = task[i], OneHolder',
           crashes' \in 0 .. MaxCrashes, restarts' \in 0 .. MaxRestarts,
           timeouts' \in 0 .. MaxTimeouts,
           Chan(q, r), Phase(e, q, s, r, k)
    PROVE  IInv'
  <1>1. Typed'
    <2>1. Typed
      BY DEF IInv
    <2>2. /\ queue' \in [Engines -> Queues] /\ engine' \in [Engines -> States]
          /\ reply' \in [Engines -> Replies]
      BY <2>1 DEF Typed, TypeOK, States, Replies, Logs
    <2>3. TypeOK'
      BY <2>1, <2>2 DEF Typed, TypeOK, driver, States, Replies, Logs, Batches, Stages
    <2> QED
      BY <2>2, <2>3 DEF Typed
  <1>2. Driven' /\ Batched' /\ Filed'
    BY DriverKept DEF IInv
  <1>3. ASSUME NEW d \in Engines PROVE Local(d)'
    <2>1. /\ queue'[d] = IF d = e THEN q ELSE queue[d]
          /\ engine'[d] = IF d = e THEN s ELSE engine[d]
          /\ reply'[d] = IF d = e THEN r ELSE reply[d]
      BY DEF IInv, Typed, TypeOK
    <2>2. Local(d)
      BY DEF IInv
    <2>3. Chan(queue'[d], reply'[d])
      BY <2>1, <2>2 DEF Local
    <2>4. Phase(d, queue'[d], engine'[d], reply'[d], task')
      <3>1. CASE d = e
        BY <2>1, <3>1
      <3>2. CASE d # e
        <4>1. Phase(d, queue[d], engine[d], reply[d], task)
          BY <2>2 DEF Local
        <4>2. \A i \in Of(d) : k[i] = task[i]
          BY <3>2 DEF Of
        <4>3. Working(d, queue[d], engine[d], reply[d], task) =>
                  Working(d, queue[d], engine[d], reply[d], k)
          BY <4>2 DEF Working, Free
        <4>4. Phase(d, queue[d], engine[d], reply[d], k)
          BY <4>1, <4>3 DEF Phase
        <4> QED
          BY <2>1, <3>2, <4>4
      <3> QED
        BY <3>1, <3>2
    <2> QED
      BY <2>3, <2>4, LocalKept
  <1> QED
    BY <1>1, <1>2, <1>3 DEF IInv

\* The bounds on what the environment does.
LEMMA BudgetTypes ==
    ASSUME Typed
    PROVE  /\ crashes \in 0 .. MaxCrashes /\ restarts \in 0 .. MaxRestarts
           /\ timeouts \in 0 .. MaxTimeouts
           /\ crashes < MaxCrashes => crashes + 1 \in 0 .. MaxCrashes
           /\ restarts < MaxRestarts => restarts + 1 \in 0 .. MaxRestarts
           /\ timeouts < MaxTimeouts => timeouts + 1 \in 0 .. MaxTimeouts
  BY BatchBounds DEF Typed

\* Leaving an engine's part alone is a special case of setting it.
LEMMA SetItself ==
    ASSUME Typed, NEW e \in Engines
    PROVE  /\ queue = [queue EXCEPT ![e] = queue[e]]
           /\ engine = [engine EXCEPT ![e] = engine[e]]
           /\ reply = [reply EXCEPT ![e] = reply[e]]
  BY DEF Typed, TypeOK

\* Every direction has an engine, and only a batch being sampled has holders.
LEMMA TaskFacts ==
    ASSUME IInv, NEW i \in Tasks
    PROVE  /\ EngineOf(i) \in Engines /\ i \in Of(EngineOf(i))
           /\ task \in Batches /\ task[i].stage \in Stages
           /\ task[i].stage \notin {"queued", "returned"} => pc = "sample"
           /\ Holds(i) <=> task[i].stage \in Locking
           /\ pc = "sample" => Seed(i) \in Nat \ {0} /\ Seed(i) = Len(disk) * Directions + i
  <1>1. NEngines \in Nat \ {0} /\ Directions \in Nat \ {0} /\ i \in Nat \ {0} /\ i - 1 \in Nat
    BY BatchShape DEF Tasks
  <1>2. \A n \in Nat, d \in Nat \ {0} : n % d \in 0 .. d - 1
    OBVIOUS
  <1>3. EngineOf(i) \in Engines
    BY <1>1, <1>2 DEF EngineOf, Engines
  <1>4. task \in Batches /\ task[i].stage \in Stages
    BY DEF IInv, Typed, TypeOK, Batches, Stages
  <1>5. task[i].stage \notin {"queued", "returned"} => pc = "sample"
    BY DEF IInv, Batched
  <1>6. ASSUME pc = "sample"
        PROVE  Seed(i) \in Nat \ {0} /\ Seed(i) = Len(disk) * Directions + i
    <2>1. rng = Len(disk) * Directions + Directions
      BY <1>6 DEF IInv, Driven, InBatch
    <2>2. Len(disk) \in Nat
      BY DEF IInv, Typed, TypeOK
    <2>3. Len(disk) * Directions \in Nat
      BY <1>1, <2>2
    <2> QED
      BY <1>1, <2>1, <2>3 DEF Seed
  <1> QED
    BY <1>3, <1>4, <1>5, <1>6 DEF Of, Holds, Locking

\* An engine takes its oldest request.
LEMMA ServeStep ==
    ASSUME Scored, IInv, NEW e \in Engines, Serve(e)
    PROVE  IInv'
  <1> DEFINE q == queue[e]
             m == Head(q)
             ok == Handle(engine[e], m).ok
             t == Handle(engine[e], m).state
             w == Reply(m, ok, reply[e])
  <1>1. /\ q \in Queues /\ engine[e] \in States /\ reply[e] \in Replies /\ task \in Batches
        /\ Typed /\ Driven /\ Batched /\ OneHolder
    BY EngineTypes DEF IInv
  <1>2. q # <<>> /\ UNCHANGED driver /\ UNCHANGED <<crashes, restarts, timeouts>>
    BY DEF Serve, driver, budget
  <1>3. m \in Requests /\ Tail(q) \in Queues
    BY <1>1, <1>2, TailFacts
  <1>4. Effect(engine[e], m, ok, t)
    BY <1>1, <1>3, Handled
  <1>5. t \in States /\ ok \in BOOLEAN
    BY <1>4 DEF Effect
  <1>6. /\ queue' = [queue EXCEPT ![e] = Tail(q)]
        /\ engine' = [engine EXCEPT ![e] = t]
        /\ reply' = [reply EXCEPT ![e] = w]
    BY <1>1, SetItself DEF Serve, Reply
  <1>7. Chan(q, reply[e]) /\ Phase(e, q, engine[e], reply[e], task)
    BY DEF IInv, Local
  <1>8. Chan(Tail(q), w) /\ w \in Replies
    BY <1>1, <1>2, <1>5, <1>7, ServedFacts
  <1>9. /\ crashes' \in 0 .. MaxCrashes /\ restarts' \in 0 .. MaxRestarts
        /\ timeouts' \in 0 .. MaxTimeouts
    BY <1>1, <1>2, BudgetTypes
  <1>10. CASE m.live /\ m.op = "rollout"
    <2>1. PICK i \in Holder(e), reward \in RewardsOf(engine[e].log, engine[e].active) :
              task' = [task EXCEPT ![i].reward = reward]
      BY <1>10 DEF Serve
    <2> DEFINE k == [task EXCEPT ![i].reward = reward]
    <2>2. reward \in Nat
      BY <1>1 DEF Scored, States, Logs
    <2>3. i \in Tasks /\ Holds(i) /\ i \in Of(e)
      BY DEF Holder, Of
    <2>4. pc = "sample"
      BY <2>3, TaskFacts DEF Holds
    <2>5. /\ k \in Batches /\ (\A j \in Tasks : k[j].stage = task[j].stage)
          /\ \A j \in Tasks \ Of(e) : k[j] = task[j]
      BY <1>1, <2>2, <2>3 DEF Batches
    <2>6. OneHolder'
      BY <1>1, <2>1, <2>5 DEF OneHolder, Holds, EngineOf
    <2>7. Working(e, q, engine[e], reply[e], task)
      BY <1>7, <2>4 DEF Phase
    <2>8. Working(e, Tail(q), t, w, k)
      BY <1>1, <1>2, <1>4, <1>7, <1>10, <2>7, ServedRollout
    <2>9. Phase(e, Tail(q), t, w, k)
      BY <2>4, <2>8 DEF Phase
    <2> HIDE DEF k, q, m, ok, t, w
    <2> QED
      BY <1>2, <1>3, <1>5, <1>6, <1>8, <1>9, <2>1, <2>4, <2>5, <2>6, <2>9, EngineStep DEF k
  <1>11. CASE ~(m.live /\ m.op = "rollout")
    <2>1. task' = task
      BY <1>11 DEF Serve
    <2>2. OneHolder'
      BY <1>1, <2>1 DEF OneHolder, Holds, EngineOf
    <2>3. Phase(e, Tail(q), t, w, task)
      BY <1>1, <1>2, <1>4, <1>7, <1>11, ServedPhase
    <2> HIDE DEF q, m, ok, t, w
    <2> QED
      BY <1>1, <1>2, <1>3, <1>5, <1>6, <1>8, <1>9, <2>1, <2>2, <2>3, EngineStep
  <1> QED
    BY <1>10, <1>11

\* While the directions stand still, one at most holds each engine.
LEMMA HolderKept ==
    ASSUME IInv, task' = task
    PROVE  OneHolder'
  BY DEF IInv, OneHolder, Holds, EngineOf

\* The driver gives up on a request.
LEMMA TimeoutStep ==
    ASSUME IInv, NEW e \in Engines, Timeout(e)
    PROVE  IInv'
  <1>1. /\ queue[e] \in Queues /\ engine[e] \in States /\ reply[e] \in Replies
        /\ task \in Batches /\ cur \in Engines /\ Typed
    BY EngineTypes DEF IInv
  <1>2. /\ reply[e] = "pending" /\ timeouts < MaxTimeouts /\ timeouts' = timeouts + 1
        /\ UNCHANGED driver /\ UNCHANGED <<task, crashes, restarts>>
        /\ queue' = [queue EXCEPT ![e] = Abandoned(queue[e])]
        /\ reply' = [reply EXCEPT ![e] = "error"]
        /\ engine' = [engine EXCEPT ![e] = engine[e]]
    BY <1>1, SetItself DEF Timeout, driver, local
  <1>3. Phase(e, queue[e], engine[e], reply[e], task)
    BY DEF IInv, Local
  <1>4. Chan(Abandoned(queue[e]), "error") /\ Abandoned(queue[e]) \in Queues
    BY <1>1, AbandonedChan, AbandonedFacts
  <1>5. Phase(e, Abandoned(queue[e]), engine[e], "error", task)
    BY <1>1, <1>2, <1>3, TimedOutPhase
  <1>6. /\ crashes' \in 0 .. MaxCrashes /\ restarts' \in 0 .. MaxRestarts
        /\ timeouts' \in 0 .. MaxTimeouts
    BY <1>1, <1>2, BudgetTypes
  <1>7. "error" \in Replies /\ OneHolder'
    BY <1>2, HolderKept DEF Replies
  <1> QED
    BY <1>1, <1>2, <1>4, <1>5, <1>6, <1>7, EngineStep

\* An engine dies and comes back.
LEMMA RestartStep ==
    ASSUME IInv, NEW e \in Engines, EngineRestart(e)
    PROVE  IInv'
  <1> DEFINE w == IF reply[e] = "pending" THEN "error" ELSE reply[e]
  <1>1. /\ queue[e] \in Queues /\ engine[e] \in States /\ reply[e] \in Replies
        /\ task \in Batches /\ cur \in Engines /\ Typed
    BY EngineTypes DEF IInv
  <1>2. /\ restarts < MaxRestarts /\ restarts' = restarts + 1
        /\ UNCHANGED driver /\ UNCHANGED <<task, crashes, timeouts>>
        /\ queue' = [queue EXCEPT ![e] = <<>>] /\ engine' = [engine EXCEPT ![e] = Blank]
        /\ reply' = [reply EXCEPT ![e] = w]
    BY DEF EngineRestart, driver, local
  <1>3. w \in Replies /\ w # "pending"
    BY <1>1 DEF Replies
  <1>4. Phase(e, queue[e], engine[e], reply[e], task)
    BY DEF IInv, Local
  <1>5. Chan(<<>>, w) /\ Phase(e, <<>>, Blank, w, task)
    BY <1>1, <1>3, <1>4, EmptyChan, RestartedPhase
  <1>6. <<>> \in Queues /\ Blank \in States
    BY EmptySeq DEF Queues, Blank, States, Logs
  <1>7. /\ crashes' \in 0 .. MaxCrashes /\ restarts' \in 0 .. MaxRestarts
        /\ timeouts' \in 0 .. MaxTimeouts
    BY <1>1, <1>2, BudgetTypes
  <1>8. OneHolder'
    BY <1>2, HolderKept
  <1> HIDE DEF w
  <1> QED
    BY <1>1, <1>2, <1>3, <1>5, <1>6, <1>7, <1>8, EngineStep

-------------------------------------------------------------------------------
(* Requests *)

\* A request is posted where nobody waits for one.
LEMMA PostStep ==
    ASSUME IInv, NEW e \in Engines, NEW op, NEW arg, Request(op, arg) \in Requests,
           reply[e] = "none", Post(e, op, arg),
           UNCHANGED driver, UNCHANGED <<engine, task, crashes, restarts, timeouts>>,
           Phase(e, Append(queue[e], Request(op, arg)), engine[e], "pending", task)
    PROVE  IInv'
  <1> DEFINE m == Request(op, arg)
  <1>1. /\ queue[e] \in Queues /\ engine[e] \in States /\ task \in Batches /\ Typed
        /\ "pending" \in Replies
    BY EngineTypes DEF IInv, Replies
  <1>2. Chan(queue[e], "none") /\ m.live = TRUE
    BY RequestTypes DEF IInv, Local
  <1>3. Chan(Append(queue[e], m), "pending") /\ Append(queue[e], m) \in Queues
    BY <1>1, <1>2, PostedChan, AppendFacts
  <1>4. /\ queue' = [queue EXCEPT ![e] = Append(queue[e], m)]
        /\ reply' = [reply EXCEPT ![e] = "pending"]
        /\ engine' = [engine EXCEPT ![e] = engine[e]]
    BY <1>1, SetItself DEF Post
  <1>5. /\ crashes' \in 0 .. MaxCrashes /\ restarts' \in 0 .. MaxRestarts
        /\ timeouts' \in 0 .. MaxTimeouts
    BY <1>1, BudgetTypes
  <1>6. OneHolder'
    BY HolderKept
  <1> HIDE DEF m
  <1> QED
    BY <1>1, <1>3, <1>4, <1>5, <1>6, EngineStep DEF m

\* The driver initialises an engine behind whatever its backlog holds.
LEMMA InitPostStep == IInv /\ InitPost => IInv'
  <1> SUFFICES ASSUME IInv, InitPost PROVE IInv'
    OBVIOUS
  <1> DEFINE m == Request("init", None)
  <1>1. /\ pc = "init" /\ reply[cur] = "none" /\ Post(cur, "init", None) /\ UNCHANGED driver
        /\ UNCHANGED <<engine, task, crashes, restarts, timeouts>>
    BY DEF InitPost, driver, local, budget
  <1>2. cur \in Engines /\ ~(cur < cur) /\ ~(cur > cur)
    BY DEF IInv, Typed, TypeOK, Engines
  <1>3. queue[cur] \in Queues /\ m \in Requests
    BY <1>2, EngineTypes, RequestTypes DEF IInv
  <1>4. LastOf(Append(queue[cur], m)) = m
    BY <1>3, AppendFacts
  <1>5. Phase(cur, Append(queue[cur], m), engine[cur], "pending", task)
    BY <1>1, <1>2, <1>4 DEF Phase, Clearing
  <1> QED
    BY <1>1, <1>2, <1>3, <1>5, PostStep

\* The driver replays a record of the history on an engine that lacks it.
LEMMA ReplayPostStep == IInv /\ ReplayPost => IInv'
  <1> SUFFICES ASSUME IInv, ReplayPost PROVE IInv'
    OBVIOUS
  <1> DEFINE m == Request("update", Update(mem[rec]))
  <1>1. /\ pc = "replay" /\ reply[cur] = "none" /\ Post(cur, "update", Update(mem[rec]))
        /\ UNCHANGED driver /\ UNCHANGED <<engine, task, crashes, restarts, timeouts>>
    BY DEF ReplayPost, driver, local, budget
  <1>2. cur \in Engines /\ ~(cur < cur) /\ ~(cur > cur)
    BY DEF IInv, Typed, TypeOK, Engines
  <1>3. /\ queue[cur] \in Queues /\ Trained \in Logs /\ Len(Trained) = Len(disk)
        /\ \A n \in 1 .. Len(disk) : Trained[n] = Update(disk[n])
    BY <1>2, EngineTypes DEF IInv
  <1>4. rec \in 1 .. Len(disk) /\ mem = disk
    BY <1>1 DEF IInv, Driven
  <1>5. Update(mem[rec]) = Trained[rec] /\ Trained[rec] \in Updates
    BY <1>3, <1>4, PrefixNext
  <1>6. m \in Requests
    BY <1>5, RequestTypes
  <1>7. Phase(cur, queue[cur], engine[cur], reply[cur], task)
    BY <1>2 DEF IInv, Local
  <1>8. queue[cur] = <<>> /\ At(engine[cur], Replayed(rec - 1))
    BY <1>1, <1>7 DEF Phase, Replaying
  <1>9. Append(queue[cur], m) = <<Request("update", Trained[rec])>>
    BY <1>3, <1>5, <1>6, <1>8, AppendFacts
  <1>10. Phase(cur, Append(queue[cur], m), engine[cur], "pending", task)
    BY <1>1, <1>2, <1>8, <1>9 DEF Phase, Replaying
  <1> QED
    BY <1>1, <1>2, <1>6, <1>10, PostStep

\* A batch makes a record: of this generation and operator, with the next seeds.
LEMMA RecordFacts ==
    ASSUME IInv, pc \in {"evaluate", "update", "persist"}
    PROVE  /\ Record \in Records /\ Record.generation = saved /\ Record.operator = operator
           /\ Record.seeds = Drawn(Len(disk) * Directions)
           /\ Update(Record) \in Updates
  <1>1. /\ rng = Len(disk) * Directions + Directions /\ generation = saved
        /\ saved < Generations
    BY DEF IInv, Driven, InBatch
  <1>2. /\ Len(disk) \in Nat /\ Directions \in Nat \ {0} /\ saved \in Nat /\ Generations \in Nat
        /\ operator \in 1 .. NOperators /\ task \in Batches
    BY BatchShape DEF IInv, Typed, TypeOK, Batches, Stages
  <1> DEFINE n == Len(disk) * Directions
  <1>3. n \in Nat /\ rng = n + Directions
    BY <1>1, <1>2
  <1> HIDE DEF n
  <1>4. \A i \in Tasks : Seed(i) = n + i /\ Seed(i) \in Nat \ {0}
    BY <1>2, <1>3 DEF Seed, Tasks
  <1>5. Record.seeds = Drawn(n) /\ Record.seeds \in Seeds
    BY <1>4 DEF Record, Drawn, Seeds
  <1>6. Record.rewards \in Rewards
    BY <1>2 DEF Record, Rewards, Batches
  <1>7. Record.generation = saved /\ Record.operator = operator /\ saved \in 0 .. Generations - 1
    BY <1>1, <1>2 DEF Record
  <1>8. Record = [generation |-> Record.generation, operator |-> Record.operator,
                  seeds |-> Record.seeds, rewards |-> Record.rewards]
    BY DEF Record
  <1>9. Record \in Records
    BY <1>2, <1>5, <1>6, <1>7, <1>8 DEF Records
  <1> QED
    BY <1>5, <1>7, <1>9, UpdateTypes DEF n

\* The driver sends the batch's update behind what the pool left.
LEMMA UpdatePostStep == IInv /\ UpdatePost => IInv'
  <1> SUFFICES ASSUME IInv, UpdatePost PROVE IInv'
    OBVIOUS
  <1> DEFINE m == Request("update", Update(Record))
             p == Append(queue[cur], m)
  <1>1. /\ pc = "update" /\ reply[cur] = "none" /\ Post(cur, "update", Update(Record))
        /\ UNCHANGED driver /\ UNCHANGED <<engine, task, crashes, restarts, timeouts>>
    BY DEF UpdatePost, driver, local, budget
  <1>2. cur \in Engines /\ ~(cur < cur) /\ ~(cur > cur)
    BY DEF IInv, Typed, TypeOK, Engines
  <1>3. queue[cur] \in Queues /\ m \in Requests
    BY <1>1, <1>2, EngineTypes, RecordFacts, RequestTypes DEF IInv
  <1>4. Phase(cur, queue[cur], engine[cur], reply[cur], task)
    BY <1>2 DEF IInv, Local
  <1>5. /\ \A n \in 1 .. Len(queue[cur]) : queue[cur][n].op \in PoolOps
        /\ engine[cur].ready => engine[cur].log = Trained /\ AllEarned(cur)
    BY <1>1, <1>2, <1>4 DEF Phase, Updating, Pooled
  <1>6. /\ LastOf(p) = m /\ Len(p) = Len(queue[cur]) + 1 /\ Len(queue[cur]) \in Nat
        /\ \A n \in 1 .. Len(queue[cur]) : p[n] = queue[cur][n]
    BY <1>3, AppendFacts
  <1>7. \A n \in 1 .. Len(p) - 1 : p[n].op \in PoolOps
    BY <1>5, <1>6
  <1>8. Updating(cur, p, engine[cur], "pending")
    BY <1>2, <1>5, <1>6, <1>7 DEF Updating
  <1>9. Phase(cur, p, engine[cur], "pending", task)
    BY <1>1, <1>8 DEF Phase
  <1> QED
    BY <1>1, <1>2, <1>3, <1>9, PostStep

-------------------------------------------------------------------------------
(* The directions *)

\* A direction moves on its engine; if it takes its answer, nobody waits there.
LEMMA TaskStep ==
    ASSUME IInv, pc = "sample", NEW i \in Tasks, NEW e \in Engines, e = EngineOf(i),
           NEW r \in {reply[e], "none"}, NEW x \in [reward : Nat, stage : Stages],
           UNCHANGED driver, UNCHANGED <<queue, engine, crashes, restarts, timeouts>>,
           reply' = [reply EXCEPT ![e] = r], task' = [task EXCEPT ![i] = x],
           Chan(queue[e], r), Held(i, x, queue[e], engine[e], r),
           Free(e, [task EXCEPT ![i] = x]) => r = "none",
           x.stage \in Locking => \A j \in Of(e) : j = i \/ task[j].stage \notin Locking
    PROVE  IInv'
  <1> DEFINE k == [task EXCEPT ![i] = x]
  <1>1. /\ queue[e] \in Queues /\ engine[e] \in States /\ task \in Batches /\ Typed
        /\ r \in Replies /\ OneHolder
    BY EngineTypes DEF IInv, Replies
  <1>2. /\ k[i] = x /\ k \in Batches /\ (\A j \in Tasks : j # i => k[j] = task[j])
        /\ \A j \in Tasks \ Of(e) : k[j] = task[j]
    BY <1>1 DEF Batches, Of
  <1>3. Working(e, queue[e], engine[e], reply[e], task)
    BY DEF IInv, Local, Phase
  <1> HIDE DEF k
  <1>4. ASSUME NEW j \in Of(e) PROVE Held(j, k[j], queue[e], engine[e], r)
    <2>1. CASE j = i
      BY <1>2, <2>1
    <2>2. CASE j # i
      <3>1. Held(j, task[j], queue[e], engine[e], reply[e]) /\ k[j] = task[j]
        BY <1>2, <1>3, <2>2 DEF Working, Of
      <3> QED
        BY <3>1 DEF Held, Applying, Generating, Reverting
    <2> QED
      BY <2>1, <2>2
  <1>5. Phase(e, queue[e], engine[e], r, k)
    BY <1>3, <1>4 DEF Phase, Working, k
  <1>6. OneHolder'
    <2> SUFFICES ASSUME NEW j1 \in Tasks, NEW j2 \in Tasks, Holds(j1)', Holds(j2)',
                        EngineOf(j1) = EngineOf(j2)
                 PROVE  j1 = j2
      BY DEF OneHolder, EngineOf
    <2>1. task' = k /\ k[j1].stage \in Locking /\ k[j2].stage \in Locking
      BY DEF Holds, Locking, k
    <2>2. CASE j1 # i /\ j2 # i
      BY <1>1, <1>2, <2>1, <2>2 DEF OneHolder, Holds, Locking
    <2>3. CASE j1 = i
      BY <1>2, <2>1, <2>3 DEF Of
    <2>4. CASE j2 = i
      BY <1>2, <2>1, <2>4 DEF Of
    <2> QED
      BY <2>2, <2>3, <2>4
  <1>7. /\ queue' = [queue EXCEPT ![e] = queue[e]]
        /\ engine' = [engine EXCEPT ![e] = engine[e]]
    BY <1>1, SetItself
  <1>8. /\ crashes' \in 0 .. MaxCrashes /\ restarts' \in 0 .. MaxRestarts
        /\ timeouts' \in 0 .. MaxTimeouts
    BY <1>1, BudgetTypes
  <1>9. task' = k
    BY DEF k
  <1> QED
    BY <1>1, <1>2, <1>5, <1>6, <1>7, <1>8, <1>9, EngineStep

\* The requests of a direction that holds its engine.
LEMMA TaskPostStep ==
    ASSUME IInv, NEW i \in Tasks, TaskPost(i)
    PROVE  IInv'
  <1> DEFINE e == EngineOf(i)
             op == IF task[i].stage = "generate" THEN "rollout" ELSE task[i].stage
             m == Request(op, Seed(i))
             p == Append(queue[e], m)
  <1>1. /\ e \in Engines /\ i \in Of(e) /\ task[i].stage \in Locking
        /\ pc = "sample" /\ Seed(i) \in Nat
    BY TaskFacts DEF TaskPost, Locking
  <1>2. /\ reply[e] = "none" /\ Post(e, op, Seed(i)) /\ UNCHANGED driver
        /\ UNCHANGED <<engine, task, crashes, restarts, timeouts>>
    BY DEF TaskPost, pool, driver, budget
  <1>3. /\ op = "apply" <=> task[i].stage = "apply"
        /\ op = "rollout" <=> task[i].stage = "generate"
        /\ op = "revert" <=> task[i].stage = "revert"
        /\ op \in PoolOps
    BY <1>1 DEF Locking, PoolOps
  <1> HIDE DEF op
  <1>4. m \in Requests /\ m.op = op /\ m.arg = Seed(i)
    BY <1>1, <1>3, RequestTypes
  <1>5. queue[e] \in Queues /\ OneHolder
    BY <1>1, EngineTypes DEF IInv
  <1> HIDE DEF m
  <1>6. /\ LastOf(p) = m /\ Len(p) = Len(queue[e]) + 1 /\ Len(queue[e]) \in Nat
        /\ p[Len(queue[e]) + 1] = m /\ \A n \in 1 .. Len(queue[e]) : p[n] = queue[e][n]
    BY <1>4, <1>5, AppendFacts
  <1> HIDE DEF p
  <1>7. Working(e, queue[e], engine[e], "none", task)
    BY <1>1, <1>2 DEF IInv, Local, Phase
  <1>8. Pooled(p, engine[e])
    <2>1. \A n \in 1 .. Len(p) : n \in 1 .. Len(queue[e]) \/ n = Len(queue[e]) + 1
      BY <1>6
    <2> QED
      BY <1>3, <1>4, <1>6, <1>7, <2>1 DEF Pooled, Working
  <1>9. ~Free(e, task)
    BY <1>1 DEF Free
  <1>10. ASSUME NEW j \in Of(e) PROVE Held(j, task[j], p, engine[e], "pending")
    <2>1. Held(j, task[j], queue[e], engine[e], "none")
      BY <1>7 DEF Working
    <2>2. CASE j = i
      <3>1. ASSUME task[i].stage = "generate" PROVE Generating(i, task[i], p, engine[e], "pending")
        <4>1. \A n \in 1 .. Len(p) : n \in 1 .. Len(queue[e]) \/ n = Len(queue[e]) + 1
          BY <1>6
        <4>2. Generating(i, task[i], queue[e], engine[e], "none")
          BY <2>1, <2>2, <3>1 DEF Held
        <4> QED
          BY <1>3, <1>4, <1>6, <3>1, <4>1, <4>2 DEF Generating
      <3>2. task[i].stage = "apply" => Applying(i, p, engine[e], "pending")
        BY <1>3, <1>6 DEF Applying, m
      <3>3. task[i].stage = "revert" => Reverting(i, task[i], p, engine[e], "pending")
        BY <1>3, <1>6, <2>1, <2>2 DEF Held, Reverting, m
      <3> QED
        BY <2>1, <2>2, <3>1, <3>2, <3>3 DEF Held
    <2>3. CASE j # i
      <3>1. task[j].stage \notin Locking
        BY <1>1, <1>5, <1>10, <2>3 DEF OneHolder, Holds, Locking, Of
      <3> QED
        BY <2>1, <3>1 DEF Held, Locking
    <2> QED
      BY <2>2, <2>3
  <1>11. Phase(e, p, engine[e], "pending", task)
    BY <1>1, <1>8, <1>9, <1>10 DEF Phase, Working
  <1> QED
    BY <1>1, <1>2, <1>4, <1>11, PostStep DEF m, p

\* A thread takes a direction, and waits for the engine's lock until it is free.
LEMMA TakeStep ==
    ASSUME IInv, NEW i \in Tasks, Take(i) \/ Acquire(i)
    PROVE  IInv'
  <1> DEFINE e == EngineOf(i)
             x == [task[i] EXCEPT !.stage = IF Take(i) THEN "waiting" ELSE "apply"]
  <1>1. e \in Engines /\ i \in Of(e) /\ task \in Batches
    BY TaskFacts
  <1>2. /\ pc = "sample" /\ UNCHANGED driver
        /\ UNCHANGED <<queue, reply, engine, crashes, restarts, timeouts>>
    BY TaskFacts DEF Take, Acquire, pool, driver, budget
  <1>3. Local(e) /\ Typed
    BY <1>1 DEF IInv
  <1>4. task' = [task EXCEPT ![i] = x]
    BY DEF Take, Acquire, Becomes
  <1>5. x \in [reward : Nat, stage : Stages]
    BY <1>1 DEF Batches, Stages
  <1>6. x.stage = (IF Take(i) THEN "waiting" ELSE "apply")
    BY <1>1 DEF Batches
  <1>7. reply' = [reply EXCEPT ![e] = reply[e]]
    BY <1>1, <1>2, <1>3, SetItself
  <1>8. Working(e, queue[e], engine[e], reply[e], task)
    BY <1>2, <1>3 DEF Local, Phase
  <1>9. ~Take(i) => Free(e, task)
    BY DEF Acquire, Holder, Holds, Free, Of, Locking
  <1>10. Held(i, x, queue[e], engine[e], reply[e])
    <2>1. CASE Take(i)
      BY <1>6, <2>1 DEF Held
    <2>2. CASE ~Take(i)
      <3>1. reply[e] = "none"
        BY <1>8, <1>9, <2>2 DEF Working
      <3> QED
        BY <1>6, <2>2, <3>1 DEF Held, Applying
    <2> QED
      BY <2>1, <2>2
  <1>11. Free(e, [task EXCEPT ![i] = x]) => reply[e] = "none"
    <2> SUFFICES ASSUME Free(e, [task EXCEPT ![i] = x]) PROVE Free(e, task)
      BY <1>8 DEF Working
    <2>1. ASSUME NEW j \in Of(e) PROVE task[j].stage \notin Locking
      <3>1. [task EXCEPT ![i] = x][j].stage \notin Locking
        BY <2>1 DEF Free
      <3>2. CASE j # i
        BY <1>1, <3>1, <3>2 DEF Batches, Of
      <3>3. CASE j = i
        BY <3>3 DEF Take, Acquire, Locking
      <3> QED
        BY <3>2, <3>3
    <2> QED
      BY <2>1 DEF Free
  <1>12. x.stage \in Locking => \A j \in Of(e) : j = i \/ task[j].stage \notin Locking
    BY <1>6, <1>9 DEF Free, Locking
  <1>13. Chan(queue[e], reply[e])
    BY <1>3 DEF Local
  <1> HIDE DEF x
  <1> QED
    BY <1>1, <1>2, <1>4, <1>5, <1>7, <1>10, <1>11, <1>12, <1>13, TaskStep

\* A direction that holds its engine takes its answer, and moves on.
LEMMA AnsweredStep ==
    ASSUME IInv, NEW i \in Tasks, NEW stage \in Locking, NEW answer \in {"ok", "error"},
           Answered(i, stage, answer),
           NEW x \in [reward : Nat, stage : Stages], task' = [task EXCEPT ![i] = x],
           Chan(queue[EngineOf(i)], answer)
              /\ Held(i, task[i], queue[EngineOf(i)], engine[EngineOf(i)], answer)
           => Held(i, x, queue[EngineOf(i)], engine[EngineOf(i)], "none")
    PROVE  IInv'
  <1> DEFINE e == EngineOf(i)
  <1>1. /\ e \in Engines /\ i \in Of(e) /\ pc = "sample" /\ reply[e] = answer
        /\ task[i].stage \in Locking
    BY TaskFacts DEF Answered, Locking
  <1>2. /\ UNCHANGED driver /\ UNCHANGED <<queue, engine, crashes, restarts, timeouts>>
        /\ reply' = [reply EXCEPT ![e] = "none"]
    BY DEF Answered, Consume, pool, driver, budget
  <1>3. Chan(queue[e], answer) /\ Held(i, task[i], queue[e], engine[e], answer) /\ OneHolder
    BY <1>1 DEF IInv, Local, Phase, Working
  <1>4. Chan(queue[e], "none")
    BY <1>3, ConsumedChan
  <1>5. \A j \in Of(e) : j = i \/ task[j].stage \notin Locking
    BY <1>1, <1>3 DEF OneHolder, Holds, Locking, Of
  <1> QED
    BY <1>1, <1>2, <1>3, <1>4, <1>5, TaskStep

\* What a direction becomes.
LEMMA TaskTypes ==
    ASSUME IInv, NEW i \in Tasks
    PROVE  /\ \A stage \in Stages :
                 /\ [task[i] EXCEPT !.stage = stage] \in [reward : Nat, stage : Stages]
                 /\ [task[i] EXCEPT !.stage = stage].stage = stage
                 /\ [task[i] EXCEPT !.stage = stage].reward = task[i].reward
                 /\ Becomes(i, stage) =>
                        task' = [task EXCEPT ![i] = [task[i] EXCEPT !.stage = stage]]
           /\ [stage |-> "returned", reward |-> Invalid] \in [reward : Nat, stage : Stages]
           /\ Earns(i, Invalid)
           /\ task[i] \in [reward : Nat, stage : Stages] /\ task = [task EXCEPT ![i] = task[i]]
  <1>1. task \in Batches
    BY TaskFacts
  <1>2. Invalid \in Nat
    BY BatchShape
  <1> QED
    BY <1>1, <1>2 DEF Batches, Stages, Becomes, Earns, OrInvalid

\* The answer to an apply: the engine runs under the direction's seed, or the
\* direction has failed.
LEMMA AppliedStep ==
    ASSUME IInv, NEW i \in Tasks, Applied(i)
    PROVE  IInv'
  <1> DEFINE e == EngineOf(i)
  <1>1. CASE Answered(i, "apply", "ok") /\ Becomes(i, "generate")
    <2> DEFINE x == [task[i] EXCEPT !.stage = "generate"]
    <2>1. /\ x \in [reward : Nat, stage : Stages] /\ x.stage = "generate"
          /\ task' = [task EXCEPT ![i] = x] /\ task[i].stage = "apply"
      BY <1>1, TaskTypes DEF Stages, Answered
    <2> HIDE DEF x
    <2>2. ASSUME Chan(queue[e], "ok"), Held(i, task[i], queue[e], engine[e], "ok")
          PROVE  Held(i, x, queue[e], engine[e], "none")
      <3>1. \A n : n \notin 1 .. Len(queue[e])
        BY <2>2, EmptyBacklog DEF Chan
      <3>2. engine[e].ready => engine[e].active = Seed(i)
        BY <2>1, <2>2 DEF Held, Applying
      <3> QED
        BY <2>1, <3>1, <3>2 DEF Held, Generating
    <2> QED
      BY <1>1, <2>1, <2>2, AnsweredStep DEF Locking
  <1>2. CASE Answered(i, "apply", "error") /\ Fails(i)
    BY <1>2, TaskTypes, AnsweredStep DEF Locking, Fails, Held
  <1> QED
    BY <1>1, <1>2 DEF Applied

\* The completion: what it earns is kept until the engine is reverted.
LEMMA GeneratedStep ==
    ASSUME IInv, NEW i \in Tasks, Generated(i)
    PROVE  IInv'
  <1> DEFINE e == EngineOf(i)
  <1>1. CASE Answered(i, "generate", "ok") /\ Becomes(i, "revert")
    <2> DEFINE x == [task[i] EXCEPT !.stage = "revert"]
    <2>1. /\ x \in [reward : Nat, stage : Stages] /\ x.stage = "revert"
          /\ x.reward = task[i].reward
          /\ task' = [task EXCEPT ![i] = x] /\ task[i].stage = "generate"
      BY <1>1, TaskTypes DEF Stages, Answered
    <2> HIDE DEF x
    <2>2. ASSUME Held(i, task[i], queue[e], engine[e], "ok")
          PROVE  Held(i, x, queue[e], engine[e], "none")
      BY <2>1, <2>2 DEF Held, Generating, Reverting
    <2> QED
      BY <1>1, <2>1, <2>2, AnsweredStep DEF Locking
  <1>2. CASE Answered(i, "generate", "error") /\ UNCHANGED task
    <2>1. task[i].stage = "generate"
      BY <1>2 DEF Answered
    <2>2. Held(i, task[i], queue[e], engine[e], "error") =>
              Held(i, task[i], queue[e], engine[e], "none")
      BY <2>1 DEF Held, Generating
    <2> QED
      BY <1>2, <2>2, TaskTypes, AnsweredStep DEF Locking
  <1> QED
    BY <1>1, <1>2 DEF Generated

\* The answer to a revert: the candidate with what it earns, or an invalid one.
LEMMA RevertedStep ==
    ASSUME IInv, NEW i \in Tasks, Reverted(i)
    PROVE  IInv'
  <1> DEFINE e == EngineOf(i)
  <1>1. CASE Answered(i, "revert", "ok") /\ Becomes(i, "returned")
    <2> DEFINE x == [task[i] EXCEPT !.stage = "returned"]
    <2>1. /\ x \in [reward : Nat, stage : Stages] /\ x.stage = "returned"
          /\ x.reward = task[i].reward
          /\ task' = [task EXCEPT ![i] = x] /\ task[i].stage = "revert"
      BY <1>1, TaskTypes DEF Stages, Answered
    <2> HIDE DEF x
    <2>2. ASSUME Held(i, task[i], queue[e], engine[e], "ok")
          PROVE  Held(i, x, queue[e], engine[e], "none")
      BY <2>1, <2>2 DEF Held, Reverting
    <2> QED
      BY <1>1, <2>1, <2>2, AnsweredStep DEF Locking
  <1>2. CASE Answered(i, "revert", "error") /\ Fails(i)
    BY <1>2, TaskTypes, AnsweredStep DEF Locking, Fails, Held
  <1> QED
    BY <1>1, <1>2 DEF Reverted

-------------------------------------------------------------------------------
(* The driver *)

\* A step of the driver that sends nothing, and may take an answer.
LEMMA DriverStep ==
    ASSUME IInv, UNCHANGED <<queue, engine>>, UNCHANGED budget,
           \A e \in Engines : \/ reply'[e] = reply[e]
                              \/ reply[e] \in {"ok", "error"} /\ reply'[e] = "none",
           TypeOK', Driven', Batched', OneHolder', Filed',
           \A e \in Engines : Phase(e, queue[e], engine[e], reply[e], task)'
    PROVE  IInv'
  <1>1. Typed'
    BY DEF IInv, Typed, budget
  <1>2. ASSUME NEW e \in Engines PROVE Local(e)'
    <2>1. Chan(queue[e], reply[e])
      BY DEF IInv, Local
    <2>2. Chan(queue[e], reply'[e])
      BY <2>1, ConsumedChan
    <2>3. Chan(queue[e], reply[e])'
      BY <2>2 DEF Chan
    <2> QED
      BY <2>3 DEF Local
  <1> QED
    BY <1>1, <1>2 DEF IInv

\* The driver has taken the answer of the engine it talks to.
LEMMA Consumed ==
    ASSUME IInv, reply[cur] = "ok", Consume(cur)
    PROVE  /\ reply'[cur] = "none" /\ queue[cur] = <<>>
           /\ \A e \in Engines : e # cur => reply'[e] = reply[e]
           /\ \A e \in Engines : \/ reply'[e] = reply[e]
                                 \/ reply[e] \in {"ok", "error"} /\ reply'[e] = "none"
           /\ reply' \in [Engines -> Replies]
  <1>1. reply \in [Engines -> Replies] /\ cur \in Engines
    BY DEF IInv, Typed, TypeOK, Replies
  <1>2. Chan(queue[cur], "ok")
    BY <1>1 DEF IInv, Local
  <1> QED
    BY <1>1, <1>2 DEF Consume, Chan, Replies

\* The engines in the order the driver goes through them.
LEMMA EngineOrder ==
    ASSUME cur \in Engines
    PROVE  /\ 1 \in Engines /\ (cur < NEngines => cur + 1 \in Engines)
           /\ ~(cur < NEngines) => \A e \in Engines : e # cur => e < cur
           /\ \A e \in Engines : /\ e < cur \/ e > cur \/ e = cur
                                 /\ ~(e < 1) /\ (e < cur + 1 => e < cur \/ e = cur)
                                 /\ e > cur + 1 => e > cur
                                 /\ e = cur + 1 => e > cur
                                 /\ e = cur => ~(e < cur) /\ ~(e > cur)
  BY BatchShape DEF Engines

\* A driver that is killed, or that a failed request ends, leaves the backlogs.
LEMMA DieStep ==
    ASSUME IInv, Die, UNCHANGED <<disk, saved, engine, restarts, timeouts>>,
           crashes' \in 0 .. MaxCrashes
    PROVE  IInv'
  <1>1. /\ pc' = "down" /\ cur' = 1 /\ rec' = 1 /\ mem' = <<>> /\ rng' = 0
        /\ generation' = 0 /\ operator' = 1 /\ task' = NoTasks
        /\ queue' = [e \in Engines |-> Abandoned(queue[e])]
        /\ reply' = [e \in Engines |-> "none"]
    BY DEF Die
  <1>2. Typed
    BY DEF IInv
  <1>3. NoTasks \in Batches /\ \A i \in Tasks : NoTasks[i].stage = "queued"
    BY BatchShape DEF NoTasks, Batches, Stages
  <1>4. \A e \in Engines : Abandoned(queue[e]) \in Queues
    BY <1>2, AbandonedFacts DEF Typed
  <1>5. 1 \in Engines /\ <<>> \in Seq(Records) /\ 1 \in 1 .. NOperators /\ 0 \in 0 .. Generations
    BY BatchShape, EmptySeq DEF Engines
  <1>6. TypeOK'
    BY <1>1, <1>2, <1>3, <1>5 DEF Typed, TypeOK, Batches, Stages
  <1>7. Typed'
    BY <1>1, <1>2, <1>4, <1>6 DEF Typed
  <1>8. Driven'
    BY <1>1 DEF Driven, Before, InBatch
  <1>9. Batched' /\ OneHolder'
    BY <1>1, <1>3 DEF Batched, OneHolder, Holds
  <1>10. Filed'
    <2>1. Progress' = 0
      BY <1>1 DEF Progress, InBatch
    <2>2. Len(disk) \in Nat /\ disk' = disk /\ saved' = saved
      BY <1>2 DEF Typed, TypeOK
    <2> QED
      BY <2>1, <2>2 DEF IInv, Filed, Streamed, GenerationsCovered, Recent
  <1>11. ASSUME NEW e \in Engines PROVE Local(e)'
    <2>1. queue'[e] = Abandoned(queue[e]) /\ reply'[e] = "none" /\ queue[e] \in Queues
      BY <1>1, <1>2 DEF Typed
    <2>2. Chan(Abandoned(queue[e]), "none")
      BY <2>1, AbandonedChan
    <2>3. Chan(queue[e], reply[e])'
      BY <2>1, <2>2 DEF Chan
    <2>4. Phase(e, queue[e], engine[e], reply[e], task)'
      BY <1>1, <2>1 DEF Phase
    <2> QED
      BY <2>3, <2>4 DEF Local
  <1> QED
    BY <1>7, <1>8, <1>9, <1>10, <1>11 DEF IInv

LEMMA CrashStep == IInv /\ Crash => IInv'
  BY DieStep, BudgetTypes DEF Crash, IInv

LEMMA DriverFailsStep == IInv /\ DriverFails => IInv'
  BY DieStep, BudgetTypes DEF DriverFails, budget, IInv

\* The parts of the invariant that are about the files alone.
LEMMA FiledKept ==
    ASSUME Filed, UNCHANGED <<disk, saved>>, Progress' = Progress
    PROVE  Filed'
  BY DEF Filed, Streamed, GenerationsCovered, Recent

\* The operator starts the run.
LEMMA LaunchStep == IInv /\ Launch => IInv'
  <1> SUFFICES ASSUME IInv, Launch PROVE IInv'
    OBVIOUS
  <1>1. /\ pc = "down" /\ pc' = "init"
        /\ UNCHANGED <<disk, saved, engine, queue, reply, cur, rec, mem, rng, generation,
                       operator, task>>
        /\ UNCHANGED budget
    BY DEF Launch, local
  <1>2. TypeOK'
    BY <1>1 DEF IInv, Typed, TypeOK
  <1>3. Driven' /\ Batched' /\ OneHolder'
    BY <1>1 DEF IInv, Driven, Batched, OneHolder, Holds, EngineOf, Before, InBatch
  <1>4. Filed'
    BY <1>1, FiledKept DEF IInv, Progress, InBatch
  <1>5. cur = 1 /\ cur \in Engines
    BY <1>1 DEF IInv, Driven, Typed, TypeOK
  <1>6. ASSUME NEW e \in Engines PROVE Phase(e, queue[e], engine[e], reply[e], task)'
    <2>1. reply'[e] = "none" /\ ~(e < cur')
      BY <1>1, <1>5, <1>6, EngineOrder DEF IInv, Local, Phase
    <2> QED
      BY <1>1, <2>1 DEF Phase, Clearing
  <1> QED
    BY <1>1, <1>2, <1>3, <1>4, <1>6, DriverStep

\* An engine has been reset to the base model.
LEMMA InitDoneStep == IInv /\ InitDone => IInv'
  <1> SUFFICES ASSUME IInv, InitDone PROVE IInv'
    OBVIOUS
  <1>1. /\ pc = "init" /\ reply[cur] = "ok" /\ Consume(cur)
        /\ IF cur < NEngines THEN cur' = cur + 1 /\ pc' = pc ELSE cur' = 1 /\ pc' = "restore"
        /\ UNCHANGED <<disk, saved, engine, queue, rec, mem, rng, generation, operator, task>>
        /\ UNCHANGED budget
    BY DEF InitDone
  <1>2. cur \in Engines /\ rec = 1 /\ operator = 1
    BY <1>1 DEF IInv, Typed, TypeOK, Driven, Before
  <1>3. TypeOK'
    BY <1>1, <1>2, Consumed, EngineOrder DEF IInv, Typed, TypeOK, Replies
  <1>4. Driven' /\ Batched' /\ OneHolder'
    BY <1>1, <1>2 DEF IInv, Driven, Batched, OneHolder, Holds, EngineOf, Before, InBatch
  <1>5. Filed'
    BY <1>1, FiledKept DEF IInv, Progress, InBatch
  <1>6. \A e \in Engines : /\ e < cur => Idle(queue[e], engine[e], reply[e], <<>>)
                           /\ e > cur => reply[e] = "none"
    BY <1>1 DEF IInv, Local, Phase
  <1>7. At(engine[cur], <<>>)
    BY <1>1, <1>2 DEF IInv, Local, Phase, Clearing
  <1>8. \A e \in Engines :
          /\ (e < cur \/ e = cur) => queue[e] = <<>> /\ reply'[e] = "none" /\ At(engine[e], <<>>)
          /\ e > cur => reply'[e] = "none"
    BY <1>1, <1>2, <1>6, <1>7, Consumed, EngineOrder DEF Idle
  <1>9. ASSUME NEW e \in Engines PROVE Phase(e, queue[e], engine[e], reply[e], task)'
    <2>1. CASE cur < NEngines
      <3>1. pc' = "init" /\ cur' = cur + 1
        BY <1>1, <2>1
      <3>2. /\ e < cur' => queue[e] = <<>> /\ reply'[e] = "none" /\ At(engine[e], <<>>)
            /\ e > cur' => reply'[e] = "none"
            /\ e = cur' => reply'[e] = "none"
        <4>1. (e < cur' => e < cur \/ e = cur) /\ (e > cur' => e > cur) /\ (e = cur' => e > cur)
          BY <1>2, <1>9, <3>1, EngineOrder
        <4> QED
          BY <1>8, <1>9, <4>1
      <3> QED
        BY <1>1, <3>1, <3>2 DEF Phase, Idle, Clearing, At
    <2>2. CASE ~(cur < NEngines)
      <3>1. pc' = "restore" /\ (e < cur \/ e = cur)
        BY <1>1, <1>2, <1>9, <2>2, EngineOrder
      <3> QED
        BY <1>1, <1>8, <1>9, <3>1 DEF Phase, Idle, At
    <2> QED
      BY <2>1, <2>2
  <1> QED
    BY <1>1, <1>3, <1>4, <1>5, <1>9, Consumed, DriverStep

\* The history of the interrupted run is never refused.
LEMMA RestoreStep == IInv /\ Restore => IInv'
  <1> SUFFICES ASSUME IInv, Restore PROVE IInv'
    OBVIOUS
  <1>1. \A k \in 1 .. Len(disk) : disk[k].seeds = Drawn((k - 1) * Directions)
    BY DEF IInv, Filed, Streamed
  <1>2. /\ pc = "restore" /\ mem' = disk /\ pc' = (IF disk = <<>> THEN "start" ELSE "replay")
        /\ UNCHANGED <<disk, saved, engine, queue, reply, cur, rec, rng, generation, operator,
                       task>>
        /\ UNCHANGED budget
    BY <1>1 DEF Restore
  <1>3. /\ cur = 1 /\ rec = 1 /\ operator = 1 /\ cur \in Engines /\ disk \in Seq(Records)
        /\ Trained \in Logs /\ Len(Trained) = Len(disk) /\ Len(disk) \in Nat
    BY <1>2, EngineTypes DEF IInv, Typed, TypeOK, Driven, Before
  <1>4. (disk = <<>> => Trained = <<>>) /\ (disk # <<>> => 1 \in 1 .. Len(disk))
    <2>1. disk = <<>> => Len(Trained) = 0
      BY <1>3
    <2>2. Len(Trained) = 0 => Trained = <<>>
      BY <1>3, EmptySeq, LenProperties DEF Logs
    <2>3. disk # <<>> => Len(disk) \in Nat \ {0}
      BY <1>3, EmptySeq, LenProperties
    <2> QED
      BY <2>1, <2>2, <2>3
  <1>5. SubSeq(Trained, 1, 0) = <<>> /\ rec - 1 = 0
    BY <1>3, PrefixEnds
  <1>6. TypeOK'
    BY <1>2, <1>3 DEF IInv, Typed, TypeOK
  <1>7. Driven' /\ Batched' /\ OneHolder'
    BY <1>2, <1>3, <1>4
       DEF IInv, Driven, Batched, OneHolder, Holds, EngineOf, Before, InBatch
  <1>8. Filed'
    BY <1>2, FiledKept DEF IInv, Progress, InBatch
  <1>9. Trained' = Trained /\ rec' = rec /\ cur' = cur
    BY <1>2 DEF Trained, UpdatesOf
  <1>10. ASSUME NEW e \in Engines PROVE Phase(e, queue[e], engine[e], reply[e], task)'
    <2>1. queue[e] = <<>> /\ reply[e] = "none" /\ At(engine[e], <<>>)
      BY <1>2 DEF IInv, Local, Phase, Idle
    <2>2. CASE disk = <<>>
      BY <1>2, <1>4, <1>9, <2>1, <2>2 DEF Phase, Idle, At
    <2>3. CASE disk # <<>>
      <3>1. ~(e < cur)
        BY <1>3, <1>10, EngineOrder
      <3> QED
        BY <1>2, <1>5, <1>9, <2>1, <2>3, <3>1 DEF Phase, Replaying, Replayed, Idle, At
    <2> QED
      BY <2>2, <2>3
  <1> QED
    BY <1>2, <1>6, <1>7, <1>8, <1>10, DriverStep

\* A record has been replayed on an engine.
LEMMA ReplayDoneStep == IInv /\ ReplayDone => IInv'
  <1> SUFFICES ASSUME IInv, ReplayDone PROVE IInv'
    OBVIOUS
  <1>1. /\ pc = "replay" /\ reply[cur] = "ok" /\ Consume(cur)
        /\ IF cur < NEngines
           THEN cur' = cur + 1 /\ rec' = rec /\ pc' = pc
           ELSE /\ cur' = 1
                /\ IF rec < Len(mem) THEN rec' = rec + 1 /\ pc' = pc
                                     ELSE pc' = "start" /\ rec' = rec
        /\ UNCHANGED <<disk, saved, engine, queue, mem, rng, generation, operator, task>>
        /\ UNCHANGED budget
    BY DEF ReplayDone
  <1>2. /\ cur \in Engines /\ rec \in 1 .. Len(disk) /\ operator = 1 /\ mem = disk
        /\ Trained \in Logs /\ Len(Trained) = Len(disk) /\ Len(disk) \in Nat
    BY <1>1, EngineTypes DEF IInv, Typed, TypeOK, Driven, Before
  <1>3. TypeOK'
    BY <1>1, <1>2, Consumed, EngineOrder DEF IInv, Typed, TypeOK, Replies
  <1>4. Driven'
    BY <1>1, <1>2 DEF IInv, Driven, Before, InBatch
  <1>5. Batched' /\ OneHolder'
    BY <1>1 DEF IInv, Batched, OneHolder, Holds, EngineOf
  <1>6. Filed'
    BY <1>1, FiledKept DEF IInv, Progress, InBatch
  <1>7. Trained' = Trained
    BY <1>1 DEF Trained, UpdatesOf
  <1>8. \A e \in Engines : Replaying(e, queue[e], engine[e], reply[e])
    BY <1>1 DEF IInv, Local, Phase
  <1>9. \A e \in Engines :
          /\ (e < cur \/ e = cur) => /\ queue[e] = <<>> /\ reply'[e] = "none"
                                     /\ At(engine[e], Replayed(rec))
          /\ e > cur => /\ queue[e] = <<>> /\ reply'[e] = "none"
                        /\ At(engine[e], Replayed(rec - 1))
    BY <1>1, <1>2, <1>8, Consumed, EngineOrder DEF Replaying, Idle
  <1>10. ASSUME NEW e \in Engines PROVE Phase(e, queue[e], engine[e], reply[e], task)'
    <2>1. CASE cur < NEngines
      <3>1. pc' = "replay" /\ cur' = cur + 1 /\ rec' = rec
        BY <1>1, <2>1
      <3>2. /\ e < cur' => /\ queue[e] = <<>> /\ reply'[e] = "none"
                           /\ At(engine[e], Replayed(rec))
            /\ e > cur' => /\ queue[e] = <<>> /\ reply'[e] = "none"
                           /\ At(engine[e], Replayed(rec - 1))
            /\ e = cur' => /\ queue[e] = <<>> /\ reply'[e] = "none"
                           /\ At(engine[e], Replayed(rec - 1))
        <4>1. (e < cur' => e < cur \/ e = cur) /\ (e > cur' => e > cur) /\ (e = cur' => e > cur)
          BY <1>2, <1>10, <3>1, EngineOrder
        <4> QED
          BY <1>9, <1>10, <4>1
      <3> QED
        BY <1>1, <1>7, <3>1, <3>2 DEF Phase, Replaying, Replayed, Idle, At
    <2>2. CASE ~(cur < NEngines)
      <3>1. /\ cur' = 1 /\ queue[e] = <<>> /\ reply'[e] = "none"
            /\ At(engine[e], Replayed(rec)) /\ ~(e < 1)
        BY <1>1, <1>2, <1>9, <1>10, <2>2, EngineOrder
      <3>2. CASE rec < Len(mem)
        <4>1. pc' = "replay" /\ rec' - 1 = rec
          BY <1>1, <1>2, <2>2, <3>2
        <4> QED
          BY <1>1, <1>7, <3>1, <4>1 DEF Phase, Replaying, Replayed, Idle, At
      <3>3. CASE ~(rec < Len(mem))
        <4>1. pc' = "start" /\ rec = Len(Trained)
          BY <1>1, <1>2, <2>2, <3>3
        <4>2. Replayed(rec) = Trained
          BY <1>2, <4>1, PrefixEnds DEF Replayed
        <4> QED
          BY <1>1, <1>7, <3>1, <4>1, <4>2 DEF Phase, Idle, At
      <3> QED
        BY <3>2, <3>3
    <2> QED
      BY <2>1, <2>2
  <1> QED
    BY <1>1, <1>3, <1>4, <1>5, <1>6, <1>10, Consumed, DriverStep

\* The stream stands behind the history, and run() at the saved population.
LEMMA StartStep == IInv /\ Start => IInv'
  <1> SUFFICES ASSUME IInv, Start PROVE IInv'
    OBVIOUS
  <1>1. /\ pc = "start" /\ disk' = mem /\ rng' = Len(mem) * Directions /\ generation' = saved
        /\ pc' = (IF saved < Generations THEN "draw" ELSE "done")
        /\ UNCHANGED <<saved, engine, queue, reply, cur, rec, mem, operator, task>>
        /\ UNCHANGED budget
    BY DEF Start
  <1>2. mem = disk /\ cur = 1 /\ operator = 1 /\ disk' = disk
    BY <1>1 DEF IInv, Driven, Before
  <1>3. Len(disk) * Directions \in Nat
    <2>1. Len(disk) \in Nat /\ Directions \in Nat
      BY BatchShape DEF IInv, Typed, TypeOK
    <2> QED
      BY <2>1
  <1>4. TypeOK'
    BY <1>1, <1>2, <1>3 DEF IInv, Typed, TypeOK
  <1>5. Driven' /\ Batched' /\ OneHolder'
    BY <1>1, <1>2 DEF IInv, Driven, Batched, OneHolder, Holds, EngineOf, Before, InBatch
  <1>6. Filed'
    BY <1>1, <1>2, FiledKept DEF IInv, Progress, InBatch
  <1>7. Trained' = Trained
    BY <1>2 DEF Trained, UpdatesOf
  <1>8. ASSUME NEW e \in Engines PROVE Phase(e, queue[e], engine[e], reply[e], task)'
    BY <1>1, <1>7, <1>8 DEF IInv, Local, Phase, Idle, At
  <1> QED
    BY <1>1, <1>4, <1>5, <1>6, <1>8, DriverStep

\* A batch starts on engines that are idle and at the history.
LEMMA DrawStep == IInv /\ Draw => IInv'
  <1> SUFFICES ASSUME IInv, Draw PROVE IInv'
    OBVIOUS
  <1>1. /\ pc = "draw" /\ rng' = rng + Directions /\ task' = NoTasks /\ pc' = "sample"
        /\ UNCHANGED <<disk, saved, engine, queue, reply, cur, rec, mem, generation, operator>>
        /\ UNCHANGED budget
    BY DEF Draw
  <1>2. NoTasks \in Batches /\ \A i \in Tasks : NoTasks[i].stage = "queued"
    BY BatchShape DEF NoTasks, Batches, Stages
  <1>3. TypeOK'
    BY <1>1, <1>2, BatchShape DEF IInv, Typed, TypeOK, Batches, Stages
  <1>4. Driven' /\ Batched' /\ OneHolder'
    BY <1>1, <1>2 DEF IInv, Driven, Batched, OneHolder, Holds, Before, InBatch
  <1>5. Filed'
    BY <1>1, FiledKept DEF IInv, Progress, InBatch
  <1>6. Trained' = Trained
    BY <1>1 DEF Trained, UpdatesOf
  <1>7. ASSUME NEW e \in Engines PROVE Phase(e, queue[e], engine[e], reply[e], task)'
    <2>1. Idle(queue[e], engine[e], reply[e], Trained)
      BY <1>1 DEF IInv, Local, Phase
    <2>2. Pooled(queue[e], engine[e])'
      BY <1>1, <1>6, <2>1, EmptyBacklog DEF Idle, At, Pooled
    <2>3. ASSUME NEW i \in Of(e) PROVE Held(i, task[i], queue[e], engine[e], reply[e])'
      BY <1>1, <1>2, <2>3 DEF Held, Of
    <2>4. Working(e, queue[e], engine[e], reply[e], task)'
      BY <1>1, <2>1, <2>2, <2>3 DEF Working, Idle, Of, EngineOf
    <2> QED
      BY <1>1, <2>4 DEF Phase
  <1> QED
    BY <1>1, <1>3, <1>4, <1>5, <1>7, DriverStep

\* The executor has ended.
LEMMA CollectedStep == IInv /\ Collected => IInv'
  <1> SUFFICES ASSUME IInv, Collected PROVE IInv'
    OBVIOUS
  <1>1. /\ pc = "sample" /\ (\A i \in Tasks : task[i].stage = "returned") /\ pc' = "evaluate"
        /\ UNCHANGED <<disk, saved, engine, queue, reply, cur, rec, mem, rng, generation,
                       operator, task>>
        /\ UNCHANGED budget
    BY DEF Collected, local
  <1>2. TypeOK'
    BY <1>1 DEF IInv, Typed, TypeOK
  <1>3. Driven' /\ Batched' /\ OneHolder'
    BY <1>1 DEF IInv, Driven, Batched, OneHolder, Holds, EngineOf, Before, InBatch
  <1>4. Filed'
    BY <1>1, FiledKept DEF IInv, Progress, InBatch
  <1>5. ASSUME NEW e \in Engines PROVE Phase(e, queue[e], engine[e], reply[e], task)'
    <2>1. Working(e, queue[e], engine[e], reply[e], task)
      BY <1>1 DEF IInv, Local, Phase
    <2>2. Working(e, queue[e], engine[e], reply[e], task)'
      BY <1>1, <2>1, WorkingKept
    <2> QED
      BY <1>1, <2>2 DEF Phase
  <1> QED
    BY <1>1, <1>2, <1>3, <1>4, <1>5, DriverStep

\* The candidates have been evaluated: an engine that is still the one they were
\* written on gave each of its directions what it earns.
LEMMA EvaluatedStep == IInv /\ Evaluated => IInv'
  <1> SUFFICES ASSUME IInv, Evaluated PROVE IInv'
    OBVIOUS
  <1>1. /\ pc = "evaluate" /\ pc' = "update"
        /\ UNCHANGED <<disk, saved, engine, queue, reply, cur, rec, mem, rng, generation,
                       operator, task>>
        /\ UNCHANGED budget
    BY DEF Evaluated, local
  <1>2. cur = 1 /\ \A i \in Tasks : task[i].stage = "returned"
    BY <1>1 DEF IInv, Driven, Batched
  <1>3. TypeOK'
    BY <1>1 DEF IInv, Typed, TypeOK
  <1>4. Driven' /\ Batched' /\ OneHolder'
    BY <1>1 DEF IInv, Driven, Batched, OneHolder, Holds, EngineOf, Before, InBatch
  <1>5. Filed'
    BY <1>1, FiledKept DEF IInv, Progress, InBatch
  <1>6. ASSUME NEW e \in Engines PROVE Phase(e, queue[e], engine[e], reply[e], task)'
    <2>1. Working(e, queue[e], engine[e], reply[e], task)
      BY <1>1 DEF IInv, Local, Phase
    <2>2. Pooled(queue[e], engine[e]) /\ reply[e] = "none"
      BY <1>2, <2>1 DEF Working, Free, Of, Locking
    <2>3. engine[e].ready => AllEarned(e)
      BY <1>2, <2>1 DEF Working, Held, AllEarned, Of
    <2>4. (AllEarned(e)' <=> AllEarned(e)) /\ Trained' = Trained
      BY <1>1, HistoryKept DEF AllEarned, Of, EngineOf
    <2>5. ~(e < cur)
      BY <1>2, <1>6, EngineOrder DEF IInv, Typed, TypeOK
    <2> QED
      BY <1>1, <2>2, <2>3, <2>4, <2>5 DEF Phase, Updating, Pooled
  <1> QED
    BY <1>1, <1>3, <1>4, <1>5, <1>6, DriverStep

\* An engine that takes the batch's update has not restarted since the batch began.
LEMMA UpdateDoneStep == IInv /\ UpdateDone => IInv'
  <1> SUFFICES ASSUME IInv, UpdateDone PROVE IInv'
    OBVIOUS
  <1>1. /\ pc = "update" /\ reply[cur] = "ok" /\ Consume(cur)
        /\ IF cur < NEngines THEN cur' = cur + 1 /\ pc' = pc ELSE cur' = 1 /\ pc' = "persist"
        /\ UNCHANGED <<disk, saved, engine, queue, rec, mem, rng, generation, operator, task>>
        /\ UNCHANGED budget
    BY DEF UpdateDone
  <1>2. cur \in Engines
    BY DEF IInv, Typed, TypeOK
  <1>3. TypeOK'
    BY <1>1, <1>2, Consumed, EngineOrder DEF IInv, Typed, TypeOK, Replies
  <1>4. /\ Trained' = Trained /\ Update(Record)' = Update(Record) /\ NextLog' = NextLog
        /\ \A e : AllEarned(e)' <=> AllEarned(e)
        /\ \A i, reward : Earns(i, reward)' <=> Earns(i, reward)
    <2>1. Update(Record)' = Update(Record) /\ Trained' = Trained
      BY <1>1 DEF Update, Record, Seed, Trained, UpdatesOf
    <2>2. \A i, reward : Earns(i, reward)' <=> Earns(i, reward)
      BY <1>1, HistoryKept
    <2> QED
      BY <1>1, <2>1, <2>2 DEF NextLog, AllEarned, Of, EngineOf
  <1>5. \A e \in Engines : Updating(e, queue[e], engine[e], reply[e])
    BY <1>1 DEF IInv, Local, Phase
  <1>6. \A e \in Engines :
          /\ (e < cur \/ e = cur) => /\ queue[e] = <<>> /\ reply'[e] = "none"
                                     /\ At(engine[e], NextLog) /\ AllEarned(e)
          /\ e > cur => /\ reply'[e] = "none" /\ Pooled(queue[e], engine[e])
                        /\ engine[e].ready => AllEarned(e)
    BY <1>1, <1>2, <1>5, Consumed, EngineOrder DEF Updating, Idle
  <1>7. Driven' /\ OneHolder'
    BY <1>1 DEF IInv, Driven, OneHolder, Holds, EngineOf, Before, InBatch
  <1>8. Batched'
    <2>1. ASSUME ~(cur < NEngines), NEW i \in Tasks PROVE Earns(i, task[i].reward)
      <3>1. EngineOf(i) \in Engines /\ i \in Of(EngineOf(i))
        BY TaskFacts
      <3>2. AllEarned(EngineOf(i))
        BY <1>2, <1>6, <2>1, <3>1, EngineOrder
      <3> QED
        BY <3>1, <3>2 DEF AllEarned
    <2>2. \A i \in Tasks : task[i].stage = "returned"
      BY <1>1 DEF IInv, Batched
    <2> QED
      BY <1>1, <1>4, <2>1, <2>2 DEF Batched
  <1>9. Filed'
    BY <1>1, FiledKept DEF IInv, Progress, InBatch
  <1>10. ASSUME NEW e \in Engines PROVE Phase(e, queue[e], engine[e], reply[e], task)'
    <2>1. CASE cur < NEngines
      <3>1. pc' = "update" /\ cur' = cur + 1
        BY <1>1, <2>1
      <3>2. (e < cur' => e < cur \/ e = cur) /\ (e > cur' => e > cur) /\ (e = cur' => e > cur)
        BY <1>2, <1>10, <3>1, EngineOrder
      <3>3. /\ e < cur' => Idle(queue[e], engine[e], reply[e], NextLog)' /\ AllEarned(e)'
            /\ (e > cur' \/ e = cur') => /\ reply'[e] = "none" /\ Pooled(queue[e], engine[e])'
                                         /\ engine'[e].ready => AllEarned(e)'
        BY <1>1, <1>4, <1>6, <1>10, <3>2 DEF Idle, At, Pooled
      <3> QED
        BY <3>1, <3>3 DEF Phase, Updating
    <2>2. CASE ~(cur < NEngines)
      <3>1. pc' = "persist" /\ (e < cur \/ e = cur)
        BY <1>1, <1>2, <1>10, <2>2, EngineOrder
      <3> QED
        BY <1>1, <1>4, <1>6, <1>10, <3>1 DEF Phase, Idle, At
    <2> QED
      BY <2>1, <2>2
  <1> QED
    BY <1>1, <1>3, <1>7, <1>8, <1>9, <1>10, Consumed, DriverStep

\* The record of a batch, and what it makes of the history.
LEMMA Persisted ==
    ASSUME IInv, Persist
    PROVE  /\ pc = "persist" /\ disk' = Append(disk, Record) /\ mem' = disk'
           /\ disk' \in Seq(Records) /\ Len(disk') = Len(disk) + 1 /\ Len(disk) \in Nat
           /\ disk'[Len(disk) + 1] = Record
           /\ \A n \in 1 .. Len(disk) : disk'[n] = disk[n]
           /\ operator \in 1 .. NOperators /\ operator' \in 1 .. NOperators
           /\ \/ operator < NOperators /\ operator' = operator + 1 /\ pc' = "draw"
              \/ operator = NOperators /\ operator' = 1 /\ pc' = "save"
           /\ Progress = operator - 1 /\ Progress' = operator
           /\ UNCHANGED <<saved, engine, queue, reply, cur, rec, rng, generation, task>>
           /\ UNCHANGED budget
  <1>1. /\ pc = "persist" /\ mem' = Append(mem, Record) /\ disk' = mem' /\ NextOperator
        /\ UNCHANGED <<saved, engine, queue, reply, cur, rec, rng, generation, task>>
        /\ UNCHANGED budget
    BY DEF Persist
  <1>2. mem = disk /\ disk \in Seq(Records) /\ operator \in 1 .. NOperators
    BY <1>1 DEF IInv, Driven, Typed, TypeOK
  <1>3. Record \in Records
    BY <1>1, RecordFacts
  <1>4. /\ disk' = Append(disk, Record) /\ disk' \in Seq(Records)
        /\ Len(disk') = Len(disk) + 1 /\ Len(disk) \in Nat
        /\ disk'[Len(disk) + 1] = Record /\ \A n \in 1 .. Len(disk) : disk'[n] = disk[n]
    BY <1>1, <1>2, <1>3
  <1>5. \/ operator < NOperators /\ operator' = operator + 1 /\ pc' = "draw"
        \/ operator = NOperators /\ operator' = 1 /\ pc' = "save"
    BY <1>1, <1>2, BatchShape DEF NextOperator
  <1>6. operator' \in 1 .. NOperators /\ NOperators \in Nat
    BY <1>2, <1>5, BatchShape
  <1>7. Progress = operator - 1
    BY <1>1 DEF Progress, InBatch
  <1>8. Progress' = operator
    <2>1. CASE operator < NOperators
      <3>1. pc' = "draw" /\ operator' = operator + 1
        BY <1>2, <1>5, <1>6, <2>1
      <3> QED
        BY <1>2, <3>1 DEF Progress, InBatch
    <2>2. CASE operator = NOperators
      <3>1. pc' = "save"
        BY <1>2, <1>5, <2>2
      <3> QED
        BY <2>2, <3>1 DEF Progress, InBatch
    <2> QED
      BY <1>5, <2>1, <2>2
  <1> QED
    BY <1>1, <1>2, <1>4, <1>5, <1>6, <1>7, <1>8

\* The batch is recorded: its seeds are the stream's next, its operator's turn has
\* come, and every engine is at the history with it.
LEMMA PersistStep == IInv /\ Persist => IInv'
  <1> SUFFICES ASSUME IInv, Persist PROVE IInv'
    OBVIOUS
  <1>1. /\ Record.seeds = Drawn(Len(disk) * Directions) /\ Record.generation = saved
        /\ Record.operator = operator
    BY Persisted, RecordFacts
  <1>2. TypeOK'
    BY Persisted DEF IInv, Typed, TypeOK
  <1>3. rng = Len(disk) * Directions + Directions /\ generation = saved /\ saved < Generations
        /\ cur = 1
    BY Persisted DEF IInv, Driven, InBatch
  <1>4. rng' = Len(disk') * Directions
    <2>1. Len(disk) \in Nat /\ Directions \in Nat /\ Len(disk') = Len(disk) + 1 /\ rng' = rng
      BY Persisted, BatchShape
    <2>2. (Len(disk) + 1) * Directions = Len(disk) * Directions + Directions
      BY <2>1
    <2> QED
      BY <1>3, <2>1, <2>2
  <1>5. Driven'
    <2>1. pc' \in {"draw", "save"} /\ mem' = disk' /\ cur' = cur /\ generation' = generation
          /\ saved' = saved /\ (pc' = "save" => operator' = 1)
      BY Persisted
    <2> QED
      BY <1>3, <1>4, <2>1 DEF Driven, Before, InBatch
  <1>6. Batched' /\ OneHolder'
    BY Persisted DEF IInv, Batched, OneHolder, Holds, EngineOf
  <1>7. Streamed'
    <2> SUFFICES ASSUME NEW n \in 1 .. Len(disk')
                 PROVE  disk'[n].seeds = Drawn((n - 1) * Directions)
      BY DEF Streamed, Drawn
    <2>1. CASE n \in 1 .. Len(disk)
      BY <2>1, Persisted DEF IInv, Filed, Streamed
    <2>2. CASE n = Len(disk) + 1
      <3>1. n - 1 = Len(disk) /\ disk'[n] = Record
        BY <2>2, Persisted
      <3> QED
        BY <1>1, <3>1
    <2> QED
      BY <2>1, <2>2, Persisted
  <1>8. GenerationsCovered'
    <2> SUFFICES ASSUME NEW g \in 0 .. saved - 1
                 PROVE  \E k \in 0 .. Len(disk') - NOperators :
                            \A o \in 1 .. NOperators :
                                disk'[k + o].generation = g /\ disk'[k + o].operator = o
      BY Persisted DEF GenerationsCovered
    <2>1. PICK k \in 0 .. Len(disk) - NOperators :
                  \A o \in 1 .. NOperators :
                      disk[k + o].generation = g /\ disk[k + o].operator = o
      BY DEF IInv, Filed, GenerationsCovered
    <2>2. k \in 0 .. Len(disk') - NOperators /\ \A o \in 1 .. NOperators : k + o \in 1 .. Len(disk)
      BY Persisted, BatchShape
    <2> QED
      BY <2>1, <2>2, Persisted
  <1>9. Recent(Progress)'
    <2>1. Recent(operator - 1)
      BY Persisted DEF IInv, Filed
    <2>2. operator \in Nat \ {0} /\ operator <= Len(disk')
      BY <2>1, Persisted DEF Recent
    <2>3. ASSUME NEW o \in 1 .. operator
          PROVE  /\ disk'[Len(disk') - operator + o].generation = saved
                 /\ disk'[Len(disk') - operator + o].operator = o
      <3>1. CASE o = operator
        <4>1. disk'[Len(disk') - operator + o] = Record
          BY <2>2, <3>1, Persisted
        <4> QED
          BY <1>1, <3>1, <4>1
      <3>2. CASE o \in 1 .. operator - 1
        <4>1. /\ Len(disk') - operator + o = Len(disk) - (operator - 1) + o
              /\ Len(disk) - (operator - 1) + o \in 1 .. Len(disk)
          <5>1. operator - 1 <= Len(disk) /\ Len(disk') = Len(disk) + 1 /\ Len(disk) \in Nat
            BY <2>1, Persisted DEF Recent
          <5> QED
            BY <2>2, <3>2, <5>1
        <4>2. disk'[Len(disk') - operator + o] = disk[Len(disk) - (operator - 1) + o]
          BY <4>1, Persisted
        <4> QED
          BY <2>1, <3>2, <4>2 DEF Recent
      <3> QED
        BY <2>2, <3>1, <3>2
    <2>4. Progress' = operator /\ saved' = saved
      BY Persisted
    <2> QED
      BY <2>2, <2>3, <2>4 DEF Recent
  <1>10. Trained' = NextLog
    <2>1. disk \in Seq(Records) /\ Record \in Records /\ disk' = Append(disk, Record)
      BY Persisted, RecordFacts DEF IInv, Typed, TypeOK
    <2>2. UpdatesOf(disk') = Append(UpdatesOf(disk), Update(Record))
      BY <2>1, UpdatesAppend
    <2> QED
      BY <2>2 DEF Trained, NextLog, UpdatesOf
  <1>11. ASSUME NEW e \in Engines PROVE Phase(e, queue[e], engine[e], reply[e], task)'
    <2>1. Idle(queue[e], engine[e], reply[e], NextLog)
      BY Persisted DEF IInv, Local, Phase
    <2>2. Idle(queue[e], engine[e], reply[e], Trained)'
      BY <1>10, <2>1, Persisted DEF Idle, At
    <2> QED
      BY <2>2, Persisted DEF Phase
  <1> QED
    BY <1>2, <1>5, <1>6, <1>7, <1>8, <1>9, <1>11, Persisted, DriverStep DEF Filed

\* The population is saved once the history has all of its generation.
LEMMA SaveStep == IInv /\ Save => IInv'
  <1> SUFFICES ASSUME IInv, Save PROVE IInv'
    OBVIOUS
  <1>1. /\ pc = "save" /\ saved' = generation + 1 /\ generation' = generation + 1
        /\ pc' = (IF generation' < Generations THEN "draw" ELSE "done")
        /\ UNCHANGED <<disk, engine, queue, reply, cur, rec, mem, rng, operator, task>>
        /\ UNCHANGED budget
    BY DEF Save
  <1>2. /\ generation = saved /\ saved < Generations /\ saved \in Nat /\ operator = 1
        /\ Len(disk) \in Nat /\ Generations \in Nat /\ NOperators \in Nat \ {0}
    BY <1>1, BatchShape DEF IInv, Driven, Typed, TypeOK, Before
  <1>3. saved' \in 0 .. Generations /\ generation' \in 0 .. Generations
    BY <1>1, <1>2
  <1>4. TypeOK'
    BY <1>1, <1>3 DEF IInv, Typed, TypeOK
  <1>5. Driven' /\ Batched' /\ OneHolder'
    BY <1>1, <1>2 DEF IInv, Driven, Batched, OneHolder, Holds, EngineOf, Before, InBatch
  <1>6. Streamed'
    BY <1>1 DEF IInv, Filed, Streamed, Drawn
  <1>7. Recent(NOperators)
    BY <1>1 DEF IInv, Filed, Progress, InBatch
  <1>8. GenerationsCovered'
    <2> SUFFICES ASSUME NEW g \in 0 .. saved' - 1
                 PROVE  \E k \in 0 .. Len(disk) - NOperators :
                            \A o \in 1 .. NOperators :
                                disk[k + o].generation = g /\ disk[k + o].operator = o
      BY <1>1 DEF GenerationsCovered
    <2>1. CASE g \in 0 .. saved - 1
      BY <2>1 DEF IInv, Filed, GenerationsCovered
    <2>2. CASE g = saved
      <3>1. Len(disk) - NOperators \in 0 .. Len(disk) - NOperators
        BY <1>2, <1>7 DEF Recent
      <3>2. \A o \in 1 .. NOperators : /\ disk[(Len(disk) - NOperators) + o].generation = saved
                                       /\ disk[(Len(disk) - NOperators) + o].operator = o
        BY <1>7 DEF Recent
      <3> QED
        BY <2>2, <3>1, <3>2
    <2> QED
      BY <1>1, <1>2, <2>1, <2>2
  <1>9. Recent(Progress)'
    <2>1. Progress' = 0
      BY <1>1, <1>2 DEF Progress, InBatch
    <2> QED
      BY <1>1, <1>2, <2>1 DEF Recent
  <1>10. Trained' = Trained
    BY <1>1 DEF Trained, UpdatesOf
  <1>11. ASSUME NEW e \in Engines PROVE Phase(e, queue[e], engine[e], reply[e], task)'
    BY <1>1, <1>10, <1>11 DEF IInv, Local, Phase, Idle, At
  <1> QED
    BY <1>1, <1>4, <1>5, <1>6, <1>8, <1>9, <1>11, DriverStep DEF Filed

\* Nothing happens.
LEMMA StutterStep == IInv /\ UNCHANGED vars => IInv'
  <1> SUFFICES ASSUME IInv, UNCHANGED vars PROVE IInv'
    OBVIOUS
  <1>1. /\ UNCHANGED driver /\ UNCHANGED <<engine, queue, reply, task>> /\ UNCHANGED budget
    BY DEF vars, local, driver
  <1>2. TypeOK' /\ Driven' /\ Batched' /\ Filed' /\ OneHolder'
    BY <1>1, DriverKept, HolderKept DEF IInv, Typed, TypeOK, driver
  <1>3. ASSUME NEW e \in Engines PROVE Phase(e, queue[e], engine[e], reply[e], task)'
    <2>1. Chan(queue'[e], reply'[e]) /\ Phase(e, queue'[e], engine'[e], reply'[e], task')
      BY <1>1, <1>3 DEF IInv, Local
    <2> QED
      BY <1>1, <2>1, LocalKept DEF Local
  <1> QED
    BY <1>1, <1>2, <1>3, DriverStep

\* At the start.
LEMMA InitIInv == Init => IInv
  <1> SUFFICES ASSUME Init PROVE IInv
    OBVIOUS
  <1>1. /\ disk = <<>> /\ saved = 0 /\ pc = "down" /\ cur = 1 /\ rec = 1 /\ mem = <<>>
        /\ rng = 0 /\ generation = 0 /\ operator = 1 /\ task = NoTasks
        /\ crashes = 0 /\ restarts = 0 /\ timeouts = 0
        /\ engine = [e \in Engines |-> Blank] /\ queue = [e \in Engines |-> <<>>]
        /\ reply = [e \in Engines |-> "none"]
    BY DEF Init
  <1>2. NoTasks \in Batches /\ \A i \in Tasks : NoTasks[i].stage = "queued"
    BY BatchShape DEF NoTasks, Batches, Stages
  <1>3. /\ Blank \in States /\ <<>> \in Queues /\ 1 \in Engines /\ <<>> \in Seq(Records)
        /\ Len(<<>>) = 0
    BY BatchShape, EmptySeq DEF Blank, States, Logs, Queues, Engines
  <1>4. Typed
    BY <1>1, <1>2, <1>3, BatchShape, BatchBounds
       DEF Typed, TypeOK, States, Logs, Batches, Stages
  <1>5. Driven /\ Batched /\ OneHolder
    BY <1>1, <1>2 DEF Driven, Batched, OneHolder, Holds, Before, InBatch
  <1>6. Filed
    BY <1>1, <1>3 DEF Filed, Streamed, GenerationsCovered, Recent, Progress, InBatch
  <1>7. \A e \in Engines : Local(e)
    BY <1>1, EmptyChan DEF Local, Phase
  <1> QED
    BY <1>4, <1>5, <1>6, <1>7 DEF IInv

\* Every step keeps the invariant.
LEMMA StepIInv == ASSUME Scored PROVE IInv /\ [Next]_vars => IInv'
  <1> SUFFICES ASSUME IInv, [Next]_vars PROVE IInv'
    OBVIOUS
  <1>1. CASE Driver
    BY <1>1, LaunchStep, DriverFailsStep, InitPostStep, InitDoneStep, RestoreStep,
       ReplayPostStep, ReplayDoneStep, StartStep, DrawStep, CollectedStep, EvaluatedStep,
       UpdatePostStep, UpdateDoneStep, PersistStep, SaveStep DEF Driver
  <1>2. CASE Environment
    BY <1>2, CrashStep, TimeoutStep, RestartStep DEF Environment
  <1>3. CASE Finished
    BY <1>3, StutterStep DEF Finished
  <1>4. ASSUME NEW i \in Tasks, Worker(i) PROVE IInv'
    BY <1>4, TakeStep, TaskPostStep, AppliedStep, GeneratedStep, RevertedStep DEF Worker
  <1>5. ASSUME NEW e \in Engines, Serve(e) PROVE IInv'
    BY <1>5, ServeStep
  <1>6. CASE UNCHANGED vars
    BY <1>6, StutterStep
  <1> QED
    BY <1>1, <1>2, <1>3, <1>4, <1>5, <1>6 DEF Next

\* The invariant holds in every state of every run.
LEMMA Invariant == ASSUME Scored PROVE Spec => []IInv
  BY InitIInv, StepIInv, PTL DEF Spec

-------------------------------------------------------------------------------
(* What the invariant gives *)

\* Every variable has its type, the requests under way and the fault counts, too.
THEOREM TypeCorrect == ASSUME Scored PROVE Spec => []TypeOK
  <1>1. IInv => TypeOK
    BY DEF IInv, Typed
  <1> QED
    BY <1>1, Invariant, PTL

\* Whenever a batch starts, however many directions of the batches before failed
\* at their apply or revert, and whatever was killed or timed out, no request waits
\* anywhere and every engine that has not restarted is unperturbed and at exactly
\* the durable history.
THEOREM InSync == ASSUME Scored PROVE Spec => []EnginesInSync
  <1>1. IInv => EnginesInSync
    BY DEF IInv, Local, Phase, Idle, At, Trained, EnginesInSync
  <1> QED
    BY <1>1, Invariant, PTL

\* A population that was saved is never ahead of the model the history rebuilds:
\* every generation it went through has all of its batches there, in order.
THEOREM Covered == ASSUME Scored PROVE Spec => []GenerationsCovered
  <1>1. IInv => GenerationsCovered
    BY DEF IInv, Filed
  <1> QED
    BY <1>1, Invariant, PTL

\* _restore_model_es_history never refuses a history this program wrote, wherever
\* the run that wrote it was killed.
THEOREM NeverRefused == ASSUME Scored PROVE Spec => [](pc # "refused")
  <1>1. IInv => pc # "refused"
    BY DEF IInv, Driven, Before, InBatch
  <1> QED
    BY <1>1, Invariant, PTL

-------------------------------------------------------------------------------
(* How many batches a run can make: every fault costs it a generation at most. *)

\* No request fails on an engine that is like this.
Proper(e, q, s, r, k) ==
    /\ s.ready
    /\ q # <<>> => r = "pending" /\ Len(q) = 1
    /\ Free(e, k) => s.active = None
    /\ \A i \in Of(e) :
          /\ (k[i].stage = "apply" /\ r # "ok") => s.active = None
          /\ (k[i].stage = "revert" /\ r # "ok") => s.active = Seed(i)
          /\ (k[i].stage = "revert" /\ r = "ok") => s.active = None

\* The run has not initialised the engine yet.
Fresh(e, r) == pc = "down" \/ (pc = "init" /\ ~(e < cur) /\ ~(e = cur /\ r = "ok"))

\* Nothing has gone wrong with the engine in this run.
Sound(e, q, s, r, k) == r # "error" /\ (Fresh(e, r) \/ Proper(e, q, s, r, k))

AllSound == \A e \in Engines : Sound(e, queue[e], engine[e], reply[e], task)

\* A run that something has gone wrong with may die, and do the batches of its
\* generation again.
Faults == crashes + restarts + timeouts
Spent == IF AllSound THEN Len(disk) ELSE Len(disk) + NOperators
Afforded == Spent <= NOperators * (saved + Faults) + Progress

\* Outside the pool no direction holds an engine.
LEMMA NoneLocking ==
    ASSUME Batched, pc # "sample"
    PROVE  (\A i \in Tasks : task[i].stage \notin Locking) /\ \A e : Free(e, task)
  BY DEF Batched, Locking, Free, Of

\* On a sound engine every request succeeds.
LEMMA ServedSound ==
    ASSUME Typed, Driven, Batched,
           NEW e \in Engines, NEW q \in Queues, NEW s \in States, NEW r \in Replies,
           NEW ok, NEW t, q # <<>>, Chan(q, r), Effect(s, Head(q), ok, t),
           Phase(e, q, s, r, task), Sound(e, q, s, r, task)
    PROVE  Sound(e, Tail(q), t, Reply(Head(q), ok, r), task)
  <1> DEFINE m == Head(q)
             w == Reply(m, ok, r)
  <1>1. ok \in BOOLEAN /\ cur \in Engines
    BY EngineTypes DEF Effect
  <1>2. /\ r # "ok"
        /\ m.live => /\ r = "pending" /\ Len(q) = 1 /\ m = LastOf(q) /\ Tail(q) = <<>>
                     /\ w = (IF ok THEN "ok" ELSE "error")
        /\ ~m.live => w = r
    BY <1>1, ServedFacts
  <1> HIDE DEF w
  <1>3. e < cur \/ e > cur \/ e = cur
    BY <1>1, EngineOrder
  <1>4. ASSUME ok, w = "ok", pc # "sample", Tail(q) = <<>>, t.ready, t.active = None
        PROVE  Sound(e, Tail(q), t, w, task)
    <2>1. Proper(e, Tail(q), t, w, task)
      BY <1>4, NoneLocking DEF Proper, Of, Locking
    <2> QED
      BY <1>4, <2>1 DEF Sound
  <1>5. CASE Fresh(e, r)
    <2>1. CASE m.live
      <3>1. pc = "init" /\ e = cur
        BY <1>2, <1>3, <1>5, <2>1 DEF Fresh, Phase
      <3>2. m = Request("init", None)
        BY <1>2, <2>1, <3>1 DEF Phase, Clearing
      <3>3. ok /\ t.ready /\ t.active = None
        BY <3>2, RequestTypes DEF Effect
      <3> QED
        BY <1>2, <1>4, <2>1, <3>1, <3>3 DEF w
    <2>2. CASE ~m.live
      BY <1>2, <1>5, <2>2 DEF Sound, Fresh, w
    <2> QED
      BY <2>1, <2>2
  <1>6. CASE ~Fresh(e, r)
    <2>1. Proper(e, q, s, r, task) /\ r = "pending" /\ Len(q) = 1
      BY <1>6 DEF Sound, Proper
    <2>2. m.live
      <3>1. m = q[1] /\ 1 \in 1 .. Len(q)
        BY TailFacts
      <3>2. q[1].live <=> (1 = Len(q) /\ r = "pending")
        BY <3>1, Zenon DEF Chan
      <3> QED
        BY <2>1, <3>1, <3>2, Zenon
    <2>3. m = LastOf(q) /\ Tail(q) = <<>> /\ w = IF ok THEN "ok" ELSE "error"
      BY <1>2, <2>2
    <2>4. CASE pc = "sample"
      <3>1. Working(e, q, s, r, task)
        BY <2>4 DEF Phase
      <3>2. t.ready = s.ready /\ s.ready
        BY <2>1, <3>1, ServedPooled DEF Working, Proper
      <3>3. ASSUME NEW i \in Of(e), task[i].stage = "apply" PROVE ok
        <4>1. m.op = "apply"
          BY <2>1, <2>3, <3>1, <3>3, RequestTypes DEF Working, Held, Applying
        <4> QED
          BY <2>1, <3>3, <4>1 DEF Effect, Proper
      <3>4. ASSUME NEW i \in Of(e), task[i].stage = "revert" PROVE ok /\ t.active = None
        <4>1. m.op = "revert" /\ m.arg = Seed(i)
          BY <2>1, <2>3, <3>1, <3>4, RequestTypes DEF Working, Held, Reverting
        <4> QED
          BY <2>1, <3>4, <4>1 DEF Effect, Proper
      <3>5. ASSUME NEW i \in Of(e), task[i].stage = "generate" PROVE ok
        <4>1. m.op = "rollout"
          BY <3>1, <3>5, TailFacts DEF Working, Held, Generating
        <4> QED
          BY <4>1 DEF Effect
      <3>6. ~Free(e, task)
        BY <2>1, <3>1 DEF Working
      <3>7. ok
        BY <3>3, <3>4, <3>5, <3>6 DEF Free, Locking
      <3>8. w = "ok"
        BY <2>3, <3>7
      <3>9. Proper(e, Tail(q), t, w, task)
        BY <2>3, <3>2, <3>4, <3>6, <3>8 DEF Proper
      <3> QED
        BY <3>8, <3>9 DEF Sound, w
    <2>5. CASE pc # "sample"
      <3>1. Free(e, task) /\ s.active = None /\ s.ready
        BY <2>1, <2>5, NoneLocking DEF Proper
      <3>2. pc \in {"replay", "update"}
        <4>1. pc # "evaluate"
          BY <2>1, <3>1 DEF Phase, Working
        <4>2. pc \notin {"down", "init"}
          BY <1>6, <2>1 DEF Fresh, Phase, Idle
        <4>3. pc \notin {"restore", "start", "draw", "save", "done", "persist"}
          BY DEF Phase, Idle
        <4> QED
          BY <2>5, <4>1, <4>2, <4>3 DEF Driven, Before, InBatch
      <3>3. m.op = "update"
        <4>1. CASE pc = "replay"
          <5>1. q = <<Request("update", Trained[rec])>>
            BY <1>3, <2>1, <4>1 DEF Phase, Replaying, Idle
          <5> QED
            BY <5>1, RequestTypes
        <4>2. CASE pc = "update"
          BY <1>3, <2>1, <2>3, <4>2, RequestTypes DEF Phase, Updating, Idle
        <4> QED
          BY <3>2, <4>1, <4>2
      <3>4. ok /\ t.ready /\ t.active = None
        BY <3>1, <3>3 DEF Effect
      <3> QED
        BY <1>4, <2>3, <2>5, <3>4 DEF w
    <2> QED
      BY <2>4, <2>5
  <1> QED
    BY <1>5, <1>6

\* Only the stages of the directions matter.
LEMMA StagesSound ==
    ASSUME NEW e, NEW q, NEW s, NEW r, NEW k1, NEW k2, Sound(e, q, s, r, k1),
           \A i \in Of(e) : k2[i].stage = k1[i].stage
    PROVE  Sound(e, q, s, r, k2)
  BY DEF Sound, Proper, Free

\* A step of one engine, or of a direction on it, that is sound there.
LEMMA EngineSound ==
    ASSUME IInv, AllSound, NEW e \in Engines, NEW q, NEW s, NEW r, NEW k,
           UNCHANGED driver,
           queue' = [queue EXCEPT ![e] = q], engine' = [engine EXCEPT ![e] = s],
           reply' = [reply EXCEPT ![e] = r], task' = k,
           \A i \in Tasks \ Of(e) : k[i] = task[i],
           Sound(e, q, s, r, k)
    PROVE  AllSound'
  <1> SUFFICES ASSUME NEW d \in Engines
               PROVE  Sound(d, queue[d], engine[d], reply[d], task)'
    BY DEF AllSound
  <1>1. /\ queue'[d] = IF d = e THEN q ELSE queue[d]
        /\ engine'[d] = IF d = e THEN s ELSE engine[d]
        /\ reply'[d] = IF d = e THEN r ELSE reply[d]
    BY DEF IInv, Typed, TypeOK
  <1>2. Sound(d, queue'[d], engine'[d], reply'[d], task')
    <2>1. CASE d = e
      BY <1>1, <2>1
    <2>2. CASE d # e
      <3>1. Sound(d, queue[d], engine[d], reply[d], task)
        BY DEF AllSound
      <3>2. \A i \in Of(d) : k[i].stage = task[i].stage
        BY <2>2 DEF Of
      <3> QED
        BY <1>1, <2>2, <3>1, <3>2, StagesSound
    <2> QED
      BY <2>1, <2>2
  <1>3. pc' = pc /\ cur' = cur /\ \A i : Seed(i)' = Seed(i)
    BY DEF driver, Seed
  <1>4. Proper(d, queue'[d], engine'[d], reply'[d], task') =>
            Proper(d, queue[d], engine[d], reply[d], task)'
    BY <1>3 DEF Proper
  <1> QED
    BY <1>2, <1>3, <1>4 DEF Sound, Fresh

\* A request handled.
LEMMA ServeSound ==
    ASSUME IInv, AllSound, NEW e \in Engines, Serve(e)
    PROVE  AllSound'
  <1> DEFINE q == queue[e]
             m == Head(q)
             ok == Handle(engine[e], m).ok
             t == Handle(engine[e], m).state
             w == Reply(m, ok, reply[e])
  <1>1. /\ q \in Queues /\ engine[e] \in States /\ reply[e] \in Replies /\ task \in Batches
        /\ Typed /\ Driven /\ Batched
    BY EngineTypes DEF IInv
  <1>2. q # <<>> /\ UNCHANGED driver
    BY DEF Serve, driver
  <1>3. Effect(engine[e], m, ok, t)
    BY <1>1, <1>2, TailFacts, Handled
  <1>4. /\ queue' = [queue EXCEPT ![e] = Tail(q)]
        /\ engine' = [engine EXCEPT ![e] = t]
        /\ reply' = [reply EXCEPT ![e] = w]
    BY <1>1, SetItself DEF Serve, Reply
  <1>5. /\ Chan(q, reply[e]) /\ Phase(e, q, engine[e], reply[e], task)
        /\ Sound(e, q, engine[e], reply[e], task)
    BY DEF IInv, Local, AllSound
  <1>6. Sound(e, Tail(q), t, w, task)
    BY <1>1, <1>2, <1>3, <1>5, ServedSound
  <1>7. /\ \A i \in Tasks : task'[i].stage = task[i].stage
        /\ \A i \in Tasks \ Of(e) : task'[i] = task[i]
    <2>1. CASE UNCHANGED task
      BY <2>1
    <2>2. ASSUME NEW i \in Holder(e), NEW reward, task' = [task EXCEPT ![i].reward = reward]
          PROVE  /\ \A j \in Tasks : task'[j].stage = task[j].stage
                 /\ \A j \in Tasks \ Of(e) : task'[j] = task[j]
      BY <1>1, <2>2 DEF Batches, Holder, Of
    <2> QED
      BY <2>1, <2>2 DEF Serve
  <1>8. Sound(e, Tail(q), t, w, task')
    BY <1>6, <1>7, StagesSound DEF Of
  <1> HIDE DEF q, m, ok, t, w
  <1> QED
    BY <1>2, <1>4, <1>7, <1>8, EngineSound

\* A request posted.
LEMMA PostSound ==
    ASSUME IInv, AllSound, NEW e \in Engines, NEW op, NEW arg, Request(op, arg) \in Requests,
           reply[e] = "none", Post(e, op, arg), UNCHANGED driver, UNCHANGED <<engine, task>>
    PROVE  AllSound'
  <1> DEFINE m == Request(op, arg)
             p == Append(queue[e], m)
  <1>1. queue[e] \in Queues /\ Typed
    BY EngineTypes DEF IInv
  <1>2. /\ queue' = [queue EXCEPT ![e] = p] /\ reply' = [reply EXCEPT ![e] = "pending"]
        /\ engine' = [engine EXCEPT ![e] = engine[e]]
    BY <1>1, SetItself DEF Post
  <1>3. Len(p) = Len(queue[e]) + 1
    BY <1>1, AppendFacts
  <1>4. Sound(e, queue[e], engine[e], "none", task)
    BY DEF AllSound
  <1>5. Proper(e, queue[e], engine[e], "none", task) =>
            Proper(e, p, engine[e], "pending", task)
    <2>1. queue[e] = <<>> => Len(p) = 1
      BY <1>3, EmptyBacklog
    <2> QED
      BY <2>1 DEF Proper
  <1>6. Sound(e, p, engine[e], "pending", task)
    BY <1>4, <1>5 DEF Sound, Fresh
  <1> HIDE DEF p
  <1> QED
    BY <1>2, <1>6, EngineSound

LEMMA PostsSound ==
    ASSUME IInv, AllSound, InitPost \/ ReplayPost \/ UpdatePost
    PROVE  AllSound'
  <1>1. cur \in Engines /\ UNCHANGED driver /\ UNCHANGED <<engine, task>>
    BY DEF IInv, Typed, TypeOK, InitPost, ReplayPost, UpdatePost, local, driver
  <1>2. CASE InitPost
    BY <1>1, <1>2, PostSound, RequestTypes DEF InitPost
  <1>3. CASE ReplayPost
    <2>1. mem = disk /\ rec \in 1 .. Len(disk) /\ disk \in Seq(Records)
      BY <1>3 DEF IInv, Driven, ReplayPost, Typed, TypeOK
    <2>2. Update(mem[rec]) \in Updates
      BY <2>1, UpdateTypes
    <2> QED
      BY <1>1, <1>3, <2>2, PostSound, RequestTypes DEF ReplayPost
  <1>4. CASE UpdatePost
    BY <1>1, <1>4, PostSound, RequestTypes, RecordFacts DEF UpdatePost
  <1> QED
    BY <1>2, <1>3, <1>4

\* A direction's own step, where it is sound on its engine.
LEMMA TaskSound ==
    ASSUME IInv, AllSound, pc = "sample", NEW i \in Tasks, NEW e \in Engines, e = EngineOf(i),
           NEW r \in {reply[e], "none"}, r # "error", NEW stage \in Stages,
           UNCHANGED driver, UNCHANGED <<queue, engine>>,
           reply' = [reply EXCEPT ![e] = r], \A j \in Tasks : j # i => task'[j] = task[j],
           task'[i].stage = stage,
           queue[e] # <<>> => r = "pending" /\ Len(queue[e]) = 1,
           (stage \notin Locking /\ \A j \in Of(e) : j = i \/ task[j].stage \notin Locking)
              => engine[e].active = None,
           (stage = "apply" /\ r # "ok") => engine[e].active = None,
           (stage = "revert" /\ r # "ok") => engine[e].active = Seed(i),
           (stage = "revert" /\ r = "ok") => engine[e].active = None,
           r = reply[e] \/ \A j \in Of(e) : j = i \/ task[j].stage \notin Locking
    PROVE  AllSound'
  <1>1. Typed /\ Proper(e, queue[e], engine[e], reply[e], task)
    BY DEF IInv, AllSound, Sound, Fresh
  <1>2. Proper(e, queue[e], engine[e], r, task')
    <2>1. Free(e, task') => engine[e].active = None
      BY DEF Free, Of
    <2>2. ASSUME NEW j \in Of(e), j # i
          PROVE  /\ (task'[j].stage = "apply" /\ r # "ok") => engine[e].active = None
                 /\ (task'[j].stage = "revert" /\ r # "ok") => engine[e].active = Seed(j)
                 /\ (task'[j].stage = "revert" /\ r = "ok") => engine[e].active = None
      <3>1. task'[j] = task[j]
        BY <2>2 DEF Of
      <3>2. CASE r = reply[e]
        BY <1>1, <3>1, <3>2 DEF Proper
      <3>3. CASE task[j].stage \notin Locking
        BY <3>1, <3>3 DEF Locking
      <3> QED
        BY <2>2, <3>2, <3>3
    <2> QED
      BY <1>1, <2>1, <2>2 DEF Proper
  <1>3. Sound(e, queue[e], engine[e], r, task')
    BY <1>2 DEF Sound
  <1>4. /\ queue' = [queue EXCEPT ![e] = queue[e]]
        /\ engine' = [engine EXCEPT ![e] = engine[e]]
    BY <1>1, SetItself
  <1>5. \A j \in Tasks \ Of(e) : task'[j] = task[j]
    BY DEF Of
  <1> QED
    BY <1>3, <1>4, <1>5, EngineSound

\* A direction that is taken, or that gets its engine's lock.
LEMMA TakeSound ==
    ASSUME IInv, AllSound, NEW i \in Tasks, Take(i) \/ Acquire(i)
    PROVE  AllSound'
  <1> DEFINE e == EngineOf(i)
             stage == IF Take(i) THEN "waiting" ELSE "apply"
  <1>1. /\ e \in Engines /\ i \in Of(e) /\ task \in Batches /\ Typed
    BY TaskFacts DEF IInv
  <1>2. pc = "sample" /\ UNCHANGED driver /\ UNCHANGED <<queue, reply, engine>>
    BY TaskFacts DEF Take, Acquire, pool, driver
  <1>3. /\ task'[i].stage = stage /\ \A j \in Tasks : j # i => task'[j] = task[j]
        /\ task[i].stage \notin Locking
    BY <1>1 DEF Take, Acquire, Becomes, Batches, Locking
  <1>4. reply' = [reply EXCEPT ![e] = reply[e]]
    BY <1>1, <1>2, SetItself
  <1>5. Proper(e, queue[e], engine[e], reply[e], task) /\ reply[e] # "error"
    BY <1>1, <1>2 DEF AllSound, Sound, Fresh
  <1>6. (\A j \in Of(e) : j = i \/ task[j].stage \notin Locking) => engine[e].active = None
    BY <1>3, <1>5 DEF Proper, Free
  <1>7. ~Take(i) => Free(e, task)
    BY DEF Acquire, Holder, Holds, Free, Of, Locking
  <1>8. stage = "apply" => engine[e].active = None
    BY <1>5, <1>7 DEF Proper
  <1>9. stage \in Stages /\ stage # "revert"
    BY DEF Stages
  <1>10. queue[e] # <<>> => reply[e] = "pending" /\ Len(queue[e]) = 1
    BY <1>5 DEF Proper
  <1> HIDE DEF stage
  <1> QED
    BY <1>1, <1>2, <1>3, <1>4, <1>5, <1>6, <1>8, <1>9, <1>10, TaskSound

\* The request of a direction.
LEMMA TaskPostSound ==
    ASSUME IInv, AllSound, NEW i \in Tasks, TaskPost(i)
    PROVE  AllSound'
  <1> DEFINE e == EngineOf(i)
             op == IF task[i].stage = "generate" THEN "rollout" ELSE task[i].stage
  <1>1. e \in Engines /\ task[i].stage \in Locking /\ Seed(i) \in Nat
    BY TaskFacts DEF TaskPost, Locking
  <1>2. Request(op, Seed(i)) \in Requests
    BY <1>1, RequestTypes DEF Locking, PoolOps
  <1>3. /\ reply[e] = "none" /\ Post(e, op, Seed(i)) /\ UNCHANGED driver
        /\ UNCHANGED <<engine, task>>
    BY DEF TaskPost, pool, driver
  <1> HIDE DEF op
  <1> QED
    BY <1>1, <1>2, <1>3, PostSound

\* The answer to a direction is never an error where nothing has gone wrong.
LEMMA AnsweredSound ==
    ASSUME IInv, AllSound, NEW i \in Tasks, Applied(i) \/ Generated(i) \/ Reverted(i)
    PROVE  AllSound'
  <1> DEFINE e == EngineOf(i)
             next == IF task[i].stage = "apply" THEN "generate"
                     ELSE IF task[i].stage = "generate" THEN "revert" ELSE "returned"
  <1>1. /\ e \in Engines /\ i \in Of(e) /\ task \in Batches /\ Typed /\ OneHolder
        /\ task[i].stage \in Locking /\ pc = "sample"
    BY TaskFacts DEF IInv, Applied, Generated, Reverted, Answered, Locking
  <1>2. /\ UNCHANGED driver /\ UNCHANGED <<queue, engine>>
        /\ reply' = [reply EXCEPT ![e] = "none"]
    BY DEF Applied, Generated, Reverted, Answered, Consume, pool, driver
  <1>3. Proper(e, queue[e], engine[e], reply[e], task) /\ reply[e] # "error"
    BY <1>1 DEF AllSound, Sound, Fresh
  <1>4. /\ reply[e] = "ok" /\ Becomes(i, next)
    BY <1>3 DEF Applied, Generated, Reverted, Answered
  <1>5. next \in Stages /\ next # "apply" /\ (next = "revert" => task[i].stage = "generate")
        /\ (next = "returned" => task[i].stage = "revert")
        /\ (next \notin Locking => next = "returned")
    BY <1>1 DEF Stages, Locking
  <1> HIDE DEF next
  <1>6. task'[i].stage = next /\ \A j \in Tasks : j # i => task'[j] = task[j]
    BY <1>1, <1>4 DEF Becomes, Batches
  <1>7. \A j \in Of(e) : j = i \/ task[j].stage \notin Locking
    BY <1>1 DEF OneHolder, Holds, Locking, Of
  <1>8. queue[e] = <<>> /\ Held(i, task[i], queue[e], engine[e], "ok")
    BY <1>1, <1>4 DEF IInv, Local, Phase, Working, Chan
  <1>9. next = "revert" => engine[e].active = Seed(i)
    BY <1>3, <1>5, <1>8 DEF Held, Generating, Proper
  <1>10. next = "returned" => engine[e].active = None
    BY <1>1, <1>3, <1>4, <1>5 DEF Proper
  <1> QED
    BY <1>1, <1>2, <1>5, <1>6, <1>7, <1>8, <1>9, <1>10, TaskSound

\* A step of the driver, outside the pool.
LEMMA DriverSound ==
    ASSUME IInv, AllSound, UNCHANGED <<queue, engine>>,
           \A e \in Engines : \/ reply'[e] = reply[e]
                              \/ reply[e] \in {"ok", "error"} /\ reply'[e] = "none",
           \A i \in Tasks : task[i].stage \notin Locking /\ task'[i].stage \notin Locking,
           \A e \in Engines : Fresh(e, reply[e]) => Fresh(e, reply[e])'
    PROVE  AllSound'
  <1> SUFFICES ASSUME NEW e \in Engines
               PROVE  Sound(e, queue[e], engine[e], reply[e], task)'
    BY DEF AllSound
  <1>1. Sound(e, queue[e], engine[e], reply[e], task)
    BY DEF AllSound
  <1>2. Proper(e, queue[e], engine[e], reply[e], task) =>
            Proper(e, queue[e], engine[e], reply[e], task)'
    BY DEF Proper, Free, Of, Locking, EngineOf
  <1> QED
    BY <1>1, <1>2 DEF Sound

\* The driver's steps that neither send, record, save nor die.
Quiet ==
    \/ Launch \/ InitDone \/ Restore \/ ReplayDone \/ Start \/ Draw \/ Collected \/ Evaluated
    \/ UpdateDone

LEMMA QuietSound ==
    ASSUME IInv, AllSound, Quiet \/ Persist \/ Save
    PROVE  AllSound'
  <1>1. UNCHANGED <<queue, engine>>
    BY DEF Quiet, Launch, InitDone, Restore, ReplayDone, Start, Draw, Collected, Evaluated,
           UpdateDone, Persist, Save
  <1>2. \A e \in Engines : \/ reply'[e] = reply[e]
                           \/ reply[e] \in {"ok", "error"} /\ reply'[e] = "none"
    BY Consumed DEF Quiet, Launch, InitDone, Restore, ReplayDone, Start, Draw, Collected,
                    Evaluated, UpdateDone, Persist, Save
  <1>3. \A i \in Tasks : task[i].stage \notin Locking /\ task'[i].stage \notin Locking
    <2>1. CASE Collected
      BY <2>1 DEF Collected, local, Locking
    <2>2. CASE Draw
      BY <2>2, NoneLocking DEF IInv, Draw, NoTasks, Locking
    <2>3. CASE ~Collected /\ ~Draw
      <3>1. pc # "sample" /\ task' = task
        BY <2>3 DEF Quiet, Launch, InitDone, Restore, ReplayDone, Start, Evaluated, UpdateDone,
                    Persist, Save, local
      <3> QED
        BY <3>1, NoneLocking DEF IInv
    <2> QED
      BY <2>1, <2>2, <2>3
  <1>4. ASSUME NEW e \in Engines, Fresh(e, reply[e]) PROVE Fresh(e, reply[e])'
    <2>1. pc \in {"down", "init"} /\ cur \in Engines
      BY <1>4 DEF Fresh, IInv, Typed, TypeOK
    <2>2. CASE Launch
      <3>1. cur' = 1 /\ pc' = "init" /\ reply'[e] = "none"
        BY <1>4, <2>2 DEF Launch, local, IInv, Driven, Local, Phase
      <3> QED
        BY <1>4, <2>1, <3>1, EngineOrder DEF Fresh
    <2>3. CASE InitDone
      <3>1. e > cur
        BY <1>4, <2>1, <2>3, EngineOrder DEF InitDone, Fresh
      <3>2. cur < NEngines /\ cur' = cur + 1 /\ pc' = "init"
        BY <2>1, <2>3, <3>1, BatchShape DEF InitDone, Engines
      <3>3. reply'[e] = "none"
        <4>1. reply[e] = "none"
          BY <2>3, <1>4, <3>1 DEF InitDone, IInv, Local, Phase
        <4> QED
          BY <1>2, <1>4, <4>1
      <3>4. ~(e < cur + 1)
        BY <2>1, <3>1 DEF Engines
      <3> QED
        BY <3>2, <3>3, <3>4 DEF Fresh
    <2> QED
      BY <2>1, <2>2, <2>3 DEF Quiet, Restore, ReplayDone, Start, Draw, Collected, Evaluated,
                              UpdateDone, Persist, Save
  <1> QED
    BY <1>1, <1>2, <1>3, <1>4, DriverSound

\* A dead run has nothing wrong with it.
LEMMA DeadSound ==
    ASSUME Die PROVE AllSound'
  BY DEF Die, AllSound, Sound, Fresh

\* One generation, or one fault, more; and what more of either is worth.
LEMMA OneMore ==
    ASSUME NEW n \in Nat, NEW a \in Nat, NEW b \in Nat
    PROVE  n * (a + (b + 1)) = n * (a + b) + n /\ n * ((a + 1) + b) = n * (a + b) + n
  <1>1. a + (b + 1) = (a + b) + 1 /\ (a + 1) + b = (a + b) + 1 /\ a + b \in Nat
    OBVIOUS
  <1>2. \A c \in Nat : n * (c + 1) = n * c + n
    OBVIOUS
  <1> QED
    BY <1>1, <1>2

LEMMA NoLess ==
    ASSUME NEW n \in Nat, NEW a \in Nat, NEW b \in Nat, a <= b
    PROVE  n * a <= n * b
  <1> DEFINE d == b - a
  <1>1. d \in Nat /\ b = a + d
    OBVIOUS
  <1> HIDE DEF d
  <1>2. n * (a + d) = n * a + n * d /\ n * a \in Nat /\ n * d \in Nat
    BY <1>1
  <1> QED
    BY <1>1, <1>2

\* What the budget is reckoned with.
LEMMA Reckoned ==
    ASSUME IInv
    PROVE  /\ Len(disk) \in Nat /\ saved \in Nat /\ Faults \in Nat /\ NOperators \in Nat \ {0}
           /\ Progress \in 0 .. NOperators /\ NOperators * (saved + Faults) \in Nat
           /\ Faults <= MaxCrashes + MaxRestarts + MaxTimeouts
           /\ crashes \in Nat /\ restarts \in Nat /\ timeouts \in Nat
           /\ MaxCrashes \in Nat /\ MaxRestarts \in Nat /\ MaxTimeouts \in Nat
  <1>1. /\ Len(disk) \in Nat /\ saved \in Nat /\ operator \in 1 .. NOperators
        /\ NOperators \in Nat \ {0}
    BY BatchShape DEF IInv, Typed, TypeOK
  <1>2. /\ crashes \in 0 .. MaxCrashes /\ restarts \in 0 .. MaxRestarts
        /\ timeouts \in 0 .. MaxTimeouts
        /\ MaxCrashes \in Nat /\ MaxRestarts \in Nat /\ MaxTimeouts \in Nat
    BY BatchBounds DEF IInv, Typed
  <1>3. /\ Faults \in Nat /\ Faults <= MaxCrashes + MaxRestarts + MaxTimeouts
        /\ crashes \in Nat /\ restarts \in Nat /\ timeouts \in Nat
    BY <1>2 DEF Faults
  <1>4. Progress \in 0 .. NOperators
    <2>1. {operator - 1, 0, NOperators} \subseteq 0 .. NOperators
      BY <1>1
    <2> QED
      BY <2>1 DEF Progress
  <1>5. saved + Faults \in Nat /\ \A n, m \in Nat : n * m \in Nat
    BY <1>1, <1>3
  <1> QED
    BY <1>1, <1>2, <1>3, <1>4, <1>5

\* The numbers of the budget, and one fault more.
LEMMA Numbers ==
    ASSUME IInv
    PROVE  /\ Len(disk) \in Nat /\ saved \in Nat /\ Faults \in Nat /\ NOperators \in Nat
           /\ Progress \in Nat /\ Progress <= NOperators
           /\ (crashes + 1) + restarts + timeouts = Faults + 1
           /\ crashes + (restarts + 1) + timeouts = Faults + 1
           /\ crashes + restarts + (timeouts + 1) = Faults + 1
  <1>1. /\ Len(disk) \in Nat /\ saved \in Nat /\ Faults \in Nat /\ NOperators \in Nat \ {0}
        /\ Progress \in 0 .. NOperators
        /\ crashes \in Nat /\ restarts \in Nat /\ timeouts \in Nat
    BY Reckoned
  <1>2. Progress \in Nat /\ Progress <= NOperators
    BY <1>1
  <1> QED
    BY <1>1, <1>2 DEF Faults

\* A step that costs nothing.
LEMMA SteadyStep ==
    ASSUME IInv, Afforded, UNCHANGED <<disk, saved>>, Faults' = Faults, Progress' = Progress,
           AllSound => AllSound'
    PROVE  Afforded'
  <1>1. Spent' = (IF AllSound' THEN Len(disk) ELSE Len(disk) + NOperators)
    BY DEF Spent
  <1>2. Spent' <= Spent /\ Spent \in Nat /\ Spent' \in Nat
    BY <1>1, Reckoned DEF Spent
  <1>3. (NOperators * (saved + Faults) + Progress)' = NOperators * (saved + Faults) + Progress
    OBVIOUS
  <1> QED
    BY <1>2, <1>3, Reckoned DEF Afforded

\* A fault that the run survives.
LEMMA FaultStep ==
    ASSUME IInv, Afforded, UNCHANGED <<disk, saved>>, Faults' = Faults + 1, Progress' = Progress
    PROVE  Afforded'
  <1> DEFINE room == NOperators * (saved + Faults)
  <1>1. NOperators * (saved + (Faults + 1)) = room + NOperators /\ room \in Nat
    BY Reckoned, OneMore
  <1>2. Spent' <= Len(disk) + NOperators /\ Spent >= Len(disk) /\ Spent \in Nat /\ Spent' \in Nat
    BY Reckoned DEF Spent
  <1>3. Spent <= room + Progress
    BY DEF Afforded
  <1> HIDE DEF room
  <1>4. Spent' <= (room + NOperators) + Progress
    <2>1. Spent' <= Spent + NOperators
      BY <1>2, Numbers
    <2> QED
      BY <1>1, <1>2, <1>3, <2>1, Numbers
  <1> QED
    BY <1>1, <1>4 DEF Afforded

\* The run dies: of a fault of its own, or of one it has met before.
LEMMA DeathStep ==
    ASSUME IInv, Afforded, Die, UNCHANGED <<disk, saved>>,
           \/ Faults' = Faults + 1
           \/ Faults' = Faults /\ ~AllSound
    PROVE  Afforded'
  <1> DEFINE room == NOperators * (saved + Faults)
  <1>1. NOperators * (saved + (Faults + 1)) = room + NOperators /\ room \in Nat
    BY Reckoned, OneMore
  <1>2. Spent' = Len(disk) /\ Progress' = 0
    BY DeadSound DEF Spent, Progress, Die, InBatch
  <1>3. Spent <= room + Progress
    BY DEF Afforded
  <1> HIDE DEF room
  <1>4. CASE Faults' = Faults + 1
    <2>1. Spent >= Len(disk) /\ Spent \in Nat
      BY Reckoned DEF Spent
    <2>2. Len(disk) <= (room + NOperators) + 0
      BY <1>1, <1>3, <2>1, Reckoned
    <2> QED
      BY <1>1, <1>2, <1>4, <2>2 DEF Afforded
  <1>5. CASE Faults' = Faults /\ ~AllSound
    <2>1. Spent = Len(disk) + NOperators
      BY <1>5 DEF Spent
    <2>2. Len(disk) <= room + 0
      BY <1>1, <1>3, <2>1, Reckoned
    <2> QED
      BY <1>2, <1>5, <2>2 DEF Afforded, room
  <1> QED
    BY <1>4, <1>5

\* A batch is recorded: the generation is one batch further.
LEMMA PersistAfforded ==
    ASSUME IInv, Afforded, Persist
    PROVE  Afforded'
  <1> DEFINE room == NOperators * (saved + Faults)
  <1>1. /\ saved' = saved /\ Faults' = Faults /\ Len(disk') = Len(disk) + 1
        /\ Progress' = Progress + 1
    BY Persisted, Reckoned DEF Faults, budget
  <1>2. AllSound => AllSound'
    BY QuietSound
  <1>3. Spent' <= Spent + 1 /\ Spent \in Nat /\ Spent' \in Nat
    <2>1. /\ Spent = (IF AllSound THEN Len(disk) ELSE Len(disk) + NOperators)
          /\ Spent' = (IF AllSound' THEN Len(disk) + 1 ELSE (Len(disk) + 1) + NOperators)
      BY <1>1 DEF Spent
    <2> QED
      BY <1>2, <2>1, Numbers
  <1>4. Spent <= room + Progress /\ room \in Nat
    BY Reckoned DEF Afforded
  <1>5. room' = room
    BY <1>1
  <1> HIDE DEF room
  <1>6. Spent' <= room + Progress'
    BY <1>1, <1>3, <1>4, Reckoned
  <1> QED
    BY <1>5, <1>6 DEF Afforded, room

\* The population is saved: a generation further, and none of the next.
LEMMA SaveAfforded ==
    ASSUME IInv, Afforded, Save
    PROVE  Afforded'
  <1> DEFINE room == NOperators * (saved + Faults)
  <1>1. /\ saved' = saved + 1 /\ Faults' = Faults /\ disk' = disk
    BY DEF Save, IInv, Driven, Faults, budget
  <1>2. Progress = NOperators /\ Progress' = 0
    <2>1. pc = "save" /\ pc' \in {"draw", "done"} /\ operator' = 1
      BY DEF Save, IInv, Driven, Before
    <2> QED
      BY <2>1 DEF Progress, InBatch
  <1>3. AllSound => AllSound'
    BY QuietSound
  <1>4. Spent' <= Spent /\ Spent \in Nat /\ Spent' \in Nat
    BY <1>1, <1>3, Reckoned DEF Spent
  <1>5. NOperators * ((saved + 1) + Faults) = room + NOperators /\ room \in Nat
    BY Reckoned, OneMore
  <1>6. Spent <= room + NOperators
    BY <1>2 DEF Afforded
  <1> HIDE DEF room
  <1>7. Spent' <= (room + NOperators) + 0
    BY <1>4, <1>5, <1>6, Reckoned
  <1> QED
    BY <1>1, <1>2, <1>5, <1>7 DEF Afforded

\* At the start nothing is spent.
LEMMA InitAfforded == Init => Afforded
  <1> SUFFICES ASSUME Init PROVE Afforded
    OBVIOUS
  <1>1. Len(disk) = 0 /\ saved = 0 /\ Faults = 0 /\ Progress = 0 /\ pc = "down"
    BY EmptySeq DEF Init, Faults, Progress, InBatch
  <1>2. AllSound
    BY DEF Init, AllSound, Sound, Fresh
  <1>3. NOperators * (0 + 0) + 0 = 0
    BY BatchShape
  <1> QED
    BY <1>1, <1>2, <1>3 DEF Afforded, Spent

\* What a step that is neither a fault, a record nor a save leaves as it is.
Steady ==
    /\ UNCHANGED <<disk, saved>> /\ Faults' = Faults /\ Progress' = Progress
    /\ AllSound => AllSound'
    /\ pc' = "done" => pc = "done" \/ saved = Generations

\* Something goes wrong, and the run goes on.
Fault == UNCHANGED <<disk, saved, pc>> /\ Faults' = Faults + 1 /\ Progress' = Progress

\* The run ends, killed or for a request that failed.
Death ==
    /\ Die /\ UNCHANGED <<disk, saved>>
    /\ Faults' = Faults + 1 \/ (Faults' = Faults /\ ~AllSound)

\* The driver's quiet steps.
LEMMA QuietSteady ==
    ASSUME IInv, Quiet
    PROVE  Steady
  <1>1. UNCHANGED <<disk, saved>> /\ Faults' = Faults
    BY DEF Quiet, Launch, InitDone, Restore, ReplayDone, Start, Draw, Collected, Evaluated,
           UpdateDone, IInv, Driven, Before, Faults, budget
  <1>2. operator' = operator
    BY DEF Quiet, Launch, InitDone, Restore, ReplayDone, Start, Draw, Collected, Evaluated,
           UpdateDone, local
  <1>3. CASE Launch \/ InitDone \/ Restore \/ ReplayDone
    <2>1. /\ pc \notin InBatch \cup {"draw", "save"} /\ pc' \notin InBatch \cup {"draw", "save"}
          /\ pc' # "done"
      BY <1>3 DEF Launch, InitDone, Restore, ReplayDone, InBatch
    <2> QED
      BY <1>1, <2>1, QuietSound DEF Steady, Progress
  <1>4. CASE Start
    <2>1. pc = "start" /\ pc' = (IF saved < Generations THEN "draw" ELSE "done") /\ operator = 1
      BY <1>4 DEF Start, IInv, Driven, Before
    <2>2. Progress' = Progress
      BY <1>2, <2>1 DEF Progress, InBatch
    <2>3. pc' = "done" => saved = Generations
      BY <2>1, BatchShape DEF IInv, Typed, TypeOK
    <2> QED
      BY <1>1, <2>2, <2>3, QuietSound DEF Steady
  <1>5. CASE Draw \/ Collected \/ Evaluated \/ UpdateDone
    <2>1. pc \in InBatch \cup {"draw"} /\ pc' \in InBatch \cup {"draw"} /\ pc' # "done"
      BY <1>5 DEF Draw, Collected, Evaluated, UpdateDone, InBatch
    <2> QED
      BY <1>1, <1>2, <2>1, QuietSound DEF Steady, Progress
  <1> QED
    BY <1>3, <1>4, <1>5 DEF Quiet

\* Every step is one of these, a record or a save.
LEMMA StepCosts ==
    ASSUME IInv, [Next]_vars
    PROVE  Steady \/ Fault \/ Death \/ Persist \/ Save
  <1>1. CASE Crash
    <2>1. Die /\ UNCHANGED <<disk, saved>> /\ Faults' = (crashes + 1) + restarts + timeouts
      BY <1>1 DEF Crash, Faults
    <2> QED
      BY <2>1, Numbers DEF Death
  <1>2. ASSUME NEW e \in Engines, Timeout(e) \/ EngineRestart(e) PROVE Fault
    <2>1. /\ UNCHANGED <<disk, saved, pc>> /\ Progress' = Progress
          /\ \/ Faults' = crashes + (restarts + 1) + timeouts
             \/ Faults' = crashes + restarts + (timeouts + 1)
      BY <1>2 DEF Timeout, EngineRestart, local, Faults, Progress
    <2> QED
      BY <2>1, Numbers DEF Fault
  <1>3. CASE DriverFails
    <2>1. cur \in Engines /\ reply[cur] = "error"
      BY <1>3 DEF DriverFails, IInv, Typed, TypeOK
    <2>2. ~AllSound
      BY <2>1 DEF AllSound, Sound
    <2> QED
      BY <1>3, <2>2 DEF Death, DriverFails, Faults, budget
  <1>4. CASE InitPost \/ ReplayPost \/ UpdatePost
    <2>1. UNCHANGED <<disk, saved, pc>> /\ Faults' = Faults /\ Progress' = Progress
      BY <1>4 DEF InitPost, ReplayPost, UpdatePost, local, budget, Faults, Progress
    <2> QED
      BY <1>4, <2>1, PostsSound DEF Steady
  <1>5. ASSUME NEW i \in Tasks, Worker(i) PROVE Steady
    <2>1. UNCHANGED <<disk, saved, pc>> /\ Faults' = Faults /\ Progress' = Progress
      BY <1>5 DEF Worker, Take, Acquire, TaskPost, Applied, Generated, Reverted, Answered, pool,
                  budget, Faults, Progress
    <2>2. AllSound => AllSound'
      BY <1>5, TakeSound, TaskPostSound, AnsweredSound DEF Worker
    <2> QED
      BY <2>1, <2>2 DEF Steady
  <1>6. ASSUME NEW e \in Engines, Serve(e) PROVE Steady
    <2>1. UNCHANGED <<disk, saved, pc>> /\ Faults' = Faults /\ Progress' = Progress
      BY <1>6 DEF Serve, budget, Faults, Progress
    <2> QED
      BY <1>6, <2>1, ServeSound DEF Steady
  <1>7. CASE UNCHANGED vars
    <2>1. /\ UNCHANGED <<disk, saved, pc>> /\ Faults' = Faults /\ Progress' = Progress
          /\ UNCHANGED driver /\ UNCHANGED <<queue, engine, reply, task>>
      BY <1>7 DEF vars, local, budget, Faults, Progress, driver
    <2>2. ASSUME AllSound PROVE AllSound'
      <3>1. 1 \in Engines /\ Typed
        BY BatchShape DEF Engines, IInv
      <3>2. Sound(1, queue[1], engine[1], reply[1], task)
        BY <2>2, <3>1 DEF AllSound
      <3> QED
        BY <2>1, <2>2, <3>1, <3>2, SetItself, EngineSound
    <2> QED
      BY <2>1, <2>2 DEF Steady
  <1>8. CASE Driver
    BY <1>3, <1>4, <1>8, QuietSteady DEF Driver, Quiet
  <1> QED
    BY <1>1, <1>2, <1>5, <1>6, <1>7, <1>8 DEF Next, Environment, Finished

\* Every step keeps within the budget.
LEMMA StepAfforded == IInv /\ Afforded /\ [Next]_vars => Afforded'
  <1> SUFFICES ASSUME IInv, Afforded, [Next]_vars PROVE Afforded'
    OBVIOUS
  <1>1. CASE Steady
    BY <1>1, SteadyStep DEF Steady
  <1>2. CASE Fault
    BY <1>2, FaultStep DEF Fault
  <1>3. CASE Death
    BY <1>3, DeathStep DEF Death
  <1> QED
    BY <1>1, <1>2, <1>3, StepCosts, PersistAfforded, SaveAfforded

\* Unless something goes wrong, the history has each batch exactly once.
Exact == Faults = 0 => AllSound /\ Len(disk) = NOperators * saved + Progress

\* A run that is over has gone through all of its generations.
Ended == pc = "done" => saved = Generations

LEMMA StepExact == IInv /\ Exact /\ Ended /\ [Next]_vars => Exact' /\ Ended'
  <1> SUFFICES ASSUME IInv, Exact, Ended, [Next]_vars PROVE Exact' /\ Ended'
    OBVIOUS
  <1>1. CASE Steady
    <2>1. /\ Len(disk') = Len(disk) /\ saved' = saved /\ Progress' = Progress /\ Faults' = Faults
          /\ AllSound => AllSound'
          /\ pc' = "done" => pc = "done" \/ saved = Generations
      BY <1>1 DEF Steady
    <2> QED
      BY <2>1 DEF Exact, Ended
  <1>2. CASE Fault \/ Death
    <2>1. Faults' # 0 \/ (~AllSound /\ Faults' = Faults)
      BY <1>2, Numbers DEF Fault, Death
    <2>2. saved' = saved /\ (pc' = pc \/ pc' = "down")
      BY <1>2 DEF Fault, Death, Die
    <2> QED
      BY <2>1, <2>2 DEF Exact, Ended
  <1>3. CASE Persist
    <2>1. /\ saved' = saved /\ Faults' = Faults /\ Len(disk') = Len(disk) + 1
          /\ Progress' = Progress + 1 /\ pc' # "done"
      <3>1. Progress = operator - 1 /\ Progress' = operator /\ operator \in 1 .. NOperators
        BY <1>3, Persisted
      <3>2. Progress' = Progress + 1
        BY <3>1, BatchShape
      <3> QED
        BY <1>3, <3>2, Persisted DEF Faults, budget
    <2>2. (NOperators * saved)' = NOperators * saved /\ NOperators * saved \in Nat
      BY <2>1, Numbers
    <2>3. ASSUME Faults' = 0 PROVE AllSound' /\ Len(disk') = NOperators * saved + Progress'
      <3>1. AllSound /\ Len(disk) = NOperators * saved + Progress
        BY <2>1, <2>3 DEF Exact
      <3>2. Len(disk') = NOperators * saved + Progress'
        BY <2>1, <2>2, <3>1, Numbers
      <3> QED
        BY <1>3, <3>1, <3>2, QuietSound
    <2> QED
      BY <2>1, <2>3 DEF Exact, Ended
  <1>4. CASE Save
    <2>1. /\ saved' = saved + 1 /\ Faults' = Faults /\ Len(disk') = Len(disk)
          /\ pc = "save" /\ pc' = (IF saved + 1 < Generations THEN "draw" ELSE "done")
          /\ operator' = 1 /\ saved < Generations /\ Generations \in Nat
      BY <1>4, BatchShape DEF Save, IInv, Driven, Before, Faults, budget
    <2>2. Progress = NOperators /\ Progress' = 0
      BY <2>1 DEF Progress, InBatch
    <2>3. NOperators * (saved + 1) = NOperators * saved + NOperators /\ NOperators * saved \in Nat
      BY Numbers
    <2>4. Faults' = 0 => AllSound' /\ Len(disk') = NOperators * saved' + Progress'
      BY <1>4, <2>1, <2>2, <2>3, QuietSound DEF Exact
    <2>5. pc' = "done" => saved' = Generations
      BY <2>1, Numbers
    <2> QED
      BY <2>4, <2>5 DEF Exact, Ended
  <1> QED
    BY <1>1, <1>2, <1>3, <1>4, StepCosts

\* A batch that is about to be recorded is within the bound.
LEMMA Room ==
    ASSUME IInv, Afforded, pc = "persist"
    PROVE  Len(disk) < MaxBatches
  <1> DEFINE most == MaxCrashes + MaxRestarts + MaxTimeouts
  <1>1. saved < Generations /\ Generations \in Nat /\ operator \in 1 .. NOperators
    BY BatchShape DEF IInv, Driven, InBatch, Typed, TypeOK
  <1>2. Progress = operator - 1 /\ most \in Nat /\ Faults <= most
    BY Reckoned DEF Progress, InBatch
  <1>3. NOperators * ((saved + 1) + Faults) = NOperators * (saved + Faults) + NOperators
    BY Reckoned, OneMore
  <1>4. (saved + 1) + Faults \in Nat /\ Generations + most \in Nat
        /\ (saved + 1) + Faults <= Generations + most
    <2> HIDE DEF most
    <2> QED
      BY <1>1, <1>2, Numbers
  <1>5. NOperators * ((saved + 1) + Faults) <= NOperators * (Generations + most)
    BY <1>4, Reckoned, NoLess
  <1>6. Generations + most = Generations + MaxCrashes + MaxRestarts + MaxTimeouts
    BY <1>1, Reckoned
  <1>7. MaxBatches = NOperators * (Generations + most) /\ MaxBatches \in Nat
    BY <1>4, <1>6, Reckoned DEF MaxBatches
  <1>8. Len(disk) <= NOperators * (saved + Faults) + Progress
    <2>1. Len(disk) <= Spent /\ Spent \in Nat
      BY Reckoned DEF Spent
    <2> QED
      BY <2>1, Reckoned DEF Afforded
  <1> DEFINE room == NOperators * (saved + Faults)
  <1>9. room \in Nat
    BY Reckoned
  <1> HIDE DEF most, room
  <1>10. /\ room + NOperators <= MaxBatches /\ Len(disk) <= room + (operator - 1)
         /\ operator <= NOperators /\ operator \in Nat
    BY <1>1, <1>2, <1>3, <1>5, <1>7, <1>8 DEF room
  <1> QED
    BY <1>7, <1>9, <1>10, Numbers

-------------------------------------------------------------------------------
(* The history is that of a training nothing interrupts. *)

\* Recording a batch is a generation of that training.
LEMMA PersistTrains ==
    ASSUME IInv, Afforded, Persist
    PROVE  Training!Generation
  <1> DEFINE record == Update(Record)
  <1>1. pc = "persist" /\ disk \in Seq(Records) /\ Record \in Records
    BY Persisted, RecordFacts DEF IInv, Typed, TypeOK
  <1>2. /\ UpdatesOf(disk') = Append(UpdatesOf(disk), record)
        /\ Len(UpdatesOf(disk)) = Len(disk) /\ Len(UpdatesOf(disk)) < MaxBatches
    BY <1>1, Persisted, UpdatesAppend, UpdateTypes, Room
  <1>3. /\ record.seeds = Drawn(Len(disk) * Directions)
        /\ record.rewards = [i \in Tasks |-> task[i].reward]
        /\ record = [seeds |-> record.seeds, rewards |-> record.rewards]
    BY <1>1, RecordFacts DEF Update, Record
  <1>4. \A i \in Tasks : record.seeds[i] = Seed(i)
    BY DEF Update, Record
  <1>5. record.seeds = Training!SeedsOf(Len(UpdatesOf(disk)))
    BY <1>2, <1>3 DEF Drawn, Tasks, Training!SeedsOf
  <1>6. \A i \in Tasks : record.rewards[i] \in OrInvalid(UpdatesOf(disk), record.seeds[i])
    BY <1>1, <1>3, <1>4 DEF IInv, Batched, Earns, Trained
  <1> HIDE DEF record
  <1>7. record.rewards \in
            [1 .. Directions ->
                UNION {OrInvalid(UpdatesOf(disk), Training!SeedsOf(Len(UpdatesOf(disk)))[i]) :
                          i \in 1 .. Directions}]
    BY <1>3, <1>5, <1>6 DEF Tasks
  <1> QED
    BY <1>2, <1>3, <1>5, <1>6, <1>7 DEF Training!Generation, Training!GenerationAfter, Tasks

\* Nothing else touches the history.
LEMMA StepTrains ==
    ASSUME IInv, Afforded, [Next]_vars
    PROVE  [Training!Generation]_(UpdatesOf(disk))
  <1>1. CASE Persist
    BY <1>1, PersistTrains
  <1>2. CASE ~Persist
    <2>1. disk' = disk
      <3>1. CASE Driver
        BY <1>2, <3>1 DEF Driver, Launch, DriverFails, InitPost, InitDone, Restore, ReplayPost,
              ReplayDone, Start, Draw, Collected, Evaluated, UpdatePost, UpdateDone, Save,
              IInv, Driven
      <3>2. CASE Environment \/ Finished \/ UNCHANGED vars
        BY <3>2 DEF Environment, Crash, Timeout, EngineRestart, Finished, vars
      <3>3. ASSUME NEW i \in Tasks, Worker(i) PROVE disk' = disk
        BY <3>3 DEF Worker, Take, Acquire, TaskPost, Applied, Generated, Reverted, Answered, pool
      <3>4. ASSUME NEW e \in Engines, Serve(e) PROVE disk' = disk
        BY <3>4 DEF Serve
      <3> QED
        BY <3>1, <3>2, <3>3, <3>4 DEF Next
    <2> QED
      BY <2>1 DEF UpdatesOf
  <1> QED
    BY <1>1, <1>2

\* EoH under model ES implements the training of one model that nothing interrupts,
\* whatever is killed, restarted or given up on: history.json only ever grows, by one
\* batch at a time, with the stream's next seeds and with rewards each of which its
\* candidate earns from the model of the batches before, under its own seed, or is
\* the invalid one. It never has more batches than MaxBatches: every fault costs a
\* generation at most.
THEOREM Refinement == ASSUME Scored PROVE Spec => ImplementsTraining
  <1>1. Init => IInv /\ Afforded
    BY InitIInv, InitAfforded
  <1>2. IInv /\ Afforded /\ [Next]_vars => (IInv /\ Afforded)'
    BY StepIInv, StepAfforded
  <1>3. Init => Training!Init
    <2>1. Len(<<>>) = 0 /\ <<>> \in Seq(Records)
      BY EmptySeq
    <2>2. UpdatesOf(<<>>) \in Logs /\ Len(UpdatesOf(<<>>)) = 0
      BY <2>1, UpdateTypes
    <2>3. UpdatesOf(<<>>) = <<>>
      BY <2>2, EmptySeq, LenProperties DEF Logs
    <2> QED
      BY <2>3 DEF Init, Training!Init
  <1>4. IInv /\ Afforded /\ [Next]_vars => [Training!Generation]_(UpdatesOf(disk))
    BY StepTrains
  <1> QED
    BY <1>1, <1>2, <1>3, <1>4, PTL DEF Spec, ImplementsTraining, Training!Spec

\* A run in which nothing is killed, restarted or given up on sees no request fail
\* and ends with exactly one batch for each operator of each generation: what the
\* EoH interface does to the engines is never itself the reason for an error.
THEOREM Undisturbed ==
    ASSUME Scored
    PROVE  Spec => [](Faults = 0 => /\ \A e \in Engines : reply[e] # "error"
                                    /\ pc = "done" => Len(disk) = NOperators * Generations)
  <1>1. Init => IInv /\ Exact /\ Ended
    <2> SUFFICES ASSUME Init PROVE Exact /\ Ended
      BY InitIInv
    <2>1. Len(disk) = 0 /\ saved = 0 /\ Progress = 0 /\ pc = "down"
      BY EmptySeq DEF Init, Progress, InBatch
    <2>2. AllSound
      BY DEF Init, AllSound, Sound, Fresh
    <2>3. NOperators * 0 + 0 = 0
      BY BatchShape
    <2> QED
      BY <2>1, <2>2, <2>3 DEF Exact, Ended
  <1>2. IInv /\ Exact /\ Ended /\ [Next]_vars => (IInv /\ Exact /\ Ended)'
    BY StepIInv, StepExact
  <1>3. IInv /\ Exact /\ Ended =>
            (Faults = 0 => /\ \A e \in Engines : reply[e] # "error"
                           /\ pc = "done" => Len(disk) = NOperators * Generations)
    <2> SUFFICES ASSUME IInv, Exact, Ended, Faults = 0
                 PROVE  /\ \A e \in Engines : reply[e] # "error"
                        /\ pc = "done" => Len(disk) = NOperators * Generations
      OBVIOUS
    <2>1. AllSound /\ Len(disk) = NOperators * saved + Progress
      BY DEF Exact
    <2>2. \A e \in Engines : reply[e] # "error"
      BY <2>1 DEF AllSound, Sound
    <2>3. ASSUME pc = "done" PROVE Len(disk) = NOperators * Generations
      <3>1. Progress = 0 /\ saved = Generations
        BY <2>3 DEF Progress, InBatch, Ended
      <3>2. NOperators * Generations \in Nat
        BY BatchShape
      <3> QED
        BY <2>1, <3>1, <3>2
    <2> QED
      BY <2>2, <2>3
  <1> QED
    BY <1>1, <1>2, <1>3, PTL DEF Spec

=================================================================================
