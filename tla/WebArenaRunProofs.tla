--------------------------- MODULE WebArenaRunProofs ---------------------------
(***************************************************************************)
(* Proofs that WebArena's histories, evaluations and servers belong        *)
(* together, whatever processes are killed, continued, begun anew or       *)
(* replayed into the directory they come from, for any number of servers,  *)
(* generations, run directories and setups.                                *)
(***************************************************************************)
EXTENDS WebArenaRun, SequenceTheorems, TLAPS

CONSTANT Scores         \* what a reward may be

Draws == {Draw(s, g) : s \in Setups, g \in 0 .. Generations}
Records == [draw : Draws, reward : Scores]
Logs == Seq(Records)

\* Whatever a model with such updates does, it is given such a reward.
Scored ==
    \A log \in Logs, d \in Draws : RewardsOf(log, d) \subseteq Scores

---------------------------------------------------------------------------------
(* The inductive invariant *)

States == [ready : BOOLEAN, log : Logs, active : Draws \cup {None}]
Models == [ready : BOOLEAN, log : Logs]
Evaluations == {None} \cup SUBSET Models
Rows == [draw : Draws, reward : Scores, eval : Evaluations]
Histories == [first : Evaluations, updates : Seq(Rows)]

Launched == {"init", "initial", "loop", "update", "record", "write", "writing"}
Tested == {"reset", "test_init", "test_replay"}

Types ==
    /\ file \in [Runs -> {None, Torn} \cup Histories]
    /\ server \in [Endpoints -> States]
    /\ pc \in {"down"} \cup Launched \cup Tested
    /\ run \in Runs \cup {None} /\ setup \in Setups \cup {None}
    /\ source \in Seq(Rows) /\ history \in Histories /\ gen \in 0 .. Generations
    /\ cur \in Endpoints
    /\ faults \in 0 .. MaxFaults /\ others \in 0 .. MaxOthers /\ tests \in 0 .. MaxTests

\* The records could have been made one after the other, by setups of any kind.
Made(records) ==
    /\ Len(records) <= Generations
    /\ \A i \in 1 .. Len(records) :
          /\ records[i].draw \in {Draw(s, i - 1) : s \in Setups}
          /\ records[i].reward \in RewardsOf(Prefix(records, i - 1), records[i].draw)

\* And every evaluation is of the records before it.
Good(h) ==
    /\ Made(h.updates)
    /\ h.first # None => EvaluatedOn(h.first, <<>>)
    /\ \A i \in 1 .. Len(h.updates) :
          h.updates[i].eval # None => EvaluatedOn(h.updates[i].eval, Prefix(h.updates, i))

\* What lies in the files, what a process is to replay and what it has made.
Content ==
    /\ \A r \in Runs : Whole(r) => Good(file[r])
    /\ Good(history) /\ Made(source)

\* A server is at exactly this log, or has restarted.
At(s, log) == s.ready => s.log = log /\ s.active = None

\* A restarted server holds nothing.
Clean == \A e \in Endpoints : ~server[e].ready => server[e] = Blank

\* The records a process has made of those it replays are those.
Continues ==
    \A i \in 1 .. Len(history.updates) : i <= Len(source) =>
        /\ history.updates[i].draw = source[i].draw
        /\ history.updates[i].reward = source[i].reward

\* Where a process is, its servers are.
Progress ==
    /\ pc \in {"down", "init", "initial"} \cup Tested => history = Empty
    /\ pc \in {"down", "init", "initial", "reset", "test_init"} => gen = 0
    /\ pc \in Launched => setup \in Setups /\ run \in Runs /\ gen = Len(history.updates) /\ Continues
    /\ pc \in Tested \cup {"down"} => run = None
    /\ pc = "down" => cur = 1
    /\ pc \in Tested => gen <= Len(source)
    /\ pc = "init" => \A e \in Endpoints : e < cur => At(server[e], <<>>)
    /\ pc \in {"initial", "test_init"} => \A e \in Endpoints : At(server[e], <<>>)
    /\ pc \in {"loop", "update", "write", "writing"} =>
          \A e \in Endpoints : At(server[e], Prefix(history.updates, gen))
    /\ pc = "record" =>
          \A e \in Endpoints : At(server[e], Append(Prefix(history.updates, gen), Record))
    /\ pc \in {"update", "record"} =>
          /\ gen < Generations
          /\ reward \in Scores
          /\ reward \in RewardsOf(Prefix(history.updates, gen), Draw(setup, gen))
          /\ Replaying => Matches /\ reward = source[gen + 1].reward
    /\ pc = "test_replay" => \A e \in Endpoints : At(server[e], Prefix(source, gen))

IInv == Types /\ Content /\ Clean /\ Progress

---------------------------------------------------------------------------------
(* Records and the updates they make *)

\* No records, no updates.
LEMMA EmptyFacts ==
    /\ <<>> \in Seq(Rows) /\ <<>> \in Logs /\ Len(<<>>) = 0
    /\ \A records : Prefix(records, 0) = <<>>
    /\ Empty \in Histories /\ Empty.updates = <<>> /\ Empty.first = None
  <1>1. <<>> \in Seq(Rows) /\ <<>> \in Logs /\ Len(<<>>) = 0
    BY EmptySeq DEF Logs
  <1>2. \A records : Prefix(records, 0) = <<>>
    <2> TAKE records
    <2>1. 1 .. 0 = {}
      OBVIOUS
    <2> QED
      BY <2>1 DEF Prefix
  <1>3. Empty \in Histories /\ Empty.updates = <<>> /\ Empty.first = None
    BY <1>1 DEF Empty, Histories, Evaluations
  <1> QED
    BY <1>1, <1>2, <1>3

\* What a server learns of a row.
Told(row) == [draw |-> row.draw, reward |-> row.reward]

\* What a server learns of the first n records is a log of n updates.
LEMMA PrefixFacts ==
    ASSUME NEW records \in Seq(Rows), NEW n \in 0 .. Len(records)
    PROVE  /\ Prefix(records, n) \in Logs /\ Len(Prefix(records, n)) = n
           /\ \A i \in 1 .. n : Prefix(records, n)[i] = Told(records[i])
  <1>1. n \in Nat /\ \A i \in 1 .. n : i \in 1 .. Len(records)
    OBVIOUS
  <1>2. \A i \in 1 .. n : records[i] \in Rows
    BY <1>1
  <1>3. \A i \in 1 .. n : Told(records[i]) \in Records
    BY <1>2 DEF Told, Rows, Records
  <1>4. Prefix(records, n) = [i \in 1 .. n |-> Told(records[i])]
    BY DEF Prefix, Told
  <1>5. Prefix(records, n) \in [1 .. n -> Records]
    BY <1>3, <1>4
  <1> QED
    BY <1>1, <1>4, <1>5 DEF Logs

\* Logs of the same updates are the same.
LEMMA SameLog ==
    ASSUME NEW a \in Logs, NEW b \in Logs, Len(a) = Len(b), \A i \in 1 .. Len(a) : a[i] = b[i]
    PROVE  a = b
  BY DEF Logs

\* Records that tell the same make the same updates.
LEMMA SamePrefix ==
    ASSUME NEW a, NEW b, NEW n \in Nat,
           \A i \in 1 .. n : a[i].draw = b[i].draw /\ a[i].reward = b[i].reward
    PROVE  Prefix(a, n) = Prefix(b, n)
  BY DEF Prefix

\* The next record adds its update.
LEMMA PrefixNext ==
    ASSUME NEW records \in Seq(Rows), NEW n \in 0 .. Len(records) - 1
    PROVE  /\ Told(records[n + 1]) \in Records
           /\ Append(Prefix(records, n), Told(records[n + 1])) = Prefix(records, n + 1)
  <1> DEFINE a == Prefix(records, n)
             row == Told(records[n + 1])
             b == Prefix(records, n + 1)
  <1>1. n \in 0 .. Len(records) /\ n + 1 \in 0 .. Len(records) /\ n + 1 \in 1 .. Len(records)
        /\ n \in Nat
    OBVIOUS
  <1>2. /\ a \in Logs /\ Len(a) = n /\ \A i \in 1 .. n : a[i] = Told(records[i])
        /\ b \in Logs /\ Len(b) = n + 1 /\ \A i \in 1 .. n + 1 : b[i] = Told(records[i])
    BY <1>1, PrefixFacts
  <1>3. row \in Records
    <2>1. records[n + 1] \in Rows
      BY <1>1
    <2> QED
      BY <2>1 DEF Told, Rows, Records
  <1> HIDE DEF a, b, row
  <1>4. /\ Append(a, row) \in Logs /\ Len(Append(a, row)) = n + 1
        /\ \A i \in 1 .. n : Append(a, row)[i] = a[i]
        /\ Append(a, row)[n + 1] = row
    BY <1>1, <1>2, <1>3 DEF Logs
  <1>5. \A i \in 1 .. n + 1 : Append(a, row)[i] = b[i]
    BY <1>1, <1>2, <1>4 DEF row
  <1>6. Append(a, row) = b
    BY <1>2, <1>4, <1>5, SameLog
  <1> QED
    BY <1>3, <1>6 DEF a, b, row

\* A history with one more row.
LEMMA RowAppended ==
    ASSUME NEW records \in Seq(Rows), NEW row \in Rows
    PROVE  /\ Append(records, row) \in Seq(Rows) /\ Len(Append(records, row)) = Len(records) + 1
           /\ Len(records) \in Nat
           /\ \A i \in 1 .. Len(records) : Append(records, row)[i] = records[i]
           /\ Append(records, row)[Len(records) + 1] = row
           /\ \A n \in 0 .. Len(records) : Prefix(Append(records, row), n) = Prefix(records, n)
           /\ Prefix(Append(records, row), Len(records) + 1) =
                 Append(Prefix(records, Len(records)), Told(row))
  <1> DEFINE more == Append(records, row)
  <1>1. /\ more \in Seq(Rows) /\ Len(more) = Len(records) + 1 /\ Len(records) \in Nat
        /\ \A i \in 1 .. Len(records) : more[i] = records[i]
        /\ more[Len(records) + 1] = row
    OBVIOUS
  <1> HIDE DEF more
  <1>2. \A n \in 0 .. Len(records) : Prefix(more, n) = Prefix(records, n)
    <2> TAKE n \in 0 .. Len(records)
    <2>1. n \in Nat /\ \A i \in 1 .. n : more[i] = records[i]
      BY <1>1
    <2> QED
      BY <2>1, SamePrefix
  <1>3. Len(records) \in 0 .. Len(more) - 1 /\ Len(records) \in 0 .. Len(records)
    BY <1>1
  <1>4. Append(Prefix(more, Len(records)), Told(more[Len(records) + 1])) = Prefix(more, Len(records) + 1)
    BY <1>1, <1>3, PrefixNext
  <1> QED
    BY <1>1, <1>2, <1>3, <1>4 DEF more

\* The first records of a file.
LEMMA FirstRecords ==
    ASSUME NEW records \in Seq(Rows), NEW n \in 0 .. Len(records)
    PROVE  /\ SubSeq(records, 1, n) \in Seq(Rows) /\ Len(SubSeq(records, 1, n)) = n
           /\ \A i \in 1 .. n : SubSeq(records, 1, n)[i] = records[i]
  OBVIOUS

\* They could have been made if all could.
LEMMA FirstMade ==
    ASSUME NEW records \in Seq(Rows), NEW n \in 0 .. Len(records), Made(records),
           Generations \in Nat
    PROVE  Made(SubSeq(records, 1, n))
  <1> DEFINE part == SubSeq(records, 1, n)
  <1>1. /\ part \in Seq(Rows) /\ Len(part) = n
        /\ \A i \in 1 .. n : part[i] = records[i]
    BY FirstRecords
  <1> HIDE DEF part
  <1>2. n <= Len(records) /\ n \in Nat /\ Len(records) <= Generations /\ Len(records) \in Nat
    BY DEF Made
  <1>3. ASSUME NEW i \in 1 .. Len(part)
        PROVE  /\ part[i].draw \in {Draw(s, i - 1) : s \in Setups}
               /\ part[i].reward \in RewardsOf(Prefix(part, i - 1), part[i].draw)
    <2>1. i \in 1 .. Len(records) /\ part[i] = records[i] /\ i - 1 \in Nat
      BY <1>1, <1>2
    <2>2. \A k \in 1 .. i - 1 : part[k] = records[k]
      BY <1>1, <1>2
    <2>3. Prefix(part, i - 1) = Prefix(records, i - 1)
      BY <2>1, <2>2, SamePrefix
    <2> QED
      BY <2>1, <2>3 DEF Made
  <1>4. Len(part) <= Generations
    BY <1>1, <1>2
  <1> QED
    BY <1>3, <1>4 DEF Made, part

---------------------------------------------------------------------------------
(* Requests *)

\* What a request of a process may do to a server, answered by t.
Effect(s, op, arg, ok, t) ==
    /\ t \in States
    /\ ~ok => t = s
    /\ (~s.ready => s = Blank) => (~t.ready => t = Blank)
    /\ ok => /\ op \in {"init", "reset"} => At(t, <<>>)
             /\ op = "update" => s.ready /\ t.log = Append(s.log, arg) /\ t.active = None

\* The server's handlers do no more than that.
LEMMA Handled ==
    ASSUME NEW s \in States, NEW op \in {"init", "reset", "update"}, NEW arg,
           op = "update" => arg \in Records
    PROVE  Effect(s, op, arg, Handle(s, Request(op, arg)).ok, Handle(s, Request(op, arg)).state)
  <1> SUFFICES ASSUME NEW m, m = Request(op, arg), NEW ok, NEW t,
                      ok = Handle(s, m).ok, t = Handle(s, m).state
               PROVE  Effect(s, op, arg, ok, t)
    OBVIOUS
  <1>1. m.op = op /\ m.arg = arg
    BY DEF Request
  <1>2. <<>> \in Logs
    BY EmptyFacts
  <1>3. CASE op = "init"
    <2>1. ok = TRUE /\ t = Initialised(s)
      BY <1>1, <1>3 DEF Handle, Changed
    <2>2. t \in States /\ t.ready /\ t.log = <<>> /\ t.active = None
      BY <1>2, <2>1 DEF Initialised, States
    <2> QED
      BY <1>3, <2>1, <2>2 DEF Effect, At
  <1>4. CASE op = "reset" /\ s.ready
    <2>1. ok = s.ready /\ t = [s EXCEPT !.log = <<>>, !.active = None]
      BY <1>1, <1>4 DEF Handle, Changed
    <2>2. t \in States /\ t.ready = s.ready /\ t.log = <<>> /\ t.active = None
      BY <1>2, <2>1 DEF States
    <2> QED
      BY <1>4, <2>1, <2>2 DEF Effect, At
  <1>5. CASE op = "update" /\ s.ready /\ s.active = None
    <2>1. Append(s.log, arg) \in Logs
      BY <1>5 DEF States, Logs
    <2>2. ok /\ t = [s EXCEPT !.log = Append(s.log, arg)]
      BY <1>1, <1>5 DEF Handle, Changed
    <2>3. t \in States /\ t.ready = s.ready /\ t.log = Append(s.log, arg) /\ t.active = None
      BY <1>5, <2>1, <2>2 DEF States
    <2> QED
      BY <1>5, <2>2, <2>3 DEF Effect
  <1>6. CASE (op = "reset" /\ ~s.ready) \/ (op = "update" /\ ~(s.ready /\ s.active = None))
    <2>1. ~ok /\ t = s
      BY <1>1, <1>6 DEF Handle
    <2> QED
      BY <2>1 DEF Effect
  <1> QED
    BY <1>3, <1>4, <1>5, <1>6

\* The effect on one server of a request to it.
LEMMA Answers ==
    ASSUME Types, NEW op \in {"init", "reset", "update"}, NEW arg,
           op = "update" => arg \in Records
    PROVE  \A e \in Endpoints :
              Effect(server[e], op, arg, Answer(e, op, arg).ok, Answer(e, op, arg).state)
  BY Handled DEF Types, Answer

\* A request that all its servers accept.
LEMMA PostOkFacts ==
    ASSUME Types, Clean, NEW es, NEW op \in {"init", "reset", "update"}, NEW arg,
           op = "update" => arg \in Records, PostOk(es, op, arg)
    PROVE  /\ server' \in [Endpoints -> States] /\ Clean'
           /\ \A e \in Endpoints : e \notin es => server'[e] = server[e]
           /\ \A e \in es \cap Endpoints :
                 /\ op \in {"init", "reset"} => At(server'[e], <<>>)
                 /\ op = "update" => /\ server[e].ready
                                     /\ server'[e].log = Append(server[e].log, arg)
                                     /\ server'[e].active = None
  <1>1. \A e \in Endpoints :
           Effect(server[e], op, arg, Answer(e, op, arg).ok, Answer(e, op, arg).state)
    BY Answers
  <1>2. /\ \A e \in es : Answer(e, op, arg).ok
        /\ server' = [e \in Endpoints |-> IF e \in es THEN Answer(e, op, arg).state ELSE server[e]]
    BY DEF PostOk
  <1>3. \A e \in Endpoints : server[e] \in States /\ Answer(e, op, arg).state \in States
    BY <1>1 DEF Effect, Types
  <1>4. server' \in [Endpoints -> States]
    BY <1>2, <1>3
  <1>5. \A e \in Endpoints : e \notin es => server'[e] = server[e]
    BY <1>2
  <1>6. \A e \in es \cap Endpoints : server'[e] = Answer(e, op, arg).state
    BY <1>2
  <1>7. Clean'
    <2> SUFFICES ASSUME NEW e \in Endpoints, ~server'[e].ready PROVE server'[e] = Blank
      BY DEF Clean
    <2>1. CASE e \in es
      BY <1>1, <1>6, <2>1 DEF Effect, Clean
    <2>2. CASE e \notin es
      BY <1>5, <2>2 DEF Clean
    <2> QED
      BY <2>1, <2>2
  <1>8. \A e \in es \cap Endpoints :
                 /\ op \in {"init", "reset"} => At(server'[e], <<>>)
                 /\ op = "update" => /\ server[e].ready
                                     /\ server'[e].log = Append(server[e].log, arg)
                                     /\ server'[e].active = None
    BY <1>1, <1>2, <1>6 DEF Effect
  <1> QED
    BY <1>4, <1>5, <1>7, <1>8

\* A process that ends leaves files and servers as they are.
LEMMA ExitStep ==
    ASSUME IInv, Exit, file' = file, server' \in [Endpoints -> States], Clean',
           faults' \in 0 .. MaxFaults, others' \in 0 .. MaxOthers, tests' \in 0 .. MaxTests
    PROVE  IInv'
  <1>1. /\ pc' = "down" /\ run' = None /\ setup' = None /\ source' = <<>>
        /\ history' = Empty /\ gen' = 0 /\ cur' = 1
    BY DEF Exit
  <1>2. Types'
    <2>1. gen' \in 0 .. Generations /\ cur' \in Endpoints
      BY <1>1, WebArenaShape DEF Endpoints
    <2>2. source' \in Seq(Rows) /\ history' \in Histories
      BY <1>1, EmptyFacts
    <2> QED
      BY <1>1, <2>1, <2>2 DEF IInv, Types
  <1>3. Made(<<>>) /\ Good(Empty)
    <2>1. Len(<<>>) = 0 /\ Generations \in Nat /\ Empty.updates = <<>> /\ Empty.first = None
      BY EmptyFacts, WebArenaShape
    <2> QED
      BY <2>1 DEF Made, Good
  <1>4. Content'
    BY <1>1, <1>3 DEF IInv, Content, Whole
  <1>5. Progress'
    BY <1>1 DEF Progress, Launched, Tested
  <1> QED
    BY <1>2, <1>4, <1>5 DEF IInv

\* The bounds.
LEMMA BudgetTypes ==
    ASSUME Types
    PROVE  /\ faults \in 0 .. MaxFaults /\ others \in 0 .. MaxOthers /\ tests \in 0 .. MaxTests
           /\ faults < MaxFaults => faults + 1 \in 0 .. MaxFaults
           /\ others < MaxOthers => others + 1 \in 0 .. MaxOthers
           /\ tests < MaxTests => tests + 1 \in 0 .. MaxTests
  BY WebArenaBounds DEF Types

\* A request that fails ends the process, carried out or not.
LEMMA FailsStep ==
    ASSUME IInv, NEW es, NEW op \in {"init", "reset", "update"}, NEW arg,
           op = "update" => arg \in Records, PostFails(es, op, arg)
    PROVE  IInv'
  <1>1. Types /\ Clean
    BY DEF IInv
  <1>2. \A e \in Endpoints :
           Effect(server[e], op, arg, Answer(e, op, arg).ok, Answer(e, op, arg).state)
    BY <1>1, Answers
  <1>3. \A e \in Endpoints : server[e] \in States /\ Answer(e, op, arg).state \in States
    BY <1>1, <1>2 DEF Effect, Types
  <1>4. PICK lost, dropped :
           /\ lost # {} => faults < MaxFaults
           /\ faults' = IF lost = {} THEN faults ELSE faults + 1
           /\ server' = [e \in Endpoints |->
                            IF e \in es \ dropped THEN Answer(e, op, arg).state ELSE server[e]]
    BY DEF PostFails
  <1>5. server' \in [Endpoints -> States]
    BY <1>3, <1>4
  <1>6. Clean'
    <2> SUFFICES ASSUME NEW e \in Endpoints, ~server'[e].ready PROVE server'[e] = Blank
      BY DEF Clean
    <2>1. CASE e \in es \ dropped
      BY <1>1, <1>2, <1>4, <2>1 DEF Effect, Clean
    <2>2. CASE e \notin es \ dropped
      BY <1>1, <1>4, <2>2 DEF Clean
    <2> QED
      BY <2>1, <2>2
  <1>7. faults' \in 0 .. MaxFaults /\ others' \in 0 .. MaxOthers /\ tests' \in 0 .. MaxTests
    BY <1>1, <1>4, BudgetTypes DEF PostFails
  <1>8. Exit /\ file' = file
    BY DEF PostFails
  <1> QED
    BY <1>5, <1>6, <1>7, <1>8, ExitStep

\* A server that has restarted holds nothing.
LEMMA RestartStep ==
    ASSUME IInv, NEW e \in Endpoints, Restart(e)
    PROVE  IInv'
  <1>1. /\ server' = [server EXCEPT ![e] = Blank] /\ faults < MaxFaults /\ faults' = faults + 1
        /\ UNCHANGED <<file, pc, run, setup, source, history, gen, reward, cur, others, tests>>
    BY DEF Restart, arguments, locals
  <1>2. Types /\ Clean
    BY DEF IInv
  <1>3. Blank \in States /\ ~Blank.ready
    BY EmptyFacts DEF Blank, States
  <1>4. \A d \in Endpoints : server'[d] = IF d = e THEN Blank ELSE server[d]
    BY <1>1, <1>2 DEF Types
  <1>5. server' \in [Endpoints -> States]
    BY <1>1, <1>2, <1>3 DEF Types
  <1>6. Types'
    <2>1. faults' \in 0 .. MaxFaults
      BY <1>1, <1>2, BudgetTypes
    <2> QED
      BY <1>1, <1>2, <1>5, <2>1 DEF Types
  <1>7. Clean'
    BY <1>2, <1>4 DEF Clean
  <1>8. Content'
    BY <1>1 DEF IInv, Content, Whole
  <1>9. \A log : \A d \in Endpoints : At(server[d], log) => At(server'[d], log)
    BY <1>3, <1>4 DEF At
  <1>10. Record' = Record /\ Replaying' = Replaying /\ Matches' = Matches
    BY <1>1 DEF Record, Replaying, Matches
  <1>11. Progress'
    BY <1>1, <1>9, <1>10 DEF IInv, Progress, Continues
  <1> QED
    BY <1>6, <1>7, <1>8, <1>11 DEF IInv

---------------------------------------------------------------------------------
(* Launches *)

\* A kill ends the process.
LEMMA CrashStep == IInv /\ Crash => IInv'
  <1> SUFFICES ASSUME IInv, Crash PROVE IInv'
    OBVIOUS
  <1>1. Exit /\ file' = file /\ server' = server /\ faults < MaxFaults /\ faults' = faults + 1
        /\ others' = others /\ tests' = tests
    BY DEF Crash
  <1>2. faults' \in 0 .. MaxFaults /\ others' \in 0 .. MaxOthers /\ tests' \in 0 .. MaxTests
    BY <1>1, BudgetTypes DEF IInv
  <1>3. server' \in [Endpoints -> States] /\ Clean'
    BY <1>1 DEF IInv, Types, Clean
  <1> QED
    BY <1>1, <1>2, <1>3, ExitStep

\* A process takes its first records from a whole file.
LEMMA SourceFacts ==
    ASSUME IInv, NEW from \in Runs, Whole(from), NEW n \in 0 .. Len(file[from].updates)
    PROVE  /\ SubSeq(file[from].updates, 1, n) \in Seq(Rows)
           /\ Made(SubSeq(file[from].updates, 1, n))
           /\ Len(SubSeq(file[from].updates, 1, n)) = n
  <1>1. file[from] \in Histories
    BY DEF IInv, Types, Whole
  <1>2. file[from].updates \in Seq(Rows)
    BY <1>1 DEF Histories
  <1>3. Made(file[from].updates)
    BY DEF IInv, Content, Good
  <1> QED
    BY <1>2, <1>3, FirstRecords, FirstMade, WebArenaShape

\* Any launch of the trainer.
LEMMA LaunchStep ==
    ASSUME IInv, NEW r \in Runs, NEW s \in Setups, NEW from \in Runs \cup {None},
           NEW n \in -1 .. Generations, Launch(r, s, from, n), others' \in 0 .. MaxOthers
    PROVE  IInv'
  <1>1. /\ pc = "down" /\ pc' = "init" /\ run' = r /\ setup' = s
        /\ UNCHANGED <<file, server, history, gen, reward, cur, faults, tests>>
    BY DEF Launch, locals
  <1>2. source' \in Seq(Rows) /\ Made(source')
    <2>1. CASE from = None
      <3>1. source' = <<>>
        BY <2>1 DEF Launch
      <3>2. Len(<<>>) = 0 /\ Generations \in Nat /\ <<>> \in Seq(Rows)
        BY EmptyFacts, WebArenaShape
      <3> QED
        BY <3>1, <3>2 DEF Made
    <2>2. CASE from # None
      <3> DEFINE count == IF n = -1 THEN Recorded(file[from]) ELSE n
      <3>1. /\ from \in Runs /\ Whole(from) /\ count <= Len(file[from].updates)
            /\ source' = SubSeq(file[from].updates, 1, count)
        BY <2>2 DEF Launch
      <3>2. file[from].updates \in Seq(Rows)
        BY <3>1 DEF IInv, Types, Whole, Histories
      <3>3. count \in 0 .. Len(file[from].updates)
        <4>1. Len(file[from].updates) \in Nat /\ Recorded(file[from]) = Len(file[from].updates)
          BY <3>2 DEF Recorded
        <4> QED
          BY <3>1, <4>1, WebArenaShape
      <3> HIDE DEF count
      <3> QED
        BY <3>1, <3>3, SourceFacts
    <2> QED
      BY <2>1, <2>2
  <1>3. Types /\ Content /\ Clean /\ history = Empty /\ gen = 0 /\ cur = 1
    BY <1>1 DEF IInv, Progress
  <1>4. Types'
    BY <1>1, <1>2, <1>3 DEF Types, Launched
  <1>5. Content' /\ Clean'
    BY <1>1, <1>2, <1>3 DEF Content, Clean, Whole
  <1>6. Progress'
    <2>1. Len(history.updates) = 0
      BY <1>3, EmptyFacts
    <2>2. \A e \in Endpoints : ~(e < cur)
      BY <1>3 DEF Endpoints
    <2>3. Continues'
      BY <1>1, <2>1 DEF Continues
    <2> QED
      BY <1>1, <1>3, <2>1, <2>2, <2>3 DEF Progress, Launched, Tested
  <1> QED
    BY <1>4, <1>5, <1>6 DEF IInv

\* The operator's launches.
LEMMA LaunchesStep == IInv /\ (Continue \/ LaunchOther) => IInv'
  <1> SUFFICES ASSUME IInv, Continue \/ LaunchOther PROVE IInv'
    OBVIOUS
  <1>1. others' \in 0 .. MaxOthers
    BY BudgetTypes DEF Continue, LaunchOther, IInv
  <1>2. -1 \in -1 .. Generations /\ 0 \in -1 .. Generations
    BY WebArenaShape
  <1>3. \E r \in Runs, s \in Setups, from \in Runs \cup {None}, n \in -1 .. Generations :
           Launch(r, s, from, n)
    <2>1. CASE Continue
      BY <1>2, <2>1 DEF Continue
    <2>2. CASE LaunchOther
      BY <1>2, <2>2 DEF LaunchOther
    <2> QED
      BY <2>1, <2>2
  <1> QED
    BY <1>1, <1>3, LaunchStep

\* The launch of a test.
LEMMA LaunchTestStep == IInv /\ LaunchTest => IInv'
  <1> SUFFICES ASSUME IInv, LaunchTest PROVE IInv'
    OBVIOUS
  <1>1. /\ pc = "down" /\ pc' = "reset" /\ tests < MaxTests /\ tests' = tests + 1
        /\ UNCHANGED <<file, server, run, setup, history, gen, reward, cur, faults, others>>
    BY DEF LaunchTest, locals
  <1>2. source' \in Seq(Rows) /\ Made(source') /\ Len(source') \in Nat
    <2>1. CASE source' = <<>>
      <3>1. Len(<<>>) = 0 /\ Generations \in Nat /\ <<>> \in Seq(Rows)
        BY EmptyFacts, WebArenaShape
      <3> QED
        BY <2>1, <3>1 DEF Made
    <2>2. CASE source' # <<>>
      <3>1. PICK from \in Runs : Whole(from) /\ \E n \in 1 .. Len(Updates(from)) :
                  source' = SubSeq(Updates(from), 1, n)
        BY <2>2 DEF LaunchTest
      <3>2. Updates(from) = file[from].updates
        BY <3>1 DEF Updates
      <3>3. PICK n \in 1 .. Len(file[from].updates) : source' = SubSeq(file[from].updates, 1, n)
        BY <3>1, <3>2
      <3>4. n \in 0 .. Len(file[from].updates) /\ n \in Nat
        OBVIOUS
      <3> QED
        BY <3>1, <3>3, <3>4, SourceFacts
    <2> QED
      BY <2>1, <2>2
  <1>3. Types /\ Content /\ Clean /\ history = Empty /\ gen = 0 /\ run = None
    BY <1>1 DEF IInv, Progress
  <1>4. tests' \in 0 .. MaxTests
    BY <1>1, <1>3, BudgetTypes
  <1>5. Types'
    BY <1>1, <1>2, <1>3, <1>4 DEF Types, Tested
  <1>6. Content' /\ Clean'
    BY <1>1, <1>2, <1>3 DEF Content, Clean, Whole
  <1>7. Progress'
    BY <1>1, <1>2, <1>3 DEF Progress, Launched, Tested
  <1> QED
    BY <1>5, <1>6, <1>7 DEF IInv

---------------------------------------------------------------------------------
(* The trainer *)

\* One more server is initialised: whatever it held, it is at no updates.
LEMMA InitEndpointStep == IInv /\ InitEndpoint => IInv'
  <1> SUFFICES ASSUME IInv, InitEndpoint PROVE IInv'
    OBVIOUS
  <1>1. /\ pc = "init" /\ PostOk({cur}, "init", None)
        /\ cur < NEndpoints => cur' = cur + 1 /\ pc' = "init"
        /\ ~(cur < NEndpoints) => cur' = 1 /\ pc' \in {"initial", "loop"}
        /\ UNCHANGED <<file, run, setup, source, history, gen, reward, faults, others, tests>>
    BY DEF InitEndpoint, arguments, budget
  <1>2. Types /\ Content /\ Clean /\ history = Empty /\ gen = 0 /\ cur \in Endpoints
        /\ \A e \in Endpoints : e < cur => At(server[e], <<>>)
    BY <1>1 DEF IInv, Progress, Types
  <1>3. /\ server' \in [Endpoints -> States] /\ Clean'
        /\ \A e \in Endpoints : e # cur => server'[e] = server[e]
        /\ At(server'[cur], <<>>)
    <2>1. "init" \in {"init", "reset", "update"} /\ "init" # "update"
          /\ "init" \in {"init", "reset"} /\ cur \in {cur} \cap Endpoints
          /\ \A e \in Endpoints : e # cur => e \notin {cur}
      BY <1>2
    <2>2. /\ server' \in [Endpoints -> States] /\ Clean'
          /\ \A e \in Endpoints : e \notin {cur} => server'[e] = server[e]
          /\ \A e \in {cur} \cap Endpoints : At(server'[e], <<>>)
      BY <1>1, <1>2, <2>1, PostOkFacts
    <2> QED
      BY <2>1, <2>2
  <1>4. cur' \in Endpoints /\ pc' \in {"init", "initial", "loop"}
    BY <1>1, <1>2, WebArenaShape DEF Endpoints
  <1>5. Types'
    BY <1>1, <1>2, <1>3, <1>4 DEF Types, Launched
  <1>6. Content'
    BY <1>1, <1>2 DEF Content, Whole
  <1>7. Progress'
    <2>1. \A e \in Endpoints : e < cur \/ e = cur => At(server'[e], <<>>)
      BY <1>2, <1>3 DEF Endpoints
    <2>2. pc' = "init" => \A e \in Endpoints : e < cur' => At(server'[e], <<>>)
      BY <1>1, <1>2, <2>1 DEF Endpoints
    <2>3. pc' \in {"initial", "loop"} => \A e \in Endpoints : At(server'[e], <<>>)
      BY <1>1, <1>2, <2>1, WebArenaShape DEF Endpoints
    <2>4. Prefix(history.updates, 0) = <<>>
      BY EmptyFacts
    <2>5. Continues' /\ run \in Runs /\ setup \in Setups /\ gen = Len(history.updates)
      BY <1>1 DEF IInv, Progress, Launched, Continues
    <2> QED
      BY <1>1, <1>2, <1>4, <2>2, <2>3, <2>4, <2>5 DEF Progress, Launched, Tested
  <1> QED
    BY <1>3, <1>5, <1>6, <1>7 DEF IInv

\* Servers at a log, or restarted, evaluate that model or the base model.
LEMMA EvaluatedFacts ==
    ASSUME Types, Clean, NEW log, \A e \in Endpoints : At(server[e], log)
    PROVE  Evaluated \in SUBSET Models /\ EvaluatedOn(Evaluated, log)
  <1>1. \A e \in Endpoints : server[e] \in States
    BY DEF Types
  <1>2. \A e \in Endpoints : [ready |-> server[e].ready, log |-> server[e].log] \in Models
    BY <1>1 DEF States, Models
  <1>3. Evaluated \in SUBSET Models
    BY <1>2 DEF Evaluated
  <1>4. \A e \in Endpoints : [ready |-> server[e].ready, log |-> server[e].log]
            \in {[ready |-> TRUE, log |-> log], [ready |-> FALSE, log |-> <<>>]}
    <2> TAKE e \in Endpoints
    <2>1. server[e] \in States
      BY <1>1
    <2>2. CASE server[e].ready
      <3>1. server[e].ready = TRUE
        BY <2>1, <2>2 DEF States
      <3>2. server[e].log = log
        BY <2>2 DEF At
      <3> QED
        BY <3>1, <3>2
    <2>3. CASE ~server[e].ready
      <3>1. server[e] = Blank
        BY <2>3 DEF Clean
      <3> QED
        BY <3>1 DEF Blank
    <2> QED
      BY <2>2, <2>3
  <1>5. EvaluatedOn(Evaluated, log)
    BY <1>4 DEF EvaluatedOn, Evaluated
  <1> QED
    BY <1>3, <1>5

\* An init that fails.
LEMMA InitFailsStep == IInv /\ InitFails => IInv'
  <1> SUFFICES ASSUME IInv, InitFails PROVE IInv'
    OBVIOUS
  <1>1. "init" \in {"init", "reset", "update"} /\ "init" # "update" /\ PostFails({cur}, "init", None)
    BY DEF InitFails
  <1> QED
    BY <1>1, FailsStep

\* The initial evaluation meets the base model.
LEMMA InitialEvalStep == IInv /\ InitialEval => IInv'
  <1> SUFFICES ASSUME IInv, InitialEval PROVE IInv'
    OBVIOUS
  <1>1. /\ pc = "initial" /\ pc' = "write" /\ history' = [history EXCEPT !.first = Evaluated]
        /\ UNCHANGED <<file, server, run, setup, source, gen, reward, cur, faults, others, tests>>
    BY DEF InitialEval, arguments, budget
  <1>2. Types /\ Content /\ Clean /\ history = Empty /\ gen = 0
        /\ run \in Runs /\ setup \in Setups /\ Continues
        /\ \A e \in Endpoints : At(server[e], <<>>)
    BY <1>1 DEF IInv, Progress, Launched
  <1>3. Evaluated \in SUBSET Models /\ EvaluatedOn(Evaluated, <<>>)
    BY <1>2, EvaluatedFacts
  <1>4. history \in Histories /\ history.updates = <<>>
    BY <1>2, EmptyFacts
  <1>5. history'.first = Evaluated /\ history'.updates = <<>> /\ history' \in Histories
    BY <1>1, <1>3, <1>4 DEF Histories, Evaluations
  <1>6. Types'
    BY <1>1, <1>2, <1>5 DEF Types, Launched
  <1>7. Len(<<>>) = 0 /\ Generations \in Nat /\ Prefix(<<>>, 0) = <<>>
    BY EmptyFacts, WebArenaShape
  <1>8. Content'
    <2>1. Good(history')
      BY <1>3, <1>5, <1>7 DEF Good, Made
    <2> QED
      BY <1>1, <1>2, <2>1 DEF Content, Whole
  <1>9. Clean'
    BY <1>1, <1>2 DEF Clean
  <1>10. Progress'
    <2>1. Continues'
      BY <1>5, <1>7 DEF Continues
    <2> QED
      BY <1>1, <1>2, <1>5, <1>7, <2>1 DEF Progress, Launched, Tested
  <1> QED
    BY <1>6, <1>8, <1>9, <1>10 DEF IInv

\* What a step that changes only pc, reward and the file keeps.
LEMMA Kept ==
    ASSUME IInv, UNCHANGED <<server, run, setup, source, history, gen, cur, faults, others, tests>>,
           pc \in Launched, pc' \in Launched \ {"init"}
    PROVE  /\ run' \in Runs /\ setup' \in Setups /\ gen' = Len(history'.updates) /\ Continues'
           /\ server' \in [Endpoints -> States] /\ Clean' /\ Good(history') /\ Made(source')
           /\ Types' <=> file' \in [Runs -> {None, Torn} \cup Histories]
  <1>1. run \in Runs /\ setup \in Setups /\ gen = Len(history.updates) /\ Continues
    BY DEF IInv, Progress
  <1>2. Continues' /\ Clean'
    BY <1>1 DEF Continues, Clean, IInv
  <1>3. Types' <=> file' \in [Runs -> {None, Torn} \cup Histories]
    BY DEF Types, IInv, Launched
  <1> QED
    BY <1>1, <1>2, <1>3 DEF IInv, Types, Content

\* Writing the file empties it first.
LEMMA WriteStep == IInv /\ (WriteBegin \/ WriteEnd) => IInv'
  <1> SUFFICES ASSUME IInv, WriteBegin \/ WriteEnd PROVE IInv'
    OBVIOUS
  <1>1. /\ UNCHANGED <<server, run, setup, source, history, gen, reward, cur, faults, others, tests>>
        /\ pc \in {"write", "writing"} /\ pc' \in {"writing", "loop"}
        /\ \/ file' = [file EXCEPT ![run] = Torn]
           \/ file' = [file EXCEPT ![run] = history]
    BY DEF WriteBegin, WriteEnd, arguments, locals, budget
  <1>2. pc \in Launched /\ pc' \in Launched \ {"init"}
    BY <1>1 DEF Launched
  <1>3. /\ run' \in Runs /\ setup' \in Setups /\ gen' = Len(history'.updates) /\ Continues'
        /\ server' \in [Endpoints -> States] /\ Clean' /\ Good(history') /\ Made(source')
        /\ Types' <=> file' \in [Runs -> {None, Torn} \cup Histories]
    BY <1>1, <1>2, Kept
  <1>4. history \in Histories /\ file \in [Runs -> {None, Torn} \cup Histories]
    BY DEF IInv, Types
  <1>5. file' \in [Runs -> {None, Torn} \cup Histories]
    BY <1>1, <1>4
  <1>6. \A r \in Runs : file'[r] = file[r] \/ file'[r] = Torn \/ file'[r] = history
    BY <1>1, <1>4
  <1>7. Content'
    <2> SUFFICES ASSUME NEW r \in Runs, Whole(r)' PROVE Good(file'[r])
      BY <1>3 DEF Content
    <2>1. file'[r] \notin {None, Torn}
      BY DEF Whole
    <2>2. Good(history)
      BY <1>1, <1>3
    <2> QED
      BY <1>6, <2>1, <2>2 DEF IInv, Content, Whole
  <1>8. Progress'
    <2>1. \A e \in Endpoints : At(server[e], Prefix(history.updates, gen))
      BY <1>1 DEF IInv, Progress
    <2> QED
      BY <1>1, <1>3, <2>1 DEF Progress, Launched, Tested
  <1> QED
    BY <1>3, <1>5, <1>7, <1>8 DEF IInv

\* The records made so far are the first ones to replay.
LEMMA SoFar ==
    ASSUME IInv, pc \in Launched, gen < Len(source)
    PROVE  Prefix(history.updates, gen) = Prefix(source, gen)
  <1>1. gen = Len(history.updates) /\ Continues /\ gen \in Nat /\ Len(source) \in Nat
    BY DEF IInv, Progress, Types
  <1>2. \A i \in 1 .. gen : /\ history.updates[i].draw = source[i].draw
                            /\ history.updates[i].reward = source[i].reward
    BY <1>1 DEF Continues
  <1> QED
    BY <1>1, <1>2, SamePrefix

\* A recorded reward was earned by the model that is about to be updated.
LEMMA ReplayStep == IInv /\ Replay => IInv'
  <1> SUFFICES ASSUME IInv, Replay PROVE IInv'
    OBVIOUS
  <1>1. /\ pc = "loop" /\ gen < Generations /\ Replaying /\ Matches
        /\ reward' = source[gen + 1].reward /\ pc' = "update"
        /\ UNCHANGED <<file, server, run, setup, source, history, gen, cur, faults, others, tests>>
    BY DEF Replay, arguments, budget
  <1>2. pc \in Launched /\ pc' \in Launched \ {"init"}
    BY <1>1 DEF Launched
  <1>3. /\ run' \in Runs /\ setup' \in Setups /\ gen' = Len(history'.updates) /\ Continues'
        /\ server' \in [Endpoints -> States] /\ Clean' /\ Good(history') /\ Made(source')
        /\ Types' <=> file' \in [Runs -> {None, Torn} \cup Histories]
    BY <1>1, <1>2, Kept
  <1>4. Types' /\ Content'
    BY <1>1, <1>3 DEF IInv, Types, Content, Whole
  <1>5. gen + 1 \in 1 .. Len(source) /\ source[gen + 1] \in Rows /\ gen + 1 - 1 = gen
    BY <1>1 DEF IInv, Types, Replaying
  <1>6. source[gen + 1].reward \in Scores
    BY <1>5 DEF Rows
  <1>7. source[gen + 1].reward \in RewardsOf(Prefix(source, gen), source[gen + 1].draw)
    <2>1. \A i \in 1 .. Len(source) :
             source[i].reward \in RewardsOf(Prefix(source, i - 1), source[i].draw)
      BY DEF IInv, Content, Made
    <2>2. PICK i \in 1 .. Len(source) : i = gen + 1 /\ i - 1 = gen
      <3>1. gen + 1 \in 1 .. Len(source) /\ gen \in Nat
        BY <1>5 DEF IInv, Types
      <3>2. ASSUME NEW i, i = gen + 1
            PROVE  i \in 1 .. Len(source) /\ i - 1 = gen
        BY <3>1, <3>2
      <3> QED
        BY <3>2, Zenon
    <2>3. source[i].reward \in RewardsOf(Prefix(source, i - 1), source[i].draw)
      BY <2>1, <2>2
    <2> QED
      BY <2>2, <2>3
  <1>8. Prefix(history.updates, gen) = Prefix(source, gen)
    BY <1>1, <1>2, SoFar DEF Replaying
  <1>9. source[gen + 1].reward \in RewardsOf(Prefix(history.updates, gen), Draw(setup, gen))
    BY <1>1, <1>7, <1>8 DEF Matches
  <1>10. \A e \in Endpoints : At(server[e], Prefix(history.updates, gen))
    BY <1>1 DEF IInv, Progress
  <1>11. Progress'
    BY <1>1, <1>3, <1>6, <1>9, <1>10 DEF Progress, Launched, Tested, Replaying, Matches
  <1> QED
    BY <1>3, <1>4, <1>11 DEF IInv

\* A process that ends between two requests.
LEMMA EndStep == IInv /\ (ReplayDiffers \/ Finish \/ Publish) => IInv'
  <1> SUFFICES ASSUME IInv, ReplayDiffers \/ Finish \/ Publish PROVE IInv'
    OBVIOUS
  <1>1. Exit /\ UNCHANGED <<file, server, faults, others, tests>>
    BY DEF ReplayDiffers, Finish, Publish, budget
  <1>2. server' \in [Endpoints -> States] /\ Clean'
    BY <1>1 DEF IInv, Types, Clean
  <1>3. faults' \in 0 .. MaxFaults /\ others' \in 0 .. MaxOthers /\ tests' \in 0 .. MaxTests
    BY <1>1 DEF IInv, Types
  <1> QED
    BY <1>1, <1>2, <1>3, ExitStep

\* A generation of a setup.
LEMMA DrawFacts ==
    ASSUME IInv, pc \in Launched, gen < Generations
    PROVE  Draw(setup, gen) \in Draws /\ setup \in Setups
  BY DEF IInv, Types, Progress, Draws

\* New rewards are earned by the model of the records so far.
LEMMA SampleStep == Scored /\ IInv /\ Sample => IInv'
  <1> SUFFICES ASSUME Scored, IInv, Sample PROVE IInv'
    OBVIOUS
  <1>1. /\ pc = "loop" /\ gen < Generations /\ ~Replaying /\ pc' = "update"
        /\ \A e \in Endpoints : server[e].ready
        /\ UNCHANGED <<file, server, run, setup, source, history, gen, cur, faults, others, tests>>
    BY DEF Sample, arguments, budget
  <1>2. pc \in Launched /\ pc' \in Launched \ {"init"}
    BY <1>1 DEF Launched
  <1>3. /\ run' \in Runs /\ setup' \in Setups /\ gen' = Len(history'.updates) /\ Continues'
        /\ server' \in [Endpoints -> States] /\ Clean' /\ Good(history') /\ Made(source')
        /\ Types' <=> file' \in [Runs -> {None, Torn} \cup Histories]
    BY <1>1, <1>2, Kept
  <1>4. Types' /\ Content'
    BY <1>1, <1>3 DEF IInv, Types, Content, Whole
  <1>5. \A e \in Endpoints : At(server[e], Prefix(history.updates, gen))
    BY <1>1 DEF IInv, Progress
  <1>6. PICK e \in Endpoints : reward' \in RewardsOf(server[e].log, Draw(setup, gen))
    BY DEF Sample
  <1>7. server[e].log = Prefix(history.updates, gen) /\ server[e].log \in Logs
    BY <1>1, <1>5 DEF At, IInv, Types, States
  <1>8. reward' \in RewardsOf(Prefix(history.updates, gen), Draw(setup, gen)) /\ reward' \in Scores
    BY <1>1, <1>2, <1>6, <1>7, DrawFacts DEF Scored
  <1>9. Progress'
    BY <1>1, <1>3, <1>5, <1>8 DEF Progress, Launched, Tested, Replaying
  <1> QED
    BY <1>3, <1>4, <1>9 DEF IInv

\* An apply or a revert that fails may leave its perturbation.
LEMMA SampleFailsStep == IInv /\ SampleFails => IInv'
  <1> SUFFICES ASSUME IInv, SampleFails PROVE IInv'
    OBVIOUS
  <1>1. pc = "loop" /\ gen < Generations /\ Exit /\ UNCHANGED <<file, others, tests>>
    BY DEF SampleFails
  <1>2. PICK left \in SUBSET {e \in Endpoints : server[e].ready} :
           /\ server' = [e \in Endpoints |->
                            IF e \in left THEN [server[e] EXCEPT !.active = Draw(setup, gen)]
                                          ELSE server[e]]
           /\ \/ left = {} /\ UNCHANGED faults /\ \E e \in Endpoints : ~server[e].ready
              \/ faults < MaxFaults /\ faults' = faults + 1
    BY DEF SampleFails
  <1>3. faults' \in 0 .. MaxFaults /\ others' \in 0 .. MaxOthers /\ tests' \in 0 .. MaxTests
    BY <1>1, <1>2, BudgetTypes DEF IInv, Types
  <1>4. Draw(setup, gen) \in Draws
    BY <1>1, DrawFacts DEF Launched
  <1>5. \A e \in Endpoints : server[e] \in States
    BY DEF IInv, Types
  <1>6. \A e \in Endpoints : /\ [server[e] EXCEPT !.active = Draw(setup, gen)] \in States
                             /\ [server[e] EXCEPT !.active = Draw(setup, gen)].ready = server[e].ready
    BY <1>4, <1>5 DEF States
  <1>7. server' \in [Endpoints -> States]
    BY <1>2, <1>5, <1>6
  <1>8. Clean'
    <2> SUFFICES ASSUME NEW e \in Endpoints, ~server'[e].ready PROVE server'[e] = Blank
      BY DEF Clean
    <2>1. e \notin left
      BY <1>2, <1>6
    <2> QED
      BY <1>2, <2>1 DEF IInv, Clean
  <1> QED
    BY <1>1, <1>3, <1>7, <1>8, ExitStep

\* An update that all servers accept.
LEMMA UpdateStep == IInv /\ Update => IInv'
  <1> SUFFICES ASSUME IInv, Update PROVE IInv'
    OBVIOUS
  <1>1. /\ pc = "update" /\ pc' = "record" /\ PostOk(Endpoints, "update", Record)
        /\ UNCHANGED <<file, run, setup, source, history, gen, reward, cur, faults, others, tests>>
    BY DEF Update, arguments, locals, budget
  <1>2. /\ Types /\ Content /\ Clean /\ run \in Runs /\ setup \in Setups
        /\ gen = Len(history.updates) /\ Continues
        /\ \A e \in Endpoints : At(server[e], Prefix(history.updates, gen))
        /\ gen < Generations /\ reward \in Scores
        /\ reward \in RewardsOf(Prefix(history.updates, gen), Draw(setup, gen))
        /\ Replaying => Matches /\ reward = source[gen + 1].reward
    BY <1>1 DEF IInv, Progress, Launched
  <1>3. Record \in Records
    BY <1>1, <1>2, DrawFacts DEF Record, Records, Launched
  <1>4. "update" \in {"init", "reset", "update"} /\ \A e \in Endpoints : e \in Endpoints \cap Endpoints
    OBVIOUS
  <1>5. /\ server' \in [Endpoints -> States] /\ Clean'
        /\ \A e \in Endpoints \cap Endpoints : /\ server[e].ready
                                               /\ server'[e].log = Append(server[e].log, Record)
                                               /\ server'[e].active = None
    BY <1>1, <1>2, <1>3, <1>4, PostOkFacts
  <1>6. \A e \in Endpoints : At(server'[e], Append(Prefix(history.updates, gen), Record))
    BY <1>2, <1>4, <1>5 DEF At
  <1>7. Record' = Record /\ Continues' /\ Replaying' = Replaying /\ Matches' = Matches
    BY <1>1, <1>2 DEF Record, Continues, Replaying, Matches
  <1>8. Types' /\ Content'
    BY <1>1, <1>2, <1>5 DEF Types, Content, Launched, Whole
  <1>9. Progress'
    BY <1>1, <1>2, <1>6, <1>7 DEF Progress, Launched, Tested
  <1> QED
    BY <1>5, <1>8, <1>9 DEF IInv

\* An update that fails.
LEMMA UpdateFailsStep == IInv /\ UpdateFails => IInv'
  <1> SUFFICES ASSUME IInv, UpdateFails PROVE IInv'
    OBVIOUS
  <1>1. pc = "update" /\ PostFails(Endpoints, "update", Record)
    BY DEF UpdateFails
  <1>2. Record \in Records
    <2>1. gen < Generations /\ reward \in Scores
      BY <1>1 DEF IInv, Progress
    <2> QED
      BY <1>1, <2>1, DrawFacts DEF Record, Records, Launched
  <1> QED
    BY <1>1, <1>2, FailsStep

\* The row is filed under the model that was evaluated.
LEMMA AddRowStep == IInv /\ AddRow => IInv'
  <1> SUFFICES ASSUME IInv, AddRow PROVE IInv'
    OBVIOUS
  <1> DEFINE old == history.updates
             evaluation == IF EvalDue THEN Evaluated ELSE None
             row == [draw |-> Draw(setup, gen), reward |-> reward, eval |-> evaluation]
             more == Append(old, row)
  <1>1. /\ pc = "record" /\ pc' = "write" /\ history' = [history EXCEPT !.updates = more]
        /\ gen' = gen + 1
        /\ UNCHANGED <<file, server, run, setup, source, cur, faults, others, tests>>
    BY DEF AddRow, arguments, budget
  <1>2. /\ Types /\ Content /\ Clean /\ run \in Runs /\ setup \in Setups
        /\ gen = Len(old) /\ Continues
        /\ \A e \in Endpoints : At(server[e], Append(Prefix(old, gen), Record))
        /\ gen < Generations /\ reward \in Scores
        /\ reward \in RewardsOf(Prefix(old, gen), Draw(setup, gen))
        /\ Replaying => Matches /\ reward = source[gen + 1].reward
    BY <1>1 DEF IInv, Progress, Launched
  <1>3. /\ history \in Histories /\ old \in Seq(Rows) /\ gen \in Nat /\ Generations \in Nat
        /\ Draw(setup, gen) \in Draws
    BY <1>1, <1>2, DrawFacts, WebArenaShape DEF Types, Histories, Launched
  <1>4. evaluation \in Evaluations
        /\ (evaluation # None => EvaluatedOn(evaluation, Append(Prefix(old, gen), Record)))
    BY <1>2, EvaluatedFacts DEF Evaluations
  <1>5. row \in Rows /\ Told(row) = Record
        /\ row.draw = Draw(setup, gen) /\ row.reward = reward /\ row.eval = evaluation
    BY <1>2, <1>3, <1>4 DEF Rows, Told, Record
  <1> HIDE DEF row, evaluation
  <1>6. /\ more \in Seq(Rows) /\ Len(more) = gen + 1
        /\ \A i \in 1 .. gen : more[i] = old[i]
        /\ more[gen + 1] = row
        /\ \A n \in 0 .. gen : Prefix(more, n) = Prefix(old, n)
        /\ Prefix(more, gen + 1) = Append(Prefix(old, gen), Record)
    BY <1>2, <1>3, <1>5, RowAppended
  <1> HIDE DEF more
  <1>7. history'.updates = more /\ history'.first = history.first /\ history' \in Histories
    BY <1>1, <1>3, <1>6 DEF Histories
  <1>8. Types'
    <2>1. gen' \in 0 .. Generations
      BY <1>1, <1>2, <1>3
    <2> QED
      BY <1>1, <1>2, <1>7, <2>1 DEF Types, Launched
  <1>9. Good(history')
    <2>1. Good(history) /\ Made(old)
      BY <1>2 DEF Content, Good
    <2>2. ASSUME NEW i \in 1 .. Len(more)
          PROVE  /\ more[i].draw \in {Draw(s, i - 1) : s \in Setups}
                 /\ more[i].reward \in RewardsOf(Prefix(more, i - 1), more[i].draw)
                 /\ more[i].eval # None => EvaluatedOn(more[i].eval, Prefix(more, i))
      <3>1. i \in 1 .. gen \/ i = gen + 1
        BY <1>3, <1>6
      <3>2. CASE i \in 1 .. gen
        <4>1. i \in 1 .. Len(old) /\ more[i] = old[i] /\ i \in 0 .. gen /\ i - 1 \in 0 .. gen
          BY <1>2, <1>3, <1>6, <3>2
        <4>2. Prefix(more, i) = Prefix(old, i) /\ Prefix(more, i - 1) = Prefix(old, i - 1)
          BY <1>6, <4>1
        <4>3. /\ old[i].draw \in {Draw(s, i - 1) : s \in Setups}
              /\ old[i].reward \in RewardsOf(Prefix(old, i - 1), old[i].draw)
          BY <2>1, <4>1 DEF Made
        <4>4. old[i].eval # None => EvaluatedOn(old[i].eval, Prefix(old, i))
          BY <2>1, <4>1 DEF Good
        <4> QED
          BY <4>1, <4>2, <4>3, <4>4
      <3>3. CASE i = gen + 1
        <4>1. i - 1 = gen /\ gen \in 0 .. gen /\ more[i] = row
          BY <1>3, <1>6, <3>3
        <4>2. Prefix(more, i) = Append(Prefix(old, gen), Record)
              /\ Prefix(more, i - 1) = Prefix(old, gen)
          BY <1>6, <3>3, <4>1
        <4>3. Draw(setup, gen) \in {Draw(s, gen) : s \in Setups}
          BY <1>2
        <4> QED
          BY <1>2, <1>4, <1>5, <4>1, <4>2, <4>3
      <3> QED
        BY <3>1, <3>2, <3>3
    <2>3. Len(more) <= Generations
      BY <1>2, <1>3, <1>6
    <2>4. Made(more)
      BY <2>2, <2>3 DEF Made
    <2> QED
      BY <1>7, <2>1, <2>2, <2>4 DEF Good
  <1>10. Content' /\ Clean'
    BY <1>1, <1>2, <1>9 DEF Content, Clean, Whole
  <1>11. Continues'
    <2>1. ASSUME NEW i \in 1 .. Len(more), i <= Len(source)
          PROVE  more[i].draw = source[i].draw /\ more[i].reward = source[i].reward
      <3>1. i \in 1 .. gen \/ i = gen + 1
        BY <1>3, <1>6
      <3>2. CASE i \in 1 .. gen
        <4>1. i \in 1 .. Len(old) /\ more[i] = old[i]
          BY <1>2, <1>6, <3>2
        <4> QED
          BY <1>2, <2>1, <4>1 DEF Continues
      <3>3. CASE i = gen + 1
        <4>1. Len(source) \in Nat
          BY <1>2 DEF Types
        <4>2. Replaying
          BY <1>3, <2>1, <3>3, <4>1 DEF Replaying
        <4> QED
          BY <1>2, <1>5, <1>6, <3>3, <4>2 DEF Matches
      <3> QED
        BY <3>1, <3>2, <3>3
    <2> QED
      BY <1>1, <1>7, <2>1 DEF Continues
  <1>12. Progress'
    BY <1>1, <1>2, <1>6, <1>7, <1>11 DEF Progress, Launched, Tested
  <1> QED
    BY <1>8, <1>10, <1>12 DEF IInv

---------------------------------------------------------------------------------
(* The test *)

\* What a test sends of a record.
LEMMA SentFacts ==
    ASSUME IInv, gen < Len(source)
    PROVE  /\ Sent = Told(source[gen + 1]) /\ Sent \in Records /\ gen \in 0 .. Len(source) - 1
           /\ Append(Prefix(source, gen), Sent) = Prefix(source, gen + 1)
  <1>1. source \in Seq(Rows) /\ gen \in 0 .. Len(source) - 1
    BY DEF IInv, Types
  <1>2. Sent = Told(source[gen + 1])
    BY DEF Sent, Told
  <1> QED
    BY <1>1, <1>2, PrefixNext

\* What a step of a test that lets the process go on keeps.
LEMMA TestKept ==
    ASSUME IInv, pc \in Tested, pc' \in Tested, gen' \in 0 .. Generations,
           server' \in [Endpoints -> States],
           UNCHANGED <<file, run, setup, source, history, reward, cur, faults, others, tests>>
    PROVE  Types' /\ Content' /\ history' = Empty /\ run' = None
  <1>1. history = Empty /\ run = None
    BY DEF IInv, Progress
  <1> QED
    BY <1>1 DEF IInv, Types, Content, Whole, Tested

\* Reset and init bring every server to no updates.
LEMMA TestBeginStep == IInv /\ (ResetAll \/ TestInit) => IInv'
  <1> SUFFICES ASSUME IInv, ResetAll \/ TestInit PROVE IInv'
    OBVIOUS
  <1>1. PICK op \in {"init", "reset"} :
           /\ PostOk(Endpoints, op, None)
           /\ \/ op = "reset" /\ pc = "reset" /\ pc' = "test_init"
              \/ op = "init" /\ pc = "test_init" /\ pc' = "test_replay"
           /\ UNCHANGED <<file, run, setup, source, history, gen, reward, cur, faults, others, tests>>
    BY DEF ResetAll, TestInit, TestStep, arguments, budget
  <1>2. op \in {"init", "reset", "update"} /\ op # "update" /\ Types /\ Clean
        /\ \A e \in Endpoints : e \in Endpoints \cap Endpoints
    BY DEF IInv
  <1>3. /\ server' \in [Endpoints -> States] /\ Clean'
        /\ \A e \in Endpoints \cap Endpoints : At(server'[e], <<>>)
    BY <1>1, <1>2, PostOkFacts
  <1>4. pc \in Tested /\ pc' \in Tested /\ gen = 0 /\ gen' = 0 /\ gen' \in 0 .. Generations
    BY <1>1 DEF IInv, Types, Progress, Tested
  <1>5. Types' /\ Content' /\ history' = Empty /\ run' = None
    BY <1>1, <1>3, <1>4, TestKept
  <1>6. Prefix(source, 0) = <<>> /\ Len(source) >= 0
    BY EmptyFacts DEF IInv, Types
  <1>7. Progress'
    BY <1>1, <1>2, <1>3, <1>4, <1>5, <1>6 DEF Progress, Launched, Tested
  <1> QED
    BY <1>3, <1>5, <1>7 DEF IInv

\* One more record is sent to every server.
LEMMA TestReplayStep == IInv /\ TestReplay => IInv'
  <1> SUFFICES ASSUME IInv, TestReplay PROVE IInv'
    OBVIOUS
  <1>1. /\ gen < Len(source) /\ pc = "test_replay" /\ pc' = "test_replay"
        /\ PostOk(Endpoints, "update", Sent) /\ gen' = gen + 1
        /\ UNCHANGED <<file, run, setup, source, history, reward, cur, faults, others, tests>>
    BY DEF TestReplay, TestStep, arguments, budget
  <1>2. "update" \in {"init", "reset", "update"} /\ Types /\ Clean
        /\ \A e \in Endpoints : e \in Endpoints \cap Endpoints
    BY DEF IInv
  <1>3. /\ Sent \in Records /\ gen \in 0 .. Len(source) - 1
        /\ Append(Prefix(source, gen), Sent) = Prefix(source, gen + 1)
    BY <1>1, SentFacts
  <1>4. /\ server' \in [Endpoints -> States] /\ Clean'
        /\ \A e \in Endpoints \cap Endpoints : /\ server[e].ready
                                               /\ server'[e].log = Append(server[e].log, Sent)
                                               /\ server'[e].active = None
    BY <1>1, <1>2, <1>3, PostOkFacts
  <1>5. \A e \in Endpoints : At(server[e], Prefix(source, gen))
    BY <1>1 DEF IInv, Progress
  <1>6. \A e \in Endpoints : At(server'[e], Prefix(source, gen + 1))
    BY <1>2, <1>3, <1>4, <1>5 DEF At
  <1>7. Len(source) \in Nat /\ Len(source) <= Generations /\ Generations \in Nat
    BY WebArenaShape DEF IInv, Types, Content, Made
  <1>8. pc \in Tested /\ pc' \in Tested /\ gen' \in 0 .. Generations /\ gen' <= Len(source)
    BY <1>1, <1>3, <1>7 DEF Tested
  <1>9. Types' /\ Content' /\ history' = Empty /\ run' = None
    BY <1>1, <1>4, <1>8, TestKept
  <1>10. Progress'
    BY <1>1, <1>6, <1>8, <1>9 DEF Progress, Launched, Tested
  <1> QED
    BY <1>4, <1>9, <1>10 DEF IInv

\* A test whose request fails.
LEMMA TestFailsStep == IInv /\ TestFails => IInv'
  <1> SUFFICES ASSUME IInv, TestFails PROVE IInv'
    OBVIOUS
  <1>1. CASE PostFails(Endpoints, "reset", None)
    <2>1. "reset" \in {"init", "reset", "update"} /\ "reset" # "update"
      OBVIOUS
    <2> QED
      BY <1>1, <2>1, FailsStep
  <1>2. CASE PostFails(Endpoints, "init", None)
    <2>1. "init" \in {"init", "reset", "update"} /\ "init" # "update"
      OBVIOUS
    <2> QED
      BY <1>2, <2>1, FailsStep
  <1>3. CASE gen < Len(source) /\ PostFails(Endpoints, "update", Sent)
    BY <1>3, SentFacts, FailsStep
  <1> QED
    BY <1>1, <1>2, <1>3 DEF TestFails

---------------------------------------------------------------------------------
(* The theorems *)

\* Every process begins with nothing.
LEMMA InitIInv == Init => IInv
  <1> SUFFICES ASSUME Init PROVE IInv
    OBVIOUS
  <1>1. /\ file = [r \in Runs |-> None] /\ server = [e \in Endpoints |-> Blank]
        /\ pc = "down" /\ run = None /\ setup = None /\ source = <<>>
        /\ history = Empty /\ gen = 0 /\ cur = 1
        /\ faults = 0 /\ others = 0 /\ tests = 0
    BY DEF Init
  <1>2. Types
    <2>1. Blank \in States
      BY EmptyFacts DEF Blank, States
    <2>2. server \in [Endpoints -> States] /\ file \in [Runs -> {None, Torn} \cup Histories]
      BY <1>1, <2>1
    <2>3. gen \in 0 .. Generations /\ cur \in Endpoints
      BY <1>1, WebArenaShape DEF Endpoints
    <2>4. faults \in 0 .. MaxFaults /\ others \in 0 .. MaxOthers /\ tests \in 0 .. MaxTests
      BY <1>1, WebArenaBounds
    <2>5. source \in Seq(Rows) /\ history \in Histories
      BY <1>1, EmptyFacts
    <2> QED
      BY <1>1, <2>2, <2>3, <2>4, <2>5 DEF Types
  <1>3. Content
    <2>1. \A r \in Runs : ~Whole(r)
      BY <1>1 DEF Whole
    <2>2. Len(<<>>) = 0 /\ Generations \in Nat /\ Empty.updates = <<>> /\ Empty.first = None
      BY EmptyFacts, WebArenaShape
    <2>3. Made(<<>>)
      BY <2>2 DEF Made
    <2>4. Good(Empty)
      BY <2>2, <2>3 DEF Good
    <2> QED
      BY <1>1, <2>1, <2>3, <2>4 DEF Content
  <1>4. Clean
    BY <1>1 DEF Clean
  <1>5. Progress
    BY <1>1 DEF Progress, Launched, Tested
  <1> QED
    BY <1>2, <1>3, <1>4, <1>5 DEF IInv

\* Every step of every process keeps it.
LEMMA StepIInv == Scored /\ IInv /\ [Next]_vars => IInv'
  <1> SUFFICES ASSUME Scored, IInv, [Next]_vars PROVE IInv'
    OBVIOUS
  <1>1. CASE Trainer
    BY <1>1, LaunchesStep, InitEndpointStep, InitFailsStep, InitialEvalStep, WriteStep, ReplayStep,
       EndStep, SampleStep, SampleFailsStep, UpdateStep, UpdateFailsStep, AddRowStep DEF Trainer
  <1>2. CASE Test
    BY <1>2, TestBeginStep, TestReplayStep, TestFailsStep, EndStep DEF Test
  <1>3. CASE LaunchOther \/ LaunchTest \/ Crash \/ \E e \in Endpoints : Restart(e)
    BY <1>3, LaunchesStep, LaunchTestStep, CrashStep, RestartStep
  <1>4. CASE Stop \/ UNCHANGED vars
    <2>1. UNCHANGED <<file, server, pc, run, setup, source, history, gen, reward, cur,
                      faults, others, tests>>
      BY <1>4 DEF Stop, vars, arguments, locals, budget
    <2>2. Types' /\ Content' /\ Clean'
      BY <2>1 DEF IInv, Types, Content, Clean, Whole
    <2>3. Record' = Record /\ Replaying' = Replaying /\ Matches' = Matches /\ Continues' = Continues
      BY <2>1 DEF Record, Replaying, Matches, Continues
    <2>4. Progress'
      BY <2>1, <2>3 DEF IInv, Progress
    <2> QED
      BY <2>2, <2>4 DEF IInv
  <1> QED
    BY <1>1, <1>2, <1>3, <1>4 DEF Next

\* What the records of a file look like.
LEMMA RowsFacts ==
    ASSUME NEW h \in Histories, Made(h.updates)
    PROVE  RowsOK(h) /\ Len(h.updates) \in Nat
  BY DEF Histories, Made, RowsOK

\* The types the runs check.
LEMMA IInvTypeOK == IInv => TypeOK
  <1> SUFFICES ASSUME IInv PROVE TypeOK
    OBVIOUS
  <1>1. \A r \in Runs : Whole(r) => RowsOK(file[r])
    <2> SUFFICES ASSUME NEW r \in Runs, Whole(r) PROVE RowsOK(file[r])
      OBVIOUS
    <2>1. file[r] \in Histories /\ Made(file[r].updates)
      BY DEF IInv, Types, Content, Good, Whole
    <2> QED
      BY <2>1, RowsFacts
  <1>2. RowsOK(history)
    BY RowsFacts DEF IInv, Types, Content, Good
  <1>3. run # None => Len(history.updates) = gen
    <2>1. pc \in {"down"} \cup Launched \cup Tested
      BY DEF IInv, Types
    <2> QED
      BY <2>1 DEF IInv, Progress
  <1>4. Len(source) <= Generations
    BY DEF IInv, Content, Made
  <1> QED
    BY <1>1, <1>2, <1>3, <1>4 DEF IInv, Types, TypeOK, Launched, Tested

\* Rewards and evaluations are of the model of the records before them.
LEMMA IInvAsRecorded == IInv => AsRecorded
  <1> SUFFICES ASSUME IInv PROVE AsRecorded
    OBVIOUS
  <1>1. ASSUME NEW r \in Runs, Whole(r)
        PROVE  /\ file[r].first # None => EvaluatedOn(file[r].first, <<>>)
               /\ \A i \in 1 .. Len(Updates(r)) :
                     /\ Updates(r)[i].reward \in
                           RewardsOf(Prefix(Updates(r), i - 1), Updates(r)[i].draw)
                     /\ Updates(r)[i].eval # None =>
                           EvaluatedOn(Updates(r)[i].eval, Prefix(Updates(r), i))
    <2>1. Good(file[r]) /\ Updates(r) = file[r].updates
      BY <1>1 DEF IInv, Content, Updates
    <2> QED
      BY <2>1 DEF Good, Made
  <1>2. pc = "test_replay" => EvaluatedOn(Evaluated, Prefix(source, gen))
    <2> SUFFICES ASSUME pc = "test_replay" PROVE EvaluatedOn(Evaluated, Prefix(source, gen))
      OBVIOUS
    <2>1. Types /\ Clean /\ \A e \in Endpoints : At(server[e], Prefix(source, gen))
      BY DEF IInv, Progress
    <2> QED
      BY <2>1, EvaluatedFacts
  <1> QED
    BY <1>1, <1>2 DEF AsRecorded

\* A process that replays makes what it replays.
LEMMA IInvContinuesSource == IInv => ContinuesSource
  <1> SUFFICES ASSUME IInv, pc \in {"loop", "update"}
               PROVE  /\ \A i \in 1 .. gen : i <= Len(source) =>
                            Prefix(history.updates, gen)[i] = Prefix(source, Len(source))[i]
                      /\ \A e \in Endpoints : server[e].ready =>
                            server[e].log = Prefix(history.updates, gen) /\ server[e].active = None
    BY DEF ContinuesSource
  <1>1. gen = Len(history.updates) /\ Continues
        /\ \A e \in Endpoints : At(server[e], Prefix(history.updates, gen))
    BY DEF IInv, Progress, Launched
  <1>2. history.updates \in Seq(Rows) /\ source \in Seq(Rows)
    BY DEF IInv, Types, Histories
  <1>3. ASSUME NEW i \in 1 .. gen, i <= Len(source)
        PROVE  Prefix(history.updates, gen)[i] = Prefix(source, Len(source))[i]
    <2>1. gen \in 0 .. Len(history.updates) /\ Len(source) \in 0 .. Len(source)
          /\ i \in 1 .. Len(source) /\ i \in 1 .. Len(history.updates)
      BY <1>1, <1>2, <1>3
    <2>2. /\ Prefix(history.updates, gen)[i] = Told(history.updates[i])
          /\ Prefix(source, Len(source))[i] = Told(source[i])
      BY <1>2, <2>1, PrefixFacts
    <2>3. history.updates[i].draw = source[i].draw /\ history.updates[i].reward = source[i].reward
      BY <1>1, <1>3, <2>1 DEF Continues
    <2> QED
      BY <2>2, <2>3 DEF Told
  <1> QED
    BY <1>1, <1>3 DEF At

\* Every process is somewhere in its program, and a history has at most one row
\* for each generation (TypeOK).
THEOREM Typed == ASSUME Scored PROVE Spec => []TypeOK
  <1>1. Init => IInv
    BY InitIInv
  <1>2. IInv /\ [Next]_vars => IInv'
    BY StepIInv
  <1>3. IInv => TypeOK
    BY IInvTypeOK
  <1> QED
    BY <1>1, <1>2, <1>3, PTL DEF Spec

\* For any number of servers, runs, setups and generations, whatever is killed,
\* continued or replayed into the directory it comes from: a recorded reward was
\* earned by the model that the records before it make, and an evaluation is of
\* the records it is filed under (AsRecorded).
THEOREM FiledUnderModel == ASSUME Scored PROVE Spec => []AsRecorded
  <1>1. Init => IInv
    BY InitIInv
  <1>2. IInv /\ [Next]_vars => IInv'
    BY StepIInv
  <1>3. IInv => AsRecorded
    BY IInvAsRecorded
  <1> QED
    BY <1>1, <1>2, <1>3, PTL DEF Spec

\* A process that replays makes the recorded generations again, and before each
\* generation the servers that did not restart hold its updates and nothing that
\* an earlier process left there (ContinuesSource).
THEOREM Continued == ASSUME Scored PROVE Spec => []ContinuesSource
  <1>1. Init => IInv
    BY InitIInv
  <1>2. IInv /\ [Next]_vars => IInv'
    BY StepIInv
  <1>3. IInv => ContinuesSource
    BY IInvContinuesSource
  <1> QED
    BY <1>1, <1>2, <1>3, PTL DEF Spec

=================================================================================
