------------------------------- MODULE AhdProofs -------------------------------
(***************************************************************************)
(* Proofs about the two parts of AHD that need no model server: the pool   *)
(* that evaluates a batch of programs, for any number of candidates and    *)
(* workers, and the sampling runs, for any totals and batch sizes and any  *)
(* number of launches.                                                     *)
(***************************************************************************)
EXTENDS EvaluatorPool, SamplingRun, Integers, FiniteSetTheorems, SequenceTheorems, TLAPS

-------------------------------------------------------------------------------
(* EvaluatorPool: the children, what they report and what the pool returns.   *)

Early == {"unborn", "evaluating", "reporting", "locked"}

\* Every process that exists is watched, and there is room for those watched.
WorkersOK ==
    /\ running \subseteq Forked
    /\ \A i \in Candidates : Alive(i) => i \in running
    /\ Cardinality(running) <= MaxWorkers
    /\ pc = "launch" => running = {}
    /\ pc \in {"final", "done"} => running = {}

\* The child the pool waits for is one it timed out.
JoinOK == pc = "join" => \A i \in Candidates : Scanning(i) => i \in timedOut

\* What children computed and sent: a child that ended by itself was heard, or
\* its report is in the pipe.
InPipe(i) == \E k \in 1 .. Len(pipe) : pipe[k].idx = i
Sent(i) ==
    \/ child[i] \in {"written", "leaving"}
    \/ child[i] = "gone" /\ fitness[i] # None /\ i \notin timedOut

ReportsOK ==
    /\ \A i \in Candidates : child[i] \in {"unborn", "evaluating"} => fitness[i] = None
    /\ \A k \in 1 .. Len(pipe) :
          pipe[k].fitness = fitness[pipe[k].idx] /\ child[pipe[k].idx] \notin Early
    /\ \A i \in Candidates : Sent(i) => i \in received \/ InPipe(i)
    /\ \A i \in received : child[i] \notin Early

ResultsOK ==
    /\ \A i \in Candidates : results[i] \in {None, fitness[i]}
    /\ \A i \in received \ timedOut : results[i] = fitness[i]

IInv == TypeOK /\ WorkersOK /\ JoinOK /\ ReportsOK /\ ResultsOK /\ ResultsSettled
-----------------------------------------------------------------------------
(* Forking. *)

\* Candidates and their subsets are finite.
LEMMA FiniteCandidates ==
    ASSUME NEW S \in SUBSET Candidates
    PROVE  IsFiniteSet(S) /\ Cardinality(S) \in Nat
<1>1. IsFiniteSet(Candidates)
  BY PoolShape, FS_Interval DEF Candidates
<1> QED
  BY <1>1, FS_Subset, FS_CardinalityType

\* Of any set of candidates, fewer than k+1 have fewer than k older members: the
\* number of older members tells the members apart.
LEMMA OldestFew ==
    ASSUME NEW F \in SUBSET Candidates, NEW k \in Nat
    PROVE  Cardinality({i \in F : Cardinality({j \in F : j < i}) < k}) <= k
<1> DEFINE older(i) == {j \in F : j < i}
           S == {i \in F : Cardinality(older(i)) < k}
           rank == [i \in S |-> Cardinality(older(i))]
<1>1. \A i \in F : older(i) \in SUBSET Candidates /\ Cardinality(older(i)) \in Nat
  BY FiniteCandidates
<1>2. \A i, j \in F : i < j => Cardinality(older(i)) < Cardinality(older(j))
  <2> SUFFICES ASSUME NEW i \in F, NEW j \in F, i < j
               PROVE  Cardinality(older(i)) < Cardinality(older(j))
    OBVIOUS
  <2>1. F \subseteq Int
    BY PoolShape DEF Candidates
  <2>2. older(i) \cup {i} \subseteq older(j) /\ i \notin older(i)
    <3>1. i \in older(j) /\ i \notin older(i)
      BY <2>1
    <3>2. ASSUME NEW h \in older(i) PROVE h \in older(j)
      BY <2>1
    <3> QED
      BY <3>1, <3>2
  <2>3. IsFiniteSet(older(i)) /\ IsFiniteSet(older(j))
    BY FiniteCandidates
  <2>4. Cardinality(older(i) \cup {i}) = Cardinality(older(i)) + 1
    BY <2>2, <2>3, FS_AddElement
  <2>5. Cardinality(older(i) \cup {i}) <= Cardinality(older(j))
    BY <2>2, <2>3, FS_Subset
  <2> QED
    BY <1>1, <2>4, <2>5
<1>3. rank \in [S -> 0 .. k - 1]
  BY <1>1
<1>4. \A i, j \in S : rank[i] = rank[j] => i = j
  <2> SUFFICES ASSUME NEW i \in S, NEW j \in S, i # j
               PROVE  rank[i] # rank[j]
    OBVIOUS
  <2>1. i < j \/ j < i
    BY PoolShape DEF Candidates
  <2> QED
    BY <1>1, <1>2, <2>1
<1>5. rank \in Injection(S, 0 .. k - 1)
  BY <1>3, <1>4 DEF Injection, IsInjective
<1>6. IsFiniteSet(0 .. k - 1) /\ Cardinality(0 .. k - 1) = k
  BY FS_Interval
<1> HIDE DEF rank, S
<1>7. Cardinality(S) <= k
  BY <1>5, <1>6, FS_Injection
<1> QED
  BY <1>7 DEF S

\* launch_more fills the room there is, and only forks candidates it has not.
LEMMA ForkFits ==
    ASSUME TypeOK, NEW left \in SUBSET Candidates, Cardinality(left) <= MaxWorkers,
           Fork(left)
    PROVE  /\ child' \in [Candidates -> Stages]
           /\ running' \subseteq Candidates /\ left \subseteq running'
           /\ Cardinality(running') <= MaxWorkers
           /\ \A i \in Candidates :
                 \/ child'[i] = child[i] /\ (i \in running' => i \in left)
                 \/ child[i] = "unborn" /\ child'[i] = "evaluating" /\ i \in running'
<1> DEFINE F == {i \in Candidates \ Unpreparable : child[i] = "unborn"}
           new == LaunchMore(left)
           k == MaxWorkers - Cardinality(left)
<1>1. Cardinality(left) \in Nat /\ k \in Nat /\ IsFiniteSet(left)
  BY FiniteCandidates, PoolShape
<1>2. new = {i \in F : Cardinality({j \in F : j < i}) < k}
  <2>1. \A i \in F : Cardinality({j \in F : j < i}) \in Nat
    BY FiniteCandidates
  <2> QED
    BY <1>1, <2>1, PoolShape DEF LaunchMore
<1>3. new \in SUBSET F /\ F \in SUBSET Candidates
  BY <1>2
<1>4. Cardinality(new) <= k
  BY <1>1, <1>2, <1>3, OldestFew
<1>5. running' = left \cup new
      /\ child' = [i \in Candidates |-> IF i \in new THEN "evaluating" ELSE child[i]]
  BY DEF Fork
<1>6. Cardinality(left \cup new) <= MaxWorkers
  <2>1. IsFiniteSet(new) /\ Cardinality(new) \in Nat
        /\ Cardinality(left \cap new) \in Nat
    BY <1>3, FiniteCandidates
  <2>2. Cardinality(left \cup new)
        = Cardinality(left) + Cardinality(new) - Cardinality(left \cap new)
    BY <1>1, <2>1, FS_Union
  <2> HIDE DEF new
  <2> QED
    BY <1>1, <1>4, <2>1, <2>2, PoolShape
<1> QED
  BY <1>3, <1>5, <1>6 DEF TypeOK, Stages

\* A watched child can be taken off the list and the rest still fits.
LEMMA RestFits ==
    ASSUME TypeOK, WorkersOK, NEW i
    PROVE  running \ {i} \in SUBSET Candidates /\ Cardinality(running \ {i}) <= MaxWorkers
<1>1. running \in SUBSET Candidates /\ running \ {i} \in SUBSET running
  BY DEF TypeOK
<1>2. /\ IsFiniteSet(running) /\ Cardinality(running) \in Nat
      /\ Cardinality(running \ {i}) \in Nat
      /\ Cardinality(running \ {i}) <= Cardinality(running)
  BY <1>1, FiniteCandidates, FS_Subset
<1>3. Cardinality(running) <= MaxWorkers
  BY DEF WorkersOK
<1> QED
  BY <1>1, <1>2, <1>3, PoolShape

\* What the pool's two ways of taking a child off the list and replacing it do.
LEMMA ReplaceFits ==
    ASSUME TypeOK, WorkersOK, NEW i, Fork(running \ {i})
    PROVE  /\ child' \in [Candidates -> Stages]
           /\ running' \subseteq Candidates /\ running \ {i} \subseteq running'
           /\ Cardinality(running') <= MaxWorkers
           /\ \A j \in Candidates :
                 \/ child'[j] = child[j] /\ (j \in running' => j \in running \ {i})
                 \/ child[j] = "unborn" /\ child'[j] = "evaluating" /\ j \in running'
BY RestFits, ForkFits

\* launch_more before the loop starts from nothing.
LEMMA LaunchFits ==
    ASSUME TypeOK, Fork({})
    PROVE  /\ child' \in [Candidates -> Stages]
           /\ running' \subseteq Candidates
           /\ Cardinality(running') <= MaxWorkers
           /\ \A j \in Candidates :
                 \/ child'[j] = child[j] /\ j \notin running'
                 \/ child[j] = "unborn" /\ child'[j] = "evaluating" /\ j \in running'
<1>1. {} \in SUBSET Candidates /\ Cardinality({}) <= MaxWorkers
  BY FS_EmptySet, PoolShape
<1> QED
  BY <1>1, ForkFits

-----------------------------------------------------------------------------
(* The pipe. *)

\* The oldest report, and the reports behind it.
LEMMA PipeFront ==
    ASSUME pipe \in Seq(Reports), pipe # <<>>
    PROVE  /\ Head(pipe) \in Reports /\ Head(pipe) = pipe[1]
           /\ Len(pipe) \in Nat /\ Len(pipe) >= 1
           /\ Tail(pipe) \in Seq(Reports) /\ Len(Tail(pipe)) = Len(pipe) - 1
           /\ \A k \in 1 .. Len(Tail(pipe)) : Tail(pipe)[k] = pipe[k + 1]
           /\ \A k \in 1 .. Len(pipe) : pipe[k] \in Reports
<1>1. \A S : \A s \in Seq(S) : s # <<>> => 
         /\ Head(s) \in S /\ Head(s) = s[1]
         /\ Tail(s) \in Seq(S) /\ Len(Tail(s)) = Len(s) - 1
         /\ \A k \in 1 .. Len(Tail(s)) : Tail(s)[k] = s[k + 1]
  BY HeadTailProperties
<1>2. \A S : \A s \in Seq(S) :
         Len(s) \in Nat /\ (s # <<>> => Len(s) >= 1) /\ \A k \in 1 .. Len(s) : s[k] \in S
  BY EmptySeq, LenProperties, ElementOfSeq
<1> QED
  BY <1>1, <1>2

\* Every report names a candidate.
LEMMA PipeNames ==
    ASSUME TypeOK
    PROVE  /\ \A k \in 1 .. Len(pipe) : pipe[k].idx \in Candidates
           /\ received \subseteq Candidates
<1>1. \A S : \A s \in Seq(S) : \A k \in 1 .. Len(s) : s[k] \in S
  BY ElementOfSeq
<1>2. \A k \in 1 .. Len(pipe) : pipe[k] \in Reports
  BY <1>1 DEF TypeOK
<1> QED
  BY <1>2 DEF TypeOK, Reports

-----------------------------------------------------------------------------
(* Types. *)

\* Every step keeps the types.
LEMMA TypeStep == TypeOK /\ WorkersOK /\ [Next]_vars => TypeOK'
<1> SUFFICES ASSUME TypeOK, WorkersOK, [Next]_vars PROVE TypeOK'
  OBVIOUS
<1> USE DEF TypeOK, Stages, Reports, parent
<1>1. CASE Launch
  <2>1. Fork({}) /\ todo' = {}
    BY <1>1 DEF Launch, WorkersOK
  <2> QED
    BY <1>1, <2>1, LaunchFits DEF Launch
<1>2. ASSUME NEW report \in Reports, Receive(report), pipe # <<>>
      PROVE  received' \subseteq Candidates /\ pipe' \in Seq(Reports)
             /\ results' \in [Candidates -> Candidates \cup {None}]
  <2>1. Tail(pipe) \in Seq(Reports)
    BY <1>2, PipeFront
  <2> QED
    BY <1>2, <2>1 DEF Receive
<1>3. pipe # <<>> => Head(pipe) \in Reports
  BY PipeFront
<1>4. CASE Drain
  BY <1>2, <1>3, <1>4 DEF Drain
<1>5. CASE Drained
  BY <1>5 DEF Drained
<1>6. CASE Scanned
  BY <1>6 DEF Scanned
<1>7. CASE FinalDrain
  BY <1>2, <1>3, <1>7 DEF FinalDrain
<1>8. CASE Return
  BY <1>8 DEF Return
<1>9. ASSUME NEW i \in Candidates, ScanGone(i) PROVE TypeOK'
  <2>1. Fork(running \ {i}) /\ todo' = todo \ {i}
    BY <1>9 DEF ScanGone
  <2>2. todo' \subseteq running'
    BY <2>1, ReplaceFits
  <2> QED
    BY <1>9, <2>1, <2>2, ReplaceFits DEF ScanGone
<1>10. ASSUME NEW i \in Candidates, ScanAlive(i) PROVE TypeOK'
  BY <1>10 DEF ScanAlive
<1>11. ASSUME NEW i \in Candidates, Terminate(i) PROVE TypeOK'
  BY <1>11 DEF Terminate
<1>12. ASSUME NEW i \in Candidates, Joined(i) PROVE TypeOK'
  <2>1. Fork(running \ {i}) /\ todo' = todo \ {i}
    BY <1>12 DEF Joined
  <2>2. todo' \subseteq running'
    BY <2>1, ReplaceFits
  <2> QED
    BY <1>12, <2>1, <2>2, ReplaceFits DEF Joined
<1>13. ASSUME NEW i \in Candidates, Child(i) PROVE TypeOK'
  <2>1. CASE Evaluate(i)
    BY <2>1 DEF Evaluate
  <2>2. CASE EvaluateDies(i)
    BY <2>2 DEF EvaluateDies
  <2>3. CASE TakeLock(i)
    BY <2>3 DEF TakeLock
  <2>4. CASE Write(i)
    <3>1. [idx |-> i, fitness |-> fitness[i]] \in Reports
      OBVIOUS
    <3> QED
      BY <2>4, <3>1 DEF Write
  <2>5. CASE Unlock(i)
    BY <2>5 DEF Unlock
  <2>6. CASE Leave(i)
    BY <2>6 DEF Leave
  <2> QED
    BY <1>13, <2>1, <2>2, <2>3, <2>4, <2>5, <2>6 DEF Child
<1>14. ASSUME NEW i \in Candidates, Deadline(i) PROVE TypeOK'
  BY <1>14 DEF Deadline
<1>15. ASSUME NEW i \in Candidates, Killed(i) PROVE TypeOK'
  BY <1>15 DEF Killed
<1>16. CASE UNCHANGED vars
  BY <1>16 DEF vars
<1> QED
  BY <1>1, <1>4, <1>5, <1>6, <1>7, <1>8, <1>9, <1>10, <1>11, <1>12, <1>13,
     <1>14, <1>15, <1>16 DEF Next, Pool, Done
-----------------------------------------------------------------------------
(* The workers. *)

\* Every step keeps the watched children and their number.
LEMMA WorkersStep == TypeOK /\ WorkersOK /\ [Next]_vars => WorkersOK'
<1> SUFFICES ASSUME TypeOK, WorkersOK, [Next]_vars PROVE WorkersOK'
  OBVIOUS
<1> USE DEF WorkersOK, Forked, Alive, parent
<1>1. CASE Launch
  <2>1. Fork({}) /\ running = {} /\ pc' = IF running' = {} THEN "final" ELSE "drain"
    BY <1>1 DEF Launch
  <2> QED
    BY <2>1, LaunchFits
<1>2. ASSUME NEW i \in Candidates, ~Alive(i), Fork(running \ {i}), pc' = "scan"
      PROVE  WorkersOK'
  BY <1>2, ReplaceFits
<1>3. ASSUME NEW i \in Candidates, ScanGone(i) PROVE WorkersOK'
  BY <1>2, <1>3 DEF ScanGone
<1>4. ASSUME NEW i \in Candidates, Joined(i) PROVE WorkersOK'
  BY <1>2, <1>4 DEF Joined
<1>5. ASSUME NEW i \in Candidates, ScanAlive(i) PROVE WorkersOK'
  BY <1>5 DEF ScanAlive
<1>6. ASSUME NEW i \in Candidates, Terminate(i) PROVE WorkersOK'
  BY <1>6 DEF Terminate
<1>7. CASE Drain \/ Drained \/ Scanned \/ FinalDrain \/ Return
  BY <1>7 DEF Drain, Drained, Scanned, FinalDrain, Return
<1>8. ASSUME NEW i \in Candidates, Child(i) PROVE WorkersOK'
  <2>1. /\ Alive(i) /\ UNCHANGED parent
        /\ \E s \in Stages \ {"unborn"} : child' = [child EXCEPT ![i] = s]
    BY <1>8 DEF Child, Evaluate, EvaluateDies, TakeLock, Write, Unlock, Leave, Stages
  <2> QED
    BY <2>1 DEF TypeOK
<1>9. ASSUME NEW i \in Candidates, Deadline(i) PROVE WorkersOK'
  BY <1>9 DEF Deadline
<1>10. ASSUME NEW i \in Candidates, Killed(i) PROVE WorkersOK'
  BY <1>10 DEF Killed, TypeOK
<1>11. CASE UNCHANGED vars
  BY <1>11 DEF vars
<1> QED
  BY <1>1, <1>3, <1>4, <1>5, <1>6, <1>7, <1>8, <1>9, <1>10, <1>11
     DEF Next, Pool, Done

\* The pool waits only for the child it has just timed out.
LEMMA JoinStep == TypeOK /\ JoinOK /\ [Next]_vars => JoinOK'
<1> SUFFICES ASSUME TypeOK, JoinOK, [Next]_vars PROVE JoinOK'
  OBVIOUS
<1> USE DEF JoinOK, Scanning, parent
<1>1. ASSUME NEW i \in Candidates, Terminate(i) PROVE JoinOK'
  <2>1. Scanning(i) /\ todo' = todo /\ i \in timedOut' /\ todo \subseteq Int
    BY <1>1, PoolShape DEF Terminate, TypeOK, Candidates
  <2>2. \A j \in Candidates : Scanning(j) => j = i
    BY <2>1, PoolShape DEF Candidates
  <2> QED
    BY <2>1, <2>2
<1>2. ASSUME NEW i \in Candidates, ScanGone(i) \/ ScanAlive(i) \/ Joined(i)
      PROVE  JoinOK'
  BY <1>2 DEF ScanGone, ScanAlive, Joined
<1>3. CASE Launch \/ Drain \/ Drained \/ Scanned \/ FinalDrain \/ Return
  BY <1>3 DEF Launch, Drain, Drained, Scanned, FinalDrain, Return
<1>4. ASSUME NEW i \in Candidates, Child(i) \/ Deadline(i) \/ Killed(i)
      PROVE  pc' = pc /\ todo' = todo /\ timedOut' = timedOut
  BY <1>4 DEF Child, Evaluate, EvaluateDies, TakeLock, Write, Unlock, Leave,
     Deadline, Killed
<1>5. CASE UNCHANGED vars
  BY <1>5 DEF vars
<1> QED
  BY <1>1, <1>2, <1>3, <1>4, <1>5 DEF Next, Pool, Done
-----------------------------------------------------------------------------
(* The reports. *)

\* Taking the oldest report off the pipe loses nothing: it is received instead.
LEMMA ReceiveReports ==
    ASSUME TypeOK, ReportsOK, pipe # <<>>, Receive(Head(pipe)),
           child' = child, fitness' = fitness, timedOut' = timedOut
    PROVE  ReportsOK'
<1> DEFINE front == Head(pipe)
<1>1. /\ front = pipe[1] /\ Len(pipe) \in Nat /\ Len(pipe) >= 1
      /\ Len(Tail(pipe)) = Len(pipe) - 1
      /\ \A k \in 1 .. Len(Tail(pipe)) : Tail(pipe)[k] = pipe[k + 1]
      /\ \A k \in 1 .. Len(pipe) : pipe[k] \in Reports
  BY PipeFront DEF TypeOK
<1>2. pipe' = Tail(pipe) /\ received' = received \cup {front.idx}
  BY DEF Receive
<1>3. child[front.idx] \notin Early
  BY <1>1 DEF ReportsOK
<1>4. \A k \in 1 .. Len(pipe') :
        pipe'[k].fitness = fitness'[pipe'[k].idx] /\ child'[pipe'[k].idx] \notin Early
  BY <1>1, <1>2 DEF ReportsOK
<1>5. ASSUME NEW i \in Candidates, InPipe(i) PROVE i \in received' \/ InPipe(i)'
  <2>1. PICK k \in 1 .. Len(pipe) : pipe[k].idx = i
    BY <1>5 DEF InPipe
  <2>2. CASE k = 1
    BY <1>1, <1>2, <2>1, <2>2
  <2>3. CASE k # 1
    <3>1. k - 1 \in 1 .. Len(pipe') /\ pipe'[k - 1] = pipe[k]
      BY <1>1, <1>2, <2>3
    <3> QED
      BY <2>1, <3>1 DEF InPipe
  <2> QED
    BY <2>2, <2>3
<1>6. \A i \in Candidates : Sent(i)' => i \in received' \/ InPipe(i)'
  BY <1>2, <1>5 DEF ReportsOK, Sent
<1> QED
  BY <1>2, <1>3, <1>4, <1>6 DEF ReportsOK

\* Forking gives a child no report and takes none away.
LEMMA ForkReports ==
    ASSUME ReportsOK, pipe' = pipe, received' = received, fitness' = fitness,
           timedOut' = timedOut,
           \A i \in Candidates : \/ child'[i] = child[i]
                                 \/ child[i] = "unborn" /\ child'[i] = "evaluating",
           TypeOK
    PROVE  ReportsOK'
<1>1. /\ \A k \in 1 .. Len(pipe) : pipe[k].idx \in Candidates
      /\ received \subseteq Candidates
  BY PipeNames
<1>2. \A k \in 1 .. Len(pipe') :
        pipe'[k].fitness = fitness'[pipe'[k].idx] /\ child'[pipe'[k].idx] \notin Early
  BY <1>1 DEF ReportsOK, Early
<1>3. \A i \in Candidates : Sent(i)' => i \in received' \/ InPipe(i)'
  BY DEF ReportsOK, Sent, InPipe
<1>4. \A i \in received' : child'[i] \notin Early
  BY <1>1 DEF ReportsOK, Early
<1>5. \A i \in Candidates : child'[i] \in {"unborn", "evaluating"} => fitness'[i] = None
  BY DEF ReportsOK
<1> QED
  BY <1>2, <1>3, <1>4, <1>5 DEF ReportsOK

\* A child that moves past its report's writing loses none, nor does one that
\* ends before it has anything to report or because the pool ended it.
LEMMA MoveReports ==
    ASSUME TypeOK, ReportsOK, pipe' = pipe, received' = received,
           fitness' = fitness, timedOut' = timedOut, NEW i \in Candidates,
           NEW s \in Stages \ {"unborn", "evaluating"},
           child' = [child EXCEPT ![i] = s],
           child[i] \notin Early => s \notin Early,
           s \in {"written", "leaving", "gone"} =>
              \/ child[i] \in {"written", "leaving"}
              \/ s = "gone" /\ (fitness[i] = None \/ i \in timedOut)
    PROVE  ReportsOK'
<1>1. /\ \A k \in 1 .. Len(pipe) : pipe[k].idx \in Candidates
      /\ received \subseteq Candidates
  BY PipeNames
<1>2. \A j \in Candidates : child'[j] = IF j = i THEN s ELSE child[j]
  BY DEF TypeOK
<1>3. \A k \in 1 .. Len(pipe') :
        pipe'[k].fitness = fitness'[pipe'[k].idx] /\ child'[pipe'[k].idx] \notin Early
  BY <1>1, <1>2 DEF ReportsOK
<1>4. \A j \in Candidates : Sent(j)' => Sent(j)
  BY <1>2 DEF Sent, Stages
<1>5. \A j \in Candidates : Sent(j)' => j \in received' \/ InPipe(j)'
  BY <1>4 DEF ReportsOK, InPipe
<1>6. \A j \in received' : child'[j] \notin Early
  BY <1>1, <1>2 DEF ReportsOK
<1>7. \A j \in Candidates : child'[j] \in {"unborn", "evaluating"} => fitness'[j] = None
  BY <1>2 DEF ReportsOK
<1> QED
  BY <1>3, <1>5, <1>6, <1>7 DEF ReportsOK

\* Every step keeps the reports.
LEMMA ReportsStep ==
    TypeOK /\ WorkersOK /\ JoinOK /\ ReportsOK /\ [Next]_vars => ReportsOK'
<1> SUFFICES ASSUME TypeOK, WorkersOK, JoinOK, ReportsOK, [Next]_vars
             PROVE  ReportsOK'
  OBVIOUS
<1> USE DEF parent
<1>1. \A k \in 1 .. Len(pipe) : pipe[k].idx \in Candidates
  BY PipeNames
<1>2. CASE Drain \/ FinalDrain
  BY <1>2, ReceiveReports DEF Drain, FinalDrain
<1>3. CASE Launch
  BY <1>3, LaunchFits, ForkReports DEF Launch
<1>4. ASSUME NEW i \in Candidates, ScanGone(i) \/ Joined(i) PROVE ReportsOK'
  BY <1>4, ReplaceFits, ForkReports DEF ScanGone, Joined
<1>5. ASSUME child' = child, fitness' = fitness, pipe' = pipe, received' = received,
             timedOut \subseteq timedOut'
      PROVE  ReportsOK'
  BY <1>5 DEF ReportsOK, Sent, InPipe
<1>6. CASE Drained \/ Scanned \/ Return
  BY <1>5, <1>6 DEF Drained, Scanned, Return
<1>7. ASSUME NEW i \in Candidates, ScanAlive(i) \/ Terminate(i) \/ Deadline(i)
      PROVE  ReportsOK'
  BY <1>5, <1>7 DEF ScanAlive, Terminate, Deadline
<1>8. ASSUME NEW i \in Candidates, Killed(i) PROVE ReportsOK'
  <2>1. i \in timedOut /\ child' = [child EXCEPT ![i] = "gone"]
    BY <1>8 DEF Killed, JoinOK
  <2> QED
    BY <1>8, <2>1, MoveReports DEF Killed, Stages, Early
<1>9. ASSUME NEW i \in Candidates, Child(i) PROVE ReportsOK'
  <2>1. CASE Evaluate(i)
    <3>1. \A j \in Candidates : /\ j # i => child'[j] = child[j] /\ fitness'[j] = fitness[j]
                                /\ child'[i] = "reporting" /\ child[i] = "evaluating"
      BY <2>1 DEF Evaluate, TypeOK
    <3>2. /\ pipe' = pipe /\ received' = received /\ timedOut' = timedOut
          /\ received \subseteq Candidates
      BY <2>1 DEF Evaluate, TypeOK
    <3>3. i \notin received /\ \A k \in 1 .. Len(pipe) : pipe[k].idx # i
      BY <3>1 DEF ReportsOK, Early
    <3> QED
      BY <1>1, <3>1, <3>2, <3>3 DEF ReportsOK, Sent, InPipe
  <2>2. CASE EvaluateDies(i)
    <3>1. fitness[i] = None
      BY <2>2 DEF EvaluateDies, ReportsOK
    <3> QED
      BY <2>2, <3>1, MoveReports DEF EvaluateDies, Stages, Early
  <2>3. CASE TakeLock(i)
    BY <2>3, MoveReports DEF TakeLock, Stages, Early
  <2>4. CASE Unlock(i) \/ Leave(i)
    BY <2>4, MoveReports DEF Unlock, Leave, Stages, Early
  <2>5. CASE Write(i)
    <3> DEFINE report == [idx |-> i, fitness |-> fitness[i]]
    <3>1. /\ child[i] = "locked" /\ pipe' = Append(pipe, report)
          /\ fitness' = fitness /\ received' = received /\ timedOut' = timedOut
          /\ \A j \in Candidates : child'[j] = IF j = i THEN "written" ELSE child[j]
      BY <2>5 DEF Write, TypeOK
    <3>2. report \in Reports /\ pipe \in Seq(Reports)
      BY DEF TypeOK, Reports
    <3>3. /\ Len(pipe) \in Nat /\ Len(pipe') = Len(pipe) + 1
          /\ \A k \in 1 .. Len(pipe) : pipe'[k] = pipe[k]
          /\ pipe'[Len(pipe) + 1] = report
      BY <3>1, <3>2, AppendProperties, LenProperties
    <3>4. report.idx = i /\ report.fitness = fitness[i]
      OBVIOUS
    <3> HIDE DEF report
    <3>5. \A k \in 1 .. Len(pipe') :
             pipe'[k].fitness = fitness'[pipe'[k].idx] /\ child'[pipe'[k].idx] \notin Early
      <4> SUFFICES ASSUME NEW k \in 1 .. Len(pipe')
                   PROVE  /\ pipe'[k].fitness = fitness'[pipe'[k].idx]
                          /\ child'[pipe'[k].idx] \notin Early
        OBVIOUS
      <4>1. CASE k = Len(pipe) + 1
        BY <3>1, <3>3, <3>4, <4>1 DEF Early
      <4>2. CASE k \in 1 .. Len(pipe)
        BY <1>1, <3>1, <3>3, <4>2 DEF ReportsOK, Early
      <4> QED
        BY <3>3, <4>1, <4>2
    <3>6. \A j \in Candidates : InPipe(j) => InPipe(j)'
      BY <3>3 DEF InPipe
    <3>7. InPipe(i)'
      BY <3>3, <3>4 DEF InPipe
    <3>8. \A j \in Candidates : Sent(j)' => j \in received' \/ InPipe(j)'
      BY <3>1, <3>6, <3>7 DEF ReportsOK, Sent
    <3>9. /\ \A j \in received' : child'[j] \notin Early
          /\ \A j \in Candidates : child'[j] \in {"unborn", "evaluating"} => fitness'[j] = None
      BY <3>1 DEF ReportsOK, Early, TypeOK
    <3> QED
      BY <3>5, <3>8, <3>9 DEF ReportsOK
  <2> QED
    BY <1>9, <2>1, <2>2, <2>3, <2>4, <2>5 DEF Child
<1>10. CASE UNCHANGED vars
  BY <1>5, <1>10 DEF vars
<1> QED
  BY <1>2, <1>3, <1>4, <1>6, <1>7, <1>8, <1>9, <1>10 DEF Next, Pool, Done
-----------------------------------------------------------------------------
(* The results. *)

\* Storing the oldest report gives its candidate the fitness its child computed.
LEMMA ReceiveResults ==
    ASSUME TypeOK, ReportsOK, ResultsOK, pipe # <<>>, Receive(Head(pipe)),
           fitness' = fitness, timedOut' = timedOut
    PROVE  ResultsOK'
<1>1. /\ Head(pipe) = pipe[1] /\ 1 \in 1 .. Len(pipe) /\ Head(pipe) \in Reports
  BY PipeFront DEF TypeOK
<1>2. Head(pipe).fitness = fitness[Head(pipe).idx]
  BY <1>1 DEF ReportsOK
<1> DEFINE front == Head(pipe)
<1>3. front.idx \in Candidates
  BY <1>1 DEF Reports
<1>4. \A i \in Candidates :
        results'[i] = IF i = front.idx /\ front.fitness # None THEN fitness[i]
                                                              ELSE results[i]
  BY <1>2, <1>3 DEF Receive, TypeOK
<1>5. received' = received \cup {front.idx}
  BY DEF Receive
<1> HIDE DEF front
<1>6. fitness[front.idx] = front.fitness
  BY <1>2 DEF front
<1> QED
  BY <1>3, <1>4, <1>5, <1>6 DEF ResultsOK, TypeOK

\* Every step keeps the results: none is stored but the one the child computed.
LEMMA ResultsStep ==
    TypeOK /\ JoinOK /\ ReportsOK /\ ResultsOK /\ [Next]_vars => ResultsOK'
<1> SUFFICES ASSUME TypeOK, JoinOK, ReportsOK, ResultsOK, [Next]_vars
             PROVE  ResultsOK'
  OBVIOUS
<1> USE DEF parent
<1>1. CASE Drain \/ FinalDrain
  BY <1>1, ReceiveResults DEF Drain, FinalDrain
<1>2. ASSUME results' = results, fitness' = fitness, received' = received,
             timedOut \subseteq timedOut'
      PROVE  ResultsOK'
  BY <1>2 DEF ResultsOK
<1>3. CASE Launch \/ Drained \/ Scanned \/ Return
  BY <1>2, <1>3 DEF Launch, Drained, Scanned, Return
<1>4. ASSUME NEW i \in Candidates,
             ScanGone(i) \/ ScanAlive(i) \/ Terminate(i) \/ Deadline(i) \/ Killed(i)
      PROVE  ResultsOK'
  BY <1>2, <1>4 DEF ScanGone, ScanAlive, Terminate, Deadline, Killed
<1>5. ASSUME NEW i \in Candidates, Joined(i) PROVE ResultsOK'
  <2>1. /\ i \in timedOut /\ results' = [results EXCEPT ![i] = None]
        /\ UNCHANGED <<received, fitness, timedOut>>
    BY <1>5 DEF Joined, JoinOK
  <2> QED
    BY <2>1 DEF ResultsOK, TypeOK
<1>6. ASSUME NEW i \in Candidates, Evaluate(i) PROVE ResultsOK'
  <2>1. /\ UNCHANGED <<results, received, timedOut>>
        /\ \A j \in Candidates \ {i} : fitness'[j] = fitness[j]
        /\ child[i] = "evaluating"
    BY <1>6 DEF Evaluate, TypeOK
  <2>2. i \notin received /\ fitness[i] = None
    BY <2>1 DEF ReportsOK, Early
  <2>3. results[i] = None /\ received \subseteq Candidates
    BY <2>2 DEF ResultsOK, TypeOK
  <2> QED
    BY <2>1, <2>2, <2>3 DEF ResultsOK
<1>7. ASSUME NEW i \in Candidates,
             EvaluateDies(i) \/ TakeLock(i) \/ Write(i) \/ Unlock(i) \/ Leave(i)
      PROVE  ResultsOK'
  BY <1>2, <1>7 DEF EvaluateDies, TakeLock, Write, Unlock, Leave
<1>8. CASE UNCHANGED vars
  BY <1>2, <1>8 DEF vars
<1> QED
  BY <1>1, <1>3, <1>4, <1>5, <1>6, <1>7, <1>8 DEF Next, Pool, Done, Child

\* The pool returns only when it has heard everything it can hear, and nothing
\* changes afterwards.
LEMMA SettledStep == IInv /\ [Next]_vars => ResultsSettled'
<1> SUFFICES ASSUME IInv, [Next]_vars, pc' = "done" PROVE ResultsSettled'
  BY DEF ResultsSettled
<1> USE DEF parent
<1>1. CASE pc = "done"
  <2>1. running = {} /\ \A i \in Candidates : ~Alive(i)
    BY <1>1 DEF IInv, WorkersOK
  <2>2. \A i \in Candidates : ~Child(i)
    BY <2>1 DEF Child, Evaluate, EvaluateDies, TakeLock, Write, Unlock, Leave, Alive
  <2>3. \A i \in Candidates : ~Deadline(i) /\ ~Killed(i)
    BY <1>1, <2>1 DEF Deadline, Killed
  <2>4. ~Pool
    BY <1>1 DEF Pool, Launch, Drain, Drained, Scanned, FinalDrain, Return, ScanGone,
       ScanAlive, Terminate, Joined
  <2>5. UNCHANGED vars
    BY <2>2, <2>3, <2>4 DEF Next, Done
  <2> QED
    BY <2>5 DEF vars, IInv, ResultsSettled
<1>2. CASE pc # "done"
  <2>1. Return
    <3>1. pc' # pc
      BY <1>2
    <3>2. ~Launch /\ ~Drain /\ ~Drained /\ ~Scanned /\ ~FinalDrain
      BY <3>1 DEF Launch, Drain, Drained, Scanned, FinalDrain
    <3>3. \A i \in Candidates : ~ScanGone(i) /\ ~ScanAlive(i) /\ ~Terminate(i) /\ ~Joined(i)
      BY <3>1 DEF ScanGone, ScanAlive, Terminate, Joined
    <3>4. \A i \in Candidates : ~Child(i) /\ ~Deadline(i) /\ ~Killed(i)
      BY <3>1 DEF Child, Evaluate, EvaluateDies, TakeLock, Write, Unlock, Leave,
         Deadline, Killed
    <3> QED
      BY <1>2, <3>1, <3>2, <3>3, <3>4 DEF Next, Pool, Done, vars
  <2>2. \A i \in Candidates : child[i] \in {"unborn", "gone"}
    BY <2>1 DEF Return, IInv, WorkersOK, Alive
  <2>3. pipe = <<>> => \A i \in Candidates : Sent(i) => i \in received
    <3>1. pipe = <<>> => Len(pipe) = 0
      BY EmptySeq
    <3> QED
      BY <3>1 DEF IInv, ReportsOK, InPipe
  <2>4. Cardinality(received) = Cardinality(Forked)
        => \A i \in Candidates : Sent(i) => i \in received
    <3>1. received \subseteq Forked /\ Forked \in SUBSET Candidates
      BY DEF IInv, ReportsOK, TypeOK, Forked, Early
    <3>2. Cardinality(received) = Cardinality(Forked) => received = Forked
      BY <3>1, FiniteCandidates, FS_Subset
    <3> QED
      BY <3>2 DEF Sent, Forked
  <2>5. \A i \in Candidates : Sent(i) => i \in received
    BY <2>1, <2>3, <2>4 DEF Return
  <2>6. UNCHANGED <<results, fitness, timedOut>>
    BY <2>1 DEF Return
  <2>7. ASSUME NEW i \in Candidates, i \notin timedOut PROVE results[i] = fitness[i]
    <3>1. CASE fitness[i] = None
      BY <3>1 DEF IInv, ResultsOK
    <3>2. CASE fitness[i] # None
      <4>1. child[i] = "gone"
        BY <2>2, <3>2 DEF IInv, ReportsOK
      <4>2. i \in received
        BY <2>5, <2>7, <3>2, <4>1 DEF Sent
      <4> QED
        BY <2>7, <4>2 DEF IInv, ResultsOK
    <3> QED
      BY <3>1, <3>2
  <2> QED
    BY <2>6, <2>7 DEF IInv, ResultsOK, ResultsSettled
<1> QED
  BY <1>1, <1>2
-----------------------------------------------------------------------------
(* The theorems. *)

\* The batch starts in the invariant.
LEMMA InitOK == Init => IInv
<1> SUFFICES ASSUME Init PROVE IInv
  OBVIOUS
<1>1. TypeOK
  <2>1. <<>> \in Seq(Reports)
    BY EmptySeq
  <2> QED
    BY <2>1 DEF Init, TypeOK, Stages
<1>2. WorkersOK
  <2>1. Cardinality({}) <= MaxWorkers
    BY FS_EmptySet, PoolShape
  <2> QED
    BY <2>1 DEF Init, WorkersOK, Alive
<1>3. Len(pipe) = 0
  BY EmptySeq DEF Init
<1>4. JoinOK /\ ReportsOK /\ ResultsOK /\ ResultsSettled
  BY <1>3 DEF Init, JoinOK, ReportsOK, ResultsOK, ResultsSettled, Sent
<1> QED
  BY <1>1, <1>2, <1>4 DEF IInv

\* The inductive invariant, of every reachable state of the pool.
THEOREM Invariance == Spec => []IInv
<1>1. IInv /\ [Next]_vars => IInv'
  BY TypeStep, WorkersStep, JoinStep, ReportsStep, ResultsStep, SettledStep DEF IInv
<1> QED
  BY InitOK, <1>1, PTL DEF Spec

\* The pool's state has its type; in particular a scan looks only at children it
\* watches, and only a child past its deadline is ever timed out.
THEOREM TypeCorrect == Spec => []TypeOK
<1>1. IInv => TypeOK
  BY DEF IInv
<1> QED
  BY Invariance, <1>1, PTL

\* When the batch returns, each result is the fitness its own child computed, or
\* for one timed out possibly none, whatever the order of exits, reports and
\* deadlines and whatever lock a terminated child took with it.
THEOREM Settled == Spec => []ResultsSettled
<1>1. IInv => ResultsSettled
  BY DEF IInv
<1> QED
  BY Invariance, <1>1, PTL

\* At most MaxWorkers children exist at any time, and none when the loop is over.
THEOREM Bounded == Spec => []ChildrenBounded
<1>1. IInv => ChildrenBounded
  <2> SUFFICES ASSUME IInv PROVE ChildrenBounded
    OBVIOUS
  <2> DEFINE alive == {i \in Candidates : Alive(i)}
  <2>1. alive \in SUBSET running /\ running \in SUBSET Candidates
        /\ alive \in SUBSET Candidates
    BY DEF IInv, WorkersOK, TypeOK
  <2>2. IsFiniteSet(running) /\ Cardinality(running) \in Nat /\ Cardinality(alive) \in Nat
    BY <2>1, FiniteCandidates
  <2>3. Cardinality(alive) <= Cardinality(running)
    BY <2>1, <2>2, FS_Subset
  <2>4. Cardinality(alive) <= MaxWorkers
    BY <2>2, <2>3, PoolShape DEF IInv, WorkersOK
  <2>5. pc \in {"final", "done"} => alive = {}
    BY <2>1 DEF IInv, WorkersOK
  <2> QED
    BY <2>4, <2>5 DEF ChildrenBounded
<1> QED
  BY Invariance, <1>1, PTL
-------------------------------------------------------------------------------
(* SamplingRun: samples.jsonl is samples 1, 2, 3, ... in order, a finished    *)
(* process leaves less than a batch missing, and what the generation files    *)
(* hold.                                                                      *)

Types ==
    /\ samples \in Seq(Nat) /\ total \in Nat /\ batch \in Nat /\ written \in Nat
    /\ loop \in {"down", "sample", "dump", "append", "done"}

InOrder == \A k \in DOMAIN samples : samples[k] = k

\* Between batches the process knows the length of the file; a batch is what
\* follows it and fits into the total; while it is appended, so is its rest.
Cursor ==
    /\ loop \in {"sample", "dump", "done"} => Len(samples) = written
    /\ loop \in {"sample", "dump", "append", "done"} => written <= total
    /\ loop = "dump" => pending = BatchOf(written, CurrentBatchSize)
    /\ loop = "append" =>
          /\ pending \in Seq(Nat)
          /\ Len(samples) + Len(pending) = written + CurrentBatchSize
          /\ \A j \in 1 .. Len(pending) : pending[j] = Len(samples) + j

FileInv == Types /\ InOrder /\ Cursor

\* What a batch may be: never more than is missing.
LEMMA BatchFits ==
    ASSUME FileInv, loop \in {"sample", "dump", "append", "done"}
    PROVE  CurrentBatchSize \in Nat /\ written + CurrentBatchSize <= total
  BY DEF FileInv, Types, Cursor, CurrentBatchSize

\* The file with the next sample at its end.
LEMMA NextLine ==
    ASSUME FileInv, loop = "append", pending # <<>>
    PROVE  /\ Append(samples, Head(pending)) \in Seq(Nat)
           /\ Len(Append(samples, Head(pending))) = Len(samples) + 1
           /\ \A k \in DOMAIN Append(samples, Head(pending)) :
                 Append(samples, Head(pending))[k] = k
  <1>1. Head(pending) = Len(samples) + 1 /\ Len(pending) >= 1
    BY DEF FileInv, Cursor, Types
  <1> QED
    BY <1>1 DEF FileInv, Types, InOrder

\* A launch begins empty, or behind the samples it can read.
LEMMA LaunchStep ==
    ASSUME FileInv, NEW t \in Totals, NEW b \in BatchSizes,
           LaunchClean(t, b) \/ LaunchResume(t, b)
    PROVE  FileInv'
  <1> USE DEF FileInv
  <1>1. t \in Nat /\ b \in Nat
    BY SamplingShape
  <1>2. CASE LaunchClean(t, b)
    <2>1. /\ samples' = <<>> /\ written' = 0 /\ total' = t /\ batch' = b
          /\ loop' = "sample"
      BY <1>2 DEF LaunchClean, SamplingLaunch
    <2> QED
      BY <1>1, <2>1 DEF Types, InOrder, Cursor
  <1>3. CASE LaunchResume(t, b)
    <2>1. /\ samples' = samples /\ written' = Len(samples) /\ total' = t /\ batch' = b
          /\ loop' = "sample" /\ Len(samples) <= t
      BY <1>3 DEF LaunchResume, SamplingLaunch
    <2> QED
      BY <1>1, <2>1 DEF Types, InOrder, Cursor
  <1> QED
    BY <1>2, <1>3

\* The generation file is written before the samples: the cursor stays.
LEMMA DumpStep == FileInv /\ Dump => FileInv'
  <1> SUFFICES ASSUME FileInv, Dump PROVE FileInv'
    OBVIOUS
  <1>1. /\ loop = "dump" /\ loop' = "append"
        /\ UNCHANGED <<samples, total, batch, written, pending>>
        /\ Len(samples) = written /\ pending = BatchOf(written, CurrentBatchSize)
    BY DEF Dump, FileInv, Cursor
  <1>2. CurrentBatchSize \in Nat
    BY <1>1, BatchFits
  <1>3. /\ pending \in Seq(Nat) /\ Len(pending) = CurrentBatchSize
        /\ \A j \in 1 .. Len(pending) : pending[j] = written + j
    BY <1>1, <1>2 DEF BatchOf, FileInv, Types
  <1>4. CurrentBatchSize' = CurrentBatchSize
    BY <1>1 DEF CurrentBatchSize
  <1>5. Types' /\ InOrder'
    BY <1>1, <1>3 DEF FileInv, Types, InOrder
  <1>6. \A j \in 1 .. Len(pending') : pending'[j] = Len(samples') + j
    BY <1>1, <1>3
  <1>7. Len(samples') + Len(pending') = written' + CurrentBatchSize'
    <2>1. /\ Len(samples') = written /\ Len(pending') = CurrentBatchSize
          /\ written' = written
      BY <1>1, <1>3
    <2> QED
      BY <2>1, <1>2, <1>4 DEF FileInv, Types
  <1>8. written' <= total' /\ pending' \in Seq(Nat) /\ loop' = "append"
    BY <1>1, <1>3 DEF FileInv, Cursor
  <1> QED
    BY <1>5, <1>6, <1>7, <1>8 DEF FileInv, Cursor

\* The next line is the next sample of the batch.
LEMMA AppendStep == FileInv /\ AppendLine => FileInv'
  <1> SUFFICES ASSUME FileInv, AppendLine PROVE FileInv'
    OBVIOUS
  <1>1. /\ loop = "append" /\ loop' = "append" /\ pending # <<>>
        /\ samples' = Append(samples, Head(pending)) /\ pending' = Tail(pending)
        /\ UNCHANGED <<total, batch, written>>
    BY DEF AppendLine
  <1>2. samples' \in Seq(Nat) /\ Len(samples') = Len(samples) + 1 /\ InOrder'
    BY <1>1, NextLine DEF InOrder
  <1>3. /\ Tail(pending) \in Seq(Nat) /\ Len(Tail(pending)) = Len(pending) - 1
        /\ \A j \in 1 .. Len(Tail(pending)) : Tail(pending)[j] = pending[j + 1]
    BY <1>1 DEF FileInv, Cursor
  <1>4. \A j \in 1 .. Len(pending') : pending'[j] = Len(samples') + j
    BY <1>1, <1>2, <1>3 DEF FileInv, Cursor, Types
  <1>5. CurrentBatchSize' = CurrentBatchSize /\ CurrentBatchSize \in Nat
    BY <1>1, BatchFits DEF CurrentBatchSize
  <1>6. Len(samples') + Len(pending') = written' + CurrentBatchSize'
    <2>1. Len(samples) + Len(pending) = written + CurrentBatchSize
      BY <1>1 DEF FileInv, Cursor
    <2>2. /\ Len(samples') = Len(samples) + 1 /\ Len(pending') = Len(pending) - 1
          /\ written' = written /\ Len(samples) \in Nat /\ Len(pending) \in Nat
      BY <1>1, <1>2, <1>3 DEF FileInv, Types, Cursor
    <2> QED
      BY <2>1, <2>2, <1>5
  <1>7. written' <= total' /\ pending' \in Seq(Nat) /\ Types'
    BY <1>1, <1>2, <1>3 DEF FileInv, Types, Cursor
  <1> QED
    BY <1>1, <1>2, <1>4, <1>6, <1>7 DEF FileInv, Cursor

\* When the batch is on file the cursor is at its end.
LEMMA AppendedStep == FileInv /\ Appended => FileInv'
  <1> SUFFICES ASSUME FileInv, Appended PROVE FileInv'
    OBVIOUS
  <1>1. /\ loop = "append" /\ loop' = "sample" /\ pending = <<>>
        /\ written' = written + CurrentBatchSize
        /\ UNCHANGED <<samples, total, batch>>
    BY DEF Appended, disk
  <1>2. CurrentBatchSize \in Nat /\ written + CurrentBatchSize <= total
    BY <1>1, BatchFits
  <1>3. Len(samples) = written'
    BY <1>1, <1>2 DEF FileInv, Types, Cursor
  <1> QED
    BY <1>1, <1>2, <1>3 DEF FileInv, Types, InOrder, Cursor

\* Every step keeps the invariant.
LEMMA StepInv == FileInv /\ [SamplingNext]_samplingVars => FileInv'
  <1> SUFFICES ASSUME FileInv, [SamplingNext]_samplingVars PROVE FileInv'
    OBVIOUS
  <1>1. CASE \E t \in Totals, b \in BatchSizes : LaunchClean(t, b) \/ LaunchResume(t, b)
    BY <1>1, LaunchStep
  <1>2. CASE (\E t \in Totals : LaunchRefused(t)) \/ Finish \/ Stopped \/ UNCHANGED samplingVars
    BY <1>2 DEF LaunchRefused, Finish, Stopped, samplingVars, disk, process, FileInv, Types,
                InOrder, Cursor, CurrentBatchSize
  <1>3. CASE Sample
    BY <1>3 DEF Sample, disk, FileInv, Types, InOrder, Cursor, CurrentBatchSize
  <1>4. CASE Crash
    <2>1. loop' = "down" /\ UNCHANGED <<total, batch, written>>
      BY <1>4 DEF Crash
    <2>2. samples' \in Seq(Nat) /\ InOrder'
      BY <1>4, NextLine DEF Crash, FileInv, Types, InOrder
    <2> QED
      BY <2>1, <2>2 DEF FileInv, Types, Cursor
  <1> QED
    BY <1>1, <1>2, <1>3, <1>4, DumpStep, AppendStep, AppendedStep DEF SamplingNext

\* The file is empty at first.
LEMMA InitFileInv == SamplingInit => FileInv
  BY SamplingShape DEF SamplingInit, FileInv, Types, InOrder, Cursor

\* However often _run_sampling is cut off and continued, samples.jsonl holds
\* samples 1, 2, 3, ... once each and in order, never more than the total of the
\* process that writes it.
THEOREM Positions == SamplingSpec => []IndexIsPosition
  <1>1. SamplingInit => FileInv
    BY InitFileInv
  <1>2. FileInv => IndexIsPosition
    <2> SUFFICES ASSUME FileInv, loop # "down" PROVE Len(samples) <= total
      BY DEF IndexIsPosition, FileInv, InOrder
    <2>1. loop \in {"sample", "dump", "append", "done"}
      BY DEF FileInv, Types
    <2>2. CurrentBatchSize \in Nat /\ written + CurrentBatchSize <= total
      BY <2>1, BatchFits
    <2>3. CASE loop = "append"
      <3>1. Len(pending) \in Nat /\ Len(samples) + Len(pending) = written + CurrentBatchSize
        BY <2>3 DEF FileInv, Cursor
      <3> QED
        BY <2>2, <3>1 DEF FileInv, Types
    <2> QED
      BY <2>1, <2>3 DEF FileInv, Cursor
  <1> QED
    BY <1>1, <1>2, StepInv, PTL DEF SamplingSpec
-----------------------------------------------------------------------------
(* The numbers of the generations. *)

\* The generation of an index is the first whose batches reach up to it.
LEMMA CeilDivBounds ==
    ASSUME NEW a \in Nat, NEW b \in Nat \ {0}
    PROVE  /\ CeilDiv(a, b) \in Nat
           /\ (CeilDiv(a, b) - 1) * b < a /\ a <= CeilDiv(a, b) * b
  <1>1. CeilDiv(a, b) \in Nat
    BY DEF CeilDiv
  <1>2. a <= CeilDiv(a, b) * b
    BY DEF CeilDiv
  <1>3. (CeilDiv(a, b) - 1) * b < a
    BY DEF CeilDiv
  <1> QED
    BY <1>1, <1>2, <1>3

\* It is at most c just when c batches reach up to the index.
LEMMA CeilDivOrder ==
    ASSUME NEW a \in Nat, NEW b \in Nat \ {0}, NEW c \in Nat
    PROVE  /\ a <= c * b => CeilDiv(a, b) <= c
           /\ c * b < a => c < CeilDiv(a, b)
  <1>1. ASSUME a <= c * b PROVE CeilDiv(a, b) <= c
    BY <1>1 DEF CeilDiv
  <1>2. ASSUME c * b < a PROVE c < CeilDiv(a, b)
    BY <1>2 DEF CeilDiv
  <1> QED
    BY <1>1, <1>2

\* On a batch boundary nothing is rounded.
LEMMA CeilDivExact ==
    ASSUME NEW a \in Nat, NEW b \in Nat \ {0}, a % b = 0
    PROVE  CeilDiv(a, b) * b = a
  <1> DEFINE q == a \div b
  <1>1. q \in Nat /\ a = q * b
    <2>1. a = (a \div b) * b + (a % b)
      OBVIOUS
    <2>2. a \div b \in Nat
      OBVIOUS
    <2> QED
      BY <2>1, <2>2
  <1> HIDE DEF q
  <1>2. CeilDiv(a, b) <= q /\ CeilDiv(a, b) \in Nat /\ a <= CeilDiv(a, b) * b
    <2>1. a <= q * b
      BY <1>1
    <2>2. CeilDiv(a, b) <= q
      BY <1>1, <2>1, CeilDivOrder
    <2> QED
      BY <2>2, CeilDivBounds
  <1>3. CASE CeilDiv(a, b) = q
    BY <1>1, <1>3
  <1>4. CASE CeilDiv(a, b) < q
    <2>1. CeilDiv(a, b) * b < q * b
      BY <1>1, <1>2, <1>4
    <2> QED
      BY <1>1, <1>2, <2>1
  <1> QED
    BY <1>1, <1>2, <1>3, <1>4
-----------------------------------------------------------------------------
(* A finished process leaves less than a batch missing. *)

\* The remaining types.
Args ==
    /\ tail \in {"clean", "open", "torn"} /\ unreadable \in BOOLEAN
    /\ total \in Totals /\ batch \in BatchSizes
    /\ generation \in Nat /\ uniform \in BOOLEAN /\ launches \in 0 .. MaxLaunches
    /\ pending \in Seq(Nat) /\ Len(pending) <= batch

\* The loop's index and the samples on file go together.
Progress ==
    /\ loop \in {"sample", "dump", "append", "done"} =>
          /\ written = total \/ written > (generation - 1) * batch
          /\ uniform => \/ written = generation * batch
                        \/ written = total /\ written <= generation * batch
    /\ loop \in {"dump", "append"} => generation < Generations
    /\ loop = "append" => written <= Len(samples)
    /\ loop = "done" => generation >= Generations

\* Sample k is in the file of the generation it belongs to.
SavedIn(h, b, k) ==
    /\ CeilDiv(k, b) \in DOMAIN h
    /\ \E j \in DOMAIN h[CeilDiv(k, b)] : h[CeilDiv(k, b)][j] = k

\* The samples of a uniform run are all saved, and the batch that is being
\* appended is in its generation's file.
Covered ==
    /\ uniform => \A k \in 1 .. Len(samples) : SavedIn(history, batch, k)
    /\ loop = "append" =>
          /\ generation + 1 \in DOMAIN history
          /\ history[generation + 1] = BatchOf(written, CurrentBatchSize)

SInv == FileInv /\ Args /\ Progress /\ Covered

\* The numbers among the arguments.
LEMMA Numbers ==
    ASSUME SInv
    PROVE  /\ total \in Nat \ {0} /\ batch \in Nat \ {0} /\ generation \in Nat
           /\ written \in Nat /\ Len(samples) \in Nat /\ Generations \in Nat
           /\ total <= Generations * batch /\ (Generations - 1) * batch < total
  <1>1. /\ total \in Nat \ {0} /\ batch \in Nat \ {0} /\ generation \in Nat
        /\ written \in Nat /\ Len(samples) \in Nat
    BY SamplingShape, LenProperties DEF SInv, FileInv, Types, Args
  <1> QED
    BY <1>1, CeilDivBounds DEF Generations

\* Within the loop a uniform process stands at the end of a full batch.
LEMMA AtBoundary ==
    ASSUME SInv, uniform, loop \in {"sample", "dump", "append"}, generation < Generations
    PROVE  written = generation * batch
  <1>1. generation <= Generations - 1
    BY Numbers
  <1>2. generation * batch <= (Generations - 1) * batch
    BY <1>1, Numbers
  <1>3. generation * batch < total /\ generation * batch \in Nat
    BY <1>2, Numbers
  <1> QED
    BY <1>3, Numbers DEF SInv, Progress

\* What MissesLessThanABatch says follows from the invariant.
LEMMA SInvImplies == SInv => MissesLessThanABatch
  <1> SUFFICES ASSUME SInv PROVE MissesLessThanABatch
    OBVIOUS
  <1>1. ASSUME loop = "done" PROVE Len(samples) > total - batch
    <2>1. Len(samples) = written /\ generation >= Generations
      BY <1>1 DEF SInv, FileInv, Cursor, Progress
    <2>2. CASE written = total
      BY <2>1, <2>2, Numbers
    <2>3. CASE written > (generation - 1) * batch
      <3>1. total <= generation * batch
        <4>1. Generations * batch <= generation * batch
          BY <2>1, Numbers
        <4>2. generation * batch \in Nat /\ Generations * batch \in Nat
          BY Numbers
        <4> QED
          BY <4>1, <4>2, Numbers
      <3>2. (generation - 1) * batch = generation * batch - batch
        BY Numbers
      <3>3. generation * batch \in Nat
        BY Numbers
      <3> QED
        BY <2>1, <2>3, <3>1, <3>2, <3>3, Numbers
    <2> QED
      BY <1>1, <2>2, <2>3 DEF SInv, Progress
  <1>2. ASSUME loop = "done", uniform PROVE Len(samples) = total
    <2>1. Len(samples) = written /\ generation >= Generations /\ written <= total
      BY <1>2 DEF SInv, FileInv, Cursor, Progress
    <2>2. CASE written = total
      BY <2>1, <2>2
    <2>3. CASE written = generation * batch
      <3>1. Generations * batch <= generation * batch
        BY <2>1, Numbers
      <3>2. generation * batch \in Nat /\ Generations * batch \in Nat
        BY Numbers
      <3> QED
        BY <2>1, <2>3, <3>1, <3>2, Numbers
    <2> QED
      BY <1>2, <2>2, <2>3 DEF SInv, Progress
  <1>3. ASSUME uniform, NEW k \in DOMAIN samples
        PROVE  \E n \in DOMAIN history : \E j \in DOMAIN history[n] : history[n][j] = samples[k]
    <2>1. k \in 1 .. Len(samples) /\ samples[k] = k
      BY LenProperties DEF SInv, FileInv, Types, InOrder
    <2> QED
      BY <1>3, <2>1 DEF SInv, Covered, SavedIn
  <1> QED
    BY <1>1, <1>2, <1>3 DEF MissesLessThanABatch

\* A launch finds the file empty, or stands behind the samples it can read; a
\* uniform one stands behind whole batches.
LEMMA LaunchSInv ==
    ASSUME SInv, NEW t \in Totals, NEW b \in BatchSizes,
           LaunchClean(t, b) \/ LaunchResume(t, b)
    PROVE  SInv'
  <1>1. t \in Nat \ {0} /\ b \in Nat \ {0} /\ MaxLaunches \in Nat
    BY SamplingShape
  <1>2. FileInv'
    BY LaunchStep DEF SInv
  <1>3. CASE LaunchClean(t, b)
    <2>1. /\ samples' = <<>> /\ tail' = "clean" /\ unreadable' = FALSE /\ uniform' = TRUE
          /\ loop' = "sample" /\ total' = t /\ batch' = b /\ written' = 0 /\ generation' = 0
          /\ pending' = <<>> /\ launches < MaxLaunches /\ launches' = launches + 1
      BY <1>3 DEF LaunchClean, SamplingLaunch
    <2>2. launches' \in 0 .. MaxLaunches
      BY <1>1, <2>1 DEF SInv, Args
    <2>3. Args'
      <3>1. pending' \in Seq(Nat) /\ Len(pending') = 0
        BY <2>1, EmptySeq
      <3>2. Len(pending') <= batch' /\ generation' \in Nat
        BY <1>1, <2>1, <3>1
      <3> QED
        BY <2>1, <2>2, <3>1, <3>2 DEF Args
    <2>4. Progress'
      BY <1>1, <2>1 DEF Progress
    <2>5. Covered'
      BY <2>1 DEF Covered
    <2> QED
      BY <1>2, <2>3, <2>4, <2>5 DEF SInv
  <1>4. CASE LaunchResume(t, b)
    <2>1. /\ UNCHANGED <<samples, tail, unreadable, history>>
          /\ uniform' = (uniform /\ b = batch /\ Len(samples) % b = 0)
          /\ loop' = "sample" /\ total' = t /\ batch' = b /\ written' = Len(samples)
          /\ generation' = CeilDiv(Len(samples), b)
          /\ pending' = <<>> /\ launches < MaxLaunches /\ launches' = launches + 1
      BY <1>4 DEF LaunchResume, SamplingLaunch
    <2>2. launches' \in 0 .. MaxLaunches
      BY <1>1, <2>1 DEF SInv, Args
    <2>3. Len(samples) \in Nat
      BY Numbers
    <2>4. /\ generation' \in Nat /\ (generation' - 1) * b < Len(samples)
          /\ (Len(samples) % b = 0) => generation' * b = Len(samples)
      BY <1>1, <2>1, <2>3, CeilDivBounds, CeilDivExact
    <2>5. Args'
      BY <1>1, <2>1, <2>2, <2>4 DEF SInv, Args
    <2>6. Progress'
      BY <2>1, <2>4 DEF Progress
    <2>7. Covered'
      BY <2>1 DEF SInv, Covered, SavedIn
    <2> QED
      BY <1>2, <2>5, <2>6, <2>7 DEF SInv
  <1> QED
    BY <1>3, <1>4

\* A batch is drawn only below the number of generations.
LEMMA SampleSInv == ASSUME SInv, Sample PROVE SInv'
  <1>1. /\ loop = "sample" /\ loop' = "dump" /\ generation < Generations
        /\ pending' = BatchOf(written, CurrentBatchSize)
        /\ UNCHANGED <<samples, tail, unreadable, history, total, batch, generation, written,
                       uniform, launches>>
    BY DEF Sample, disk
  <1>2. FileInv'
    BY StepInv DEF SInv, SamplingNext
  <1>3. CurrentBatchSize \in Nat /\ CurrentBatchSize <= batch
    BY <1>1, BatchFits, Numbers DEF SInv, CurrentBatchSize
  <1>4. pending' \in Seq(Nat) /\ Len(pending') = CurrentBatchSize
    BY <1>1, <1>3, Numbers DEF BatchOf
  <1>5. Args'
    BY <1>1, <1>3, <1>4 DEF SInv, Args
  <1>6. Progress'
    BY <1>1 DEF SInv, Progress, Generations
  <1>7. Covered'
    BY <1>1 DEF SInv, Covered, SavedIn
  <1> QED
    BY <1>2, <1>5, <1>6, <1>7 DEF SInv

\* The generation file that is overwritten holds none of a uniform run's samples.
LEMMA DumpSInv == ASSUME SInv, Dump PROVE SInv'
  <1>1. /\ loop = "dump" /\ loop' = "append"
        /\ history' = [n \in DOMAIN history \cup {generation + 1} |->
                          IF n = generation + 1 THEN pending ELSE history[n]]
        /\ UNCHANGED <<samples, tail, unreadable, total, batch, generation, written, pending,
                       uniform, launches>>
    BY DEF Dump
  <1>2. FileInv'
    BY StepInv DEF SInv, SamplingNext
  <1>3. Args'
    BY <1>1 DEF SInv, Args
  <1>4. Progress'
    <2>1. written' <= Len(samples')
      BY <1>1, Numbers DEF SInv, FileInv, Cursor
    <2> QED
      BY <1>1, <2>1 DEF SInv, Progress, Generations
  <1>5. /\ generation + 1 \in DOMAIN history' /\ history'[generation + 1] = pending
        /\ \A n \in DOMAIN history : n # generation + 1 =>
              n \in DOMAIN history' /\ history'[n] = history[n]
    BY <1>1
  <1>6. pending = BatchOf(written, CurrentBatchSize)
    BY <1>1 DEF SInv, FileInv, Cursor
  <1>7. ASSUME uniform, NEW k \in 1 .. Len(samples) PROVE SavedIn(history', batch, k)
    <2>1. k \in Nat /\ k <= generation * batch
      BY <1>1, <1>7, AtBoundary, Numbers DEF SInv, FileInv, Cursor, Progress
    <2>2. CeilDiv(k, batch) <= generation /\ CeilDiv(k, batch) \in Nat
      BY <2>1, CeilDivOrder, CeilDivBounds, Numbers
    <2>3. CeilDiv(k, batch) # generation + 1
      BY <2>2, Numbers
    <2>4. SavedIn(history, batch, k)
      BY <1>7 DEF SInv, Covered
    <2> QED
      BY <1>5, <2>3, <2>4 DEF SavedIn
  <1>8. Covered'
    <2>1. CurrentBatchSize' = CurrentBatchSize
      BY <1>1 DEF CurrentBatchSize
    <2> QED
      BY <1>1, <1>5, <1>6, <1>7, <2>1 DEF Covered, BatchOf
  <1> QED
    BY <1>2, <1>3, <1>4, <1>8 DEF SInv

\* The sample that is appended next is in its generation's file.
LEMMA NextIsSaved ==
    ASSUME SInv, loop = "append", pending # <<>>, uniform
    PROVE  SavedIn(history, batch, Len(samples) + 1)
  <1>1. generation < Generations /\ written = generation * batch
    BY AtBoundary DEF SInv, Progress
  <1>2. CurrentBatchSize \in Nat /\ CurrentBatchSize <= batch
    BY BatchFits, Numbers DEF SInv, CurrentBatchSize
  <1>3. /\ Len(pending) \in Nat \ {0}
        /\ Len(samples) + Len(pending) = written + CurrentBatchSize
    BY EmptySeq, LenProperties DEF SInv, FileInv, Cursor
  <1> DEFINE k == Len(samples) + 1
  <1>4. Len(pending) <= CurrentBatchSize
    <2>1. written <= Len(samples)
      BY DEF SInv, Progress
    <2> QED
      BY <1>2, <1>3, <2>1, Numbers
  <1>5. k \in Nat /\ generation * batch < k /\ k <= generation * batch + batch
    BY <1>1, <1>2, <1>3, <1>4, Numbers
  <1>6. k <= (generation + 1) * batch
    <2>1. (generation + 1) * batch = generation * batch + batch
      BY Numbers
    <2> QED
      BY <1>5, <2>1
  <1> HIDE DEF k
  <1>7. CeilDiv(k, batch) = generation + 1
    <2>1. CeilDiv(k, batch) \in Nat /\ generation < CeilDiv(k, batch)
      BY <1>5, CeilDivOrder, CeilDivBounds, Numbers
    <2>2. CeilDiv(k, batch) <= generation + 1
      <3>1. generation + 1 \in Nat
        BY Numbers
      <3> QED
        BY <1>5, <1>6, <3>1, CeilDivOrder, Numbers
    <2> QED
      BY <2>1, <2>2, Numbers
  <1>8. k - written \in 1 .. CurrentBatchSize
    <2>1. k <= Len(samples) + Len(pending)
      BY <1>3, Numbers DEF k
    <2>2. written < k
      BY <1>1, <1>5
    <2> QED
      BY <1>2, <1>3, <1>5, <2>1, <2>2, Numbers
  <1>9. /\ DOMAIN BatchOf(written, CurrentBatchSize) = 1 .. CurrentBatchSize
        /\ BatchOf(written, CurrentBatchSize)[k - written] = k
    BY <1>5, <1>8, Numbers DEF BatchOf
  <1> QED
    BY <1>7, <1>8, <1>9 DEF SInv, Covered, SavedIn, k

\* What appending the next sample, whole or without its newline, leaves saved.
LEMMA AppendedIsSaved ==
    ASSUME SInv, loop = "append", pending # <<>>, samples' = Append(samples, Head(pending)), uniform,
           UNCHANGED <<history, batch>>, NEW k \in 1 .. Len(samples')
    PROVE  SavedIn(history', batch', k)
  <1>1. Len(samples') = Len(samples) + 1 /\ Len(samples) \in Nat
    BY NextLine, Numbers DEF SInv
  <1>2. CASE k = Len(samples) + 1
    BY <1>2, NextIsSaved
  <1>3. CASE k \in 1 .. Len(samples)
    BY <1>3 DEF SInv, Covered
  <1> QED
    BY <1>1, <1>2, <1>3

\* A line more is a sample more that is saved.
LEMMA AppendSInv == ASSUME SInv, AppendLine PROVE SInv'
  <1>1. /\ loop = "append" /\ pending # <<>> /\ samples' = Append(samples, Head(pending))
        /\ pending' = Tail(pending) /\ unreadable' = (unreadable \/ tail = "open")
        /\ tail' = "clean"
        /\ UNCHANGED <<history, loop, total, batch, generation, written, uniform, launches>>
    BY DEF AppendLine
  <1>2. FileInv'
    BY StepInv DEF SInv, SamplingNext
  <1>3. pending' \in Seq(Nat) /\ Len(pending') <= batch'
    BY <1>1, HeadTailProperties, LenProperties, Numbers DEF SInv, Args
  <1>4. Args'
    BY <1>1, <1>3 DEF SInv, Args
  <1>5. Len(samples') = Len(samples) + 1
    BY <1>1, NextLine DEF SInv
  <1>6. Progress'
    BY <1>1, <1>5, Numbers DEF SInv, Progress, Generations
  <1>7. Covered'
    <2>1. CurrentBatchSize' = CurrentBatchSize
      BY <1>1 DEF CurrentBatchSize
    <2> QED
      BY <1>1, <2>1, AppendedIsSaved DEF SInv, Covered, BatchOf
  <1> QED
    BY <1>2, <1>4, <1>6, <1>7 DEF SInv

\* The next generation begins at the next batch, or behind the total.
LEMMA AppendedSInv == ASSUME SInv, Appended PROVE SInv'
  <1>1. /\ loop = "append" /\ loop' = "sample" /\ pending = <<>>
        /\ written' = written + CurrentBatchSize /\ generation' = generation + 1
        /\ UNCHANGED <<samples, tail, unreadable, history, total, batch, pending, uniform, launches>>
    BY DEF Appended, disk
  <1>2. FileInv'
    BY StepInv DEF SInv, SamplingNext
  <1>3. Args'
    BY <1>1, Numbers DEF SInv, Args
  <1>4. Covered'
    BY <1>1 DEF SInv, Covered, SavedIn
  <1>5. /\ (generation' - 1) * batch = generation * batch
        /\ generation' * batch = generation * batch + batch
        /\ (generation - 1) * batch = generation * batch - batch
        /\ generation * batch \in Nat
    <2>1. ASSUME NEW g \in Nat, NEW b \in Nat \ {0}
          PROVE  /\ g + 1 - 1 = g /\ (g + 1) * b = g * b + b
                 /\ (g - 1) * b = g * b - b /\ g * b \in Nat
      OBVIOUS
    <2>2. generation \in Nat /\ batch \in Nat \ {0} /\ generation' = generation + 1
      BY <1>1, Numbers
    <2>3. /\ generation + 1 - 1 = generation
          /\ (generation + 1) * batch = generation * batch + batch
          /\ (generation - 1) * batch = generation * batch - batch /\ generation * batch \in Nat
      BY <2>1, <2>2
    <2> QED
      BY <2>2, <2>3
  <1>6. written' = written + batch \/ written' = total
    BY <1>1, Numbers DEF CurrentBatchSize
  <1>7. written' = total \/ written' > (generation' - 1) * batch
    <2>1. CASE written = total
      BY <1>1, <1>6, <2>1, BatchFits, Numbers DEF SInv
    <2>2. CASE written > (generation - 1) * batch
      BY <1>5, <1>6, <2>2, Numbers
    <2> QED
      BY <1>1, <2>1, <2>2 DEF SInv, Progress
  <1>8. ASSUME uniform
        PROVE  \/ written' = generation' * batch
               \/ written' = total /\ written' <= generation' * batch
    <2>1. written = generation * batch
      BY <1>1, <1>8, AtBoundary DEF SInv, Progress
    <2>2. CurrentBatchSize \in Nat /\ CurrentBatchSize <= batch
      BY <1>1, BatchFits, Numbers DEF SInv, CurrentBatchSize
    <2>3. written' <= generation' * batch
      BY <1>1, <1>5, <2>1, <2>2, Numbers
    <2> QED
      BY <1>5, <1>6, <2>1, <2>3
  <1>9. Progress'
    BY <1>1, <1>7, <1>8 DEF Progress
  <1> QED
    BY <1>2, <1>3, <1>4, <1>9 DEF SInv

\* A killed process leaves its file as it is, or with one sample more.
LEMMA CrashSInv == ASSUME SInv, Crash PROVE SInv'
  <1>1. /\ loop' = "down"
        /\ UNCHANGED <<history, total, batch, generation, written, pending, uniform, launches>>
        /\ \/ UNCHANGED <<samples, tail, unreadable>>
           \/ tail' = "torn" /\ UNCHANGED <<samples, unreadable>>
           \/ /\ loop = "append" /\ pending # <<>>
              /\ samples' = Append(samples, Head(pending))
              /\ unreadable' = (unreadable \/ tail = "open") /\ tail' = "open"
    BY DEF Crash
  <1>2. FileInv'
    BY StepInv DEF SInv, SamplingNext
  <1>3. Args'
    BY <1>1 DEF SInv, Args
  <1>4. Progress'
    BY <1>1 DEF Progress
  <1>5. Covered'
    <2>1. CASE samples' = samples
      BY <1>1, <2>1 DEF SInv, Covered, SavedIn
    <2>2. CASE /\ loop = "append" /\ pending # <<>> /\ samples' = Append(samples, Head(pending))
      BY <1>1, <2>2, AppendedIsSaved DEF Covered
    <2> QED
      BY <1>1, <2>1, <2>2
  <1> QED
    BY <1>2, <1>3, <1>4, <1>5 DEF SInv

\* The loop ends at the number of generations.
LEMMA FinishSInv == ASSUME SInv, Finish PROVE SInv'
  <1>1. /\ loop = "sample" /\ loop' = "done" /\ generation >= Generations
        /\ UNCHANGED <<samples, tail, unreadable, history, total, batch, generation, written,
                       pending, uniform, launches>>
    BY DEF Finish, disk
  <1>2. FileInv'
    BY StepInv DEF SInv, SamplingNext
  <1> QED
    BY <1>1, <1>2 DEF SInv, Args, Progress, Covered, SavedIn, Generations

\* A launch that is refused leaves no process.
LEMMA RefusedSInv == ASSUME SInv, NEW t \in Totals, LaunchRefused(t) PROVE SInv'
  <1>1. /\ loop' = "down" /\ launches' = launches + 1 /\ launches \in 1 .. MaxLaunches - 1
        /\ UNCHANGED <<samples, tail, unreadable, history, total, batch, generation, written,
                       pending, uniform>>
    BY DEF LaunchRefused, disk
  <1>2. FileInv'
    BY StepInv DEF SInv, SamplingNext
  <1>3. launches' \in 0 .. MaxLaunches
    BY <1>1, SamplingShape
  <1> QED
    BY <1>1, <1>2, <1>3 DEF SInv, Args, Progress, Covered, SavedIn

\* Every step keeps the invariant.
LEMMA StepSInv == SInv /\ [SamplingNext]_samplingVars => SInv'
  <1> SUFFICES ASSUME SInv, [SamplingNext]_samplingVars PROVE SInv'
    OBVIOUS
  <1>1. CASE Stopped \/ UNCHANGED samplingVars
    <2>1. UNCHANGED <<samples, tail, unreadable, history, loop, total, batch, generation, written,
                     pending, uniform, launches>>
      BY <1>1 DEF Stopped, samplingVars, disk, process
    <2>2. FileInv'
      BY StepInv DEF SInv
    <2>3. CurrentBatchSize' = CurrentBatchSize
      BY <2>1 DEF CurrentBatchSize
    <2> QED
      BY <2>1, <2>2, <2>3
         DEF SInv, Args, Progress, Covered, SavedIn, Generations, BatchOf
  <1> QED
    BY <1>1, LaunchSInv, SampleSInv, DumpSInv, AppendSInv, AppendedSInv, CrashSInv, FinishSInv,
       RefusedSInv DEF SamplingNext

\* The first launch starts clean.
LEMMA InitSInv == SamplingInit => SInv
  <1> SUFFICES ASSUME SamplingInit PROVE SInv
    OBVIOUS
  <1>1. total \in Nat /\ batch \in Nat /\ MaxLaunches \in Nat
    BY SamplingShape DEF SamplingInit
  <1>2. pending \in Seq(Nat) /\ Len(pending) = 0 /\ Len(samples) = 0
    BY EmptySeq DEF SamplingInit
  <1>3. Args
    <2>1. launches \in 0 .. MaxLaunches /\ Len(pending) <= batch /\ generation \in Nat
      BY <1>1, <1>2 DEF SamplingInit
    <2> QED
      BY <1>2, <2>1 DEF SamplingInit, Args
  <1>4. Progress /\ Covered
    BY <1>2 DEF SamplingInit, Progress, Covered
  <1> QED
    BY <1>3, <1>4, InitFileInv DEF SInv

\* Every variable keeps its type.
THEOREM SamplingTyped == SamplingSpec => []SamplingTypeOK
  <1>1. SInv => SamplingTypeOK
    BY DEF SInv, FileInv, Types, Args, SamplingTypeOK
  <1> QED
    BY <1>1, InitSInv, StepSInv, PTL DEF SamplingSpec

\* A process that _run_sampling lets finish leaves fewer samples missing than one
\* batch, and none when every resume was on a batch boundary; every sample of
\* such a run is in a generation file.
THEOREM BatchMissing == SamplingSpec => []MissesLessThanABatch
  BY InitSInv, StepSInv, SInvImplies, PTL DEF SamplingSpec
================================================================================
