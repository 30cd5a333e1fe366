---------------------------- MODULE EvalResumeProofs ----------------------------
(***************************************************************************)
(* Proofs that an evaluator keeps its limits, and that however often the   *)
(* stage is killed and resumed no key is answered twice and no row lost,   *)
(* for any keys, concurrency, tolerated errors and faults.                 *)
(***************************************************************************)
EXTENDS EvalResume, FiniteSetTheorems, SequenceTheorems, WellFoundedInduction, TLAPS

\* RequestsBounded is inductive once the requests in flight are known to be keys.
IInv == busy \subseteq Keys /\ errors \in Nat /\ RequestsBounded

\* There are finitely many requests in flight.
LEMMA BusyFinite == IInv => IsFiniteSet(busy) /\ Cardinality(busy) \in Nat
  BY EvalShape, FS_Subset, FS_CardinalityType DEF IInv

\* A request more, and one less.
LEMMA OneMore ==
    ASSUME IInv, NEW k, k \notin busy
    PROVE  Cardinality(busy \cup {k}) = Cardinality(busy) + 1
  BY BusyFinite, FS_AddElement

\* Taking one key out of a finite set makes it smaller by one.
LEMMA OneLess ==
    ASSUME IInv, NEW k \in busy
    PROVE  Cardinality(busy \ {k}) = Cardinality(busy) - 1
  BY BusyFinite, FS_RemoveElement

\* An evaluator that has just started or is gone has no request in flight.
LEMMA NoneInFlight ==
    ASSUME IInv, busy' = {}, errors' \in {0, errors} PROVE IInv'
  <1>1. Cardinality(busy') = 0
    BY FS_EmptySet
  <1> QED
    BY <1>1, BusyFinite, EvalShape DEF IInv, RequestsBounded, Aborted

\* The limits are looked at again under the semaphore.
LEMMA AskStep == ASSUME IInv, NEW k \in Keys, Ask(k), k \notin busy PROVE IInv'
  <1>1. /\ busy' = busy \cup {k} /\ errors' = errors
        /\ errors < MaxErrors /\ Cardinality(busy) < Concurrency
    BY EvalShape DEF Ask, Aborted, IInv
  <1>2. Cardinality(busy') = Cardinality(busy) + 1
    BY <1>1, OneMore
  <1> QED
    BY <1>1, <1>2, BusyFinite, EvalShape DEF IInv, RequestsBounded, Aborted

\* A failed request is one more error and one request less.
LEMMA AnswerStep == ASSUME IInv, NEW k \in Keys, NEW kind, Answer(k, kind) PROVE IInv'
  <1>1. k \in busy /\ busy' = busy \ {k} /\ errors' \in {errors, errors + 1}
    BY DEF Answer, IInv
  <1>2. Cardinality(busy') = Cardinality(busy) - 1
    BY <1>1, OneLess
  <1>3. CASE errors >= MaxErrors
    BY <1>1, <1>2, <1>3, BusyFinite, EvalShape DEF IInv, RequestsBounded, Aborted
  <1>4. CASE errors < MaxErrors
    BY <1>1, <1>2, <1>4, BusyFinite, EvalShape DEF IInv, RequestsBounded, Aborted
  <1> QED
    BY <1>3, <1>4, EvalShape DEF IInv

\* A key already asked for leaves the set of requests as it is.
LEMMA AskAgain == ASSUME IInv, NEW k \in Keys, Ask(k), k \in busy PROVE IInv'
  <1>1. busy' = busy /\ errors' = errors
    BY DEF Ask
  <1> QED
    BY <1>1 DEF IInv, RequestsBounded, Aborted

\* Every step keeps the bounds; only asking and recording touch what they count.
LEMMA StepInv == IInv /\ [Next]_vars => IInv'
  <1> SUFFICES ASSUME IInv, [Next]_vars PROVE IInv'
    OBVIOUS
  <1>1. CASE Rewrite \/ EvaluatorDies \/ StopAll \/ EvaluatorDone
    <2>1. busy' = {} /\ errors' \in {0, errors}
      BY <1>1 DEF Rewrite, EvaluatorDies, StopAll, EvaluatorDone, NoJobs
    <2> QED
      BY <2>1, NoneInFlight
  <1>2. CASE \E k \in Keys : Ask(k)
    BY <1>2, AskStep, AskAgain
  <1>3. CASE \E k \in Keys, kind \in Kinds \ {"torn"} : Answer(k, kind)
    BY <1>3, AnswerStep
  <1>4. CASE UNCHANGED <<busy, errors>>
    BY <1>4 DEF IInv, RequestsBounded, Aborted
  <1>5. CASE ArchiveErrors \/ ArchiveRetries \/ LauncherNext \/ SupervisorNext
    <2>1. UNCHANGED <<busy, errors>>
      BY <1>5 DEF ArchiveErrors, ArchiveRetries, LauncherNext, CheckExits, StartServers, WriteManifest,
           LauncherDone, LauncherStep, SupervisorNext, Start, Inspect, Launch,
           FoundComplete, Reap, SupervisorStep, jobs
    <2> QED
      BY <1>4, <2>1
  <1>6. CASE ServersFail \/ LauncherKilled \/ SupervisorDies \/ Stopped \/ UNCHANGED vars
    <2>1. UNCHANGED <<busy, errors>>
      BY <1>6 DEF ServersFail, LauncherKilled, SupervisorDies, Stopped, vars, jobs
    <2> QED
      BY <1>4, <2>1
  <1> QED
    BY <1>1, <1>2, <1>3, <1>5, <1>6 DEF Next, EvaluatorNext

\* run_dataset never has more than --concurrency requests in flight, and records
\* at most --max-errors failures and those in flight beside the last.
THEOREM Bounded == Spec => []RequestsBounded
  <1>1. Init => IInv
    BY EvalShape, FS_EmptySet DEF Init, IInv, RequestsBounded, Aborted
  <1>2. IInv => RequestsBounded
    BY DEF IInv
  <1> QED
    BY <1>1, <1>2, StepInv, PTL DEF Spec
-----------------------------------------------------------------------------
(* The lines that a resumed launch keeps, in their order. *)

\* The natural numbers are well ordered.
LEMMA NatMin ==
    ASSUME NEW T, T \subseteq Nat, T # {}
    PROVE  \E n \in T : \A m \in T : n <= m
  <1> DEFINE R == {p \in Nat \X Nat : p[1] < p[2]}
  <1>1. IsWellFoundedOn(R, Nat)
    BY NatLessThanWellFounded DEF OpToRel
  <1>2. \A m, n \in Nat : m < n => <<m, n>> \in R
    OBVIOUS
  <1> HIDE DEF R
  <1>3. PICK n \in T : \A m \in T : ~ (<<m, n>> \in R)
    BY <1>1, WFMin
  <1>4. ASSUME NEW m \in T PROVE n <= m
    <2>1. m \in Nat /\ n \in Nat /\ ~ (m < n)
      BY <1>2, <1>3
    <2> QED
      BY <2>1
  <1> QED
    BY <1>4

\* The members of K up to i, and how many they are.
UpTo(K, i) == K \cap (1 .. i)
Rank(K, i) == Cardinality(UpTo(K, i))

\* The rank is a number, no larger than that of the whole set.
LEMMA RankType ==
    ASSUME NEW m \in Nat, NEW K \in SUBSET (1 .. m), NEW i \in Nat
    PROVE  /\ IsFiniteSet(K) /\ Cardinality(K) \in Nat
           /\ IsFiniteSet(UpTo(K, i)) /\ Rank(K, i) \in Nat /\ Rank(K, i) <= Cardinality(K)
  <1>1. IsFiniteSet(1 .. m)
    BY FS_Interval
  <1>2. IsFiniteSet(K) /\ Cardinality(K) \in Nat
    BY <1>1, FS_Subset, FS_CardinalityType
  <1>3. UpTo(K, i) \subseteq K
    BY DEF UpTo
  <1> QED
    BY <1>2, <1>3, FS_Subset, FS_CardinalityType DEF Rank

\* One number further, the rank grows by one at a member and else stays.
LEMMA RankStep ==
    ASSUME NEW m \in Nat, NEW K \in SUBSET (1 .. m), NEW i \in Nat \ {0}
    PROVE  Rank(K, i) = Rank(K, i - 1) + (IF i \in K THEN 1 ELSE 0)
  <1>1. i \notin UpTo(K, i - 1)
    BY DEF UpTo
  <1>2. IsFiniteSet(UpTo(K, i - 1)) /\ Rank(K, i - 1) \in Nat
    <2>1. i - 1 \in Nat
      OBVIOUS
    <2> QED
      BY <2>1, RankType
  <1>3. CASE i \in K
    <2>1. UpTo(K, i) = UpTo(K, i - 1) \cup {i}
      BY <1>3 DEF UpTo
    <2> QED
      BY <1>1, <1>2, <1>3, <2>1, FS_AddElement DEF Rank
  <1>4. CASE i \notin K
    <2>1. UpTo(K, i) = UpTo(K, i - 1)
      BY <1>4 DEF UpTo
    <2> QED
      BY <1>2, <1>4, <2>1 DEF Rank
  <1> QED
    BY <1>3, <1>4

\* Every rank up to the size of the set is that of a member.
LEMMA RankOnto ==
    ASSUME NEW m \in Nat, NEW K \in SUBSET (1 .. m), NEW n \in 1 .. Cardinality(K)
    PROVE  \E i \in K : Rank(K, i) = n
  <1> DEFINE T == {i \in Nat : n <= Rank(K, i)}
  <1>1. m \in T
    <2>1. UpTo(K, m) = K
      BY DEF UpTo
    <2> QED
      BY <2>1 DEF Rank
  <1>2. PICK i \in T : \A j \in T : i <= j
    <2> HIDE DEF T
    <2>1. T \subseteq Nat
      BY DEF T
    <2> QED
      BY <1>1, <2>1, NatMin
  <1>3. Rank(K, 0) = 0
    <2>1. UpTo(K, 0) = {}
      BY DEF UpTo
    <2> QED
      BY <2>1, FS_EmptySet DEF Rank
  <1>4. i \in Nat \ {0} /\ n <= Rank(K, i)
    BY <1>3
  <1>5. Rank(K, i - 1) < n
    <2>1. i - 1 \notin T
      BY <1>2, <1>4
    <2>2. i - 1 \in Nat
      BY <1>4
    <2>3. Rank(K, i - 1) \in Nat
      BY <2>2, RankType
    <2> QED
      BY <2>1, <2>2, <2>3
  <1>6. Rank(K, i) = Rank(K, i - 1) + (IF i \in K THEN 1 ELSE 0)
    BY <1>4, RankStep
  <1>7. Rank(K, i - 1) \in Nat
    <2>1. i - 1 \in Nat
      BY <1>4
    <2> QED
      BY <2>1, RankType
  <1> QED
    BY <1>4, <1>5, <1>6, <1>7

\* A member has a higher rank than those before it.
LEMMA RankHigher ==
    ASSUME NEW m \in Nat, NEW K \in SUBSET (1 .. m), NEW i \in K, NEW j \in K, i < j
    PROVE  Rank(K, i) < Rank(K, j)
  <1>1. /\ IsFiniteSet(UpTo(K, i)) /\ Rank(K, i) \in Nat
        /\ IsFiniteSet(UpTo(K, j)) /\ Rank(K, j) \in Nat
    <2>1. i \in Nat /\ j \in Nat
      OBVIOUS
    <2> QED
      BY <2>1, RankType
  <1>2. UpTo(K, i) \cup {j} \subseteq UpTo(K, j) /\ j \notin UpTo(K, i)
    BY DEF UpTo
  <1>3. Cardinality(UpTo(K, i) \cup {j}) = Rank(K, i) + 1
    BY <1>1, <1>2, FS_AddElement DEF Rank
  <1>4. Cardinality(UpTo(K, i) \cup {j}) <= Rank(K, j)
    BY <1>1, <1>2, FS_Subset DEF Rank
  <1> QED
    BY <1>1, <1>3, <1>4

\* The line that prepare_resume_output writes at n is one it keeps, of rank n.
LEMMA ResumedLine ==
    ASSUME NEW S, out \in Seq(S), NEW n \in 1 .. Cardinality(Kept)
    PROVE  \E i \in Kept : Rank(Kept, i) = n /\ Resumed[n] = out[i]
  <1>1. Len(out) \in Nat /\ Kept \in SUBSET (1 .. Len(out))
    BY LenProperties DEF Kept
  <1>2. \E i \in Kept : Rank(Kept, i) = n
    BY <1>1, RankOnto
  <1>3. \A i : Cardinality(Kept \cap (1 .. i)) = Rank(Kept, i)
    BY DEF Rank, UpTo
  <1> QED
    BY <1>2, <1>3 DEF Resumed

\* Every line it keeps is written.
LEMMA KeptLine ==
    ASSUME NEW S, out \in Seq(S), NEW i \in Kept
    PROVE  /\ Rank(Kept, i) \in 1 .. Cardinality(Kept)
           /\ Resumed[Rank(Kept, i)] = out[i]
  <1>1. Len(out) \in Nat /\ Kept \in SUBSET (1 .. Len(out)) /\ i \in Nat \ {0}
    BY LenProperties DEF Kept
  <1>2. Rank(Kept, i) \in 1 .. Cardinality(Kept)
    <2>1. i - 1 \in Nat
      BY <1>1
    <2>2. Rank(Kept, i - 1) \in Nat
      BY <1>1, <2>1, RankType
    <2>3. Rank(Kept, i) = Rank(Kept, i - 1) + 1
      BY <1>1, RankStep
    <2>4. Rank(Kept, i) <= Cardinality(Kept) /\ Cardinality(Kept) \in Nat
      BY <1>1, RankType
    <2> QED
      BY <2>2, <2>3, <2>4
  <1>3. PICK j \in Kept : Rank(Kept, j) = Rank(Kept, i) /\ Resumed[Rank(Kept, i)] = out[j]
    BY <1>2, ResumedLine
  <1>4. i = j
    <2>1. /\ i < j => Rank(Kept, i) < Rank(Kept, j)
          /\ j < i => Rank(Kept, j) < Rank(Kept, i)
      BY <1>1, RankHigher
    <2>2. j \in Nat
      BY <1>1
    <2> QED
      BY <1>1, <1>2, <1>3, <2>1, <2>2
  <1> QED
    BY <1>2, <1>3, <1>4

\* What it writes is a sequence of the lines of the file.
LEMMA ResumedType ==
    ASSUME NEW S, out \in Seq(S)
    PROVE  Resumed \in Seq(S) /\ Len(Resumed) = Cardinality(Kept)
  <1>1. Len(out) \in Nat /\ Kept \in SUBSET (1 .. Len(out)) /\ Cardinality(Kept) \in Nat
    BY LenProperties, RankType DEF Kept
  <1>2. \A n \in 1 .. Cardinality(Kept) : Resumed[n] \in S
    BY <1>1, ResumedLine, ElementOfSeq
  <1>3. Resumed = [n \in 1 .. Cardinality(Kept) |-> Resumed[n]]
    BY DEF Resumed
  <1>4. Resumed \in [1 .. Cardinality(Kept) -> S]
    BY <1>2, <1>3
  <1> QED
    BY <1>1, <1>4, SeqDef, LenProperties
-----------------------------------------------------------------------------
(* No key is answered twice. *)

Line == [key : Keys, try : Nat, kind : Kinds]
ArchiveLine == [key : Keys, try : Nat, kind : Kinds \ {"ok"}]
\* A row is in an archive, on a line of its own or joined to a part of another.
Filed(r) == r \in archive \/ Torn(r) \in archive
\* Each row that was joined, and each archive cut just now, cost a death.
TornRows == {r \in archive : r.kind = "torn"}
Paid == IsFiniteSet(TornRows) /\ Cardinality(TornRows) + Cardinality(cut) <= faults

\* Who holds the GPUs, and who may write the file: a launcher that has not
\* started its evaluator is alone.
Wired ==
    /\ ~servers => evaluator = "off" /\ launcher \in {"off", "check"}
    /\ launcher = "check" => sup = "child" /\ ~servers
    /\ launcher = "serve" => evaluator = "off" /\ ~Complete

\* What the evaluator knows of the file: it was started on one that is not
\* complete, archives what it will drop, and has no row of a key it still asks.
Fresh ==
    /\ unterminated => out # <<>>
    /\ evaluator \in {"archive", "retries", "rewrite"} => ~Complete
    /\ evaluator \in {"retries", "rewrite"} => \A r \in Retried : r.kind = "error" => Filed(r)
    /\ evaluator = "rewrite" => \A r \in Retried : Filed(r)
    /\ evaluator = "run" => \A r \in Rows : r.key \notin todo \cup busy
    /\ todo \cap busy = {}

\* No key has two successful rows.
Once ==
    \A i, j \in 1 .. Len(out) :
        (Succeeded(out[i]) /\ Succeeded(out[j]) /\ out[i].key = out[j].key) => i = j

\* NotRedone is inductive together with these.
RInv == TypeOK /\ Wired /\ Fresh /\ Once /\ Paid /\ (sup = "accepted" => Complete)

\* It holds of the invariant.
LEMMA RInvImplies == RInv => NotRedone
  BY DEF RInv, TypeOK, Wired, Fresh, Once, NotRedone

\* The lines of a file are its entries.
LEMMA LinesOf ==
    ASSUME out \in Seq(Line)
    PROVE  /\ Len(out) \in Nat
           /\ Lines = {out[i] : i \in 1 .. Len(out)} /\ Lines \subseteq Line
           /\ Rows \subseteq Lines
  <1>1. Len(out) \in Nat /\ DOMAIN out = 1 .. Len(out) /\ out \in [1 .. Len(out) -> Line]
    BY LenProperties
  <1> QED
    BY <1>1 DEF Lines, Rows, Range

\* As long as there is something to ask, the results are not complete.
LEMMA Incomplete ==
    ASSUME RInv, evaluator = "run", NEW k \in todo \cup busy
    PROVE  ~Complete
  <1>1. k \in Keys /\ \A r \in Rows : r.key # k
    BY DEF RInv, TypeOK, Fresh
  <1> QED
    BY <1>1 DEF Complete

\* All but the last entry of a sequence.
LEMMA FrontOf ==
    ASSUME NEW S, NEW s \in Seq(S), s # <<>>
    PROVE  /\ Front(s) \in Seq(S) /\ Len(Front(s)) = Len(s) - 1
           /\ \A i \in 1 .. Len(s) - 1 : Front(s)[i] = s[i]
  <1>1. Len(s) \in Nat /\ Len(s) > 0
    BY EmptySeq, LenProperties
  <1> DEFINE n == Len(s) - 1
  <1>2. n \in Nat /\ 1 \in Int /\ n - 1 + 1 = n /\ \A i \in 1 .. n : i \in 1 .. Len(s) /\ 1 + i - 1 = i
    BY <1>1
  <1>3. \A i \in 1 .. n : s[i] \in S
    BY <1>2, ElementOfSeq
  <1>4. Front(s) = SubSeq(s, 1, n)
    BY DEF Front
  <1> HIDE DEF n
  <1>5. /\ SubSeq(s, 1, n) \in Seq(S)
        /\ Len(SubSeq(s, 1, n)) = (IF 1 <= n THEN n - 1 + 1 ELSE 0)
        /\ \A i \in 1 .. n - 1 + 1 : SubSeq(s, 1, n)[i] = s[1 + i - 1]
    BY <1>2, <1>3, SubSeqProperties
  <1>6. Len(SubSeq(s, 1, n)) = n
    BY <1>2, <1>5
  <1>7. \A i \in 1 .. n : SubSeq(s, 1, n)[i] = s[i]
    BY <1>2, <1>5
  <1> QED
    BY <1>4, <1>5, <1>6, <1>7 DEF n

\* A row is added after the lines, or spoils the last of them.
LEMMA AppendedLine ==
    ASSUME RInv, NEW row \in Line
    PROVE  /\ Appended(row) \in Seq(Line) /\ Appended(row) # <<>>
           /\ ~unterminated =>
                 /\ Len(Appended(row)) = Len(out) + 1
                 /\ \A i \in 1 .. Len(out) : Appended(row)[i] = out[i]
                 /\ Appended(row)[Len(out) + 1] = row
           /\ unterminated =>
                 /\ Len(Appended(row)) = Len(out) /\ Len(out) > 0
                 /\ \A i \in 1 .. Len(out) - 1 : Appended(row)[i] = out[i]
                 /\ Appended(row)[Len(out)].kind = "torn"
  <1>1. out \in Seq(Line) /\ Len(out) \in Nat
    BY LenProperties DEF RInv, TypeOK, Line
  <1>2. CASE ~unterminated
    BY <1>1, <1>2, AppendProperties DEF Appended
  <1>3. CASE unterminated
    <2>1. out # <<>> /\ Len(out) > 0
      BY <1>1, <1>3, EmptySeq DEF RInv, Fresh
    <2> DEFINE front == Front(out)
               last  == [out[Len(out)] EXCEPT !.kind = "torn"]
    <2>3. /\ front \in Seq(Line) /\ Len(front) = Len(out) - 1
          /\ \A i \in 1 .. Len(out) - 1 : front[i] = out[i]
      BY <1>1, <2>1, FrontOf
    <2>4. out[Len(out)] \in Line
      BY <1>1, <2>1, ElementOfSeq
    <2>5. last \in Line /\ last.kind = "torn"
      BY <2>4 DEF Line, Kinds
    <2>6. Appended(row) = Append(front, last)
      BY <1>3 DEF Appended, Last
    <2> HIDE DEF front, last
    <2> QED
      BY <1>1, <1>3, <2>1, <2>3, <2>5, <2>6, AppendProperties
  <1> QED
    BY <1>2, <1>3 DEF RInv, TypeOK

\* A row of a key in flight adds no second successful row of any key.
LEMMA RowAdded ==
    ASSUME RInv, evaluator = "run", NEW k \in busy, NEW kind \in Kinds,
           out' = Appended(Row(k, kind))
    PROVE  /\ out' \in Seq(Line) /\ out' # <<>>
           /\ Once'
           /\ \A r \in Rows' : r \in Rows \/ r.key = k
  <1> DEFINE row == Row(k, kind)
  <1>1. row \in Line /\ row.key = k
    BY DEF Row, Line, RInv, TypeOK
  <1>2. \A r \in Rows : r.key # k
    BY DEF RInv, Fresh
  <1>3. out \in Seq(Line) /\ Len(out) \in Nat
    BY LenProperties DEF RInv, TypeOK, Line
  <1>4. /\ Lines = {out[i] : i \in 1 .. Len(out)}
        /\ Rows = {r \in Lines : r.kind # "torn"}
    BY <1>3, LinesOf DEF Rows
  <1>5. \A i \in 1 .. Len(out) : Succeeded(out[i]) => out[i].key # k
    BY <1>2, <1>4 DEF Succeeded
  <1> HIDE DEF row
  <1>6. /\ out' \in Seq(Line) /\ out' # <<>>
        /\ ~unterminated =>
              /\ Len(out') = Len(out) + 1
              /\ \A i \in 1 .. Len(out) : out'[i] = out[i]
              /\ out'[Len(out) + 1] = row
        /\ unterminated =>
              /\ Len(out') = Len(out) /\ Len(out) > 0
              /\ \A i \in 1 .. Len(out) - 1 : out'[i] = out[i]
              /\ out'[Len(out)].kind = "torn"
    BY <1>1, AppendedLine DEF row
  <1>7. \A i \in 1 .. Len(out') :
           \/ i \in 1 .. Len(out) /\ out'[i] = out[i]
           \/ i = Len(out) + 1 /\ out'[i] = row
           \/ out'[i].kind = "torn"
    <2>1. unterminated \in BOOLEAN
      BY DEF RInv, TypeOK
    <2> QED
      BY <1>3, <1>6, <2>1
  <1>8. Once'
    <2> SUFFICES ASSUME NEW i \in 1 .. Len(out'), NEW j \in 1 .. Len(out'),
                        Succeeded(out'[i]), Succeeded(out'[j]), out'[i].key = out'[j].key
                 PROVE  i = j
      BY DEF Once, Succeeded
    <2>1. out'[i].kind # "torn" /\ out'[j].kind # "torn"
      BY DEF Succeeded
    <2>2. CASE out'[i] = out[i] /\ i \in 1 .. Len(out) /\ out'[j] = out[j] /\ j \in 1 .. Len(out)
      BY <2>2 DEF RInv, Once
    <2>3. CASE i = Len(out) + 1 /\ j = Len(out) + 1
      BY <2>3
    <2>4. CASE i \in 1 .. Len(out) /\ out'[i] = out[i] /\ out'[j] = row
      BY <1>1, <1>5, <2>4
    <2>5. CASE j \in 1 .. Len(out) /\ out'[j] = out[j] /\ out'[i] = row
      BY <1>1, <1>5, <2>5
    <2> QED
      BY <1>7, <2>1, <2>2, <2>3, <2>4, <2>5
  <1>9. Lines' = {out'[i] : i \in 1 .. Len(out')}
    <2>1. DOMAIN out' = 1 .. Len(out')
      BY <1>6, LenProperties
    <2> QED
      BY <2>1 DEF Lines, Range
  <1>10. ASSUME NEW r \in Rows' PROVE r \in Rows \/ r.key = k
    <2>1. PICK i \in 1 .. Len(out') : r = out'[i] /\ out'[i].kind # "torn"
      BY <1>9 DEF Rows
    <2> QED
      BY <1>1, <1>4, <1>7, <2>1
  <1> QED
    BY <1>6, <1>8, <1>10

\* The lines that rows make in an archive: at most one is joined to a part of another
\* row, where a death left one, and all the rows together leave none out.
LEMMA ArchivedLines ==
    ASSUME RInv, NEW kind \in {"error", "react"}, NEW n
    PROVE  /\ Archived(kind, n) \subseteq ArchiveLine
           /\ kind \notin cut => \A r \in Archived(kind, n) : r.kind # "torn"
           /\ \A q, r \in Archived(kind, n) : q.kind = "torn" /\ r.kind = "torn" => q = r
           /\ n = Len(out) => \A r \in Retried : r.kind = kind =>
                 r \in Archived(kind, n) \/ Torn(r) \in Archived(kind, n)
  <1>1. /\ Len(out) \in Nat /\ Lines \subseteq Line
        /\ Lines = {out[i] : i \in 1 .. Len(out)}
    BY LinesOf DEF RInv, TypeOK, Line
  <1>2. \A i \in Moved(kind) : i \in 1 .. Len(out) /\ out[i] \in Line /\ out[i].kind = kind
    BY <1>1 DEF Moved
  <1>3. \A i \in Moved(kind) : Torn(out[i]) \in ArchiveLine /\ Torn(out[i]).kind = "torn"
    BY <1>2 DEF Torn, Line, ArchiveLine, Kinds
  <1>4. \A i \in Moved(kind) : out[i] \in ArchiveLine /\ out[i].kind # "torn"
    BY <1>2 DEF Line, ArchiveLine, Kinds
  <1>5. Archived(kind, n) \subseteq ArchiveLine
    BY <1>3, <1>4 DEF Archived
  <1>6. kind \notin cut => \A r \in Archived(kind, n) : r.kind # "torn"
    BY <1>4 DEF Archived
  <1>7. ASSUME NEW q \in Archived(kind, n), NEW r \in Archived(kind, n),
               q.kind = "torn", r.kind = "torn"
        PROVE  q = r
    <2>1. PICK i \in Moved(kind) : q = Torn(out[i]) /\ \A m \in Moved(kind) : i <= m
      BY <1>4, <1>7 DEF Archived
    <2>2. PICK j \in Moved(kind) : r = Torn(out[j]) /\ \A m \in Moved(kind) : j <= m
      BY <1>4, <1>7 DEF Archived
    <2>3. i = j
      BY <1>1, <1>2, <2>1, <2>2
    <2> QED
      BY <2>1, <2>2, <2>3
  <1>8. ASSUME n = Len(out), NEW r \in Retried, r.kind = kind
        PROVE  r \in Archived(kind, n) \/ Torn(r) \in Archived(kind, n)
    <2>1. PICK i \in 1 .. Len(out) : r = out[i]
      BY <1>1 DEF Retried, Rows
    <2>2. i \in Moved(kind) /\ i <= n
      BY <1>1, <1>8, <2>1 DEF Moved
    <2> QED
      BY <2>1, <2>2 DEF Archived
  <1> QED
    BY <1>5, <1>6, <1>7, <1>8

\* There are two archives.
LEMMA CutFinite == ASSUME NEW C, C \subseteq {"error", "react"} PROVE IsFiniteSet(C)
  <1>1. IsFiniteSet({} \cup {"error"})
    BY FS_EmptySet, FS_AddElement
  <1>2. IsFiniteSet(({} \cup {"error"}) \cup {"react"})
    BY <1>1, FS_AddElement
  <1>3. C \subseteq ({} \cup {"error"}) \cup {"react"}
    OBVIOUS
  <1> QED
    BY <1>2, <1>3, FS_Subset

\* One more joined row costs the cut line it is joined to, and one more cut line the
\* death that left it.
LEMMA ArchivingPays ==
    ASSUME RInv, NEW kind \in {"error", "react"}, NEW n,
           archive' = archive \cup Archived(kind, n), faults' \in {faults, faults + 1},
           \/ cut' = (IF Archived(kind, n) = {} THEN cut ELSE cut \ {kind})
           \/ cut' = cut \cup {kind} /\ faults' = faults + 1
    PROVE  archive' \subseteq ArchiveLine /\ cut' \subseteq {"error", "react"} /\ Paid'
  <1> DEFINE T == {r \in Archived(kind, n) : r.kind = "torn"}
  <1>1. /\ archive \subseteq ArchiveLine /\ cut \subseteq {"error", "react"}
        /\ IsFiniteSet(TornRows) /\ Cardinality(TornRows) + Cardinality(cut) <= faults
        /\ faults \in Nat
    BY EvalShape DEF RInv, TypeOK, Paid, ArchiveLine
  <1>2. /\ archive' \subseteq ArchiveLine /\ cut' \subseteq {"error", "react"}
    BY <1>1, ArchivedLines
  <1>3. TornRows' = TornRows \cup T
    BY DEF TornRows
  <1>4. IsFiniteSet(cut) /\ Cardinality(cut) \in Nat /\ Cardinality(TornRows) \in Nat
    BY <1>1, CutFinite, FS_CardinalityType
  <1>5. /\ IsFiniteSet(cut \cup {kind})
        /\ Cardinality(cut \cup {kind})
              = IF kind \in cut THEN Cardinality(cut) ELSE Cardinality(cut) + 1
    BY <1>4, FS_AddElement
  <1>6. /\ IsFiniteSet(cut \ {kind}) /\ Cardinality(cut \ {kind}) \in Nat
        /\ Cardinality(cut \ {kind})
              = IF kind \in cut THEN Cardinality(cut) - 1 ELSE Cardinality(cut)
    BY <1>4, FS_RemoveElement, FS_CardinalityType
  <1>10. cut' \in {cut, cut \ {kind}} \/ (cut' = cut \cup {kind} /\ faults' = faults + 1)
    OBVIOUS
  <1>9. /\ Cardinality(cut') \in Nat
        /\ \/ Cardinality(cut') <= Cardinality(cut)
           \/ Cardinality(cut') <= Cardinality(cut) + 1 /\ faults' = faults + 1
    <2>1. CASE cut' = cut
      BY <1>4, <2>1
    <2>2. CASE cut' = cut \ {kind}
      BY <1>4, <1>6, <2>2
    <2>3. CASE cut' = cut \cup {kind} /\ faults' = faults + 1
      BY <1>4, <1>5, <2>3
    <2> QED
      BY <1>10, <2>1, <2>2, <2>3
  <1>7. CASE T = {}
    <2>1. TornRows' = TornRows
      BY <1>3, <1>7
    <2>2. Cardinality(TornRows') = Cardinality(TornRows) /\ IsFiniteSet(TornRows')
      BY <1>1, <2>1
    <2>3. Cardinality(TornRows') + Cardinality(cut') <= faults'
      BY <1>1, <1>4, <1>9, <2>2
    <2> QED
      BY <1>2, <2>2, <2>3 DEF Paid
  <1>8. CASE T # {}
    <2>1. PICK x \in T : TRUE
      BY <1>8
    <2>2. T = {x} /\ kind \in cut /\ Archived(kind, n) # {}
      BY <2>1, ArchivedLines
    <2>3. /\ IsFiniteSet(TornRows \cup {x})
          /\ Cardinality(TornRows \cup {x}) \in {Cardinality(TornRows), Cardinality(TornRows) + 1}
      BY <1>1, FS_AddElement
    <2> HIDE DEF T
    <2>4. TornRows' = TornRows \cup {x}
      BY <1>3, <2>2
    <2>5. /\ IsFiniteSet(TornRows') /\ Cardinality(TornRows') \in Nat
          /\ Cardinality(TornRows') <= Cardinality(TornRows) + 1
      BY <1>4, <2>3, <2>4
    <2>6. \/ Cardinality(cut') <= Cardinality(cut) - 1
          \/ Cardinality(cut') <= Cardinality(cut) /\ faults' = faults + 1
      <3>1. CASE cut' = cut \ {kind}
        BY <1>4, <1>6, <2>2, <3>1
      <3>2. CASE cut' = cut \cup {kind} /\ faults' = faults + 1
        BY <1>4, <1>5, <2>2, <3>2
      <3> QED
        BY <2>2, <3>1, <3>2
    <2>7. Cardinality(TornRows') + Cardinality(cut') <= faults'
      BY <1>1, <1>4, <1>9, <2>5, <2>6
    <2> QED
      BY <1>2, <2>5, <2>7 DEF Paid
  <1> QED
    BY <1>7, <1>8

\* The archives take every row that the rewriting will drop.
LEMMA ArchiveKeeps == ASSUME RInv, ArchiveErrors \/ ArchiveRetries PROVE RInv'
  <1>1. PICK kind \in {"error", "react"} :
           /\ out' = out /\ todo' = todo /\ busy' = busy
           /\ evaluator = (IF kind = "error" THEN "archive" ELSE "retries")
           /\ evaluator' = (IF kind = "error" THEN "retries" ELSE "rewrite")
           /\ archive' = archive \cup Archived(kind, Len(out))
           /\ cut' = (IF Archived(kind, Len(out)) = {} THEN cut ELSE cut \ {kind})
           /\ UNCHANGED <<unterminated, manifest, servers, launcher, sup, errors, tries, faults>>
    BY DEF ArchiveErrors, ArchiveRetries, ArchiveRows, EvaluatorStep, jobs
  <1>2. archive' \subseteq ArchiveLine /\ cut' \subseteq {"error", "react"} /\ Paid'
    BY <1>1, ArchivingPays
  <1>3. Retried' = Retried /\ Rows' = Rows /\ Complete' = Complete
    BY <1>1 DEF Retried, Rows, Lines, Succeeded, Complete
  <1>4. \A r \in Retried : (r.kind = kind \/ Filed(r)) => Filed(r)'
    BY <1>1, ArchivedLines DEF Filed, Torn
  <1>5. \A r \in Retried : r.kind \in {"error", "react"}
    <2>1. Lines \subseteq Line
      BY LinesOf DEF RInv, TypeOK, Line
    <2> QED
      BY <2>1 DEF Retried, Rows, Succeeded, Line, Kinds
  <1>6. TypeOK'
    BY <1>1, <1>2 DEF RInv, TypeOK, ArchiveLine
  <1>7. Wired'
    BY <1>1, <1>3 DEF RInv, Wired
  <1>8. Fresh'
    BY <1>1, <1>3, <1>4, <1>5 DEF RInv, Fresh
  <1>9. Once'
    BY <1>1 DEF RInv, Once, Succeeded
  <1> QED
    BY <1>1, <1>2, <1>3, <1>6, <1>7, <1>8, <1>9 DEF RInv

\* The file is rewritten with one successful row for each key that has one, and
\* exactly the other keys are asked.
LEMMA RewriteKeeps == ASSUME RInv, Rewrite PROVE RInv'
  <1>1. /\ out \in Seq(Line) /\ Len(out) \in Nat
        /\ Rows = {r \in Lines : r.kind # "torn"} /\ Lines = {out[i] : i \in 1 .. Len(out)}
    BY LinesOf DEF RInv, TypeOK, Line, Rows
  <1>2. /\ out' = Resumed /\ (unterminated' => out' # <<>>) /\ unterminated' \in BOOLEAN
        /\ todo' = Keys \ {r.key : r \in {x \in Rows : Succeeded(x)}} /\ busy' = {}
        /\ errors' = 0 /\ evaluator = "rewrite" /\ evaluator' = "run"
        /\ UNCHANGED <<archive, cut, manifest, servers, launcher, sup, tries, faults>>
    BY DEF Rewrite, EvaluatorStep, RInv, TypeOK, Fresh
  <1>3. out' \in Seq(Line) /\ Len(out') = Cardinality(Kept) /\ Cardinality(Kept) \in Nat
    <2>1. Kept \in SUBSET (1 .. Len(out))
      BY DEF Kept
    <2> QED
      BY <1>1, <1>2, <2>1, ResumedType, RankType
  <1>4. \A n \in 1 .. Len(out') :
           \E i \in Kept : Rank(Kept, i) = n /\ out'[n] = out[i]
    BY <1>1, <1>2, <1>3, ResumedLine
  <1>5. \A i \in Kept : i \in 1 .. Len(out) /\ Succeeded(out[i])
    BY DEF Kept
  <1>6. Once'
    <2> SUFFICES ASSUME NEW n \in 1 .. Len(out'), NEW m \in 1 .. Len(out'),
                        out'[n].key = out'[m].key
                 PROVE  n = m
      BY DEF Once
    <2>1. PICK i \in Kept : Rank(Kept, i) = n /\ out'[n] = out[i]
      BY <1>4
    <2>2. PICK j \in Kept : Rank(Kept, j) = m /\ out'[m] = out[j]
      BY <1>4
    <2>3. i = j
      BY <1>5, <2>1, <2>2 DEF RInv, Once
    <2> QED
      BY <2>1, <2>2, <2>3
  <1>7. \A r \in Rows' : r.key \notin todo' \cup busy'
    <2> SUFFICES ASSUME NEW r \in Rows' PROVE r.key \notin todo'
      BY <1>2
    <2>1. Lines' = {out'[n] : n \in 1 .. Len(out')}
      <3>1. DOMAIN out' = 1 .. Len(out')
        BY <1>3, LenProperties
      <3> QED
        BY <3>1 DEF Lines, Range
    <2>2. PICK n \in 1 .. Len(out') : r = out'[n]
      BY <2>1 DEF Rows
    <2>3. PICK i \in Kept : r = out[i]
      BY <1>4, <2>2
    <2>4. r \in Rows /\ Succeeded(r)
      BY <1>1, <1>5, <2>3 DEF Succeeded
    <2> QED
      BY <1>2, <2>4
  <1>8. TypeOK'
    BY <1>2, <1>3 DEF RInv, TypeOK, Line
  <1>9. Wired'
    BY <1>2 DEF RInv, Wired
  <1>10. sup # "accepted" /\ Paid'
    BY <1>2 DEF RInv, Fresh, Paid, TornRows
  <1> QED
    BY <1>2, <1>6, <1>7, <1>8, <1>9, <1>10 DEF RInv, Fresh

\* Archives that stay as they are cost nothing.
LEMMA PaidAlone ==
    ASSUME RInv, UNCHANGED <<archive, cut>>, faults' \in {faults, faults + 1} PROVE Paid'
  <1>1. faults \in Nat /\ TornRows' = TornRows
    BY EvalShape DEF RInv, TypeOK, TornRows
  <1>2. IsFiniteSet(cut) /\ Cardinality(cut) \in Nat
    BY CutFinite, FS_CardinalityType DEF RInv, TypeOK
  <1>3. /\ IsFiniteSet(TornRows) /\ Cardinality(TornRows) \in Nat
        /\ Cardinality(TornRows) + Cardinality(cut) <= faults
    BY FS_CardinalityType DEF RInv, Paid
  <1>4. /\ IsFiniteSet(TornRows') /\ Cardinality(TornRows') = Cardinality(TornRows)
        /\ Cardinality(cut') = Cardinality(cut)
    BY <1>1, <1>3
  <1>5. Cardinality(TornRows') + Cardinality(cut') <= faults'
    BY <1>1, <1>2, <1>3, <1>4
  <1> QED
    BY <1>4, <1>5 DEF Paid

\* What a step that leaves the files alone has to keep.
LEMMA FileAlone ==
    ASSUME RInv, UNCHANGED files, faults' \in {faults, faults + 1}, TypeOK', Wired',
           evaluator' \in {evaluator, "off"} \/ (evaluator' = "archive" /\ ~Complete),
           todo' \cup busy' \subseteq todo \cup busy, todo' \cap busy' = {},
           sup' = "accepted" => sup = "accepted" \/ Complete
    PROVE  RInv'
  <1>1. Retried' = Retried /\ Rows' = Rows /\ Complete' = Complete /\ Once' = Once
    BY DEF Retried, Rows, Lines, Succeeded, Complete, Once, files
  <1>2. Fresh'
    BY <1>1 DEF RInv, Fresh, Filed, Torn, files
  <1>3. Paid'
    BY PaidAlone DEF files
  <1> QED
    BY <1>1, <1>2, <1>3 DEF RInv

\* An answer is a row of a key in flight, which is asked no more.
LEMMA AnswerKeeps ==
    ASSUME RInv, NEW k \in Keys, NEW kind \in Kinds \ {"torn"}, Answer(k, kind)
    PROVE  RInv'
  <1>1. /\ evaluator = "run" /\ k \in busy /\ busy' = busy \ {k}
        /\ out' = Appended(Row(k, kind)) /\ unterminated' = FALSE
        /\ kind = "error" => faults < MaxFaults
        /\ faults' = faults + (IF kind = "error" THEN 1 ELSE 0)
        /\ errors' = errors + (IF kind = "error" THEN 1 ELSE 0)
        /\ UNCHANGED <<archive, cut, manifest, servers, launcher, evaluator, sup, todo, tries>>
    BY DEF Answer
  <1>2. /\ out' \in Seq(Line) /\ out' # <<>> /\ Once'
        /\ \A r \in Rows' : r \in Rows \/ r.key = k
    BY <1>1, RowAdded
  <1>3. sup # "accepted"
    BY <1>1, Incomplete DEF RInv
  <1>4. TypeOK'
    <2>1. faults' \in 0 .. MaxFaults /\ errors' \in Nat
      BY <1>1, EvalShape DEF RInv, TypeOK
    <2> QED
      BY <1>1, <1>2, <2>1 DEF RInv, TypeOK, Line
  <1>5. Wired'
    BY <1>1 DEF RInv, Wired
  <1>6. Fresh'
    BY <1>1, <1>2 DEF RInv, Fresh
  <1>7. Paid'
    <2>1. faults \in Nat
      BY EvalShape DEF RInv, TypeOK
    <2>2. faults' \in {faults, faults + 1}
      BY <1>1, <2>1
    <2> QED
      BY <1>1, <2>2, PaidAlone
  <1> QED
    BY <1>1, <1>2, <1>3, <1>4, <1>5, <1>6, <1>7 DEF RInv

\* A dying evaluator leaves the file as it was, or with a part of a row of a key
\* in flight, and then the results were not complete.
LEMMA CutRowLeaves ==
    ASSUME RInv, CutRow, evaluator' = "off", NoJobs
    PROVE  /\ out' \in Seq(Line) /\ unterminated' \in BOOLEAN /\ Once' /\ Fresh'
           /\ UNCHANGED out \/ ~Complete
  <1>1. CASE UNCHANGED <<out, unterminated>>
    <2>1. Once' = Once
      BY <1>1 DEF Once, Succeeded
    <2> QED
      BY <1>1, <2>1 DEF RInv, TypeOK, Line, Fresh, NoJobs
  <1>2. CASE \E k \in busy, kind \in Kinds :
                /\ evaluator = "run" /\ out' = Appended(Row(k, kind)) /\ unterminated' = TRUE
    <2>1. PICK k \in busy, kind \in Kinds :
                /\ evaluator = "run" /\ out' = Appended(Row(k, kind)) /\ unterminated' = TRUE
      BY <1>2 DEF Kinds
    <2>2. out' \in Seq(Line) /\ out' # <<>> /\ Once'
      BY <2>1, RowAdded
    <2>3. ~Complete
      BY <2>1, Incomplete
    <2> QED
      BY <2>1, <2>2, <2>3 DEF Fresh, NoJobs
  <1> QED
    BY <1>1, <1>2 DEF CutRow

\* ... and the archives as they were, or with some rows of one and a part of the next.
LEMMA CutArchiveLeaves ==
    ASSUME RInv, CutArchive, faults' = faults + 1
    PROVE  archive' \subseteq ArchiveLine /\ cut' \subseteq {"error", "react"} /\ Paid'
  <1>1. CASE UNCHANGED <<archive, cut>>
    BY <1>1, PaidAlone DEF RInv, TypeOK, ArchiveLine
  <1>2. CASE \E n \in 0 .. Len(out), kind \in {"error", "react"} :
                /\ archive' = archive \cup Archived(kind, n)
                /\ \/ cut' = (IF Archived(kind, n) = {} THEN cut ELSE cut \ {kind})
                   \/ cut' = cut \cup {kind}
    BY <1>2, ArchivingPays
  <1> QED
    BY <1>1, <1>2 DEF CutArchive

\* The evaluator dies, alone ...
LEMMA EvaluatorDiesKeeps == ASSUME RInv, EvaluatorDies PROVE RInv'
  <1>1. /\ evaluator # "off" /\ faults < MaxFaults /\ faults' = faults + 1
        /\ evaluator' = "off" /\ CutRow /\ CutArchive /\ NoJobs
        /\ UNCHANGED <<manifest, servers, launcher, sup>>
    BY DEF EvaluatorDies
  <1>0. archive' \subseteq ArchiveLine /\ cut' \subseteq {"error", "react"} /\ Paid'
    BY <1>1, CutArchiveLeaves
  <1>2. /\ out' \in Seq(Line) /\ unterminated' \in BOOLEAN /\ Once' /\ Fresh'
        /\ UNCHANGED out \/ ~Complete
    BY <1>1, CutRowLeaves
  <1>3. TypeOK'
    <2>1. faults' \in 0 .. MaxFaults
      BY <1>1, EvalShape DEF RInv, TypeOK
    <2> QED
      BY <1>0, <1>1, <1>2, <2>1 DEF RInv, TypeOK, Line, ArchiveLine, NoJobs
  <1>4. Wired'
    BY <1>1 DEF RInv, Wired
  <1>5. sup' = "accepted" => Complete'
    <2>1. UNCHANGED out => Complete' = Complete
      BY DEF Complete, Rows, Lines
    <2> QED
      BY <1>1, <1>2, <2>1 DEF RInv
  <1> QED
    BY <1>0, <1>2, <1>3, <1>4, <1>5 DEF RInv

\* ... or with all the others.
LEMMA StopAllKeeps == ASSUME RInv, StopAll PROVE RInv'
  <1>1. /\ faults < MaxFaults /\ faults' = faults + 1 /\ sup' = "down"
        /\ launcher' = "off" /\ evaluator' = "off" /\ servers' = FALSE
        /\ manifest' \in {manifest, "torn"} /\ CutRow /\ CutArchive /\ NoJobs
    BY DEF StopAll
  <1>0. archive' \subseteq ArchiveLine /\ cut' \subseteq {"error", "react"} /\ Paid'
    BY <1>1, CutArchiveLeaves
  <1>2. out' \in Seq(Line) /\ unterminated' \in BOOLEAN /\ Once' /\ Fresh'
    BY <1>1, CutRowLeaves
  <1>3. TypeOK'
    <2>1. faults' \in 0 .. MaxFaults
      BY <1>1, EvalShape DEF RInv, TypeOK
    <2> QED
      BY <1>0, <1>1, <1>2, <2>1 DEF RInv, TypeOK, Line, ArchiveLine, NoJobs
  <1> QED
    BY <1>0, <1>1, <1>2, <1>3 DEF RInv, Wired

\* Asking a key moves it from the jobs to the requests; ending drops the jobs.
LEMMA AskKeeps ==
    ASSUME RInv, (\E k \in Keys : Ask(k)) \/ EvaluatorDone PROVE RInv'
  <1>1. CASE \E k \in Keys : Ask(k)
    <2>1. PICK k \in Keys : Ask(k)
      BY <1>1
    <2>2. /\ k \in todo /\ todo' = todo \ {k} /\ busy' = busy \cup {k} /\ evaluator = "run"
          /\ tries' = [tries EXCEPT ![k] = @ + 1]
          /\ UNCHANGED <<files, manifest, servers, launcher, evaluator, sup, errors, faults>>
      BY <2>1 DEF Ask, EvaluatorStep, files
    <2>3. TypeOK'
      BY <2>2 DEF RInv, TypeOK, files
    <2>4. Wired'
      BY <2>2 DEF RInv, Wired, Complete, Rows, Lines
    <2>5. todo' \cup busy' \subseteq todo \cup busy /\ todo' \cap busy' = {}
      BY <2>2 DEF RInv, Fresh
    <2> QED
      BY <2>2, <2>3, <2>4, <2>5, FileAlone
  <1>2. CASE EvaluatorDone
    <2>1. /\ todo' = {} /\ busy' = busy /\ busy = {} /\ evaluator = "run" /\ evaluator' = "off"
          /\ UNCHANGED <<files, manifest, servers, launcher, sup, errors, tries, faults>>
      BY <1>2 DEF EvaluatorDone, EvaluatorStep, files
    <2>2. TypeOK'
      BY <2>1 DEF RInv, TypeOK, files
    <2>3. Wired'
      BY <2>1 DEF RInv, Wired
    <2> QED
      BY <2>1, <2>2, <2>3, FileAlone
  <1> QED
    BY <1>1, <1>2

\* A launcher starts its evaluator only when no other one runs, on results that
\* are not complete.
LEMMA LauncherKeeps ==
    ASSUME RInv, LauncherNext \/ ServersFail \/ LauncherKilled PROVE RInv'
  <1> DEFINE held == <<files, sup, todo, busy, errors, tries>>
  <1>0. UNCHANGED files => Complete' = Complete
    BY DEF Complete, Rows, Lines, files
  <1>1. CASE CheckExits
    <2>1. /\ launcher = "check" /\ launcher' = "off"
          /\ UNCHANGED <<held, manifest, servers, evaluator, faults>>
      BY <1>1 DEF CheckExits, LauncherStep, files, jobs
    <2>2. TypeOK' /\ Wired'
      BY <2>1 DEF RInv, TypeOK, Wired, files
    <2> QED
      BY <2>1, <2>2, FileAlone DEF RInv, Fresh
  <1>2. CASE StartServers
    <2>1. /\ launcher = "check" /\ launcher' = "serve" /\ servers' = TRUE /\ ~Complete
          /\ UNCHANGED <<held, manifest, evaluator, faults>>
      BY <1>2 DEF StartServers, LauncherStep, files, jobs
    <2>2. TypeOK' /\ Wired'
      BY <1>0, <2>1 DEF RInv, TypeOK, Wired, files
    <2> QED
      BY <2>1, <2>2, FileAlone DEF RInv, Fresh
  <1>3. CASE WriteManifest
    <2>1. /\ launcher = "serve" /\ launcher' = "run" /\ manifest' = "good"
          /\ evaluator' = "archive"
          /\ UNCHANGED <<held, servers, faults>>
      BY <1>3 DEF WriteManifest, LauncherStep, files, jobs
    <2>2. TypeOK' /\ Wired' /\ ~Complete
      BY <2>1 DEF RInv, TypeOK, Wired, files
    <2> QED
      BY <2>1, <2>2, FileAlone DEF RInv, Fresh
  <1>4. CASE LauncherDone
    <2>1. /\ evaluator = "off" /\ launcher = "run" /\ launcher' = "off" /\ servers' = FALSE
          /\ UNCHANGED <<held, manifest, evaluator, faults>>
      BY <1>4 DEF LauncherDone, LauncherStep, files, jobs
    <2>2. TypeOK' /\ Wired'
      BY <2>1 DEF RInv, TypeOK, Wired, files
    <2> QED
      BY <2>1, <2>2, FileAlone DEF RInv, Fresh
  <1>5. CASE ServersFail
    <2>1. /\ faults < MaxFaults /\ faults' = faults + 1
          /\ launcher = "serve" /\ launcher' = "off" /\ servers' = FALSE
          /\ UNCHANGED <<held, manifest, evaluator>>
      BY <1>5 DEF ServersFail, files, jobs
    <2>2. TypeOK'
      <3>1. faults' \in 0 .. MaxFaults
        BY <2>1, EvalShape DEF RInv, TypeOK
      <3> QED
        BY <2>1, <3>1 DEF RInv, TypeOK, files
    <2>3. Wired'
      BY <2>1 DEF RInv, Wired
    <2> QED
      BY <2>1, <2>2, <2>3, FileAlone DEF RInv, Fresh
  <1>6. CASE LauncherKilled
    <2>1. /\ faults < MaxFaults /\ faults' = faults + 1
          /\ launcher # "off" /\ launcher' = "off" /\ manifest' \in {manifest, "torn"}
          /\ UNCHANGED <<held, servers, evaluator>>
      BY <1>6 DEF LauncherKilled, files, jobs
    <2>2. TypeOK'
      <3>1. faults' \in 0 .. MaxFaults
        BY <2>1, EvalShape DEF RInv, TypeOK
      <3> QED
        BY <2>1, <3>1 DEF RInv, TypeOK, files
    <2>3. Wired'
      BY <2>1 DEF RInv, Wired
    <2> QED
      BY <2>1, <2>2, <2>3, FileAlone DEF RInv, Fresh
  <1> QED
    BY <1>1, <1>2, <1>3, <1>4, <1>5, <1>6 DEF LauncherNext

\* The supervisor accepts only complete results, and launches only on free GPUs.
LEMMA SupervisorKeeps ==
    ASSUME RInv, SupervisorNext \/ SupervisorDies PROVE RInv'
  <1>1. /\ UNCHANGED <<files, manifest, servers, evaluator, todo, busy, errors, tries>>
        /\ sup' \in {"down", "inspect", "wait", "child", "accepted"}
        /\ sup' = "accepted" => Complete
        /\ faults' = faults \/ (faults < MaxFaults /\ faults' = faults + 1)
        /\ \/ launcher' = launcher /\ (sup = "child" => launcher = "off" \/ servers)
           \/ launcher' = "check" /\ sup' = "child" /\ ~servers
    BY DEF SupervisorNext, SupervisorStep, Start, Inspect, Launch, FoundComplete, Reap,
           SupervisorDies, files, jobs
  <1>2. TypeOK'
    BY <1>1, EvalShape DEF RInv, TypeOK, files
  <1>3. Wired'
    <2>1. Complete' = Complete
      BY <1>1 DEF Complete, Rows, Lines, files
    <2> QED
      BY <1>1, <2>1 DEF RInv, Wired
  <1> QED
    BY <1>1, <1>2, <1>3, FileAlone DEF RInv, Fresh

\* Every step keeps the invariant.
LEMMA RStep == RInv /\ [Next]_vars => RInv'
  <1> SUFFICES ASSUME RInv, [Next]_vars PROVE RInv'
    OBVIOUS
  <1>1. CASE Stopped \/ UNCHANGED vars
    <2>1. UNCHANGED vars
      BY <1>1 DEF Stopped
    <2>2. TypeOK'
      BY <2>1 DEF vars, files, jobs, RInv, TypeOK
    <2>3. Wired'
      BY <2>1 DEF vars, files, jobs, RInv, Wired, Complete, Rows, Lines
    <2> QED
      BY <2>1, <2>2, <2>3, FileAlone DEF vars, files, jobs, RInv, Fresh
  <1>2. CASE EvaluatorNext
    BY <1>2, ArchiveKeeps, RewriteKeeps, AskKeeps, AnswerKeeps DEF EvaluatorNext
  <1> QED
    BY <1>1, <1>2, EvaluatorDiesKeeps, StopAllKeeps, LauncherKeeps, SupervisorKeeps DEF Next

\* The stage starts with an empty file and nothing running.
LEMMA RInit == Init => RInv
  <1> SUFFICES ASSUME Init PROVE RInv
    OBVIOUS
  <1>1. out \in Seq(Line) /\ Len(out) = 0
    BY EmptySeq DEF Init
  <1>2. TypeOK
    <2>1. 0 \in 0 .. MaxFaults /\ 0 \in Nat
      BY EvalShape
    <2>2. tries \in [Keys -> Nat]
      BY DEF Init
    <2> QED
      BY <1>1, <2>1, <2>2 DEF Init, TypeOK, Line
  <1>3. Paid
    <2>1. TornRows = {} /\ cut = {} /\ faults = 0
      BY DEF Init, TornRows
    <2> QED
      BY <2>1, FS_EmptySet DEF Paid
  <1> QED
    BY <1>1, <1>2, <1>3 DEF Init, RInv, Wired, Fresh, Once

\* Every variable keeps its type.
THEOREM Typed == Spec => []TypeOK
  <1>1. RInv => TypeOK
    BY DEF RInv
  <1> QED
    BY <1>1, RInit, RStep, PTL DEF Spec

\* However often run_experiment_until_complete launches the stage again, no key
\* that has a successful row is asked again, none has two, and results once
\* accepted stay complete, whatever evaluators outlive their launchers.
THEOREM NeverRedone == Spec => []NotRedone
  BY RInit, RStep, RInvImplies, PTL DEF Spec
-----------------------------------------------------------------------------
(* No row is lost. *)

\* What NothingLost says of a step.
Keeping ==
    \A r \in Rows : \/ r \in Rows' \cup archive' \/ Torn(r) \in archive'
                    \/ (unterminated /\ r = Last(out))

\* A step that leaves the file alone loses nothing.
LEMMA AloneLosesNone == UNCHANGED out => Keeping
  BY DEF Keeping, Rows, Lines

\* A row that is added spoils at most a last line that had no newline.
LEMMA AddingLosesNone ==
    ASSUME RInv, NEW row \in Line, out' = Appended(row)
    PROVE  Keeping
  <1> SUFFICES ASSUME NEW r \in Rows PROVE r \in Rows' \/ (unterminated /\ r = Last(out))
    BY DEF Keeping
  <1>1. /\ out \in Seq(Line) /\ Len(out) \in Nat /\ unterminated \in BOOLEAN
        /\ Lines = {out[i] : i \in 1 .. Len(out)}
    BY LinesOf DEF RInv, TypeOK, Line
  <1>2. PICK i \in 1 .. Len(out) : r = out[i] /\ r.kind # "torn"
    BY <1>1 DEF Rows
  <1>3. /\ out' \in Seq(Line)
        /\ ~unterminated =>
              Len(out') = Len(out) + 1 /\ \A j \in 1 .. Len(out) : out'[j] = out[j]
        /\ unterminated =>
              Len(out') = Len(out) /\ \A j \in 1 .. Len(out) - 1 : out'[j] = out[j]
    BY AppendedLine
  <1>4. CASE unterminated /\ i = Len(out)
    BY <1>2, <1>4 DEF Last
  <1>5. CASE ~unterminated \/ i # Len(out)
    <2>1. i \in 1 .. Len(out') /\ out'[i] = r
      BY <1>1, <1>2, <1>3, <1>5
    <2>2. DOMAIN out' = 1 .. Len(out')
      BY <1>3, LenProperties
    <2> QED
      BY <1>2, <2>1, <2>2 DEF Rows, Lines, Range
  <1> QED
    BY <1>4, <1>5

\* The rewriting keeps every successful row; the archive has the others.
LEMMA RewritingLosesNone == ASSUME RInv, Rewrite PROVE Keeping
  <1> SUFFICES ASSUME NEW r \in Rows
               PROVE  r \in Rows' \cup archive' \/ Torn(r) \in archive'
    BY DEF Keeping
  <1>1. /\ out \in Seq(Line) /\ Len(out) \in Nat /\ Lines \subseteq Line
        /\ Lines = {out[i] : i \in 1 .. Len(out)}
    BY LinesOf DEF RInv, TypeOK, Line
  <1>2. PICK i \in 1 .. Len(out) : r = out[i] /\ r.kind # "torn"
    BY <1>1 DEF Rows
  <1>3. out' = Resumed /\ evaluator = "rewrite" /\ archive' = archive
    BY DEF Rewrite, EvaluatorStep
  <1>4. CASE Succeeded(r)
    <2>1. ASSUME NEW x \in Rows, Succeeded(x), x.key = r.key PROVE x.try <= r.try
      <3>1. PICK j \in 1 .. Len(out) : x = out[j]
        BY <1>1 DEF Rows
      <3>2. i = j
        BY <1>2, <1>4, <2>1, <3>1 DEF RInv, Once
      <3>3. r.try \in Nat
        BY <1>1 DEF Rows, Line
      <3> QED
        BY <1>2, <3>1, <3>2, <3>3
    <2>2. i \in Kept
      BY <1>2, <1>4, <2>1 DEF Kept
    <2>3. /\ Rank(Kept, i) \in 1 .. Cardinality(Kept) /\ out'[Rank(Kept, i)] = r
          /\ out' \in Seq(Line) /\ Len(out') = Cardinality(Kept)
      BY <1>1, <1>2, <1>3, <2>2, KeptLine, ResumedType
    <2>4. DOMAIN out' = 1 .. Len(out')
      BY <2>3, LenProperties
    <2> QED
      BY <1>2, <2>3, <2>4 DEF Rows, Lines, Range
  <1>5. CASE ~Succeeded(r)
    <2>1. r \in Retried
      BY <1>5 DEF Retried
    <2> QED
      BY <1>3, <2>1 DEF RInv, Fresh, Filed
  <1> QED
    BY <1>4, <1>5

\* No step of the stage, a death included, loses a row that ended in a newline.
LEMMA StepKeeps == RInv /\ [Next]_vars => [Keeping]_vars
  <1> SUFFICES ASSUME RInv, Next PROVE Keeping
    OBVIOUS
  <1>1. ASSUME NEW k \in busy, NEW kind \in Kinds, out' = Appended(Row(k, kind)) PROVE Keeping
    <2>1. Row(k, kind) \in Line
      BY DEF Row, Line, RInv, TypeOK
    <2> QED
      BY <1>1, <2>1, AddingLosesNone
  <1>2. CASE CutRow
    <2>1. CASE \E k \in busy, kind \in Kinds : out' = Appended(Row(k, kind))
      BY <1>1, <2>1
    <2> QED
      BY <1>2, <2>1, AloneLosesNone DEF CutRow, Kinds
  <1>3. CASE \E k \in Keys, kind \in Kinds \ {"torn"} : Answer(k, kind)
    BY <1>1, <1>3 DEF Answer
  <1>4. CASE ArchiveErrors \/ ArchiveRetries \/ EvaluatorDone \/ \E k \in Keys : Ask(k)
    BY <1>4, AloneLosesNone DEF ArchiveErrors, ArchiveRetries, EvaluatorDone, Ask, files
  <1>5. CASE LauncherNext \/ ServersFail \/ LauncherKilled
    BY <1>5, AloneLosesNone DEF LauncherNext, CheckExits, StartServers, WriteManifest,
       LauncherDone, LauncherStep, ServersFail, LauncherKilled, files
  <1>6. CASE SupervisorNext \/ SupervisorDies \/ Stopped
    BY <1>6, AloneLosesNone DEF SupervisorNext, SupervisorStep, Start, Inspect, Launch,
       FoundComplete, Reap, SupervisorDies, Stopped, vars, files
  <1> QED
    BY <1>2, <1>3, <1>4, <1>5, <1>6, RewritingLosesNone
       DEF Next, EvaluatorNext, EvaluatorDies, StopAll

\* The rows joined in the archives, and the archives cut, are no more than the faults.
LEMMA PaidFor ==
    RInv => Losses <= faults
  BY DEF RInv, Paid, TornRows, Losses

\* Every row that an evaluator completed stays in the output or is in an archive,
\* whatever dies and however often prepare_resume_output rewrites the file, except
\* for at most one for each death: the one whose line in the archive is joined to
\* what an earlier death left of another there.
THEOREM NoneLost == Spec => NothingLost
  <1>1. Spec => []RInv
    BY RInit, RStep, PTL DEF Spec
  <1>2. Spec => [][Keeping]_vars
    BY <1>1, StepKeeps, PTL DEF Spec
  <1>3. Spec => [](Losses <= faults)
    BY <1>1, PaidFor, PTL
  <1> QED
    BY <1>2, <1>3, PTL DEF NothingLost, Keeping
=================================================================================
