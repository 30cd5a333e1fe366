----------------------------- MODULE MathRunProofs -----------------------------
(***************************************************************************)
(* Proofs about the Math ES runner, for any number of engines, samples,    *)
(* generations, faults and launches: the updates of history.json are those *)
(* of a training that nothing interrupts, and every evaluation in it was   *)
(* made by the model of exactly the updates before it.                     *)
(***************************************************************************)
EXTENDS MathRun, FiniteSetTheorems, SequenceTheorems, WellFoundedInduction, TLAPS

\* What a sample earns is a number: the mean score of a non-empty batch of cases.
Scored == \A log \in Seq(Records), s \in SeedRange : AnyRewardsOf(log, s) \subseteq Nat

-------------------------------------------------------------------------------
(* The inductive invariant: what is true of one engine with the calls q, the  *)
(* worker state w and the phase ph of its first call.                         *)

One(s) == [NoNoise EXCEPT ![s] = 1]

Logs == Seq(Records)
Workers == [log : Logs, noise : {NoNoise} \cup {One(s) : s \in SeedRange}, perturbed : BOOLEAN]
UpdateCalls == [op : {"update"}, arg : Records]
Samples == [op : {"evaluate"}, arg : SeedRange, item : Items]

\* The actor runs no evaluation, and its weights carry no noise.
Quiet(w, ph) == ph = "start" /\ w.noise = NoNoise /\ w.perturbed = FALSE

\* It has nothing to do.
Rests(q, w, ph) == q = <<>> /\ Quiet(w, ph)

\* The update of the given record was submitted, on top of the log before.
Updates(q, w, ph, record, before) ==
    /\ Quiet(w, ph)
    /\ \/ q = <<[op |-> "update", arg |-> record]>> /\ w.log = before
       \/ q = <<>> /\ w.log = Append(before, record)

\* It works through its samples, the first of which may have its noise applied.
Sampling(q, w, ph) ==
    /\ q \in Seq(Samples)
    /\ \A n \in 1 .. Len(q) : q[n].arg = seeds[q[n].item]
    /\ ph = "start" => Quiet(w, ph)
    /\ ph = "rollout" => q # <<>> /\ w.noise = One(q[1].arg) /\ w.perturbed = TRUE

\* Every sample waits for one engine, once, and has no result yet.
Waiting(q) ==
    /\ \A e \in Engines : \A n \in 1 .. Len(q[e]) :
          result[q[e][n].item] = None /\ samples[q[e][n].item] = None
    /\ \A e, f \in Engines : \A n \in 1 .. Len(q[e]), m \in 1 .. Len(q[f]) :
          e # f \/ n # m => q[e][n].item # q[f][m].item

\* A reward is one its own item's seed earns from the model of all updates so far,
\* and unless some rollout has lost cases, with all of them.
Worth(r, log, s) == r \in AnyRewardsOf(log, s) /\ (losses = 0 => r \in RewardsOf(log, s))
Rewarded(rewards, log) ==
    \A i \in Items : rewards[i] # None => Worth(rewards[i], log, seeds[i])

\* The process holds the history it will write: that of the disk, or none when
\* it was asked to start anew.
Holding == rows = disk \/ (asked /\ rows = <<>>)

Started ==
    /\ Holding
    /\ gen = Len(UpdatesOf(rows))
    /\ \A e \in Engines : Rests(calls[e], engine[e], phase[e])
    /\ \A e \in Engines : engine[e].log = UpdatesOf(rows)
    /\ rng = gen * Population

InBatch ==
    /\ Holding
    /\ gen = Len(UpdatesOf(rows)) /\ gen < Generations
    /\ rng = (gen + 1) * Population
    /\ seeds = SeedsOf(gen)

Collecting ==
    /\ InBatch
    /\ \A e \in Engines : Sampling(calls[e], engine[e], phase[e])
    /\ \A e \in Engines : engine[e].log = UpdatesOf(rows)
    /\ Waiting(calls)
    /\ Rewarded(result, UpdatesOf(rows)) /\ Rewarded(samples, UpdatesOf(rows))

Sampled == [seeds |-> seeds, rewards |-> samples]

Updating ==
    /\ InBatch
    /\ \A i \in Items : samples[i] # None
    /\ Rewarded(samples, UpdatesOf(rows))
    /\ \A e \in Engines :
          Updates(calls[e], engine[e], phase[e], Sampled, UpdatesOf(rows))

Replaying ==
    /\ 1 <= keep /\ keep <= Len(UpdatesOf(disk))
    /\ asked = (keep < Len(UpdatesOf(disk)))
    /\ gen = 0 /\ rng = 0
    /\ \A e \in Engines :
          IF rec = 0 THEN Rests(calls[e], engine[e], phase[e]) /\ engine[e].log = <<>>
          ELSE Updates(calls[e], engine[e], phase[e], UpdatesOf(disk)[rec],
                       SubSeq(UpdatesOf(disk), 1, rec - 1))

Rows ==
    {row \in [gen : -1 .. Generations, seeds : {<<>>} \cup [Items -> SeedRange],
              rewards : {<<>>} \cup [Items -> Nat],
              eval : {None} \cup SUBSET [log : Logs, noise : {NoNoise} \cup {One(s) : s \in SeedRange}]] :
        row.seeds = <<>> <=> row.rewards = <<>>}

Typed ==
    /\ disk \in Seq(Rows)
    /\ engine \in [Engines -> Workers]
    /\ phase \in [Engines -> {"start", "rollout"}]
    /\ calls = [e \in Engines |-> calls[e]]
    /\ result \in [Items -> Nat \cup {None}] /\ samples \in [Items -> Nat \cup {None}]
    /\ failed \in BOOLEAN /\ asked \in BOOLEAN
    /\ keep \in Nat /\ rec \in 0 .. keep /\ gen \in 0 .. Generations
    /\ rng \in 0 .. Population * Generations
    /\ seeds \in {<<>>} \cup [Items -> SeedRange]
    /\ losses \in 0 .. faults /\ faults \in 0 .. MaxFaults /\ reruns \in 0 .. MaxReruns
    /\ rows \in Seq(Rows)

IInv ==
    /\ Typed
    /\ EvaluatedAsRecorded
    /\ pc \in {"down", "refused", "replay", "initial", "loop", "collect", "update", "done"}
    /\ pc \in {"down", "refused", "done"} =>
          \A e \in Engines : Rests(calls[e], engine[e], phase[e])
    /\ pc = "replay" => Replaying
    /\ pc \in {"initial", "loop"} => Started
    /\ pc = "collect" => Collecting
    /\ pc = "update" => Updating
-------------------------------------------------------------------------------
(* The update rows of a history, in their order. *)
\* The natural numbers are well ordered.
LEMMA NatMin ==
    ASSUME NEW T, T \subseteq Nat, T # {}
    PROVE  \E n \in T : \A m \in T : n <= m
  <1> DEFINE R == {p \in Nat \X Nat : p[1] < p[2]}
  <1>1. IsWellFoundedOn(R, Nat)
    BY NatLessThanWellFounded DEF OpToRel
  <1>2. \A m, n \in Nat : m < n => <<m, n>> \in R
    OBVIOUS
  <1> HIDE DEF R
  <1>3. PICK n \in T : \A m \in T : ~ (<<m, n>> \in R)
    BY <1>1, WFMin
  <1>4. ASSUME NEW m \in T PROVE n <= m
    <2>1. m \in Nat /\ n \in Nat /\ ~ (m < n)
      BY <1>2, <1>3
    <2> QED
      BY <2>1
  <1> QED
    BY <1>4

\* The members of K up to i, and how many they are.
UpTo(K, i) == K \cap (1 .. i)
Rank(K, i) == Cardinality(UpTo(K, i))

\* The rank is a number, no larger than that of the whole set.
LEMMA RankType ==
    ASSUME NEW m \in Nat, NEW K \in SUBSET (1 .. m), NEW i \in Nat
    PROVE  /\ IsFiniteSet(K) /\ Cardinality(K) \in Nat
           /\ IsFiniteSet(UpTo(K, i)) /\ Rank(K, i) \in Nat /\ Rank(K, i) <= Cardinality(K)
  <1>1. IsFiniteSet(1 .. m)
    BY FS_Interval
  <1>2. IsFiniteSet(K) /\ Cardinality(K) \in Nat
    BY <1>1, FS_Subset, FS_CardinalityType
  <1>3. UpTo(K, i) \subseteq K
    BY DEF UpTo
  <1> QED
    BY <1>2, <1>3, FS_Subset, FS_CardinalityType DEF Rank

\* One number further, the rank grows by one at a member and else stays.
LEMMA RankStep ==
    ASSUME NEW m \in Nat, NEW K \in SUBSET (1 .. m), NEW i \in Nat \ {0}
    PROVE  Rank(K, i) = Rank(K, i - 1) + (IF i \in K THEN 1 ELSE 0)
  <1>1. i \notin UpTo(K, i - 1)
    BY DEF UpTo
  <1>2. IsFiniteSet(UpTo(K, i - 1)) /\ Rank(K, i - 1) \in Nat
    <2>1. i - 1 \in Nat
      OBVIOUS
    <2> QED
      BY <2>1, RankType
  <1>3. CASE i \in K
    <2>1. UpTo(K, i) = UpTo(K, i - 1) \cup {i}
      BY <1>3 DEF UpTo
    <2> QED
      BY <1>1, <1>2, <1>3, <2>1, FS_AddElement DEF Rank
  <1>4. CASE i \notin K
    <2>1. UpTo(K, i) = UpTo(K, i - 1)
      BY <1>4 DEF UpTo
    <2> QED
      BY <1>2, <1>4, <2>1 DEF Rank
  <1> QED
    BY <1>3, <1>4

\* Every rank up to the size of the set is that of a member.
LEMMA RankOnto ==
    ASSUME NEW m \in Nat, NEW K \in SUBSET (1 .. m), NEW n \in 1 .. Cardinality(K)
    PROVE  \E i \in K : Rank(K, i) = n
  <1> DEFINE T == {i \in Nat : n <= Rank(K, i)}
  <1>1. m \in T
    <2>1. UpTo(K, m) = K
      BY DEF UpTo
    <2> QED
      BY <2>1 DEF Rank
  <1>2. PICK i \in T : \A j \in T : i <= j
    <2> HIDE DEF T
    <2>1. T \subseteq Nat
      BY DEF T
    <2> QED
      BY <1>1, <2>1, NatMin
  <1>3. Rank(K, 0) = 0
    <2>1. UpTo(K, 0) = {}
      BY DEF UpTo
    <2> QED
      BY <2>1, FS_EmptySet DEF Rank
  <1>4. i \in Nat \ {0} /\ n <= Rank(K, i)
    BY <1>3
  <1>5. Rank(K, i - 1) < n
    <2>1. i - 1 \notin T
      BY <1>2, <1>4
    <2>2. i - 1 \in Nat
      BY <1>4
    <2>3. Rank(K, i - 1) \in Nat
      BY <2>2, RankType
    <2> QED
      BY <2>1, <2>2, <2>3
  <1>6. Rank(K, i) = Rank(K, i - 1) + (IF i \in K THEN 1 ELSE 0)
    BY <1>4, RankStep
  <1>7. Rank(K, i - 1) \in Nat
    <2>1. i - 1 \in Nat
      BY <1>4
    <2> QED
      BY <2>1, RankType
  <1> QED
    BY <1>4, <1>5, <1>6, <1>7

\* A member has a higher rank than those before it.
LEMMA RankHigher ==
    ASSUME NEW m \in Nat, NEW K \in SUBSET (1 .. m), NEW i \in K, NEW j \in K, i < j
    PROVE  Rank(K, i) < Rank(K, j)
  <1>1. /\ IsFiniteSet(UpTo(K, i)) /\ Rank(K, i) \in Nat
        /\ IsFiniteSet(UpTo(K, j)) /\ Rank(K, j) \in Nat
    <2>1. i \in Nat /\ j \in Nat
      OBVIOUS
    <2> QED
      BY <2>1, RankType
  <1>2. UpTo(K, i) \cup {j} \subseteq UpTo(K, j) /\ j \notin UpTo(K, i)
    BY DEF UpTo
  <1>3. Cardinality(UpTo(K, i) \cup {j}) = Rank(K, i) + 1
    BY <1>1, <1>2, FS_AddElement DEF Rank
  <1>4. Cardinality(UpTo(K, i) \cup {j}) <= Rank(K, j)
    BY <1>1, <1>2, FS_Subset DEF Rank
  <1> QED
    BY <1>1, <1>3, <1>4

\* The n-th update row is a row, the one of rank n.
LEMMA UpdateAtRow ==
    ASSUME NEW S, NEW h \in Seq(S), NEW n \in 1 .. Cardinality(UpdateRows(h))
    PROVE  /\ UpdateAt(h, n) \in UpdateRows(h) /\ UpdateAt(h, n) \in 1 .. Len(h)
           /\ Rank(UpdateRows(h), UpdateAt(h, n)) = n
  <1>1. Len(h) \in Nat /\ UpdateRows(h) \in SUBSET (1 .. Len(h))
    BY LenProperties DEF UpdateRows
  <1>2. \E i \in UpdateRows(h) : Rank(UpdateRows(h), i) = n
    BY <1>1, RankOnto
  <1> QED
    BY <1>1, <1>2 DEF UpdateAt, Rank, UpTo

\* An update row is the update of its rank.
LEMMA UpdateAtRank ==
    ASSUME NEW S, NEW h \in Seq(S), NEW i \in UpdateRows(h)
    PROVE  /\ Rank(UpdateRows(h), i) \in 1 .. Cardinality(UpdateRows(h))
           /\ UpdateAt(h, Rank(UpdateRows(h), i)) = i
  <1> DEFINE K == UpdateRows(h)
  <1>1. Len(h) \in Nat /\ K \in SUBSET (1 .. Len(h)) /\ i \in Nat \ {0} /\ i \in K
    BY LenProperties DEF UpdateRows
  <1>2. Rank(K, i) \in 1 .. Cardinality(K)
    <2> HIDE DEF K
    <2>1. i - 1 \in Nat
      BY <1>1
    <2>2. Rank(K, i - 1) \in Nat
      BY <1>1, <2>1, RankType
    <2>3. Rank(K, i) = Rank(K, i - 1) + 1
      BY <1>1, RankStep
    <2>4. Rank(K, i) <= Cardinality(K) /\ Cardinality(K) \in Nat
      BY <1>1, RankType
    <2> QED
      BY <2>2, <2>3, <2>4
  <1>3. PICK j \in K : j = UpdateAt(h, Rank(K, i)) /\ Rank(K, j) = Rank(K, i)
    BY <1>2, UpdateAtRow
  <1>4. i = j
    <2> HIDE DEF K
    <2>1. /\ i < j => Rank(K, i) < Rank(K, j)
          /\ j < i => Rank(K, j) < Rank(K, i)
      BY <1>1, RankHigher
    <2>2. j \in Nat
      BY <1>1
    <2> QED
      BY <1>1, <1>2, <1>3, <2>1, <2>2
  <1> QED
    BY <1>2, <1>3, <1>4

\* There are as many updates as update rows.
LEMMA UpdatesShape ==
    ASSUME NEW S, NEW h \in Seq(S)
    PROVE  /\ UpdateRows(h) \in SUBSET (1 .. Len(h)) /\ Len(h) \in Nat
           /\ Cardinality(UpdateRows(h)) \in Nat /\ Len(UpdatesOf(h)) = Cardinality(UpdateRows(h))
           /\ UpdatesOf(h) = [n \in 1 .. Len(UpdatesOf(h)) |-> UpdatesOf(h)[n]]
           /\ \A n \in 1 .. Len(UpdatesOf(h)) : UpdatesOf(h)[n] = RecordOf(h[UpdateAt(h, n)])
  <1>1. UpdateRows(h) \in SUBSET (1 .. Len(h)) /\ Len(h) \in Nat
    BY LenProperties DEF UpdateRows
  <1>2. Cardinality(UpdateRows(h)) \in Nat
    BY <1>1, RankType
  <1> QED
    BY <1>1, <1>2 DEF UpdatesOf

\* The row of the n-th update.
UpdateRow(h, n) == h[UpdateAt(h, n)]

\* The rows up to k hold the updates up to the rank of k.
LEMMA UpdatesPrefix ==
    ASSUME NEW S, NEW h \in Seq(S), NEW k \in 0 .. Len(h)
    PROVE  /\ Rank(UpdateRows(h), k) \in 0 .. Len(UpdatesOf(h))
           /\ UpdatesOf(SubSeq(h, 1, k)) = SubSeq(UpdatesOf(h), 1, Rank(UpdateRows(h), k))
           /\ \A n \in 1 .. Rank(UpdateRows(h), k) :
                 UpdateRow(SubSeq(h, 1, k), n) = UpdateRow(h, n)
  <1> DEFINE K == UpdateRows(h)
             g == SubSeq(h, 1, k)
             r == Rank(K, k)
  <1>1. Len(h) \in Nat /\ K \in SUBSET (1 .. Len(h)) /\ k \in Nat
    BY LenProperties DEF UpdateRows
  <1>2. /\ g \in Seq(S) /\ Len(g) = k
        /\ \A i \in 1 .. k : g[i] = h[i]
    BY <1>1, ElementOfSeq, SubSeqProperties
  <1>3. UpdateRows(g) = UpTo(K, k)
    BY <1>1, <1>2 DEF UpdateRows, UpTo
  <1>4. r \in Nat /\ r <= Cardinality(K) /\ Cardinality(K) \in Nat /\ Cardinality(UpdateRows(g)) = r
    BY <1>1, <1>3, RankType DEF Rank
  <1>5. ASSUME NEW n \in 1 .. r
        PROVE  g[UpdateAt(g, n)] = h[UpdateAt(h, n)]
    <2> DEFINE i == UpdateAt(g, n)
    <2>1. i \in UpdateRows(g) /\ i \in 1 .. k /\ Rank(UpdateRows(g), i) = n
      BY <1>2, <1>4, UpdateAtRow
    <2>2. i \in K /\ UpTo(UpdateRows(g), i) = UpTo(K, i)
      BY <1>1, <1>3, <2>1 DEF UpTo
    <2>3. UpdateAt(h, n) = i
      BY <2>1, <2>2, UpdateAtRank DEF Rank
    <2> QED
      BY <1>2, <2>1, <2>3
  <1>6. Len(UpdatesOf(h)) = Cardinality(K)
    BY <1>4 DEF UpdatesOf
  <1>7. UpdatesOf(g) = [n \in 1 .. r |-> RecordOf(h[UpdateAt(h, n)])]
    BY <1>4, <1>5 DEF UpdatesOf
  <1>8. \A n \in 1 .. r : UpdatesOf(h)[n] = RecordOf(h[UpdateAt(h, n)])
    BY <1>4 DEF UpdatesOf
  <1>9. SubSeq(UpdatesOf(h), 1, r) = [n \in 1 .. r |-> UpdatesOf(h)[n]]
    BY <1>4
  <1>10. \A n \in 1 .. r : UpdateRow(g, n) = UpdateRow(h, n)
    BY <1>5 DEF UpdateRow
  <1>11. UpdatesOf(g) = SubSeq(UpdatesOf(h), 1, r)
    BY <1>7, <1>8, <1>9
  <1> QED
    BY <1>4, <1>6, <1>10, <1>11

\* An update row adds an update, another row none.
LEMMA UpdatesAppend ==
    ASSUME NEW S, NEW h \in Seq(S), NEW row \in S
    PROVE  /\ UpdatesOf(Append(h, row)) =
                IF IsUpdate(row) THEN Append(UpdatesOf(h), RecordOf(row)) ELSE UpdatesOf(h)
           /\ \A n \in 1 .. Len(UpdatesOf(h)) : UpdateRow(Append(h, row), n) = UpdateRow(h, n)
           /\ IsUpdate(row) => UpdateRow(Append(h, row), Len(UpdatesOf(h)) + 1) = row
  <1> DEFINE g == Append(h, row)
             K == UpdateRows(g)
             l == Len(h)
  <1>1. /\ g \in Seq(S) /\ Len(g) = l + 1 /\ l \in Nat
        /\ \A i \in 1 .. l : g[i] = h[i]
        /\ g[l + 1] = row
    BY AppendProperties, LenProperties
  <1>2. SubSeq(g, 1, l) = h
    <2>1. SubSeq(g, 1, l) \in Seq(S) /\ Len(SubSeq(g, 1, l)) = l
          /\ \A i \in 1 .. l : SubSeq(g, 1, l)[i] = g[i]
      BY <1>1, ElementOfSeq, SubSeqProperties
    <2> QED
      BY <1>1, <2>1, SeqEqual
  <1>3. /\ Rank(K, l) \in 0 .. Len(UpdatesOf(g))
        /\ UpdatesOf(h) = SubSeq(UpdatesOf(g), 1, Rank(K, l))
        /\ \A n \in 1 .. Rank(K, l) : UpdateRow(h, n) = UpdateRow(g, n)
    <2>1. l \in 0 .. Len(g)
      BY <1>1
    <2> HIDE DEF g
    <2> QED
      BY <1>1, <1>2, <2>1, UpdatesPrefix
  <1>4. K \in SUBSET (1 .. l + 1) /\ (l + 1 \in K <=> IsUpdate(row))
    BY <1>1 DEF UpdateRows
  <1>5. Rank(K, l + 1) = Cardinality(K) /\ Cardinality(K) \in Nat /\ Rank(K, l) \in Nat
    <2> HIDE DEF K
    <2>1. UpTo(K, l + 1) = K
      BY <1>4 DEF UpTo
    <2>2. l + 1 \in Nat /\ l \in Nat
      BY <1>1
    <2>3. Cardinality(K) \in Nat /\ Rank(K, l) \in Nat
      BY <1>4, <2>2, RankType
    <2> QED
      BY <2>1, <2>3 DEF Rank
  <1>6. Cardinality(K) = Rank(K, l) + (IF IsUpdate(row) THEN 1 ELSE 0)
    <2>1. l + 1 \in Nat \ {0} /\ (l + 1) - 1 = l
      BY <1>1
    <2>2. Rank(K, l + 1) = Rank(K, (l + 1) - 1) + (IF l + 1 \in K THEN 1 ELSE 0)
      BY <1>4, <2>1, RankStep
    <2> QED
      BY <1>4, <1>5, <2>1, <2>2
  <1>7. UpdatesOf(g) = [n \in 1 .. Cardinality(K) |-> UpdatesOf(g)[n]]
        /\ Len(UpdatesOf(g)) = Cardinality(K)
    <2> HIDE DEF g
    <2> QED
      BY <1>1, UpdatesShape
  <1>8. Len(UpdatesOf(h)) = Rank(K, l)
    <2>1. Len(SubSeq(UpdatesOf(g), 1, Rank(K, l))) = Rank(K, l)
      BY <1>5
    <2> QED
      BY <1>3, <2>1
  <1>9. CASE ~ IsUpdate(row)
    <2>1. Cardinality(K) = Rank(K, l)
      BY <1>5, <1>6, <1>9
    <2>2. SubSeq(UpdatesOf(g), 1, Rank(K, l)) = [n \in 1 .. Rank(K, l) |-> UpdatesOf(g)[n]]
      BY <1>5
    <2> QED
      BY <1>3, <1>7, <1>9, <1>8, <2>1, <2>2
  <1>10. CASE IsUpdate(row)
    <2>1. Cardinality(K) = Rank(K, l) + 1
      BY <1>5, <1>6, <1>10
    <2>2. UpdatesOf(g)[Cardinality(K)] = RecordOf(row) /\ UpdateRow(g, Cardinality(K)) = row
      <3>1. l + 1 \in K
        BY <1>4, <1>10
      <3>2. UpdateAt(g, Cardinality(K)) = l + 1
        BY <1>1, <1>5, <3>1, UpdateAtRank
      <3> QED
        BY <1>1, <1>5, <2>1, <3>2 DEF UpdatesOf, UpdateRow
    <2>3. UpdatesOf(h) = [n \in 1 .. Rank(K, l) |-> UpdatesOf(g)[n]]
      BY <1>3, <1>5
    <2>4. Append(UpdatesOf(h), RecordOf(row)) =
            [n \in 1 .. Rank(K, l) + 1 |->
               IF n = Rank(K, l) + 1 THEN RecordOf(row) ELSE UpdatesOf(g)[n]]
      BY <1>5, <2>3
    <2> HIDE DEF K, g
    <2>5. UpdatesOf(g) = [n \in 1 .. Rank(K, l) + 1 |->
               IF n = Rank(K, l) + 1 THEN RecordOf(row) ELSE UpdatesOf(g)[n]]
      BY <1>5, <1>7, <2>1, <2>2
    <2> QED
      BY <1>3, <1>10, <1>8, <2>1, <2>2, <2>4, <2>5 DEF g
  <1> QED
    BY <1>9, <1>10

\* A history without rows has no updates.
LEMMA NoRows == <<>> \in Seq(Rows) /\ UpdatesOf(<<>>) = <<>>
  <1>1. UpdateRows(<<>>) = {}
    BY DEF UpdateRows
  <1>2. Cardinality(UpdateRows(<<>>)) = 0
    BY <1>1, FS_EmptySet
  <1>3. UpdatesOf(<<>>) = [n \in 1 .. 0 |-> RecordOf(<<>>[UpdateAt(<<>>, n)])]
    BY <1>2 DEF UpdatesOf
  <1> QED
    BY <1>3

\* The updates of a history are records of seeds and rewards.
LEMMA UpdatesType ==
    ASSUME NEW h \in Seq(Rows)
    PROVE  UpdatesOf(h) \in Seq(Records) /\ Len(UpdatesOf(h)) \in Nat
  <1> DEFINE U == UpdatesOf(h)
  <1>1. /\ Len(U) \in Nat /\ U = [n \in 1 .. Len(U) |-> U[n]]
        /\ Len(U) = Cardinality(UpdateRows(h))
        /\ \A n \in 1 .. Len(U) : U[n] = RecordOf(h[UpdateAt(h, n)])
    BY UpdatesShape
  <1>2. ASSUME NEW n \in 1 .. Len(U) PROVE U[n] \in Records
    <2> DEFINE row == h[UpdateAt(h, n)]
    <2>1. UpdateAt(h, n) \in UpdateRows(h) /\ UpdateAt(h, n) \in 1 .. Len(h)
      BY <1>1, UpdateAtRow
    <2>2. row \in Rows /\ IsUpdate(row)
      BY <2>1, ElementOfSeq DEF UpdateRows
    <2>3. RecordOf(row) \in Records
      BY <2>2 DEF Rows, RecordOf, Records, IsUpdate
    <2> QED
      BY <1>1, <2>3
  <1> QED
    BY <1>1, <1>2

\* Every evaluation is one of the model of the updates up to its row.
Recorded(h) ==
    \A i \in 1 .. Len(h) :
        h[i].eval # None =>
            h[i].eval = {[log |-> UpdatesOf(SubSeq(h, 1, i)), noise |-> NoNoise]}

\* A prefix of a prefix is a prefix.
LEMMA PrefixOfPrefix ==
    ASSUME NEW S, NEW h \in Seq(S), NEW k \in 0 .. Len(h), NEW i \in 0 .. k
    PROVE  SubSeq(SubSeq(h, 1, k), 1, i) = SubSeq(h, 1, i)
  <1>1. Len(h) \in Nat
    BY LenProperties
  <1>2. /\ SubSeq(h, 1, k) \in Seq(S) /\ Len(SubSeq(h, 1, k)) = k
        /\ \A j \in 1 .. k : SubSeq(h, 1, k)[j] = h[j]
    BY <1>1, ElementOfSeq, SubSeqProperties
  <1>3. /\ SubSeq(h, 1, i) \in Seq(S) /\ Len(SubSeq(h, 1, i)) = i
        /\ \A j \in 1 .. i : SubSeq(h, 1, i)[j] = h[j]
    BY <1>1, ElementOfSeq, SubSeqProperties
  <1> DEFINE g == SubSeq(h, 1, k)
  <1>4. /\ SubSeq(g, 1, i) \in Seq(S) /\ Len(SubSeq(g, 1, i)) = i
        /\ \A j \in 1 .. i : SubSeq(g, 1, i)[j] = g[j]
    <2>1. g \in Seq(S) /\ Len(g) = k /\ k \in Nat /\ i \in Nat
      BY <1>1, <1>2
    <2> HIDE DEF g
    <2> QED
      BY <2>1, ElementOfSeq, SubSeqProperties
  <1> QED
    BY <1>2, <1>3, <1>4, SeqEqual

\* A row more leaves the prefixes of a history.
LEMMA PrefixOfAppend ==
    ASSUME NEW S, NEW h \in Seq(S), NEW row \in S
    PROVE  /\ \A i \in 0 .. Len(h) : SubSeq(Append(h, row), 1, i) = SubSeq(h, 1, i)
           /\ SubSeq(Append(h, row), 1, Len(h) + 1) = Append(h, row)
  <1> DEFINE g == Append(h, row)
  <1>1. /\ g \in Seq(S) /\ Len(g) = Len(h) + 1 /\ Len(h) \in Nat
        /\ \A i \in 1 .. Len(h) : g[i] = h[i]
    BY AppendProperties, LenProperties
  <1> HIDE DEF g
  <1>2. SubSeq(g, 1, Len(h) + 1) = g
    BY <1>1, SubSeqFull
  <1>3. ASSUME NEW i \in 0 .. Len(h) PROVE SubSeq(g, 1, i) = SubSeq(h, 1, i)
    <2>1. /\ SubSeq(h, 1, i) \in Seq(S) /\ Len(SubSeq(h, 1, i)) = i
          /\ \A j \in 1 .. i : SubSeq(h, 1, i)[j] = h[j]
      BY <1>1, ElementOfSeq, SubSeqProperties
    <2>2. /\ SubSeq(g, 1, i) \in Seq(S) /\ Len(SubSeq(g, 1, i)) = i
          /\ \A j \in 1 .. i : SubSeq(g, 1, i)[j] = g[j]
      BY <1>1, ElementOfSeq, SubSeqProperties
    <2> QED
      BY <1>1, <2>1, <2>2, SeqEqual
  <1> QED
    BY <1>2, <1>3 DEF g

\* A partial resume keeps the rows before the first update it does not want: the
\* updates it wants, and evaluations of the models they made.
LEMMA PrefixKept ==
    ASSUME NEW h \in Seq(Rows), NEW n \in 0 .. Len(UpdatesOf(h))
    PROVE  /\ PrefixThrough(h, n) \in Seq(Rows)
           /\ UpdatesOf(PrefixThrough(h, n)) = SubSeq(UpdatesOf(h), 1, n)
           /\ \A j \in 1 .. n : UpdateRow(PrefixThrough(h, n), j) = UpdateRow(h, j)
           /\ Recorded(h) => Recorded(PrefixThrough(h, n))
  <1>1. UpdatesOf(h) \in Seq(Records) /\ Len(UpdatesOf(h)) \in Nat /\ n \in Nat
    BY UpdatesType
  <1>2. CASE n >= Len(UpdatesOf(h))
    <2>1. n = Len(UpdatesOf(h)) /\ PrefixThrough(h, n) = h
      BY <1>1, <1>2 DEF PrefixThrough
    <2>2. SubSeq(UpdatesOf(h), 1, n) = UpdatesOf(h)
      BY <1>1, <2>1, SubSeqFull
    <2> QED
      BY <2>1, <2>2
  <1>3. CASE n < Len(UpdatesOf(h))
    <2> DEFINE K == UpdateRows(h)
               i == UpdateAt(h, n + 1)
               g == SubSeq(h, 1, i - 1)
    <2>1. /\ K \in SUBSET (1 .. Len(h)) /\ Len(h) \in Nat
          /\ Len(UpdatesOf(h)) = Cardinality(K)
      BY UpdatesShape
    <2>2. i \in K /\ i \in 1 .. Len(h) /\ Rank(K, i) = n + 1
      <3>1. n + 1 \in 1 .. Cardinality(K)
        BY <1>1, <1>3, <2>1
      <3> QED
        BY <3>1, UpdateAtRow
    <2> HIDE DEF K, i
    <2>3. i - 1 \in 0 .. Len(h) /\ i - 1 \in Nat /\ i \in Nat \ {0}
      BY <2>1, <2>2
    <2>4. Rank(K, i - 1) = n
      <3>1. Rank(K, i) = Rank(K, i - 1) + 1
        BY <2>1, <2>2, <2>3, RankStep
      <3>2. Rank(K, i - 1) \in Nat
        BY <2>1, <2>3, RankType
      <3> QED
        BY <1>1, <2>2, <3>1, <3>2
    <2>5. PrefixThrough(h, n) = g
      BY <1>3 DEF PrefixThrough, i
    <2>6. /\ UpdatesOf(g) = SubSeq(UpdatesOf(h), 1, n)
          /\ \A j \in 1 .. n : UpdateRow(g, j) = UpdateRow(h, j)
      BY <2>3, <2>4, UpdatesPrefix DEF K
    <2>7. /\ g \in Seq(Rows) /\ Len(g) = i - 1
          /\ \A j \in 1 .. i - 1 : g[j] = h[j]
      BY <2>1, <2>3, ElementOfSeq, SubSeqProperties
    <2>8. ASSUME Recorded(h), NEW j \in 1 .. Len(g), g[j].eval # None
          PROVE  g[j].eval = {[log |-> UpdatesOf(SubSeq(g, 1, j)), noise |-> NoNoise]}
      <3>1. j \in 1 .. i - 1 /\ j \in 0 .. i - 1 /\ j \in 1 .. Len(h) /\ g[j] = h[j]
        BY <2>1, <2>3, <2>7
      <3>2. SubSeq(g, 1, j) = SubSeq(h, 1, j)
        BY <2>3, <3>1, PrefixOfPrefix
      <3> QED
        BY <2>8, <3>1, <3>2 DEF Recorded
    <2>9. Recorded(h) => Recorded(g)
      BY <2>8 DEF Recorded
    <2> QED
      BY <2>5, <2>6, <2>7, <2>9
  <1> QED
    BY <1>1, <1>2, <1>3

\* A row that is appended with the evaluation of the model after it.
LEMMA RecordedAppend ==
    ASSUME NEW h \in Seq(Rows), NEW row \in Rows, Recorded(h),
           row.eval # None =>
              row.eval = {[log |-> UpdatesOf(Append(h, row)), noise |-> NoNoise]}
    PROVE  Recorded(Append(h, row))
  <1> DEFINE g == Append(h, row)
  <1>1. /\ g \in Seq(Rows) /\ Len(g) = Len(h) + 1 /\ Len(h) \in Nat
        /\ \A i \in 1 .. Len(h) : g[i] = h[i]
        /\ g[Len(h) + 1] = row
    BY AppendProperties, LenProperties
  <1>2. /\ \A i \in 0 .. Len(h) : SubSeq(g, 1, i) = SubSeq(h, 1, i)
        /\ SubSeq(g, 1, Len(h) + 1) = g
    BY PrefixOfAppend
  <1> SUFFICES ASSUME NEW i \in 1 .. Len(g), g[i].eval # None
               PROVE  g[i].eval = {[log |-> UpdatesOf(SubSeq(g, 1, i)), noise |-> NoNoise]}
    BY DEF Recorded
  <1>3. CASE i = Len(h) + 1
    BY <1>1, <1>2, <1>3
  <1>4. CASE i # Len(h) + 1
    <2>1. i \in 1 .. Len(h) /\ i \in 0 .. Len(h)
      BY <1>1, <1>4
    <2>2. g[i] = h[i] /\ SubSeq(g, 1, i) = SubSeq(h, 1, i)
      BY <1>1, <1>2, <2>1
    <2> QED
      BY <2>1, <2>2 DEF Recorded
  <1> QED
    BY <1>3, <1>4

-------------------------------------------------------------------------------
(* The workers. *)

\* A seed's noise is some noise.
LEMMA OneNotNone ==
    ASSUME NEW s \in SeedRange
    PROVE  One(s) # NoNoise /\ One(s)[s] = 1 /\ \A t \in SeedRange : One(s)[t] = 1 => t = s
  BY DEF One, NoNoise

\* Noise changes nothing else of a worker.
LEMMA NoisedShape ==
    ASSUME NEW w \in Workers, NEW s, NEW times
    PROVE  Noised(w, s, times) =
             [log |-> w.log, noise |-> [w.noise EXCEPT ![s] = @ + times],
              perturbed |-> w.perturbed]
  <1>1. w = [log |-> w.log, noise |-> w.noise, perturbed |-> w.perturbed]
    BY DEF Workers
  <1> QED
    BY <1>1 DEF Noised

\* A perturbation of clean weights is that of its seed.
LEMMA AppliedOne ==
    ASSUME NEW w \in Workers, NEW s \in SeedRange, w.noise = NoNoise
    PROVE  /\ Applied(w, s) \in Workers /\ Applied(w, s).log = w.log
           /\ Applied(w, s).noise = One(s) /\ Applied(w, s).perturbed = TRUE
  <1>1. Noised(w, s, 1) = [log |-> w.log, noise |-> [NoNoise EXCEPT ![s] = @ + 1],
                           perturbed |-> w.perturbed]
    BY NoisedShape
  <1>2. [NoNoise EXCEPT ![s] = @ + 1] = One(s)
    BY DEF One, NoNoise
  <1>3. Noised(w, s, 1) \in Workers /\ Noised(w, s, 1).noise = One(s) /\ Noised(w, s, 1).log = w.log
    BY <1>1, <1>2 DEF Workers
  <1> QED
    BY <1>3 DEF Workers, Applied

\* A revert takes exactly that noise away.
LEMMA RevertedOne ==
    ASSUME NEW w \in Workers, NEW s \in SeedRange, w.noise = One(s)
    PROVE  /\ Reverted(w, s) \in Workers /\ Reverted(w, s).log = w.log
           /\ Reverted(w, s).noise = NoNoise /\ Reverted(w, s).perturbed = FALSE
  <1>1. Noised(w, s, -1) = [log |-> w.log, noise |-> [One(s) EXCEPT ![s] = @ + -1],
                            perturbed |-> w.perturbed]
    BY NoisedShape
  <1>2. [One(s) EXCEPT ![s] = @ + -1] = NoNoise
    BY DEF One, NoNoise
  <1>3. Noised(w, s, -1) \in Workers /\ Noised(w, s, -1).noise = NoNoise /\ Noised(w, s, -1).log = w.log
    BY <1>1, <1>2 DEF Workers
  <1> QED
    BY <1>3 DEF Workers, Reverted

\* What rollouts earn under a seed's noise is what the model earns under it.
LEMMA EarnedOne ==
    ASSUME NEW w, NEW s \in SeedRange, w.noise = One(s)
    PROVE  /\ Earned(w, FALSE) = RewardsOf(w.log, s)
           /\ Earned(w, TRUE) = LossyRewardsOf(w.log, s)
  <1>1. \E t \in SeedRange : w.noise = [NoNoise EXCEPT ![t] = 1]
    BY DEF One
  <1>2. (CHOOSE t \in SeedRange : w.noise[t] = 1) = s
    BY OneNotNone
  <1> QED
    BY <1>1, <1>2 DEF Earned, SeedIn

-------------------------------------------------------------------------------
(* Steps of the engines. *)

\* A call that is alone.
LEMMA OnlyCall ==
    ASSUME NEW call
    PROVE  <<call>> # <<>> /\ Head(<<call>>) = call /\ Tail(<<call>>) = <<>> /\ Len(<<call>>) = 1
  OBVIOUS

\* The first sample of an engine, and those after it.
LEMMA FirstSample ==
    ASSUME NEW q \in Seq(Samples), q # <<>>
    PROVE  /\ Head(q) = q[1] /\ Head(q) \in Samples /\ 1 \in 1 .. Len(q)
           /\ Tail(q) \in Seq(Samples) /\ Len(q) \in Nat \ {0} /\ Len(Tail(q)) = Len(q) - 1
           /\ \A n \in 1 .. Len(Tail(q)) : Tail(q)[n] = q[n + 1] /\ n + 1 \in 1 .. Len(q)
  <1>1. Len(q) \in Nat \ {0}
    BY EmptySeq
  <1> QED
    BY <1>1, HeadTailProperties

\* While samples are collected the engines have only samples to work through.
LEMMA InCollect ==
    ASSUME IInv, pc = "collect", NEW e \in Engines
    PROVE  /\ Collecting /\ Sampling(calls[e], engine[e], phase[e])
           /\ engine[e] \in Workers /\ phase[e] \in {"start", "rollout"}
           /\ calls[e] \in Seq(Samples) /\ engine[e].log = UpdatesOf(rows)
  BY DEF IInv, Typed, Collecting, Sampling

\* A perturbation is only ever applied for a sample.
LEMMA ApplyInCollect ==
    ASSUME IInv, NEW e \in Engines, Apply(e)
    PROVE  pc = "collect"
  <1>1. pc \in {"down", "refused", "done", "initial", "loop"} => calls[e] = <<>>
    BY DEF IInv, Started, Rests
  <1>2. pc \in {"replay", "update"} =>
          calls[e] = <<>> \/ \E r : calls[e] = <<[op |-> "update", arg |-> r]>>
    BY DEF IInv, Replaying, Updating, Updates, Rests
  <1>3. calls[e] # <<>> /\ Head(calls[e]).op = "evaluate"
    BY DEF Apply
  <1>4. ASSUME NEW r, calls[e] = <<[op |-> "update", arg |-> r]>> PROVE FALSE
    <2>1. Head(calls[e]) = [op |-> "update", arg |-> r]
      BY <1>4, OnlyCall
    <2> QED
      BY <1>3, <2>1
  <1> QED
    BY <1>1, <1>2, <1>3, <1>4 DEF IInv

\* A rollout is one of a sample.
LEMMA RolloutInCollect ==
    ASSUME IInv, NEW e \in Engines, phase[e] = "rollout"
    PROVE  pc = "collect" /\ calls[e] # <<>>
  <1>1. pc \in {"down", "refused", "done", "initial", "loop"} => phase[e] = "start"
    BY DEF IInv, Started, Rests, Quiet
  <1>2. pc \in {"replay", "update"} => phase[e] = "start"
    BY DEF IInv, Replaying, Updating, Updates, Rests, Quiet
  <1>3. pc = "collect"
    BY <1>1, <1>2 DEF IInv
  <1> QED
    BY <1>3, InCollect DEF Sampling

\* What stays when an engine makes a step.
LEMMA EngineTypes ==
    ASSUME Typed, UNCHANGED <<disk, driver, reruns>>, faults' \in 0 .. MaxFaults,
           losses' \in 0 .. faults',
           failed' \in BOOLEAN, engine' \in [Engines -> Workers],
           phase' \in [Engines -> {"start", "rollout"}], calls' = [e \in Engines |-> calls'[e]],
           result' \in [Items -> Nat \cup {None}]
    PROVE  Typed'
  BY DEF Typed, driver

\* A step of an engine that collects keeps the batch.
LEMMA CollectKept ==
    ASSUME IInv, pc = "collect", UNCHANGED <<disk, pc, driver>>, Typed',
           losses' = 0 => losses = 0,
           \A f \in Engines : /\ Sampling(calls[f], engine[f], phase[f])'
                              /\ engine'[f].log = engine[f].log,
           Waiting(calls)', Rewarded(result, UpdatesOf(rows))'
    PROVE  IInv'
  <1>1. Collecting /\ EvaluatedAsRecorded
    BY DEF IInv
  <1>2. InBatch' /\ Rewarded(samples, UpdatesOf(rows))'
    BY <1>1 DEF Collecting, InBatch, Holding, Rewarded, Worth, driver
  <1>3. \A f \in Engines : engine'[f].log = UpdatesOf(rows)'
    BY <1>1 DEF Collecting, driver
  <1>4. Collecting'
    BY <1>2, <1>3 DEF Collecting
  <1> QED
    BY <1>1, <1>4 DEF IInv, EvaluatedAsRecorded

\* The weights take the noise of the sample's seed.
LEMMA ApplyStep ==
    ASSUME IInv, NEW e \in Engines, Apply(e)
    PROVE  IInv'
  <1>1. pc = "collect"
    BY ApplyInCollect
  <1>2. /\ Collecting /\ Typed
        /\ \A f \in Engines : Sampling(calls[f], engine[f], phase[f])
    BY <1>1 DEF IInv, Collecting
  <1> DEFINE q == calls[e]
             w == engine[e]
  <1>3. /\ q \in Seq(Samples) /\ q # <<>> /\ phase[e] = "start" /\ w \in Workers
        /\ w.noise = NoNoise
    BY <1>2 DEF Apply, Sampling, Typed, Quiet
  <1>4. Head(q) = q[1] /\ Head(q).arg \in SeedRange
    BY <1>3, FirstSample DEF Samples
  <1>5. /\ engine' = [engine EXCEPT ![e] = Applied(w, Head(q).arg)]
        /\ phase' = [phase EXCEPT ![e] = "rollout"]
        /\ UNCHANGED <<disk, calls, result, failed, pc, driver, budget>>
    BY DEF Apply
  <1>6. /\ Applied(w, Head(q).arg) \in Workers /\ Applied(w, Head(q).arg).log = w.log
        /\ Applied(w, Head(q).arg).noise = One(q[1].arg)
        /\ Applied(w, Head(q).arg).perturbed = TRUE
    BY <1>3, <1>4, AppliedOne
  <1>7. Typed'
    <2>1. engine' \in [Engines -> Workers] /\ phase' \in [Engines -> {"start", "rollout"}]
      BY <1>2, <1>5, <1>6 DEF Typed
    <2> QED
      BY <1>2, <1>5, <2>1, EngineTypes DEF Typed, budget
  <1>8. ASSUME NEW f \in Engines
        PROVE  Sampling(calls[f], engine[f], phase[f])' /\ engine'[f].log = engine[f].log
    <2>1. calls'[f] = calls[f] /\ seeds' = seeds
      BY <1>5 DEF driver
    <2>2. CASE f = e
      <3>1. engine'[f] = Applied(w, Head(q).arg) /\ phase'[f] = "rollout"
        BY <1>2, <1>5, <2>2 DEF Typed
      <3> QED
        BY <1>2, <1>3, <1>6, <2>1, <2>2, <3>1 DEF Sampling
    <2>3. CASE f # e
      <3>1. engine'[f] = engine[f] /\ phase'[f] = phase[f]
        BY <1>2, <1>5, <2>3 DEF Typed
      <3> QED
        BY <1>2, <2>1, <3>1 DEF Sampling
    <2> QED
      BY <2>2, <2>3
  <1>9. Waiting(calls)' /\ Rewarded(result, UpdatesOf(rows))'
    BY <1>2, <1>5 DEF Collecting, Waiting, Rewarded, Worth, driver, budget
  <1> QED
    BY <1>1, <1>5, <1>7, <1>8, <1>9, CollectKept DEF budget

\* The end of a rollout, with its reward or with an exception: the noise is taken
\* away, and the engine goes on to the next sample.
LEMMA RolloutEnds ==
    ASSUME IInv, NEW e \in Engines, phase[e] = "rollout",
           engine' = [engine EXCEPT ![e] = Reverted(@, Head(calls[e]).arg)],
           phase' = [phase EXCEPT ![e] = "start"],
           calls' = [calls EXCEPT ![e] = Tail(@)],
           UNCHANGED <<disk, pc, driver, reruns>>,
           failed' \in BOOLEAN, faults' \in 0 .. MaxFaults, losses' \in 0 .. faults',
           losses' = 0 => losses = 0,
           \/ result' = result
           \/ \E r \in AnyRewardsOf(UpdatesOf(rows), seeds[Head(calls[e]).item]) :
                 /\ losses' = 0 => r \in RewardsOf(UpdatesOf(rows), seeds[Head(calls[e]).item])
                 /\ r \in Nat /\ result' = [result EXCEPT ![Head(calls[e]).item] = r]
    PROVE  IInv'
  <1>1. pc = "collect" /\ calls[e] # <<>>
    BY RolloutInCollect
  <1>2. /\ Collecting /\ Typed /\ Waiting(calls)
        /\ \A f \in Engines : Sampling(calls[f], engine[f], phase[f])
    BY <1>1 DEF IInv, Collecting
  <1> DEFINE q == calls[e]
             w == engine[e]
             i == Head(q).item
  <1>3. q \in Seq(Samples) /\ q # <<>> /\ w \in Workers /\ w.noise = One(q[1].arg)
    BY <1>1, <1>2 DEF Sampling, Typed
  <1>4. /\ Head(q) = q[1] /\ Head(q).arg \in SeedRange /\ i \in Items
        /\ Tail(q) \in Seq(Samples) /\ 1 \in 1 .. Len(q)
        /\ \A n \in 1 .. Len(Tail(q)) : Tail(q)[n] = q[n + 1] /\ n + 1 \in 1 .. Len(q)
    BY <1>3, FirstSample DEF Samples
  <1>5. /\ Reverted(w, Head(q).arg) \in Workers /\ Reverted(w, Head(q).arg).log = w.log
        /\ Reverted(w, Head(q).arg).noise = NoNoise
        /\ Reverted(w, Head(q).arg).perturbed = FALSE
    BY <1>3, <1>4, RevertedOne
  <1>6. result' \in [Items -> Nat \cup {None}] /\ \A j \in Items : j # i => result'[j] = result[j]
    BY <1>2 DEF Typed
  <1>7. Typed'
    <2>1. engine' \in [Engines -> Workers] /\ phase' \in [Engines -> {"start", "rollout"}]
      BY <1>2, <1>5 DEF Typed
    <2>2. calls' = [f \in Engines |-> calls'[f]]
      BY <1>2 DEF Typed
    <2> QED
      BY <1>2, <1>6, <2>1, <2>2, EngineTypes
  <1>8. ASSUME NEW f \in Engines
        PROVE  /\ Sampling(calls[f], engine[f], phase[f])' /\ engine'[f].log = engine[f].log
               /\ calls'[f] = IF f = e THEN Tail(q) ELSE calls[f]
    <2>1. seeds' = seeds
      BY DEF driver
    <2>2. CASE f = e
      <3>1. /\ engine'[f] = Reverted(w, Head(q).arg) /\ phase'[f] = "start"
            /\ calls'[f] = Tail(q)
        BY <1>2, <2>2 DEF Typed
      <3>2. \A n \in 1 .. Len(Tail(q)) : Tail(q)[n].arg = seeds[Tail(q)[n].item]
        BY <1>2, <1>4 DEF Sampling
      <3> QED
        BY <1>4, <1>5, <2>1, <2>2, <3>1, <3>2 DEF Sampling, Quiet
    <2>3. CASE f # e
      <3>1. engine'[f] = engine[f] /\ phase'[f] = phase[f] /\ calls'[f] = calls[f]
        BY <1>2, <2>3 DEF Typed
      <3> QED
        BY <1>2, <2>1, <2>3, <3>1 DEF Sampling
    <2> QED
      BY <2>2, <2>3
  <1>9. Waiting(calls)'
    <2> DEFINE At(f, n) == IF f = e THEN n + 1 ELSE n
    <2>1. ASSUME NEW f \in Engines, NEW n \in 1 .. Len(calls'[f])
          PROVE  /\ At(f, n) \in 1 .. Len(calls[f]) /\ calls'[f][n] = calls[f][At(f, n)]
                 /\ f # e \/ At(f, n) # 1
                 /\ calls[f][At(f, n)].item \in Items
      <3>1. CASE f = e
        <4>1. calls'[f] = Tail(q) /\ At(f, n) = n + 1 /\ n \in 1 .. Len(Tail(q))
          BY <1>8, <3>1
        <4>2. Tail(q)[n] = q[n + 1] /\ n + 1 \in 1 .. Len(q) /\ n + 1 # 1
          BY <1>4, <4>1
        <4>3. q[n + 1] \in Samples
          BY <1>3, <4>2, ElementOfSeq
        <4> QED
          BY <3>1, <4>1, <4>2, <4>3 DEF Samples
      <3>2. CASE f # e
        <4>1. calls'[f] = calls[f] /\ At(f, n) = n /\ n \in 1 .. Len(calls[f])
          BY <1>8, <3>2
        <4>2. calls[f][n] \in Samples
          BY <1>2, <4>1, ElementOfSeq DEF Sampling
        <4> QED
          BY <3>2, <4>1, <4>2 DEF Samples
      <3> QED
        BY <3>1, <3>2
    <2>2. ASSUME NEW f \in Engines, NEW n \in 1 .. Len(calls'[f])
          PROVE  result'[calls'[f][n].item] = None /\ samples'[calls'[f][n].item] = None
      <3>1. calls[f][At(f, n)].item # i
        BY <1>2, <1>4, <2>1 DEF Waiting
      <3>2. /\ result[calls[f][At(f, n)].item] = None
            /\ samples[calls[f][At(f, n)].item] = None
        BY <1>2, <2>1 DEF Waiting
      <3>3. result'[calls[f][At(f, n)].item] = None
        BY <1>6, <2>1, <3>1, <3>2
      <3> QED
        BY <2>1, <3>2, <3>3 DEF driver
    <2>3. ASSUME NEW f \in Engines, NEW g \in Engines,
                 NEW n \in 1 .. Len(calls'[f]), NEW m \in 1 .. Len(calls'[g]),
                 f # g \/ n # m
          PROVE  calls'[f][n].item # calls'[g][m].item
      <3>1. f # g \/ At(f, n) # At(g, m)
        BY <2>3
      <3> QED
        BY <1>2, <2>1, <3>1 DEF Waiting
    <2> QED
      BY <2>2, <2>3 DEF Waiting
  <1>10. Rewarded(result, UpdatesOf(rows))'
    <2>1. Rewarded(result, UpdatesOf(rows))
      BY <1>2 DEF Collecting
    <2>2. rows' = rows /\ seeds' = seeds
      BY DEF driver
    <2>3. CASE result' = result
      BY <2>1, <2>2, <2>3 DEF Rewarded, Worth
    <2>4. ASSUME NEW r \in AnyRewardsOf(UpdatesOf(rows), seeds[i]),
                 losses' = 0 => r \in RewardsOf(UpdatesOf(rows), seeds[i]),
                 result' = [result EXCEPT ![i] = r]
          PROVE  Rewarded(result, UpdatesOf(rows))'
      BY <1>2, <1>4, <2>1, <2>2, <2>4 DEF Rewarded, Worth, Typed
    <2> QED
      BY <2>3, <2>4
  <1> QED
    BY <1>1, <1>7, <1>8, <1>9, <1>10, CollectKept

\* The rollouts of a sample return, having lost cases or none.
LEMMA ReturnsStep ==
    ASSUME Scored, IInv, NEW e \in Engines, NEW lossy \in BOOLEAN, RolloutReturns(e, lossy),
           faults' \in 0 .. MaxFaults, losses' \in 0 .. faults',
           losses' = 0 => losses = 0 /\ ~lossy
    PROVE  IInv'
  <1> DEFINE q == calls[e]
             w == engine[e]
             s == seeds[Head(q).item]
             U == UpdatesOf(rows)
  <1>1. pc = "collect" /\ q # <<>> /\ phase[e] = "rollout"
    BY RolloutInCollect DEF RolloutReturns
  <1>2. /\ Sampling(q, w, phase[e]) /\ w \in Workers /\ q \in Seq(Samples)
        /\ w.log = U
    BY <1>1, InCollect
  <1>3. /\ Head(q) = q[1] /\ q[1].arg \in SeedRange /\ 1 \in 1 .. Len(q)
    BY <1>1, <1>2, FirstSample DEF Samples
  <1>4. w.noise = One(q[1].arg) /\ q[1].arg = s
    BY <1>1, <1>2, <1>3 DEF Sampling
  <1>5. Earned(w, lossy) = IF lossy THEN LossyRewardsOf(U, s) ELSE RewardsOf(U, s)
    BY <1>2, <1>3, <1>4, EarnedOne
  <1>6. Earned(w, lossy) \subseteq AnyRewardsOf(U, s) /\ AnyRewardsOf(U, s) \subseteq Nat
    BY <1>2, <1>3, <1>4, <1>5 DEF Scored, Workers, Logs, AnyRewardsOf
  <1>7. losses' = 0 => Earned(w, lossy) = RewardsOf(U, s)
    BY <1>5
  <1>8. failed' \in BOOLEAN
    BY DEF RolloutReturns, IInv, Typed
  <1> QED
    BY <1>1, <1>6, <1>7, <1>8, RolloutEnds DEF RolloutReturns

LEMMA RolloutStep ==
    ASSUME Scored, IInv, NEW e \in Engines, Rollout(e) \/ RolloutLoses(e)
    PROVE  IInv'
  <1>1. losses \in 0 .. faults /\ faults \in 0 .. MaxFaults /\ MaxFaults \in Nat
    BY RunBounds DEF IInv, Typed
  <1>2. CASE Rollout(e)
    BY <1>1, <1>2, ReturnsStep DEF Rollout
  <1>3. CASE RolloutLoses(e)
    <2>1. /\ RolloutReturns(e, TRUE) /\ TRUE \in BOOLEAN
          /\ faults < MaxFaults /\ losses' = losses + 1 /\ faults' = faults + 1
      BY <1>3 DEF RolloutLoses
    <2>2. faults' \in 0 .. MaxFaults /\ losses' \in 0 .. faults' /\ losses' # 0
      BY <1>1, <2>1
    <2> QED
      BY <2>1, <2>2, ReturnsStep
  <1> QED
    BY <1>2, <1>3

\* The rollouts of a sample raise.
LEMMA RolloutFailsStep ==
    ASSUME IInv, NEW e \in Engines, RolloutFails(e)
    PROVE  IInv'
  <1>1. /\ failed' \in BOOLEAN /\ faults' \in 0 .. MaxFaults /\ losses' \in 0 .. faults'
        /\ losses' = losses
    BY RunBounds DEF RolloutFails, IInv, Typed
  <1> QED
    BY <1>1, RolloutEnds DEF RolloutFails

\* The seeds of a generation are within the stream of the run.
LEMMA StreamBounds ==
    ASSUME NEW g \in 0 .. Generations - 1
    PROVE  /\ g * Population \in Nat /\ (g + 1) * Population = g * Population + Population
           /\ (g + 1) * Population \in 0 .. Population * Generations
           /\ SeedsOf(g) \in [Items -> SeedRange]
  <1>1. g \in Nat /\ Population \in Nat \ {0} /\ Generations \in Nat
    BY RunShape
  <1>2. PICK d \in Nat : Generations = g + 1 + d
    BY <1>1
  <1>3. /\ (g + 1) * Population = g * Population + Population
        /\ Population * Generations = g * Population + Population + Population * d
    BY <1>1, <1>2
  <1>4. g * Population \in Nat /\ Population * d \in Nat
    BY <1>1, <1>2
  <1>5. g * Population + Population <= Population * Generations
    BY <1>1, <1>3, <1>4
  <1> QED
    BY <1>1, <1>3, <1>4, <1>5 DEF SeedsOf, Items, SeedRange

\* What a generation sampled is a record of it.
LEMMA SampledType ==
    ASSUME Typed, InBatch, \A i \in Items : samples[i] # None
    PROVE  Sampled \in Records
  <1>1. seeds \in [Items -> SeedRange]
    <2>1. gen \in 0 .. Generations - 1
      BY RunShape DEF Typed, InBatch
    <2> QED
      BY <2>1, StreamBounds DEF InBatch
  <1>2. samples \in [Items -> Nat]
    BY DEF Typed
  <1> QED
    BY <1>1, <1>2 DEF Sampled, Records

\* An engine takes the update that waits for it.
LEMMA UpdateApplied ==
    ASSUME NEW record \in Records, NEW before, NEW q, NEW w \in Workers, NEW ph,
           Updates(q, w, ph, record, before), q # <<>>
    PROVE  /\ Head(q).arg = record /\ w.perturbed = FALSE
           /\ [w EXCEPT !.log = Append(@, record)] \in Workers
           /\ Updates(Tail(q), [w EXCEPT !.log = Append(@, record)], ph, record, before)
  <1>1. /\ q = <<[op |-> "update", arg |-> record]>> /\ w.log = before
        /\ Quiet(w, ph)
    BY DEF Updates
  <1>2. Head(q) = [op |-> "update", arg |-> record] /\ Tail(q) = <<>>
    BY <1>1, OnlyCall
  <1>3. Append(w.log, record) \in Logs
    BY AppendProperties DEF Workers, Logs
  <1> DEFINE v == [w EXCEPT !.log = Append(@, record)]
  <1>4. /\ v \in Workers /\ v.log = Append(before, record) /\ v.noise = w.noise
        /\ v.perturbed = w.perturbed
    BY <1>1, <1>3 DEF Workers
  <1> QED
    BY <1>1, <1>2, <1>4 DEF Updates, Quiet

\* The engines' logs while an update is under way: before it, or after it.
LEMMA UpdateInWay ==
    ASSUME IInv, NEW e \in Engines, calls[e] # <<>>, Head(calls[e]).op = "update"
    PROVE  \/ /\ pc = "replay" /\ Replaying /\ rec # 0 /\ UpdatesOf(disk)[rec] \in Records
              /\ \A f \in Engines : Updates(calls[f], engine[f], phase[f], UpdatesOf(disk)[rec],
                                            SubSeq(UpdatesOf(disk), 1, rec - 1))
           \/ /\ pc = "update" /\ Updating /\ Sampled \in Records
              /\ \A f \in Engines :
                    Updates(calls[f], engine[f], phase[f], Sampled, UpdatesOf(rows))
  <1>1. pc # "collect"
    <2> SUFFICES ASSUME pc = "collect" PROVE FALSE
      OBVIOUS
    <2>1. calls[e] \in Seq(Samples)
      BY InCollect
    <2> QED
      BY <2>1, FirstSample DEF Samples
  <1>2. pc \notin {"down", "refused", "done", "initial", "loop"}
    BY DEF IInv, Started, Rests
  <1>3. CASE pc = "replay"
    <2>1. Replaying /\ Typed
      BY <1>3 DEF IInv
    <2>2. rec # 0
      BY <2>1 DEF Replaying, Rests
    <2>3. UpdatesOf(disk) \in Seq(Records) /\ Len(UpdatesOf(disk)) \in Nat
      BY <2>1, UpdatesType DEF Typed
    <2>4. UpdatesOf(disk)[rec] \in Records
      <3>1. rec \in 1 .. Len(UpdatesOf(disk))
        BY <2>1, <2>2, <2>3 DEF Typed, Replaying
      <3> QED
        BY <2>3, <3>1, ElementOfSeq
    <2> QED
      BY <1>3, <2>1, <2>2, <2>4 DEF Replaying
  <1>4. CASE pc = "update"
    <2>1. Updating /\ Typed
      BY <1>4 DEF IInv
    <2>2. Sampled \in Records
      BY <2>1, SampledType DEF Updating
    <2> QED
      BY <1>4, <2>1, <2>2 DEF Updating
  <1> QED
    BY <1>1, <1>2, <1>3, <1>4 DEF IInv

\* An engine carries out an update; none that was submitted is refused.
LEMMA UpdateStep ==
    ASSUME IInv, NEW e \in Engines, Update(e)
    PROVE  IInv'
  <1>1. /\ calls[e] # <<>> /\ Head(calls[e]).op = "update"
        /\ calls' = [calls EXCEPT ![e] = Tail(@)]
        /\ UNCHANGED <<disk, phase, result, pc, driver, budget>>
    BY DEF Update
  <1>2. ASSUME NEW record \in Records, NEW before,
               \A f \in Engines : Updates(calls[f], engine[f], phase[f], record, before)
        PROVE  /\ Typed'
               /\ \A f \in Engines : Updates(calls'[f], engine'[f], phase'[f], record, before)
    <2> DEFINE v == [engine[e] EXCEPT !.log = Append(@, record)]
    <2>1. Typed
      BY DEF IInv
    <2>2. engine[e] \in Workers
      BY <2>1 DEF Typed
    <2>3. /\ Head(calls[e]).arg = record /\ engine[e].perturbed = FALSE /\ v \in Workers
          /\ Updates(Tail(calls[e]), v, phase[e], record, before)
      BY <1>1, <1>2, <2>2, UpdateApplied
    <2>4. engine' = [engine EXCEPT ![e] = v] /\ failed' = failed
      <3>1. engine' = [engine EXCEPT ![e].log = Append(@, record)] /\ failed' = failed
        BY <2>3 DEF Update
      <3> QED
        BY <3>1
    <2>5. Typed'
      <3>1. engine' \in [Engines -> Workers]
        BY <2>1, <2>3, <2>4 DEF Typed
      <3>2. calls' = [f \in Engines |-> calls'[f]]
        BY <1>1, <2>1 DEF Typed
      <3> QED
        BY <1>1, <2>1, <2>4, <3>1, <3>2, EngineTypes DEF Typed, budget
    <2>6. ASSUME NEW f \in Engines
          PROVE  Updates(calls'[f], engine'[f], phase'[f], record, before)
      <3>1. CASE f = e
        <4>1. calls'[f] = Tail(calls[e]) /\ engine'[f] = v /\ phase'[f] = phase[e]
          BY <1>1, <2>1, <2>4, <3>1 DEF Typed
        <4> QED
          BY <2>3, <4>1
      <3>2. CASE f # e
        <4>1. calls'[f] = calls[f] /\ engine'[f] = engine[f] /\ phase'[f] = phase[f]
          BY <1>1, <2>1, <2>4, <3>2 DEF Typed
        <4> QED
          BY <1>2, <4>1
      <3> QED
        BY <3>1, <3>2
    <2> QED
      BY <2>5, <2>6
  <1>3. CASE pc = "replay"
    <2>1. /\ Replaying /\ rec # 0 /\ UpdatesOf(disk)[rec] \in Records
          /\ \A f \in Engines : Updates(calls[f], engine[f], phase[f], UpdatesOf(disk)[rec],
                                        SubSeq(UpdatesOf(disk), 1, rec - 1))
      BY <1>1, <1>3, UpdateInWay
    <2>2. /\ Typed'
          /\ \A f \in Engines : Updates(calls'[f], engine'[f], phase'[f], UpdatesOf(disk)[rec],
                                        SubSeq(UpdatesOf(disk), 1, rec - 1))
      BY <1>2, <2>1
    <2>3. Replaying'
      BY <1>1, <2>1, <2>2 DEF Replaying, driver
    <2> QED
      BY <1>1, <1>3, <2>2, <2>3 DEF IInv, EvaluatedAsRecorded
  <1>4. CASE pc = "update"
    <2>1. /\ Updating /\ Sampled \in Records
          /\ \A f \in Engines :
                Updates(calls[f], engine[f], phase[f], Sampled, UpdatesOf(rows))
      BY <1>1, <1>4, UpdateInWay
    <2>2. /\ Typed'
          /\ \A f \in Engines :
                Updates(calls'[f], engine'[f], phase'[f], Sampled, UpdatesOf(rows))
      BY <1>2, <2>1
    <2>3. Updating'
      BY <1>1, <2>1, <2>2 DEF Updating, InBatch, Holding, Rewarded, Worth, Sampled, driver, budget
    <2> QED
      BY <1>1, <1>4, <2>2, <2>3 DEF IInv, EvaluatedAsRecorded
  <1> QED
    BY <1>1, <1>3, <1>4, UpdateInWay

-------------------------------------------------------------------------------
(* Steps of the driver. *)

\* One engine, one item.
LEMMA Some == 1 \in Engines /\ 1 \in Items
  BY RunShape DEF Engines, Items

\* The process ends; its engines are gone with what they held.
LEMMA DieStep ==
    ASSUME IInv, Die, faults' \in 0 .. MaxFaults, losses' \in 0 .. faults', UNCHANGED reruns
    PROVE  IInv'
  <1>1. Fresh \in Workers /\ Fresh.noise = NoNoise /\ Fresh.perturbed = FALSE
    BY EmptySeq DEF Fresh, Workers, Logs
  <1>2. Typed /\ EvaluatedAsRecorded
    BY DEF IInv
  <1>3. NoResult \in [Items -> Nat \cup {None}] /\ <<>> \in Seq(Rows)
    BY EmptySeq DEF NoResult
  <1>4. rng' \in 0 .. Population * Generations /\ gen' \in 0 .. Generations
    BY RunShape DEF Die
  <1>5. Typed'
    <2>1. engine' \in [Engines -> Workers] /\ phase' \in [Engines -> {"start", "rollout"}]
      BY <1>1 DEF Die
    <2>2. calls' = [e \in Engines |-> calls'[e]]
      BY DEF Die
    <2>3. /\ keep' = 0 /\ rec' = 0 /\ gen' = 0 /\ seeds' = <<>> /\ rows' = <<>>
          /\ result' = NoResult /\ samples' = NoResult /\ UNCHANGED disk
      BY DEF Die
    <2>4. keep' \in Nat /\ rec' \in 0 .. keep'
      BY <2>3
    <2>5. failed' \in BOOLEAN /\ asked' \in BOOLEAN
      BY Zenon DEF Die
    <2>6. reruns' \in 0 .. MaxReruns
      BY <1>2 DEF Typed
    <2> QED
      BY <1>2, <1>3, <1>4, <2>1, <2>2, <2>3, <2>4, <2>5, <2>6 DEF Typed
  <1>6. \A e \in Engines : Rests(calls[e], engine[e], phase[e])'
    BY <1>1 DEF Die, Rests, Quiet
  <1> QED
    BY <1>2, <1>5, <1>6 DEF IInv, Die, EvaluatedAsRecorded

\* Kills, timeouts, and the exceptions of calls.
LEMMA EndStep ==
    ASSUME IInv, Crash \/ TimeOut \/ Raise
    PROVE  IInv'
  <1>1. Die /\ UNCHANGED reruns /\ faults' \in 0 .. MaxFaults /\ losses' \in 0 .. faults'
    BY RunBounds DEF Crash, TimeOut, Raise, budget, IInv, Typed
  <1> QED
    BY <1>1, DieStep

\* A launch with fresh engines.
LEMMA LaunchTypes ==
    ASSUME IInv, CanLaunch, rows' = <<>>, keep' \in Nat, gen' = 0, rng' = 0, asked' \in BOOLEAN
    PROVE  /\ Typed' /\ UNCHANGED disk
           /\ \A e \in Engines : Rests(calls[e], engine[e], phase[e])' /\ engine'[e].log = <<>>
  <1>1. Fresh \in Workers /\ Fresh.noise = NoNoise /\ Fresh.perturbed = FALSE /\ Fresh.log = <<>>
    BY EmptySeq DEF Fresh, Workers, Logs
  <1>2. Typed /\ \A e \in Engines : Rests(calls[e], engine[e], phase[e])
    BY DEF IInv, CanLaunch
  <1>3. NoResult \in [Items -> Nat \cup {None}] /\ <<>> \in Seq(Rows)
    BY EmptySeq DEF NoResult
  <1>4. rng' \in 0 .. Population * Generations /\ gen' \in 0 .. Generations
    BY RunShape
  <1>5. reruns' \in 0 .. MaxReruns
    BY <1>2, RunBounds DEF CanLaunch, Typed
  <1>6. /\ engine' = [e \in Engines |-> Fresh] /\ rec' = 0 /\ seeds' = <<>> /\ samples' = NoResult
        /\ UNCHANGED <<disk, calls, phase, result, failed, losses, faults>>
    BY DEF CanLaunch
  <1>7. engine' \in [Engines -> Workers] /\ rec' \in 0 .. keep'
    BY <1>1, <1>6
  <1>8. Typed'
    BY <1>2, <1>3, <1>4, <1>5, <1>6, <1>7 DEF Typed
  <1> QED
    BY <1>1, <1>2, <1>6, <1>8 DEF Rests, Quiet

\* The history starts over.
LEMMA LaunchAnewStep == IInv /\ LaunchAnew => IInv'
  <1> SUFFICES ASSUME IInv, LaunchAnew PROVE IInv'
    OBVIOUS
  <1>1. /\ CanLaunch /\ rows' = <<>> /\ keep' = 0 /\ gen' = 0 /\ rng' = 0 /\ asked' = TRUE
        /\ pc' \in {"initial", "loop"}
    BY DEF LaunchAnew
  <1>2. /\ Typed' /\ UNCHANGED disk
        /\ \A e \in Engines : Rests(calls[e], engine[e], phase[e])' /\ engine'[e].log = <<>>
    BY <1>1, LaunchTypes
  <1>3. UpdatesOf(rows') = <<>> /\ Len(UpdatesOf(rows')) = 0 /\ 0 * Population = 0
    BY <1>1, NoRows, RunShape
  <1>4. Started'
    BY <1>1, <1>2, <1>3 DEF Started, Holding
  <1> QED
    BY <1>1, <1>2, <1>4 DEF IInv, EvaluatedAsRecorded

\* The history is validated, and replayed from its first update on.
LEMMA LaunchResumeStep == IInv /\ LaunchResume => IInv'
  <1> SUFFICES ASSUME IInv, LaunchResume PROVE IInv'
    OBVIOUS
  <1>1. PICK k \in 1 .. Len(UpdatesOf(disk)) :
          /\ keep' = k /\ asked' = (k < Len(UpdatesOf(disk)))
          /\ pc' = IF Replayable(disk, k) THEN "replay" ELSE "refused"
    BY DEF LaunchResume
  <1>2. CanLaunch /\ rows' = <<>> /\ gen' = 0 /\ rng' = 0 /\ rec' = 0
    BY DEF LaunchResume, CanLaunch
  <1>3. /\ Typed' /\ UNCHANGED disk
        /\ \A e \in Engines : Rests(calls[e], engine[e], phase[e])' /\ engine'[e].log = <<>>
    BY <1>1, <1>2, LaunchTypes
  <1>4. pc' = "replay" => Replaying'
    BY <1>1, <1>2, <1>3 DEF Replaying
  <1> QED
    BY <1>1, <1>3, <1>4 DEF IInv, EvaluatedAsRecorded

\* One update further.
LEMMA PrefixNext ==
    ASSUME NEW S, NEW u \in Seq(S), NEW k \in 1 .. Len(u)
    PROVE  Append(SubSeq(u, 1, k - 1), u[k]) = SubSeq(u, 1, k)
  <1>1. Len(u) \in Nat /\ k \in Nat \ {0} /\ k - 1 \in Nat
    BY LenProperties
  <1>2. /\ SubSeq(u, 1, k) \in Seq(S) /\ Len(SubSeq(u, 1, k)) = k
        /\ \A j \in 1 .. k : SubSeq(u, 1, k)[j] = u[j]
    BY <1>1, ElementOfSeq, SubSeqProperties
  <1> DEFINE v == SubSeq(u, 1, k - 1)
  <1>3. /\ v \in Seq(S) /\ Len(v) = k - 1
        /\ \A j \in 1 .. k - 1 : v[j] = u[j]
    BY <1>1, ElementOfSeq, SubSeqProperties
  <1>4. u[k] \in S
    BY ElementOfSeq
  <1> HIDE DEF v
  <1>5. /\ Append(v, u[k]) \in Seq(S) /\ Len(Append(v, u[k])) = k
        /\ \A j \in 1 .. k : Append(v, u[k])[j] = u[j]
    <2>1. /\ Append(v, u[k]) \in Seq(S) /\ Len(Append(v, u[k])) = Len(v) + 1
          /\ \A j \in 1 .. Len(v) : Append(v, u[k])[j] = v[j]
          /\ Append(v, u[k])[Len(v) + 1] = u[k]
      BY <1>3, <1>4, AppendProperties
    <2> QED
      BY <1>1, <1>3, <2>1
  <1>6. Append(v, u[k]) = SubSeq(u, 1, k)
    BY <1>2, <1>5, SeqEqual
  <1> QED
    BY <1>6 DEF v

\* Between two records of a replay every engine holds the updates sent so far.
LEMMA ReplayedSoFar ==
    ASSUME IInv, pc = "replay", Idle
    PROVE  /\ Replaying /\ Typed /\ UpdatesOf(disk) \in Seq(Records)
           /\ Len(UpdatesOf(disk)) \in Nat /\ rec \in Nat /\ keep \in Nat
           /\ \A e \in Engines : /\ Rests(calls[e], engine[e], phase[e])
                                 /\ engine[e].log = SubSeq(UpdatesOf(disk), 1, rec)
  <1>1. Replaying /\ Typed
    BY DEF IInv
  <1>2. UpdatesOf(disk) \in Seq(Records) /\ Len(UpdatesOf(disk)) \in Nat
    BY <1>1, UpdatesType DEF Typed
  <1>3. rec \in 0 .. Len(UpdatesOf(disk)) /\ rec \in Nat /\ keep \in Nat
    BY <1>1, <1>2 DEF Typed, Replaying
  <1>4. ASSUME NEW e \in Engines
        PROVE  /\ Rests(calls[e], engine[e], phase[e])
               /\ engine[e].log = SubSeq(UpdatesOf(disk), 1, rec)
    <2>1. CASE rec = 0
      <3>1. SubSeq(UpdatesOf(disk), 1, rec) = <<>>
        BY <2>1, SubSeqEmpty
      <3> QED
        BY <1>1, <2>1, <3>1 DEF Replaying
    <2>2. CASE rec # 0
      <3>1. /\ Updates(calls[e], engine[e], phase[e], UpdatesOf(disk)[rec],
                       SubSeq(UpdatesOf(disk), 1, rec - 1))
            /\ calls[e] = <<>>
        BY <1>1, <2>2 DEF Replaying, Idle
      <3>2. Quiet(engine[e], phase[e])
        BY <3>1 DEF Updates
      <3>3. engine[e].log = Append(SubSeq(UpdatesOf(disk), 1, rec - 1), UpdatesOf(disk)[rec])
        BY <3>1, OnlyCall DEF Updates
      <3>4. rec \in 1 .. Len(UpdatesOf(disk))
        BY <1>3, <2>2
      <3> QED
        BY <1>2, <3>1, <3>2, <3>3, <3>4, PrefixNext DEF Rests
    <2> QED
      BY <2>1, <2>2
  <1> QED
    BY <1>1, <1>2, <1>3, <1>4

\* The next record is submitted to all engines.
LEMMA ReplayStep == IInv /\ Replay => IInv'
  <1> SUFFICES ASSUME IInv, Replay PROVE IInv'
    OBVIOUS
  <1> DEFINE U == UpdatesOf(disk)
  <1>1. /\ pc = "replay" /\ Idle /\ rec < keep /\ rec' = rec + 1
        /\ UNCHANGED <<disk, engine, phase, result, failed, pc, rows, keep, gen, rng,
                       seeds, samples, asked, budget>>
        /\ calls' = [e \in Engines |-> <<[op |-> "update", arg |-> U[rec + 1]]>>]
    BY DEF Replay, SubmitUpdate
  <1>2. /\ Replaying /\ Typed /\ rec \in Nat /\ keep \in Nat
        /\ \A e \in Engines : /\ Rests(calls[e], engine[e], phase[e])
                              /\ engine[e].log = SubSeq(U, 1, rec)
    BY <1>1, ReplayedSoFar
  <1>3. Typed'
    BY <1>1, <1>2 DEF Typed, budget
  <1>4. rec' # 0 /\ rec' - 1 = rec
    BY <1>1, <1>2
  <1>5. \A e \in Engines : Updates(calls'[e], engine'[e], phase'[e], U[rec'], SubSeq(U, 1, rec' - 1))
    <2> HIDE DEF U
    <2> QED
      BY <1>1, <1>2, <1>4 DEF Updates, Rests
  <1>6. Replaying'
    BY <1>1, <1>2, <1>4, <1>5 DEF Replaying
  <1> QED
    BY <1>1, <1>3, <1>6 DEF IInv, EvaluatedAsRecorded

\* The draws of the generations done are within the stream.
LEMMA DrawnBounds ==
    ASSUME NEW g \in 0 .. Generations
    PROVE  g * Population \in 0 .. Population * Generations
  <1>1. g \in Nat /\ Population \in Nat \ {0} /\ Generations \in Nat
    BY RunShape
  <1>2. PICK d \in Nat : Generations = g + d
    BY <1>1
  <1>3. Population * Generations = g * Population + Population * d
    BY <1>1, <1>2
  <1>4. g * Population \in Nat /\ Population * d \in Nat
    BY <1>1, <1>2
  <1> QED
    BY <1>1, <1>3, <1>4

\* The kept rows are written, and the run goes on from the replayed model.
LEMMA ResumeReadyStep == IInv /\ ResumeReady => IInv'
  <1> SUFFICES ASSUME IInv, ResumeReady PROVE IInv'
    OBVIOUS
  <1> DEFINE U == UpdatesOf(disk)
             P == PrefixThrough(disk, keep)
  <1>1. /\ pc = "replay" /\ Idle /\ rec = keep
        /\ UNCHANGED <<engine, calls, phase, result, failed, keep, rec, seeds, samples, budget>>
    BY DEF ResumeReady
  <1>2. /\ Replaying /\ Typed /\ Len(U) \in Nat /\ keep \in Nat
        /\ \A e \in Engines : /\ Rests(calls[e], engine[e], phase[e])
                              /\ engine[e].log = SubSeq(U, 1, rec)
    BY <1>1, ReplayedSoFar
  <1>3. CASE keep > Generations
    <2>1. pc' = "refused" /\ UNCHANGED <<disk, rows, gen, rng, asked>>
      BY <1>3 DEF ResumeReady
    <2>2. Typed'
      BY <1>1, <1>2, <2>1 DEF Typed, budget
    <2> QED
      BY <1>1, <1>2, <2>1, <2>2 DEF IInv, EvaluatedAsRecorded
  <1>4. CASE ~ (keep > Generations)
    <2>1. /\ rows' = P /\ disk' = P /\ asked' = FALSE
          /\ gen' = keep /\ rng' = keep * Population /\ pc' \in {"initial", "loop"}
      BY <1>4 DEF ResumeReady, Write
    <2>2. keep \in 0 .. Len(U) /\ keep \in 0 .. Generations
      BY <1>2, <1>4, RunShape DEF Replaying
    <2>3. /\ P \in Seq(Rows) /\ UpdatesOf(P) = SubSeq(U, 1, keep)
          /\ Recorded(disk) => Recorded(P)
      BY <1>2, <2>2, PrefixKept DEF Typed
    <2>4. Len(SubSeq(U, 1, keep)) = keep
      <3>1. U \in Seq(Records)
        BY <1>2, UpdatesType DEF Typed
      <3> HIDE DEF U
      <3>2. \A i \in 1 .. keep : U[i] \in Records
        BY <1>2, <2>2, <3>1, ElementOfSeq
      <3> QED
        BY <1>2, <2>2, <3>2, SubSeqProperties
    <2>5. Recorded(disk)
      BY DEF IInv, EvaluatedAsRecorded, Recorded
    <2>6. rng' \in 0 .. Population * Generations
      BY <2>1, <2>2, DrawnBounds
    <2> HIDE DEF P, U
    <2>7. Typed'
      <3>1. /\ disk' \in Seq(Rows) /\ rows' \in Seq(Rows) /\ gen' \in 0 .. Generations
            /\ asked' \in BOOLEAN
        BY <2>1, <2>2, <2>3
      <3> QED
        BY <1>1, <1>2, <2>6, <3>1 DEF Typed, budget
    <2>8. Started'
      BY <1>1, <1>2, <2>1, <2>3, <2>4 DEF Started, Holding
    <2>9. EvaluatedAsRecorded'
      BY <2>1, <2>3, <2>5 DEF EvaluatedAsRecorded, Recorded
    <2> QED
      BY <2>1, <2>7, <2>8, <2>9 DEF IInv
  <1> QED
    BY <1>3, <1>4

\* What the engines evaluate is the model they all hold.
LEMMA EvaluatedModel ==
    ASSUME NEW log, \A e \in Engines : engine[e].log = log /\ engine[e].noise = NoNoise
    PROVE  Evaluated = {[log |-> log, noise |-> NoNoise]}
  BY Some DEF Evaluated

\* An evaluation row carries no update, and the model it evaluated.
LEMMA EvalRowFacts ==
    ASSUME NEW log \in Logs, NEW g \in -1 .. Generations,
           \A e \in Engines : engine[e].log = log /\ engine[e].noise = NoNoise
    PROVE  /\ EvalRow(g) \in Rows /\ ~ IsUpdate(EvalRow(g))
           /\ EvalRow(g).eval = {[log |-> log, noise |-> NoNoise]}
  <1>1. Evaluated = {[log |-> log, noise |-> NoNoise]}
    BY EvaluatedModel
  <1> QED
    BY <1>1 DEF EvalRow, Rows, IsUpdate

\* What the process holds is as truly recorded as what is on the disk.
LEMMA HeldRecorded ==
    ASSUME IInv, Holding
    PROVE  Recorded(rows)
  BY DEF Holding, IInv, EvaluatedAsRecorded, Recorded

\* An evaluation is appended to the history.
LEMMA EvalAppended ==
    ASSUME IInv, Started, NEW g \in -1 .. Generations, Write(Append(rows, EvalRow(g)))
    PROVE  /\ disk' \in Seq(Rows) /\ rows' = disk' /\ asked' = FALSE
           /\ UpdatesOf(rows') = UpdatesOf(rows) /\ EvaluatedAsRecorded'
  <1> DEFINE row == EvalRow(g)
  <1>1. rows \in Seq(Rows) /\ UpdatesOf(rows) \in Logs
    BY UpdatesType DEF IInv, Typed, Logs
  <1>2. \A e \in Engines : engine[e].log = UpdatesOf(rows) /\ engine[e].noise = NoNoise
    BY DEF Started, Rests, Quiet
  <1>3. /\ row \in Rows /\ ~ IsUpdate(row)
        /\ row.eval = {[log |-> UpdatesOf(rows), noise |-> NoNoise]}
    BY <1>1, <1>2, EvalRowFacts
  <1>4. rows' = Append(rows, row) /\ disk' = Append(rows, row) /\ asked' = FALSE
    BY DEF Write
  <1> HIDE DEF row
  <1>5. UpdatesOf(Append(rows, row)) = UpdatesOf(rows)
    BY <1>1, <1>3, UpdatesAppend
  <1>6. Recorded(rows)
    BY HeldRecorded DEF Started
  <1>7. Recorded(Append(rows, row))
    BY <1>1, <1>3, <1>5, <1>6, RecordedAppend
  <1> QED
    BY <1>1, <1>3, <1>4, <1>5, <1>7, AppendProperties DEF EvaluatedAsRecorded, Recorded

\* The evaluation before the first generation of a launch.
LEMMA InitialEvalStep == IInv /\ InitialEval => IInv'
  <1> SUFFICES ASSUME IInv, InitialEval PROVE IInv'
    OBVIOUS
  <1>1. /\ pc = "initial" /\ pc' = "loop" /\ Write(Append(rows, EvalRow(-1)))
        /\ UNCHANGED <<engine, calls, phase, result, failed, keep, rec, gen, rng, seeds,
                       samples, budget>>
    BY DEF InitialEval
  <1>2. Started /\ Typed
    BY <1>1 DEF IInv
  <1>3. /\ disk' \in Seq(Rows) /\ rows' = disk' /\ asked' = FALSE
        /\ UpdatesOf(rows') = UpdatesOf(rows) /\ EvaluatedAsRecorded'
    <2>1. -1 \in -1 .. Generations
      BY RunShape
    <2> QED
      BY <1>1, <1>2, <2>1, EvalAppended
  <1>4. Typed'
    <2>1. rows' \in Seq(Rows) /\ asked' \in BOOLEAN
      BY <1>3
    <2> QED
      BY <1>1, <1>2, <1>3, <2>1 DEF Typed, budget
  <1>5. Started'
    BY <1>1, <1>2, <1>3 DEF Started, Holding
  <1> QED
    BY <1>1, <1>3, <1>4, <1>5 DEF IInv

\* The run is over, with or without a last evaluation.
LEMMA FinishStep == IInv /\ Finish => IInv'
  <1> SUFFICES ASSUME IInv, Finish PROVE IInv'
    OBVIOUS
  <1>1. /\ pc = "loop" /\ pc' = "done"
        /\ UNCHANGED <<engine, calls, phase, result, failed, keep, rec, gen, rng, seeds,
                       samples, budget>>
    BY DEF Finish
  <1>2. Started /\ Typed
    BY <1>1 DEF IInv
  <1>3. disk' \in Seq(Rows) /\ rows' \in Seq(Rows) /\ asked' \in BOOLEAN /\ EvaluatedAsRecorded'
    <2>1. CASE FinalEval
      <3>1. Write(Append(rows, EvalRow(Generations)))
        BY <2>1 DEF Finish
      <3>2. Generations \in -1 .. Generations
        BY RunShape
      <3>3. /\ disk' \in Seq(Rows) /\ rows' = disk' /\ asked' = FALSE
            /\ EvaluatedAsRecorded'
        BY <1>2, <3>1, <3>2, EvalAppended
      <3> QED
        BY <3>3
    <2>2. CASE ~ FinalEval
      BY <1>2, <2>2 DEF Finish, Typed, IInv, EvaluatedAsRecorded
    <2> QED
      BY <2>1, <2>2
  <1>4. Typed'
    BY <1>1, <1>2, <1>3 DEF Typed, budget
  <1>5. \A e \in Engines : Rests(calls[e], engine[e], phase[e])'
    BY <1>1, <1>2 DEF Started
  <1> QED
    BY <1>1, <1>3, <1>4, <1>5 DEF IInv

\* Every NEngines-th sample, from the e-th on, is a sample.
LEMMA ShareItem ==
    ASSUME NEW e \in Engines, NEW n \in 1 .. ShareSize(e)
    PROVE  n \in Nat \ {0} /\ Share(e, n) \in Items
  <1> DEFINE a == Population - e + NEngines
             d == a \div NEngines
  <1>1. a \in Nat /\ NEngines \in Nat \ {0} /\ e \in 1 .. NEngines /\ Population \in Nat \ {0}
    BY RunShape DEF Engines
  <1>2. d \in Nat /\ a % NEngines \in 0 .. NEngines - 1 /\ a = d * NEngines + (a % NEngines)
    <2> HIDE DEF a
    <2> QED
      BY <1>1
  <1>3. n \in Nat \ {0} /\ n <= d
    <2>1. ShareSize(e) = d
      BY DEF ShareSize
    <2> HIDE DEF d
    <2> QED
      BY <1>2, <2>1
  <1>4. a = Population - e + NEngines
    OBVIOUS
  <1> HIDE DEF a, d
  <1>5. PICK r \in Nat : d = n + r
    BY <1>2, <1>3
  <1>6. d * NEngines = (n - 1) * NEngines + NEngines + r * NEngines
    BY <1>1, <1>3, <1>5
  <1>7. (n - 1) * NEngines \in Nat /\ r * NEngines \in Nat
    BY <1>1, <1>3, <1>5
  <1>8. (n - 1) * NEngines + e <= Population
    BY <1>1, <1>2, <1>4, <1>6, <1>7
  <1> QED
    BY <1>1, <1>3, <1>7, <1>8 DEF Share, Items

\* No sample is in two shares, or twice in one.
LEMMA ShareOnce ==
    ASSUME NEW e \in Engines, NEW f \in Engines, NEW n \in Nat \ {0}, NEW m \in Nat \ {0},
           e # f \/ n # m
    PROVE  Share(e, n) # Share(f, m)
  <1>1. NEngines \in Nat \ {0} /\ e \in 1 .. NEngines /\ f \in 1 .. NEngines
    BY RunShape DEF Engines
  <1>2. ASSUME NEW a \in Engines, NEW b \in Engines, NEW k \in Nat \ {0}, NEW l \in Nat \ {0},
               k < l
        PROVE  Share(a, k) < Share(b, l)
    <2>1. a \in 1 .. NEngines /\ b \in 1 .. NEngines
      BY <1>1 DEF Engines
    <2>2. PICK r \in Nat : l = k + 1 + r
      BY <1>2
    <2>3. (l - 1) * NEngines = (k - 1) * NEngines + NEngines + r * NEngines
      BY <1>1, <2>2
    <2>4. (k - 1) * NEngines \in Nat /\ r * NEngines \in Nat
      BY <1>1, <2>2
    <2> QED
      BY <1>1, <2>1, <2>3, <2>4 DEF Share
  <1>3. /\ (n - 1) * NEngines + e \in Nat /\ (m - 1) * NEngines + f \in Nat
    BY <1>1
  <1>4. Share(e, n) \in Nat /\ Share(f, m) \in Nat
    BY <1>3 DEF Share
  <1>5. CASE n = m
    BY <1>1, <1>3, <1>5 DEF Share
  <1>6. CASE n < m
    BY <1>2, <1>4, <1>6
  <1>7. CASE m < n
    BY <1>2, <1>4, <1>7
  <1> QED
    BY <1>5, <1>6, <1>7

\* The samples of a generation, each with its seed for one engine.
LEMMA DrawStep == IInv /\ Draw => IInv'
  <1> SUFFICES ASSUME IInv, Draw PROVE IInv'
    OBVIOUS
  <1> DEFINE Call(i) == [op |-> "evaluate", arg |-> rng + i, item |-> i]
  <1>1. /\ pc = "loop" /\ gen < Generations /\ pc' = "collect"
        /\ seeds' = [i \in Items |-> rng + i] /\ rng' = rng + Population
        /\ calls' = [e \in Engines |-> [n \in 1 .. ShareSize(e) |-> Call(Share(e, n))]]
        /\ result' = NoResult /\ samples' = NoResult
        /\ UNCHANGED <<disk, engine, phase, failed, rows, keep, rec, gen, asked, budget>>
    BY DEF Draw
  <1>2. Started /\ Typed /\ rng = gen * Population
    BY <1>1 DEF IInv, Started
  <1>3. gen \in 0 .. Generations - 1
    BY <1>1, <1>2, RunShape DEF Typed
  <1>4. /\ rng' = (gen + 1) * Population /\ rng' \in 0 .. Population * Generations
        /\ seeds' = SeedsOf(gen) /\ seeds' \in [Items -> SeedRange]
    BY <1>1, <1>2, <1>3, StreamBounds DEF SeedsOf
  <1>5. Typed'
    <2>1. result' \in [Items -> Nat \cup {None}] /\ samples' \in [Items -> Nat \cup {None}]
      BY <1>1 DEF NoResult
    <2>2. calls' = [e \in Engines |-> calls'[e]]
      BY <1>1
    <2> QED
      BY <1>1, <1>2, <1>4, <2>1, <2>2 DEF Typed, budget
  <1>6. ASSUME NEW e \in Engines
        PROVE  /\ calls'[e] \in Seq(Samples) /\ Len(calls'[e]) = ShareSize(e)
               /\ \A n \in 1 .. ShareSize(e) : calls'[e][n] = Call(Share(e, n))
    <2>1. ASSUME NEW n \in 1 .. ShareSize(e) PROVE Call(Share(e, n)) \in Samples
      <3>1. Share(e, n) \in Items
        BY ShareItem
      <3>2. rng + Share(e, n) = seeds'[Share(e, n)]
        BY <1>1, <3>1
      <3>3. rng + Share(e, n) \in SeedRange
        BY <1>4, <3>1, <3>2
      <3> QED
        BY <3>1, <3>3 DEF Samples
    <2>2. ShareSize(e) \in Nat
      <3>1. Population - e + NEngines \in Nat /\ NEngines \in Nat \ {0}
        BY RunShape DEF Engines
      <3> QED
        BY <3>1 DEF ShareSize
    <2>3. calls'[e] = [n \in 1 .. ShareSize(e) |-> Call(Share(e, n))]
      BY <1>1
    <2> HIDE DEF Call
    <2> QED
      BY <2>1, <2>2, <2>3
  <1>7. ASSUME NEW e \in Engines PROVE Sampling(calls[e], engine[e], phase[e])'
    <2>1. Quiet(engine[e], phase[e])
      BY <1>2 DEF Started, Rests
    <2>2. ASSUME NEW n \in 1 .. Len(calls'[e])
          PROVE  calls'[e][n].arg = seeds'[calls'[e][n].item]
      <3>1. n \in 1 .. ShareSize(e) /\ calls'[e][n] = Call(Share(e, n))
        BY <1>6, <2>2
      <3>2. Share(e, n) \in Items
        BY <3>1, ShareItem
      <3> QED
        BY <1>1, <3>1, <3>2
    <2>3. engine'[e] = engine[e] /\ phase'[e] = phase[e] /\ calls'[e] \in Seq(Samples)
      BY <1>1, <1>6
    <2>4. phase'[e] = "start" /\ Quiet(engine'[e], phase'[e])
      BY <2>1, <2>3 DEF Quiet
    <2> QED
      BY <2>2, <2>3, <2>4 DEF Sampling
  <1>8. Waiting(calls)'
    <2>1. ASSUME NEW e \in Engines, NEW n \in 1 .. Len(calls'[e])
          PROVE  /\ n \in Nat \ {0} /\ Share(e, n) \in Items
                 /\ calls'[e][n].item = Share(e, n)
      <3>1. n \in 1 .. ShareSize(e) /\ calls'[e][n] = Call(Share(e, n))
        BY <1>6, <2>1
      <3> QED
        BY <3>1, ShareItem
    <2>2. \A i \in Items : result'[i] = None /\ samples'[i] = None
      BY <1>1 DEF NoResult
    <2>3. ASSUME NEW e \in Engines, NEW f \in Engines,
                 NEW n \in 1 .. Len(calls'[e]), NEW m \in 1 .. Len(calls'[f]),
                 e # f \/ n # m
          PROVE  calls'[e][n].item # calls'[f][m].item
      BY <2>1, <2>3, ShareOnce
    <2> QED
      BY <2>1, <2>2, <2>3 DEF Waiting
  <1>9. InBatch'
    BY <1>1, <1>2, <1>4 DEF InBatch, Started, Holding
  <1>10. Rewarded(result, UpdatesOf(rows))' /\ Rewarded(samples, UpdatesOf(rows))'
    BY <1>1 DEF Rewarded, NoResult
  <1>11. \A e \in Engines : engine'[e].log = UpdatesOf(rows')
    BY <1>1, <1>2 DEF Started
  <1>12. Collecting'
    BY <1>7, <1>8, <1>9, <1>10, <1>11 DEF Collecting
  <1> QED
    BY <1>1, <1>5, <1>12 DEF IInv, EvaluatedAsRecorded

\* A finished sample becomes the driver's, under its own index.
LEMMA CollectStep ==
    ASSUME IInv, NEW i \in Items, Collect(i)
    PROVE  IInv'
  <1>1. /\ pc = "collect" /\ result[i] # None
        /\ samples' = [samples EXCEPT ![i] = result[i]]
        /\ result' = [result EXCEPT ![i] = None]
        /\ UNCHANGED <<disk, engine, calls, phase, failed, pc, rows, keep, rec, gen, rng,
                       seeds, asked, budget>>
    BY DEF Collect
  <1>2. /\ Collecting /\ Typed
        /\ \A e \in Engines : Sampling(calls[e], engine[e], phase[e])
    BY <1>1 DEF IInv, Collecting
  <1>3. /\ result \in [Items -> Nat \cup {None}] /\ samples \in [Items -> Nat \cup {None}]
        /\ result' \in [Items -> Nat \cup {None}] /\ samples' \in [Items -> Nat \cup {None}]
    BY <1>1, <1>2 DEF Typed
  <1>4. Typed'
    BY <1>1, <1>2, <1>3 DEF Typed, budget
  <1>5. Waiting(calls)'
    <2>1. ASSUME NEW e \in Engines, NEW n \in 1 .. Len(calls[e])
          PROVE  result'[calls[e][n].item] = None /\ samples'[calls[e][n].item] = None
      <3>1. /\ result[calls[e][n].item] = None /\ samples[calls[e][n].item] = None
        BY <1>2 DEF Collecting, Waiting
      <3>2. calls[e][n] \in Samples
        BY <1>2, ElementOfSeq DEF Sampling
      <3>3. calls[e][n].item \in Items
        BY <3>2 DEF Samples
      <3> QED
        BY <1>1, <1>3, <3>1, <3>3
    <2> QED
      BY <1>1, <1>2, <2>1 DEF Collecting, Waiting
  <1>6. Rewarded(result, UpdatesOf(rows))' /\ Rewarded(samples, UpdatesOf(rows))'
    BY <1>1, <1>2, <1>3 DEF Collecting, Rewarded, Worth, budget
  <1>7. InBatch' /\ \A e \in Engines : Sampling(calls[e], engine[e], phase[e])'
    BY <1>1, <1>2 DEF Collecting, InBatch, Holding, Sampling
  <1>8. Collecting'
    BY <1>1, <1>2, <1>5, <1>6, <1>7 DEF Collecting
  <1> QED
    BY <1>1, <1>4, <1>8 DEF IInv, EvaluatedAsRecorded

\* With all samples in, no engine has one left, and all get the update.
LEMMA SampledAllStep == IInv /\ SampledAll => IInv'
  <1> SUFFICES ASSUME IInv, SampledAll PROVE IInv'
    OBVIOUS
  <1>1. /\ pc = "collect" /\ pc' = "update" /\ \A i \in Items : samples[i] # None
        /\ calls' = [e \in Engines |-> <<[op |-> "update", arg |-> Sampled]>>]
        /\ UNCHANGED <<disk, engine, phase, result, failed, driver, budget>>
    BY DEF SampledAll, SubmitUpdate, Sampled
  <1>2. /\ Collecting /\ Typed
        /\ \A e \in Engines : Sampling(calls[e], engine[e], phase[e])
    BY <1>1 DEF IInv, Collecting
  <1>3. ASSUME NEW e \in Engines PROVE Quiet(engine[e], phase[e])
    <2>1. calls[e] = <<>>
      <3> SUFFICES ASSUME calls[e] # <<>> PROVE FALSE
        OBVIOUS
      <3>1. 1 \in 1 .. Len(calls[e]) /\ calls[e][1] \in Samples
        BY <1>2, FirstSample, ElementOfSeq DEF Sampling
      <3>2. samples[calls[e][1].item] = None
        BY <1>2, <3>1 DEF Collecting, Waiting
      <3> QED
        BY <1>1, <3>1, <3>2 DEF Samples
    <2>2. phase[e] \in {"start", "rollout"}
      BY <1>2 DEF Typed
    <2> QED
      BY <1>2, <2>1, <2>2 DEF Sampling
  <1>4. Typed'
    BY <1>1, <1>2 DEF Typed, driver, budget
  <1>5. InBatch' /\ Rewarded(samples, UpdatesOf(rows))'
    BY <1>1, <1>2 DEF Collecting, InBatch, Holding, Rewarded, Worth, driver, budget
  <1>6. ASSUME NEW e \in Engines
        PROVE  Updates(calls'[e], engine'[e], phase'[e], Sampled', UpdatesOf(rows'))
    <2>1. /\ calls'[e] = <<[op |-> "update", arg |-> Sampled']>> /\ engine'[e] = engine[e]
          /\ phase'[e] = phase[e] /\ engine[e].log = UpdatesOf(rows')
      BY <1>1, <1>2 DEF Sampled, driver, Collecting
    <2> QED
      BY <1>3, <2>1 DEF Updates
  <1>7. Updating'
    BY <1>1, <1>5, <1>6 DEF Updating, driver
  <1> QED
    BY <1>1, <1>4, <1>7 DEF IInv, EvaluatedAsRecorded

\* What the history gains when a generation is done.
LEMMA RecordFacts ==
    ASSUME IInv, Record
    PROVE  /\ pc = "update" /\ Updating /\ Typed /\ Sampled \in Records
           /\ rows \in Seq(Rows) /\ UpdatesOf(rows) \in Logs
           /\ rows' = disk' /\ rows' \in Seq(Rows) /\ asked' = FALSE
           /\ \E row \in Rows : rows' = Append(rows, row) /\ row.gen = gen /\ row.seeds = seeds
           /\ UpdatesOf(rows') = Append(UpdatesOf(rows), Sampled)
           /\ \A e \in Engines : /\ Rests(calls[e], engine[e], phase[e])
                                 /\ engine[e].log = UpdatesOf(rows')
           /\ EvaluatedAsRecorded'
  <1> DEFINE row == [gen |-> gen, seeds |-> seeds, rewards |-> samples,
                     eval |-> IF IntervalEvalDue THEN Evaluated ELSE None]
  <1>1. /\ pc = "update" /\ Idle /\ rows' = Append(rows, row) /\ disk' = Append(rows, row)
        /\ asked' = FALSE
    BY DEF Record, Write
  <1>2. /\ Updating /\ Typed /\ rows \in Seq(Rows) /\ Holding
    BY <1>1 DEF IInv, Typed, Updating, InBatch
  <1>3. Sampled \in Records /\ UpdatesOf(rows) \in Logs
    BY <1>2, SampledType, UpdatesType DEF Updating, Logs
  <1> DEFINE U == Append(UpdatesOf(rows), Sampled)
  <1>4. ASSUME NEW e \in Engines
        PROVE  Rests(calls[e], engine[e], phase[e]) /\ engine[e].log = U /\ engine[e].noise = NoNoise
    <2>1. /\ Updates(calls[e], engine[e], phase[e], Sampled, UpdatesOf(rows))
          /\ calls[e] = <<>>
      BY <1>1, <1>2 DEF Updating, Idle
    <2>2. engine[e].log = U /\ Quiet(engine[e], phase[e])
      BY <2>1, OnlyCall DEF Updates
    <2> QED
      BY <2>1, <2>2 DEF Rests, Quiet
  <1>5. U \in Logs
    BY <1>3, AppendProperties DEF Logs
  <1>6. Evaluated = {[log |-> U, noise |-> NoNoise]}
    BY <1>4, EvaluatedModel
  <1>7. seeds \in [Items -> SeedRange] /\ samples \in [Items -> Nat]
    BY <1>3 DEF Sampled, Records
  <1>8. seeds # <<>> /\ samples # <<>>
    BY <1>7, Some
  <1>9. gen \in -1 .. Generations
    BY <1>2 DEF Typed
  <1>10. row \in Rows /\ IsUpdate(row) /\ RecordOf(row) = Sampled
    <2>1. row.eval \in {None} \cup SUBSET [log : Logs, noise : {NoNoise} \cup {One(s) : s \in SeedRange}]
      BY <1>5, <1>6
    <2> QED
      BY <1>7, <1>8, <1>9, <2>1 DEF Rows, IsUpdate, RecordOf, Sampled
  <1>11. /\ row.eval # None => row.eval = {[log |-> U, noise |-> NoNoise]}
         /\ row.gen = gen /\ row.seeds = seeds
    BY <1>6
  <1> HIDE DEF row
  <1>12. UpdatesOf(Append(rows, row)) = U
    BY <1>2, <1>10, UpdatesAppend
  <1>13. Recorded(Append(rows, row))
    BY <1>2, <1>10, <1>11, <1>12, HeldRecorded, RecordedAppend
  <1>14. Append(rows, row) \in Seq(Rows)
    BY <1>2, <1>10, AppendProperties
  <1> QED
    BY <1>1, <1>2, <1>3, <1>4, <1>10, <1>11, <1>12, <1>13, <1>14
       DEF EvaluatedAsRecorded, Recorded

\* The generation is recorded.
LEMMA RecordStep == IInv /\ Record => IInv'
  <1> SUFFICES ASSUME IInv, Record PROVE IInv'
    OBVIOUS
  <1>1. /\ Updating /\ Typed /\ Sampled \in Records /\ UpdatesOf(rows) \in Logs
        /\ rows' = disk' /\ rows' \in Seq(Rows) /\ asked' = FALSE
        /\ UpdatesOf(rows') = Append(UpdatesOf(rows), Sampled)
        /\ \A e \in Engines : /\ Rests(calls[e], engine[e], phase[e])
                              /\ engine[e].log = UpdatesOf(rows')
        /\ EvaluatedAsRecorded'
    BY RecordFacts
  <1>2. /\ pc' = "loop" /\ gen' = gen + 1
        /\ UNCHANGED <<engine, calls, phase, result, failed, keep, rec, rng, seeds, samples, budget>>
    BY DEF Record
  <1>3. gen' \in 0 .. Generations /\ gen' = Len(UpdatesOf(rows'))
    <2>1. Len(UpdatesOf(rows')) = Len(UpdatesOf(rows)) + 1
      BY <1>1, AppendProperties DEF Logs
    <2> QED
      BY <1>1, <1>2, <2>1, RunShape DEF Updating, InBatch, Typed
  <1>4. Typed'
    <2>1. asked' \in BOOLEAN
      BY <1>1
    <2> QED
      BY <1>1, <1>2, <1>3, <2>1 DEF Typed, budget
  <1>5. Started'
    BY <1>1, <1>2, <1>3 DEF Started, Holding, Updating, InBatch
  <1> QED
    BY <1>1, <1>2, <1>4, <1>5 DEF IInv

\* Before the first launch.
LEMMA InitIInv == Init => IInv
  <1> SUFFICES ASSUME Init PROVE IInv
    OBVIOUS
  <1>1. Fresh \in Workers /\ Fresh.noise = NoNoise /\ Fresh.perturbed = FALSE
    BY EmptySeq DEF Fresh, Workers, Logs
  <1>2. /\ disk = <<>> /\ rows = <<>> /\ <<>> \in Seq(Rows) /\ Len(disk) = 0
        /\ result = NoResult /\ samples = NoResult /\ NoResult \in [Items -> Nat \cup {None}]
    BY EmptySeq DEF Init, NoResult
  <1>3. rng \in 0 .. Population * Generations /\ gen \in 0 .. Generations
    BY RunShape DEF Init
  <1>4. failed \in BOOLEAN /\ asked \in BOOLEAN
    BY Zenon DEF Init
  <1>5. /\ engine \in [Engines -> Workers] /\ phase \in [Engines -> {"start", "rollout"}]
        /\ calls = [e \in Engines |-> calls[e]]
    BY <1>1 DEF Init
  <1>6. /\ keep \in Nat /\ rec \in 0 .. keep /\ seeds = <<>>
        /\ losses \in 0 .. faults /\ faults \in 0 .. MaxFaults /\ reruns \in 0 .. MaxReruns
    BY RunBounds DEF Init
  <1>7. Typed
    BY <1>2, <1>3, <1>4, <1>5, <1>6 DEF Typed
  <1>8. \A e \in Engines : Rests(calls[e], engine[e], phase[e])
    BY <1>1 DEF Init, Rests, Quiet
  <1>9. pc = "down"
    BY DEF Init
  <1> QED
    BY <1>2, <1>7, <1>8, <1>9 DEF IInv, EvaluatedAsRecorded

\* Nothing moves.
LEMMA StutterStep == IInv /\ UNCHANGED vars => IInv'
  <1> SUFFICES ASSUME IInv, UNCHANGED vars PROVE IInv'
    OBVIOUS
  <1>1. UNCHANGED <<disk, engine, calls, phase, result, failed, pc, rows, keep, rec, gen,
                    rng, seeds, samples, asked, losses, faults, reruns>>
    BY DEF vars, driver, budget
  <1>2. Typed' /\ EvaluatedAsRecorded'
    BY <1>1 DEF IInv, Typed, EvaluatedAsRecorded
  <1>3. /\ Replaying => Replaying'
        /\ Started => Started'
        /\ Updating => Updating'
    BY <1>1 DEF Replaying, Started, Holding, Updating, InBatch, Sampled, Rewarded, Worth
  <1>4. Collecting => Collecting'
    BY <1>1 DEF Collecting, InBatch, Holding, Sampling, Waiting, Rewarded, Worth
  <1>5. ASSUME NEW e \in Engines, Rests(calls[e], engine[e], phase[e])
        PROVE  Rests(calls[e], engine[e], phase[e])'
    BY <1>1, <1>5 DEF Rests, Quiet
  <1>6. pc' = pc
    BY <1>1
  <1> QED
    BY <1>2, <1>3, <1>4, <1>5, <1>6 DEF IInv

\* Every step keeps the invariant.
LEMMA StepIInv ==
    ASSUME Scored
    PROVE  IInv /\ [Next]_vars => IInv'
  <1> SUFFICES ASSUME IInv, [Next]_vars PROVE IInv'
    OBVIOUS
  <1>1. CASE LaunchAnew \/ LaunchResume \/ Replay \/ ResumeReady
    BY <1>1, LaunchAnewStep, LaunchResumeStep, ReplayStep, ResumeReadyStep
  <1>2. CASE InitialEval \/ Draw \/ SampledAll \/ Record \/ Finish
    BY <1>2, InitialEvalStep, DrawStep, SampledAllStep, RecordStep, FinishStep
  <1>3. CASE \E i \in Items : Collect(i)
    BY <1>3, CollectStep
  <1>4. CASE Crash \/ TimeOut \/ Raise
    BY <1>4, EndStep
  <1>5. CASE \E e \in Engines : Worker(e) \/ RolloutLoses(e) \/ RolloutFails(e)
    BY <1>5, ApplyStep, RolloutStep, RolloutFailsStep, UpdateStep DEF Worker
  <1>6. CASE Stop \/ UNCHANGED vars
    BY <1>6, StutterStep DEF Stop
  <1> QED
    BY <1>1, <1>2, <1>3, <1>4, <1>5, <1>6 DEF Next, Driver

\* What the invariant says of the types.
LEMMA IInvTypes == IInv => TypeOK
  <1> SUFFICES ASSUME IInv PROVE TypeOK
    OBVIOUS
  <1>1. Typed
    BY DEF IInv
  <1>2. ASSUME NEW row \in ToSet(disk) \cup ToSet(rows)
        PROVE  [row EXCEPT !.eval = None] \in
                  [gen : -1 .. Generations, seeds : {<<>>} \cup [Items -> SeedRange],
                   rewards : {<<>>} \cup [Items -> Nat], eval : {None}]
    <2>1. row \in Rows
      BY <1>1, ElementOfSeq DEF ToSet, Typed
    <2> QED
      BY <2>1 DEF Rows
  <1>3. ASSUME NEW e \in Engines
        PROVE  /\ engine[e].log \in Seq(Records)
               /\ engine[e].noise \in {NoNoise} \cup {[NoNoise EXCEPT ![s] = 1] : s \in SeedRange}
               /\ phase[e] \in {"start", "rollout"}
    BY <1>1 DEF Typed, Workers, Logs, One
  <1>4. ASSUME NEW e \in Engines PROVE engine[e].perturbed = (engine[e].noise # NoNoise)
    <2>1. CASE phase[e] = "rollout"
      <3>1. pc = "collect" /\ calls[e] # <<>>
        BY <2>1, RolloutInCollect
      <3>2. /\ Sampling(calls[e], engine[e], phase[e]) /\ calls[e] \in Seq(Samples)
        BY <3>1, InCollect
      <3>3. calls[e][1].arg \in SeedRange
        BY <3>1, <3>2, FirstSample DEF Samples
      <3>4. engine[e].noise # NoNoise /\ engine[e].perturbed = TRUE
        BY <2>1, <3>2, <3>3, OneNotNone DEF Sampling
      <3> QED
        BY <3>4
    <2>2. CASE phase[e] = "start"
      <3>1. Quiet(engine[e], phase[e])
        BY <2>2 DEF IInv, Rests, Replaying, Started, Collecting, Sampling, Updating, Updates
      <3> QED
        BY <3>1 DEF Quiet
    <2> QED
      BY <1>3, <2>1, <2>2
  <1> QED
    BY <1>1, <1>2, <1>3, <1>4 DEF IInv, TypeOK, Typed

-------------------------------------------------------------------------------
(* The theorems *)

\* Every variable has its type: in particular no engine ever carries the noise of
\* two seeds, or a leftover, and its flag always tells whether it carries any.
THEOREM Typing ==
    ASSUME Scored
    PROVE  FairSpec => []TypeOK
  BY InitIInv, StepIInv, IInvTypes, PTL DEF FairSpec

\* However often the run is killed, cut back and resumed, each evaluation in
\* history.json is one of the unperturbed model of exactly the updates before it.
THEOREM Evaluations ==
    ASSUME Scored
    PROVE  FairSpec => []EvaluatedAsRecorded
  <1>1. IInv => EvaluatedAsRecorded
    BY DEF IInv
  <1> QED
    BY <1>1, InitIInv, StepIInv, PTL DEF FairSpec

\* No updates of a sequence of them.
LEMMA NothingKept == \A u : SubSeq(u, 1, 0) = <<>>
  BY SubSeqEmpty

\* The launches that are asked to go back write a shorter history, the others
\* write the one on the disk.
LEMMA ResumeTraining ==
    ASSUME IInv, ResumeReady
    PROVE  UpdatesOf(disk)' = UpdatesOf(disk) \/ (asked /\ Training!Rewind)
  <1> DEFINE U == UpdatesOf(disk)
  <1>1. /\ pc = "replay" /\ Idle /\ rec = keep
        /\ disk' = disk \/ disk' = PrefixThrough(disk, keep)
    BY DEF ResumeReady, Write
  <1>2. Replaying /\ Typed /\ U \in Seq(Records) /\ Len(U) \in Nat /\ keep \in Nat
    BY <1>1, ReplayedSoFar
  <1>3. keep \in 0 .. Len(U)
    BY <1>2 DEF Replaying
  <1>4. UpdatesOf(PrefixThrough(disk, keep)) = SubSeq(U, 1, keep)
    BY <1>2, <1>3, PrefixKept DEF Typed
  <1>5. CASE keep = Len(U)
    <2>1. SubSeq(U, 1, keep) = U
      BY <1>2, <1>5, SubSeqFull
    <2> QED
      BY <1>1, <1>4, <2>1
  <1>6. CASE keep # Len(U)
    <2>1. asked
      <3>1. keep < Len(U)
        BY <1>2, <1>3, <1>6
      <3> QED
        BY <1>2, <3>1 DEF Replaying
    <2>2. disk' = PrefixThrough(disk, keep) => Training!Rewind
      BY <1>3, <1>4 DEF Training!Rewind
    <2> QED
      BY <1>1, <2>1, <2>2
  <1> QED
    BY <1>5, <1>6

\* An evaluation row leaves the updates of the history, or writes none of them
\* when the launch was asked to start over.
LEMMA EvalTraining ==
    ASSUME IInv, Started, NEW g \in -1 .. Generations, Write(Append(rows, EvalRow(g)))
    PROVE  UpdatesOf(disk)' = UpdatesOf(disk) \/ (asked /\ Training!Rewind)
  <1>1. UpdatesOf(disk)' = UpdatesOf(rows)
    BY EvalAppended
  <1>2. Holding /\ UpdatesOf(disk) \in Seq(Records) /\ Len(UpdatesOf(disk)) \in Nat
    BY UpdatesType DEF Started, IInv, Typed
  <1>3. CASE rows = disk
    BY <1>1, <1>3
  <1>4. CASE asked /\ rows = <<>>
    <2>1. UpdatesOf(disk)' = <<>> /\ 0 \in 0 .. Len(UpdatesOf(disk))
      BY <1>1, <1>2, <1>4, NoRows
    <2> QED
      BY <1>4, <2>1, NothingKept DEF Training!Rewind
  <1> QED
    BY <1>2, <1>3, <1>4 DEF Holding

\* A recorded generation is the next one of the training, after all that the
\* history holds or, in a run that was asked to start over, the first.
LEMMA RecordTraining ==
    ASSUME IInv, Record
    PROVE  Training!Generation \/ (asked /\ Training!Rewind)
  <1> DEFINE U == UpdatesOf(rows)
  <1>1. /\ Updating /\ Typed /\ Sampled \in Records /\ U \in Logs
        /\ UpdatesOf(disk)' = Append(U, Sampled)
    BY RecordFacts
  <1>2. /\ Len(U) < Generations /\ seeds = SeedsOf(Len(U)) /\ Holding
        /\ \A i \in Items : samples[i] \in AnyRewardsOf(U, seeds[i])
    BY <1>1 DEF Updating, InBatch, Rewarded, Worth
  <1>3. seeds = Training!SeedsOf(Len(U))
    BY <1>2 DEF SeedsOf, Training!SeedsOf, Items
  <1>4. samples \in [1 .. Population -> UNION {AnyRewardsOf(U, seeds[i]) : i \in 1 .. Population}]
    <2>1. samples \in [Items -> Nat]
      BY <1>1 DEF Sampled, Records
    <2> QED
      BY <1>2, <2>1 DEF Items
  <1>5. Sampled \in [seeds : {Training!SeedsOf(Len(U))},
                     rewards : [1 .. Population ->
                        UNION {AnyRewardsOf(U, Training!SeedsOf(Len(U))[i]) : i \in 1 .. Population}]]
    BY <1>3, <1>4 DEF Sampled
  <1>6. \A i \in 1 .. Population : Sampled.rewards[i] \in AnyRewardsOf(U, Sampled.seeds[i])
    BY <1>2 DEF Sampled, Items
  <1>7. Training!GenerationAfter(U)
    BY <1>1, <1>2, <1>5, <1>6 DEF Training!GenerationAfter
  <1>8. CASE rows = disk
    BY <1>7, <1>8 DEF Training!Generation
  <1>9. CASE asked /\ rows = <<>>
    <2>1. U = <<>> /\ Len(UpdatesOf(disk)) \in Nat
      BY <1>1, <1>9, NoRows, UpdatesType DEF Typed
    <2>2. U = SubSeq(UpdatesOf(disk), 1, 0) /\ 0 \in 0 .. Len(UpdatesOf(disk))
      BY <2>1, NothingKept
    <2> QED
      BY <1>7, <1>9, <2>2 DEF Training!Rewind
  <1> QED
    BY <1>2, <1>8, <1>9 DEF Holding

\* No other step writes the history.
LEMMA StepTraining ==
    ASSUME IInv, [Next]_vars
    PROVE  [Training!Generation \/ (asked /\ Training!Rewind)]_(UpdatesOf(disk))
  <1>1. CASE ResumeReady
    BY <1>1, ResumeTraining
  <1>2. CASE InitialEval
    <2>1. Started /\ Write(Append(rows, EvalRow(-1))) /\ -1 \in -1 .. Generations
      BY <1>2, RunShape DEF InitialEval, IInv
    <2> QED
      BY <2>1, EvalTraining
  <1>3. CASE Finish
    <2>1. Started /\ Generations \in -1 .. Generations
      BY <1>3, RunShape DEF Finish, IInv
    <2>2. disk' = disk \/ Write(Append(rows, EvalRow(Generations)))
      BY <1>3 DEF Finish
    <2> QED
      BY <2>1, <2>2, EvalTraining
  <1>4. CASE Record
    BY <1>4, RecordTraining
  <1>5. CASE LaunchAnew \/ LaunchResume \/ Replay \/ Draw \/ SampledAll \/ Raise \/ Crash \/ TimeOut
    <2>1. disk' = disk
      BY <1>5 DEF LaunchAnew, LaunchResume, CanLaunch, Replay, Draw, SampledAll, Raise, Crash,
                  TimeOut, Die
    <2> QED
      BY <2>1
  <1>6. CASE \/ \E i \in Items : Collect(i)
             \/ \E e \in Engines : Worker(e) \/ RolloutLoses(e) \/ RolloutFails(e)
    <2>1. disk' = disk
      BY <1>6 DEF Collect, Worker, Apply, Rollout, Update, RolloutLoses, RolloutReturns,
         RolloutFails
    <2> QED
      BY <2>1
  <1>7. CASE Stop \/ UNCHANGED vars
    <2>1. disk' = disk
      BY <1>7 DEF Stop, vars
    <2> QED
      BY <2>1
  <1> QED
    BY <1>1, <1>2, <1>3, <1>4, <1>5, <1>6, <1>7 DEF Next, Driver

\* The updates up to some of which no cases were lost are such updates ...
LEMMA LosslessPrefix ==
    ASSUME NEW u \in Seq(Records), NEW m \in 0 .. Len(u), Lossless(u)
    PROVE  Lossless(SubSeq(u, 1, m))
  <1> DEFINE v == SubSeq(u, 1, m)
  <1>1. Len(u) \in Nat /\ \A n \in 1 .. m : u[n] \in Records
    BY LenProperties, ElementOfSeq
  <1>2. /\ Len(v) = m
        /\ \A n \in 1 .. m : v[n] = u[n]
    BY <1>1, SubSeqProperties
  <1>3. ASSUME NEW n \in 1 .. m PROVE SubSeq(v, 1, n - 1) = SubSeq(u, 1, n - 1)
    <2>1. n - 1 \in 0 .. m
      BY <1>1
    <2> QED
      BY <2>1, PrefixOfPrefix
  <1> HIDE DEF v
  <1>4. Lossless(v)
    <2> SUFFICES ASSUME NEW n \in 1 .. Len(v), NEW i \in Items
                 PROVE  v[n].rewards[i] \in RewardsOf(SubSeq(v, 1, n - 1), v[n].seeds[i])
      BY DEF Lossless
    <2>1. n \in 1 .. m /\ n \in 1 .. Len(u)
      BY <1>1, <1>2
    <2>2. u[n].rewards[i] \in RewardsOf(SubSeq(u, 1, n - 1), u[n].seeds[i])
      BY <2>1 DEF Lossless
    <2> QED
      BY <1>2, <1>3, <2>1, <2>2
  <1> QED
    BY <1>4 DEF v

\* ... and so are they with another one.
LEMMA LosslessAppend ==
    ASSUME NEW u \in Seq(Records), NEW r \in Records, Lossless(u),
           \A i \in Items : r.rewards[i] \in RewardsOf(u, r.seeds[i])
    PROVE  Lossless(Append(u, r))
  <1> DEFINE v == Append(u, r)
  <1>1. /\ Len(u) \in Nat /\ Len(v) = Len(u) + 1 /\ v[Len(u) + 1] = r
        /\ \A n \in 1 .. Len(u) : v[n] = u[n]
    BY AppendProperties
  <1>2. ASSUME NEW n \in 0 .. Len(u) PROVE SubSeq(v, 1, n) = SubSeq(u, 1, n)
    BY PrefixOfAppend
  <1>3. SubSeq(u, 1, Len(u)) = u
    BY SubSeqFull
  <1> HIDE DEF v
  <1>4. ASSUME NEW n \in 1 .. Len(v), NEW i \in Items
        PROVE  v[n].rewards[i] \in RewardsOf(SubSeq(v, 1, n - 1), v[n].seeds[i])
    <2>1. n - 1 \in 0 .. Len(u) /\ (n \in 1 .. Len(u) \/ n = Len(u) + 1)
      BY <1>1
    <2>2. CASE n \in 1 .. Len(u)
      BY <1>1, <1>2, <2>1, <2>2 DEF Lossless
    <2>3. CASE n = Len(u) + 1
      <3>1. n - 1 = Len(u)
        BY <1>1, <2>3
      <3> QED
        BY <1>1, <1>2, <1>3, <2>1, <2>3, <3>1
    <2> QED
      BY <2>1, <2>2, <2>3
  <1> QED
    BY <1>4 DEF Lossless, v

LossInv == losses = 0 => Lossless(UpdatesOf(disk))

\* What the process holds has lost no cases either.
LEMMA HeldLossless ==
    ASSUME IInv, Holding, Lossless(UpdatesOf(disk))
    PROVE  Lossless(UpdatesOf(rows)) /\ UpdatesOf(rows) \in Seq(Records)
  <1>1. UpdatesOf(rows) \in Seq(Records)
    BY UpdatesType DEF IInv, Typed
  <1>2. UpdatesOf(<<>>) = <<>> /\ Len(<<>>) = 0
    BY NoRows
  <1>3. Lossless(<<>>)
    BY <1>2 DEF Lossless
  <1> QED
    BY <1>1, <1>2, <1>3 DEF Holding

\* Only a rollout that lost cases brings a reward of fewer cases on record.
LEMMA StepLossInv == IInv /\ LossInv /\ [Next]_vars => LossInv'
  <1> SUFFICES ASSUME IInv, LossInv, [Next]_vars, losses' = 0
               PROVE  Lossless(UpdatesOf(disk))'
    BY DEF LossInv
  <1>0. disk' = disk => UpdatesOf(disk)' = UpdatesOf(disk)
    OBVIOUS
  <1>1. CASE ResumeReady
    <2>1. losses' = losses
      BY <1>1 DEF ResumeReady, budget
    <2>2. /\ disk' = disk \/ disk' = PrefixThrough(disk, keep)
          /\ pc = "replay" /\ Idle /\ rec = keep
      BY <1>1 DEF ResumeReady, Write
    <2>3. /\ Typed /\ UpdatesOf(disk) \in Seq(Records)
          /\ keep \in 0 .. Len(UpdatesOf(disk))
      BY <2>2, ReplayedSoFar DEF Replaying
    <2>4. UpdatesOf(PrefixThrough(disk, keep)) = SubSeq(UpdatesOf(disk), 1, keep)
      BY <2>3, PrefixKept DEF Typed
    <2> QED
      BY <1>0, <2>1, <2>2, <2>3, <2>4, LosslessPrefix DEF LossInv
  <1>2. CASE InitialEval \/ Finish
    <2>1. /\ Started /\ losses' = losses
          /\ disk' = disk \/ \E g \in -1 .. Generations : Write(Append(rows, EvalRow(g)))
      BY <1>2, RunShape DEF InitialEval, Finish, IInv, budget
    <2>2. UpdatesOf(disk)' = UpdatesOf(disk) \/ UpdatesOf(disk)' = UpdatesOf(rows)
      BY <1>0, <2>1, EvalAppended
    <2> QED
      BY <2>1, <2>2, HeldLossless DEF Started, LossInv
  <1>3. CASE Record
    <2>1. /\ Updating /\ Sampled \in Records /\ losses' = losses
          /\ UpdatesOf(disk)' = Append(UpdatesOf(rows), Sampled)
      BY <1>3, RecordFacts DEF Record, budget
    <2>2. /\ Holding
          /\ \A i \in Items : Sampled.rewards[i] \in RewardsOf(UpdatesOf(rows), Sampled.seeds[i])
      BY <2>1 DEF Updating, InBatch, Rewarded, Worth, Sampled
    <2>3. Lossless(UpdatesOf(rows)) /\ UpdatesOf(rows) \in Seq(Records)
      BY <2>1, <2>2, HeldLossless DEF LossInv
    <2> QED
      BY <2>1, <2>2, <2>3, LosslessAppend
  <1>4. CASE disk' = disk
    <2>1. losses = 0
      <3>1. losses \in Nat
        BY DEF IInv, Typed
      <3>2. CASE Driver \/ Crash \/ TimeOut \/ Stop \/ UNCHANGED vars
        BY <1>4, <3>2 DEF Driver, Raise, LaunchAnew, LaunchResume, CanLaunch, Replay,
           ResumeReady, InitialEval, Draw, SampledAll, Record, Finish, Collect, Crash,
           TimeOut, Stop, vars, budget
      <3>3. CASE \E e \in Engines : Worker(e) \/ RolloutLoses(e) \/ RolloutFails(e)
        <4>1. losses' = losses \/ losses' = losses + 1
          BY <3>3 DEF Worker, Apply, Rollout, Update, RolloutLoses, RolloutFails, budget
        <4> QED
          BY <3>1, <4>1
      <3> QED
        BY <3>2, <3>3 DEF Next
    <2> QED
      BY <1>0, <1>4, <2>1 DEF LossInv
  <1>5. CASE LaunchAnew \/ LaunchResume \/ Replay \/ Draw \/ SampledAll \/ Raise \/ Crash \/ TimeOut
    BY <1>4, <1>5 DEF LaunchAnew, LaunchResume, CanLaunch, Replay, Draw, SampledAll, Raise,
       Crash, TimeOut, Die
  <1>6. CASE \/ \E i \in Items : Collect(i)
             \/ \E e \in Engines : Worker(e) \/ RolloutLoses(e) \/ RolloutFails(e)
    BY <1>4, <1>6 DEF Collect, Worker, Apply, Rollout, Update, RolloutLoses, RolloutReturns,
       RolloutFails
  <1>7. CASE Stop \/ UNCHANGED vars
    BY <1>4, <1>7 DEF Stop, vars
  <1> QED
    BY <1>1, <1>2, <1>3, <1>5, <1>6, <1>7 DEF Next, Driver

\* Kills, timeouts, rollouts that raise, full and partial resumes never show: the
\* updates of history.json are those of a training on one model that nothing
\* interrupts, and it only ever goes back when the launch was asked to.  Only a
\* rollout that lost cases, which count 0, leaves a reward of fewer cases there.
THEOREM Refinement ==
    ASSUME Scored
    PROVE  FairSpec => ImplementsTraining
  <1>1. Init => Training!Init /\ LossInv
    <2>1. ASSUME Init PROVE UpdatesOf(disk) = <<>> /\ Lossless(<<>>)
      <3>1. UpdatesOf(disk) = <<>>
        BY <2>1, NoRows DEF Init
      <3> QED
        BY <3>1 DEF Lossless
    <2> QED
      BY <2>1 DEF Training!Init, LossInv
  <1>2. FairSpec => []IInv
    BY InitIInv, StepIInv, PTL DEF FairSpec
  <1>3. IInv /\ [Next]_vars =>
          [Training!Generation \/ (asked /\ Training!Rewind)]_(UpdatesOf(disk))
    BY StepTraining
  <1>4. FairSpec => [](losses = 0 => Lossless(UpdatesOf(disk)))
    BY <1>1, <1>2, StepLossInv, PTL DEF FairSpec, LossInv
  <1> QED
    BY <1>1, <1>2, <1>3, <1>4, PTL DEF FairSpec, ImplementsTraining

-------------------------------------------------------------------------------
(* No history is refused *)

\* The updates of a history are those of the generations 0, 1, ... and carry the
\* seeds the stream has for them.
Numbered(h) == Replayable(h, Len(UpdatesOf(h)))

ReplayInv ==
    Numbered(disk) /\ Len(UpdatesOf(disk)) <= Generations /\ pc # "refused"

\* A prefix of a replayable history is replayable.
LEMMA NumberedPrefix ==
    ASSUME NEW h \in Seq(Rows), NEW n \in 0 .. Len(UpdatesOf(h)), Numbered(h)
    PROVE  Numbered(PrefixThrough(h, n)) /\ Len(UpdatesOf(PrefixThrough(h, n))) = n
  <1>1. UpdatesOf(h) \in Seq(Records) /\ Len(UpdatesOf(h)) \in Nat
    BY UpdatesType
  <1>2. /\ UpdatesOf(PrefixThrough(h, n)) = SubSeq(UpdatesOf(h), 1, n)
        /\ \A j \in 1 .. n : UpdateRow(PrefixThrough(h, n), j) = UpdateRow(h, j)
    BY PrefixKept
  <1>3. Len(SubSeq(UpdatesOf(h), 1, n)) = n
    BY <1>1, ElementOfSeq, SubSeqProperties
  <1>4. \A j \in 1 .. n : j \in 1 .. Len(UpdatesOf(h))
    BY <1>1
  <1> QED
    BY <1>2, <1>3, <1>4 DEF Numbered, Replayable, UpdateRow

\* So is one to which an evaluation or the next generation is appended.
LEMMA NumberedAppend ==
    ASSUME NEW h \in Seq(Rows), NEW row \in Rows, Numbered(h),
           IsUpdate(row) => /\ row.gen = Len(UpdatesOf(h))
                            /\ row.seeds = SeedsOf(Len(UpdatesOf(h)))
    PROVE  Numbered(Append(h, row))
  <1> DEFINE l == Len(UpdatesOf(h))
             g == Append(h, row)
  <1>1. UpdatesOf(h) \in Seq(Records) /\ l \in Nat
    BY UpdatesType
  <1>2. /\ UpdatesOf(g) = IF IsUpdate(row) THEN Append(UpdatesOf(h), RecordOf(row)) ELSE UpdatesOf(h)
        /\ \A n \in 1 .. l : UpdateRow(g, n) = UpdateRow(h, n)
        /\ IsUpdate(row) => UpdateRow(g, l + 1) = row
    BY UpdatesAppend
  <1>3. \A n \in 1 .. l : UpdateRow(g, n).gen = n - 1 /\ UpdateRow(g, n).seeds = SeedsOf(n - 1)
    BY <1>2 DEF Numbered, Replayable, UpdateRow
  <1>4. CASE ~ IsUpdate(row)
    BY <1>2, <1>3, <1>4 DEF Numbered, Replayable, UpdateRow
  <1>5. CASE IsUpdate(row)
    <2>1. Len(UpdatesOf(g)) = l + 1
      BY <1>1, <1>2, <1>5
    <2>2. ASSUME NEW n \in 1 .. l + 1
          PROVE  UpdateRow(g, n).gen = n - 1 /\ UpdateRow(g, n).seeds = SeedsOf(n - 1)
      <3>1. CASE n = l + 1
        <4>1. UpdateRow(g, n) = row /\ n - 1 = l
          BY <1>1, <1>2, <1>5, <3>1
        <4> QED
          BY <1>5, <4>1
      <3>2. CASE n # l + 1
        <4>1. n \in 1 .. l
          BY <1>1, <3>2
        <4> QED
          BY <1>3, <4>1
      <3> QED
        BY <3>1, <3>2
    <2> QED
      BY <2>1, <2>2 DEF Numbered, Replayable, UpdateRow
  <1> QED
    BY <1>4, <1>5

\* A history without rows is replayable.
LEMMA NumberedNone == Numbered(<<>>) /\ Len(UpdatesOf(<<>>)) = 0
  BY NoRows DEF Numbered, Replayable

\* What the process holds is as replayable as what is on the disk.
LEMMA HeldNumbered ==
    ASSUME IInv, ReplayInv, Holding
    PROVE  /\ rows \in Seq(Rows) /\ Numbered(rows)
           /\ Len(UpdatesOf(rows)) \in Nat /\ Len(UpdatesOf(rows)) <= Generations
  <1>1. rows \in Seq(Rows) /\ Len(UpdatesOf(rows)) \in Nat
    BY UpdatesType DEF IInv, Typed
  <1> QED
    BY <1>1, NumberedNone, RunShape DEF Holding, ReplayInv

\* Evaluations add no update.
LEMMA EvalNumbered ==
    ASSUME IInv, ReplayInv, Started, NEW g \in -1 .. Generations,
           Write(Append(rows, EvalRow(g)))
    PROVE  Numbered(disk)' /\ Len(UpdatesOf(disk))' <= Generations
  <1>1. /\ rows \in Seq(Rows) /\ Numbered(rows)
        /\ UpdatesOf(rows) \in Logs /\ Len(UpdatesOf(rows)) <= Generations
    BY HeldNumbered, UpdatesType DEF Started, Logs
  <1>2. \A e \in Engines : engine[e].log = UpdatesOf(rows) /\ engine[e].noise = NoNoise
    BY DEF Started, Rests, Quiet
  <1>3. EvalRow(g) \in Rows /\ ~ IsUpdate(EvalRow(g))
    BY <1>1, <1>2, EvalRowFacts
  <1>4. disk' = Append(rows, EvalRow(g))
    BY DEF Write
  <1>5. Numbered(Append(rows, EvalRow(g))) /\ UpdatesOf(Append(rows, EvalRow(g))) = UpdatesOf(rows)
    BY <1>1, <1>3, NumberedAppend, UpdatesAppend
  <1> QED
    BY <1>1, <1>4, <1>5

\* A step keeps the history replayable, and refuses none.
LEMMA StepReplayInv == IInv /\ ReplayInv /\ [Next]_vars => ReplayInv'
  <1> SUFFICES ASSUME IInv, ReplayInv, [Next]_vars PROVE ReplayInv'
    OBVIOUS
  <1>0. /\ Typed /\ Numbered(disk) /\ Len(UpdatesOf(disk)) \in Nat
        /\ Len(UpdatesOf(disk)) <= Generations /\ pc # "refused"
    BY UpdatesType DEF IInv, Typed, ReplayInv
  <1>1. CASE ResumeReady
    <2>1. Replaying /\ keep \in Nat /\ keep <= Len(UpdatesOf(disk))
      BY <1>1, ReplayedSoFar DEF ResumeReady, Replaying
    <2>2. ~ (keep > Generations)
      BY <1>0, <2>1, RunShape
    <2>3. disk' = PrefixThrough(disk, keep) /\ pc' \in {"initial", "loop"}
      BY <1>1, <2>2 DEF ResumeReady, Write
    <2>4. /\ Numbered(PrefixThrough(disk, keep))
          /\ Len(UpdatesOf(PrefixThrough(disk, keep))) = keep
      BY <1>0, <2>1, NumberedPrefix DEF Typed
    <2> QED
      BY <1>0, <2>1, <2>2, <2>3, <2>4, RunShape DEF ReplayInv
  <1>2. CASE InitialEval
    <2>1. Started /\ Write(Append(rows, EvalRow(-1))) /\ -1 \in -1 .. Generations /\ pc' = "loop"
      BY <1>2, RunShape DEF InitialEval, IInv
    <2> QED
      BY <2>1, EvalNumbered DEF ReplayInv
  <1>3. CASE Finish
    <2>1. Started /\ Generations \in -1 .. Generations /\ pc' = "done"
      BY <1>3, RunShape DEF Finish, IInv
    <2>2. disk' = disk \/ Write(Append(rows, EvalRow(Generations)))
      BY <1>3 DEF Finish
    <2> QED
      BY <1>0, <2>1, <2>2, EvalNumbered DEF ReplayInv
  <1>4. CASE Record
    <2>1. PICK row \in Rows : rows' = Append(rows, row) /\ row.gen = gen /\ row.seeds = seeds
      BY <1>4, RecordFacts
    <2>2. /\ Updating /\ rows' = disk' /\ UpdatesOf(rows) \in Logs
          /\ UpdatesOf(rows') = Append(UpdatesOf(rows), Sampled) /\ Sampled \in Records
      BY <1>4, RecordFacts
    <2>3. /\ gen = Len(UpdatesOf(rows)) /\ gen < Generations /\ seeds = SeedsOf(gen)
          /\ Holding
      BY <2>2 DEF Updating, InBatch
    <2>4. rows \in Seq(Rows) /\ Numbered(rows)
      BY <2>3, HeldNumbered
    <2>5. Numbered(rows')
      BY <2>1, <2>3, <2>4, NumberedAppend
    <2>6. Len(UpdatesOf(rows')) = Len(UpdatesOf(rows)) + 1 /\ Len(UpdatesOf(rows)) \in Nat
      BY <2>2, AppendProperties, LenProperties DEF Logs
    <2>7. pc' = "loop"
      BY <1>4 DEF Record
    <2> QED
      BY <2>2, <2>3, <2>5, <2>6, <2>7, RunShape DEF ReplayInv
  <1>5. CASE LaunchResume
    <2>1. PICK k \in 1 .. Len(UpdatesOf(disk)) :
             pc' = IF Replayable(disk, k) THEN "replay" ELSE "refused"
      BY <1>5 DEF LaunchResume
    <2>2. Replayable(disk, k)
      BY <1>0, <2>1 DEF Numbered, Replayable
    <2>3. disk' = disk /\ pc' = "replay"
      BY <1>5, <2>1, <2>2 DEF LaunchResume, CanLaunch
    <2> QED
      BY <1>0, <2>3 DEF ReplayInv
  <1>6. CASE LaunchAnew \/ Replay \/ Draw \/ SampledAll \/ Raise \/ Crash \/ TimeOut
    <2>1. disk' = disk /\ pc' # "refused"
      BY <1>0, <1>6 DEF LaunchAnew, CanLaunch, Replay, Draw, SampledAll, Raise, Crash, TimeOut, Die
    <2> QED
      BY <1>0, <2>1 DEF ReplayInv
  <1>7. CASE \/ \E i \in Items : Collect(i)
             \/ \E e \in Engines : Worker(e) \/ RolloutLoses(e) \/ RolloutFails(e)
    <2>1. disk' = disk /\ pc' = pc
      BY <1>7 DEF Collect, Worker, Apply, Rollout, Update, RolloutLoses, RolloutReturns,
         RolloutFails
    <2> QED
      BY <1>0, <2>1 DEF ReplayInv
  <1>8. CASE Stop \/ UNCHANGED vars
    <2>1. disk' = disk /\ pc' = pc
      BY <1>8 DEF Stop, vars
    <2> QED
      BY <1>0, <2>1 DEF ReplayInv
  <1> QED
    BY <1>1, <1>2, <1>3, <1>4, <1>5, <1>6, <1>7, <1>8 DEF Next, Driver

\* No history that a run has written is ever refused by a later launch, whole or
\* cut back: it starts with generation 0, has no gap, carries the stream's seeds
\* and is not longer than the run.
THEOREM NeverRefused ==
    ASSUME Scored
    PROVE  FairSpec => [](pc # "refused")
  <1>1. Init => ReplayInv
    BY NumberedNone, RunShape DEF Init, ReplayInv
  <1>2. FairSpec => []IInv
    BY InitIInv, StepIInv, PTL DEF FairSpec
  <1>3. ReplayInv => pc # "refused"
    BY DEF ReplayInv
  <1> QED
    BY <1>1, <1>2, <1>3, StepReplayInv, PTL DEF FairSpec

===============================================================================
