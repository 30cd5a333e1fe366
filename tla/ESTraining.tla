------------------------------ MODULE ESTraining ------------------------------
(***************************************************************************)
(* What an ES run promises its user: history.json grows by one generation  *)
(* at a time, exactly as in a run on one model that nothing ever           *)
(* interrupts.  Generation g draws the next Population seeds of the        *)
(* stream, and the reward of a seed is one that the model, after the       *)
(* generations recorded so far and under that seed, can earn.              *)
(***************************************************************************)
EXTENDS Naturals, Sequences

CONSTANTS
    Population,         \* --population
    Generations,        \* --generations
    RewardsOf(_, _)     \* the rewards a model with that log, perturbed by that
                        \* seed, can earn on the generation's cases

VARIABLE history        \* the update records of history.json

\* The seeds of a generation: the stream random.Random(--seed) yields, in order.
SeedsOf(generation) == [i \in 1 .. Population |-> generation * Population + i]

Init == history = <<>>

\* What history.json may become when a generation follows the records in kept.
GenerationAfter(kept) ==
    /\ Len(kept) < Generations
    /\ \E record \in [seeds : {SeedsOf(Len(kept))},
                      rewards : [1 .. Population ->
                                    UNION {RewardsOf(kept, SeedsOf(Len(kept))[i]) :
                                              i \in 1 .. Population}]] :
          /\ history' = Append(kept, record)
          /\ \A i \in 1 .. Population :
                record.rewards[i] \in RewardsOf(kept, record.seeds[i])

Generation == GenerationAfter(history)

\* Only on request: the run goes back to an earlier generation, and may write
\* nothing before it has done the next one.
Rewind ==
    \E n \in 0 .. Len(history) :
        LET kept == SubSeq(history, 1, n)
        IN  history' = kept \/ GenerationAfter(kept)

Spec == Init /\ [][Generation]_history
=============================================================================
