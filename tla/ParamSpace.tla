------------------------------ MODULE ParamSpace ------------------------------
(***************************************************************************)
(* The weights of a model relative to their base values.                   *)
(*                                                                         *)
(* SeedReplayModelES only ever adds multiples of seeded noise directions   *)
(* epsilon(seed) to a tensor, so the state of a tensor is the vector of    *)
(* the coefficients of those directions; the base weights are Zero.        *)
(* Coefficients are integers: one unit stands for the smallest sigma or    *)
(* weight * alpha / N of the run, and rounding is left out.                *)
(***************************************************************************)
EXTENDS Integers

CONSTANT Seeds          \* the noise seeds a run may draw

\* A tensor's displacement from its base weights.
Vec == [Seeds -> Int]

Zero == [s \in Seeds |-> 0]

Plus(v, w) == [s \in Seeds |-> v[s] + w[s]]

Minus(v, w) == [s \in Seeds |-> v[s] - w[s]]

\* sigma * epsilon(seed): the direction randn draws after manual_seed(seed).
Noise(seed, sigma) == [s \in Seeds |-> IF s = seed THEN sigma ELSE 0]
=============================================================================
