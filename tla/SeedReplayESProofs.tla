-------------------------- MODULE SeedReplayESProofs --------------------------
(***************************************************************************)
(* Proofs about SeedReplayES, for any set of tensors, seeds, scopes and    *)
(* scales and any number of updates and of exceptions.                     *)
(***************************************************************************)
EXTENDS SeedReplayES, TLAPS

-------------------------------------------------------------------------------
(* The vectors of ParamSpace form an abelian group under Plus. *)

\* Sums, differences and noise directions are displacements of a tensor.
LEMMA VecClosed ==
    /\ Zero \in Vec
    /\ \A v, w \in Vec : Plus(v, w) \in Vec /\ Minus(v, w) \in Vec
    /\ \A s \in Seeds, k \in Int : Noise(s, k) \in Vec
BY DEF Zero, Vec, Plus, Minus, Noise

\* Two displacements are equal when every coefficient is.
LEMMA VecExtensional ==
    ASSUME NEW v \in Vec, NEW w \in Vec, \A s \in Seeds : v[s] = w[s]
    PROVE  v = w
BY DEF Vec

\* The order in which add_ calls hit a tensor does not matter (rounding aside).
LEMMA VecSums ==
    /\ \A v \in Vec : Plus(v, Zero) = v /\ Plus(Zero, v) = v
    /\ \A v \in Vec : Minus(v, v) = Zero
    /\ \A v, w, u \in Vec : Plus(Plus(v, w), u) = Plus(v, Plus(w, u))
    /\ \A v, w \in Vec : Plus(v, w) = Plus(w, v)
<1>1. \A v \in Vec : Plus(v, Zero) = v /\ Plus(Zero, v) = v
  BY VecClosed, VecExtensional DEF Vec, Plus, Zero
<1>2. \A v \in Vec : Minus(v, v) = Zero
  BY VecClosed, VecExtensional DEF Vec, Minus, Zero
<1>3. \A v, w, u \in Vec : Plus(Plus(v, w), u) = Plus(v, Plus(w, u))
  BY VecClosed, VecExtensional DEF Vec, Plus
<1>4. \A v, w \in Vec : Plus(v, w) = Plus(w, v)
  BY VecClosed, VecExtensional DEF Vec, Plus
<1> QED BY <1>1, <1>2, <1>3, <1>4

\* The two scales of a revert cancel.
LEMMA NoiseCancels ==
    ASSUME NEW s \in Seeds, NEW k \in Int
    PROVE  Plus(Noise(s, k), Noise(s, -k)) = Zero
BY VecClosed, VecExtensional DEF Vec, Plus, Zero, Noise

\* Undoing the update h that led from a to Plus(a, h).
LEMMA UndoOne ==
    ASSUME NEW r \in Vec, NEW a \in Vec, NEW h \in Vec, NEW c \in Vec
    PROVE  Plus(Plus(r, Minus(Plus(a, h), c)), Minus(Zero, h)) = Plus(r, Minus(a, c))
<1>1. \A s \in Seeds :
        Plus(Plus(r, Minus(Plus(a, h), c)), Minus(Zero, h))[s] = Plus(r, Minus(a, c))[s]
  BY DEF Vec, Plus, Minus, Zero
<1> QED BY <1>1, VecClosed, VecExtensional

\* A perturbed point minus the way back to the origin is the perturbation.
LEMMA BackToOrigin ==
    ASSUME NEW r \in Vec, NEW c \in Vec
    PROVE  Plus(Plus(r, Plus(c, Zero)), Minus(Zero, c)) = r
<1>1. \A s \in Seeds : Plus(Plus(r, Plus(c, Zero)), Minus(Zero, c))[s] = r[s]
  BY DEF Vec, Plus, Minus, Zero
<1> QED BY <1>1, VecClosed, VecExtensional

-------------------------------------------------------------------------------
(* Types *)

\* The vector an active or wanted perturbation stands for.
LEMMA PerturbationVec ==
    ASSUME NEW p \in Perturbations
    PROVE  /\ Noise(p.seed, p.sigma) \in Vec
           /\ Noise(p.seed, -p.sigma) \in Vec
           /\ Plus(Noise(p.seed, p.sigma), Noise(p.seed, -p.sigma)) = Zero
<1>1. p.seed \in Seeds /\ p.sigma \in Sigmas
  BY DEF Perturbations
<1>2. p.sigma \in Nat
  BY <1>1, SigmasAssumption
<1>3. \A k \in Nat : k \in Int /\ -k \in Int
  OBVIOUS
<1>4. p.sigma \in Int /\ -p.sigma \in Int
  BY <1>2, <1>3
<1> QED BY <1>1, <1>4, VecClosed, NoiseCancels

\* Any answer has the type of last.
LEMMA AnswerTyped ==
    ASSUME NEW route \in Routes, NEW ok \in BOOLEAN, Answer(route, ok)
    PROVE  last' \in [route : Routes \cup {"none"}, ok : BOOLEAN]
BY DEF Answer

\* A fresh server object is typed.
LEMMA TypeInit == Init => TypeOK
BY VecClosed, BoundsAssumption DEF Init, TypeOK, Phases, Routes

\* Each action keeps the types; UpdateEnd and UndoNext also need the length
\* of snap and the range of left.
LEMMA TypeStep ==
    ASSUME TypeOK, SnapChain, LoopOK, [Next]_vars
    PROVE  TypeOK'
<1> USE DEF TypeOK, Phases, Routes, Answer, Start, Untouched
<1>1. ASSUME NEW p \in Perturbations, ApplyBegin(p) PROVE TypeOK'
  BY <1>1, PerturbationVec DEF ApplyBegin
<1>2. ASSUME NEW p \in Perturbations, ApplyAgain(p) \/ ApplyRejected(p) PROVE TypeOK'
  <2>1. CASE ApplyAgain(p)
    BY <2>1 DEF ApplyAgain
  <2>2. CASE ApplyRejected(p)
    BY <2>2 DEF ApplyRejected
  <2> QED BY <1>2, <2>1, <2>2
<1>3. ASSUME NEW p \in Perturbations, RevertBegin(p) PROVE TypeOK'
  BY <1>3, PerturbationVec DEF RevertBegin
<1>4. ASSUME NEW p \in Perturbations, RevertRejected(p) PROVE TypeOK'
  BY <1>4 DEF RevertRejected
<1>5. CASE RevertAgain \/ UpdateRejected \/ ResetRejected
  <2>1. CASE RevertAgain
    BY <2>1 DEF RevertAgain
  <2>2. CASE UpdateRejected
    BY <2>2 DEF UpdateRejected
  <2>3. CASE ResetRejected
    BY <2>3 DEF ResetRejected
  <2> QED BY <1>5, <2>1, <2>2, <2>3
<1>6. ASSUME NEW d \in Deltas, UpdateBegin(d) PROVE TypeOK'
  BY <1>6, DeltasAssumption DEF UpdateBegin
<1>7. ASSUME NEW scope \in Scopes \cup {None}, ResetBegin(scope) PROVE TypeOK'
  <2>1. CASE active # None
    BY <1>7, <2>1, PerturbationVec DEF ResetBegin
  <2>2. CASE active = None
    BY <1>7, <2>2 DEF ResetBegin
  <2> QED BY <2>1, <2>2
<1>8. ASSUME NEW scope \in Scopes, FirstInit(scope) PROVE TypeOK'
  BY <1>8, ScopesAssumption DEF FirstInit, LoopOK
<1>9. ASSUME NEW t \in Tensors, WriteTensor(t) PROVE TypeOK'
  BY <1>9, VecClosed DEF WriteTensor
<1>10. CASE ApplyEnd
  BY <1>10 DEF ApplyEnd
<1>11. CASE RevertEnd \/ DenoiseEnd
  <2>1. CASE RevertEnd
    BY <2>1 DEF RevertEnd
  <2>2. CASE DenoiseEnd
    BY <2>2 DEF DenoiseEnd
  <2> QED BY <1>11, <2>1, <2>2
<1>12. CASE UpdateEnd
  <2>1. snap[Len(snap)] \in Vec
    BY DEF SnapChain
  <2>2. Plus(snap[Len(snap)], pass) \in Vec
    BY <2>1, VecClosed
  <2>3. history' \in Seq(Vec) /\ snap' \in Seq(Vec)
    BY <1>12, <2>2 DEF UpdateEnd
  <2> QED BY <1>12, <2>3 DEF UpdateEnd
<1>13. CASE UndoNext
  <2>1. history[left] \in Vec
    BY <1>13 DEF UndoNext, LoopOK
  <2>2. Minus(Zero, history[left]) \in Vec
    BY <2>1, VecClosed
  <2> QED BY <1>13, <2>2 DEF UndoNext
<1>14. CASE ResetEnd
  <2>1. infos' \in SUBSET Tensors
    BY <1>14, ScopesAssumption DEF ResetEnd
  <2>2. snap' \in Seq(Vec) /\ history' \in Seq(Vec)
    BY <1>14, VecClosed DEF ResetEnd
  <2>3. last' \in [route : Routes \cup {"none"}, ok : BOOLEAN]
    <3> HIDE DEF Answer
    <3>1. Answer("reset", TRUE) \/ Answer("init", TRUE) \/ Answer("init", FALSE)
      BY <1>14 DEF ResetEnd
    <3> QED BY <3>1, AnswerTyped
  <2> QED BY <1>14, <2>1, <2>2, <2>3 DEF ResetEnd
<1>15. CASE Fault
  <2>1. residue' \in [Tensors -> Vec]
    <3>1. ASSUME NEW t \in Tensors PROVE Written(t) \in Vec
      <4>1. CASE phase = "idle" \/ t \notin infos
        BY <4>1, VecClosed DEF Written
      <4>2. CASE phase = "undo" /\ t \in infos
        <5>1. Centre \in Vec
          BY DEF SnapChain, Centre
        <5>2. snap[IF t \in todo THEN left + 2 ELSE left + 1] \in Vec
          BY <4>2 DEF SnapChain, LoopOK
        <5> QED BY <4>2, <5>1, <5>2, VecClosed DEF Written
      <4>3. CASE phase \notin {"idle", "undo"} /\ t \in infos
        BY <4>3, VecClosed DEF Written
      <4> QED BY <4>1, <4>2, <4>3
    <3> QED BY <1>15, <3>1, VecClosed DEF Fault
  <2>2. last' \in [route : Routes \cup {"none"}, ok : BOOLEAN]
    BY <1>15 DEF Fault, LoopOK
  <2>3. faults' \in 0 .. MaxFaults
    BY <1>15, BoundsAssumption DEF Fault
  <2> QED BY <1>15, <2>1, <2>2, <2>3 DEF Fault
<1>16. CASE UNCHANGED vars
  BY <1>16 DEF vars
<1> QED
  BY <1>1, <1>2, <1>3, <1>4, <1>5, <1>6, <1>7, <1>8, <1>9, <1>10, <1>11, <1>12,
     <1>13, <1>14, <1>15, <1>16 DEF Next, Request, Serve

-------------------------------------------------------------------------------
(* Records and loops *)

\* Only UpdateEnd and ResetEnd touch history, and snap with it.
LEMMA ChainStep ==
    ASSUME TypeOK, SnapChain, LoopOK, [Next]_vars
    PROVE  SnapChain'
<1>1. CASE UpdateEnd
  <2>1. /\ Len(history') = Len(history) + 1 /\ Len(snap') = Len(snap) + 1
        /\ history'[Len(history) + 1] = pass
        /\ snap'[Len(snap) + 1] = Plus(snap[Len(snap)], pass)
        /\ \A i \in 1 .. Len(history) : history'[i] = history[i]
        /\ \A i \in 1 .. Len(snap) : snap'[i] = snap[i]
    BY <1>1 DEF UpdateEnd, TypeOK, SnapChain
  <2>2. ASSUME NEW i \in 1 .. Len(history')
        PROVE  snap'[i + 1] = Plus(snap'[i], history'[i])
    <3>1. CASE i = Len(history) + 1
      BY <2>1, <3>1 DEF SnapChain, TypeOK
    <3>2. CASE i \in 1 .. Len(history)
      BY <2>1, <3>2 DEF SnapChain, TypeOK
    <3> QED BY <2>1, <3>1, <3>2 DEF TypeOK
  <2> QED BY <2>1, <2>2 DEF SnapChain, TypeOK
<1>2. CASE ResetEnd
  BY <1>2 DEF ResetEnd, SnapChain
<1>3. CASE ~UpdateEnd /\ ~ResetEnd
  <2>1. UNCHANGED <<history, snap>>
    BY <1>3 DEF Next, Request, Serve, vars, Untouched, ApplyBegin, ApplyAgain,
       ApplyRejected, RevertBegin, RevertRejected, RevertAgain, UpdateBegin,
       UpdateRejected, ResetBegin, ResetRejected, FirstInit, WriteTensor,
       ApplyEnd, RevertEnd, DenoiseEnd, UndoNext, Fault
  <2> QED BY <2>1 DEF SnapChain
<1> QED BY <1>1, <1>2, <1>3

\* Only an exception adds to the residue.
LEMMA ResidueStep ==
    ASSUME TypeOK, ResidueOK, [Next]_vars
    PROVE  ResidueOK'
<1>1. CASE Fault
  <2>1. faults \in Nat /\ faults' = faults + 1
    BY <1>1, BoundsAssumption DEF Fault, TypeOK
  <2> QED BY <2>1 DEF ResidueOK
<1>2. CASE ~Fault
  <2>1. UNCHANGED <<faults, residue>>
    BY <1>2 DEF Next, Request, Serve, vars, Untouched, ApplyBegin, ApplyAgain,
       ApplyRejected, RevertBegin, RevertRejected, RevertAgain, UpdateBegin,
       UpdateRejected, ResetBegin, ResetRejected, FirstInit, WriteTensor,
       ApplyEnd, RevertEnd, UpdateEnd, DenoiseEnd, UndoNext, ResetEnd
  <2> QED BY <2>1 DEF ResidueOK
<1> QED BY <1>1, <1>2

\* Each request starts its loop with the vector its records call for.
LEMMA LoopStep ==
    ASSUME TypeOK, SnapChain, LoopOK, [Next]_vars
    PROVE  LoopOK'
<1> USE DEF LoopOK, Start, Untouched
<1>1. ASSUME NEW p \in Perturbations, ApplyBegin(p) PROVE LoopOK'
  BY <1>1, NoneAssumption DEF ApplyBegin
<1>2. ASSUME NEW p \in Perturbations, ApplyAgain(p) \/ ApplyRejected(p) PROVE LoopOK'
  BY <1>2 DEF ApplyAgain, ApplyRejected
<1>3. ASSUME NEW p \in Perturbations, RevertBegin(p) PROVE LoopOK'
  BY <1>3, NoneAssumption DEF RevertBegin
<1>4. ASSUME NEW p \in Perturbations, RevertRejected(p) PROVE LoopOK'
  BY <1>4 DEF RevertRejected
<1>5. CASE RevertAgain \/ UpdateRejected \/ ResetRejected
  BY <1>5 DEF RevertAgain, UpdateRejected, ResetRejected
<1>6. ASSUME NEW d \in Deltas, UpdateBegin(d) PROVE LoopOK'
  BY <1>6 DEF UpdateBegin
<1>7. ASSUME NEW scope \in Scopes \cup {None}, ResetBegin(scope) PROVE LoopOK'
  <2>1. CASE active # None
    BY <1>7, <2>1 DEF ResetBegin
  <2>2. CASE active = None
    BY <1>7, <2>2 DEF ResetBegin, TypeOK
  <2> QED BY <2>1, <2>2
<1>8. ASSUME NEW scope \in Scopes, FirstInit(scope) PROVE LoopOK'
  BY <1>8 DEF FirstInit
<1>9. ASSUME NEW t \in Tensors, WriteTensor(t) PROVE LoopOK'
  BY <1>9 DEF WriteTensor
<1>10. CASE ApplyEnd
  BY <1>10 DEF ApplyEnd, TypeOK
<1>11. CASE RevertEnd
  BY <1>11 DEF RevertEnd
<1>12. CASE UpdateEnd
  BY <1>12 DEF UpdateEnd
<1>13. CASE DenoiseEnd
  BY <1>13 DEF DenoiseEnd, TypeOK
<1>14. CASE UndoNext
  BY <1>14 DEF UndoNext, TypeOK
<1>15. CASE ResetEnd
  BY <1>15 DEF ResetEnd
<1>16. CASE Fault
  BY <1>16 DEF Fault
<1>17. CASE UNCHANGED vars
  BY <1>17 DEF vars
<1> QED
  BY <1>1, <1>2, <1>3, <1>4, <1>5, <1>6, <1>7, <1>8, <1>9, <1>10, <1>11, <1>12,
     <1>13, <1>14, <1>15, <1>16, <1>17 DEF Next, Request, Serve

-------------------------------------------------------------------------------
(* The weights *)

\* The points the records name are vectors.
LEMMA RecordsTyped ==
    ASSUME TypeOK, SnapChain, LoopOK
    PROVE  /\ Centre \in Vec /\ Offset \in Vec
           /\ \A t \in Tensors : Recorded(t) \in Vec /\ Written(t) \in Vec
           /\ phase = "undo" => snap[left + 1] \in Vec
<1>1. Centre \in Vec
  BY DEF TypeOK, SnapChain, Centre
<1>2. Offset \in Vec
  BY VecClosed, PerturbationVec DEF TypeOK, Offset
<1>3. phase = "undo" => /\ snap[left + 1] \in Vec
                        /\ todo # {} => snap[left + 2] \in Vec
  BY DEF TypeOK, SnapChain, LoopOK
<1>4. ASSUME NEW t \in Tensors PROVE Written(t) \in Vec
  <2>1. CASE phase = "idle" \/ t \notin infos
    BY <2>1, VecClosed DEF Written
  <2>2. CASE phase = "undo" /\ t \in infos
    BY <2>2, <1>1, <1>3, VecClosed DEF Written
  <2>3. CASE phase \notin {"idle", "undo"} /\ t \in infos
    BY <2>3, VecClosed DEF Written, TypeOK
  <2> QED BY <2>1, <2>2, <2>3
<1>5. \A t \in Tensors : Recorded(t) \in Vec
  BY <1>1, <1>2, VecClosed DEF Recorded
<1> QED BY <1>1, <1>2, <1>3, <1>4, <1>5

\* A request that starts, or is answered at once, has written nothing yet.
LEMMA BalancedIdle ==
    ASSUME Balanced,
           UNCHANGED <<theta, infos, history, active, snap, residue>>,
           \A t \in Tensors : Written(t)' = Written(t)
    PROVE  Balanced'
<1>1. \A t \in Tensors : Recorded(t)' = Recorded(t)
  BY DEF Recorded, Centre, Offset
<1> QED BY <1>1 DEF Balanced

\* The noise just written becomes the active perturbation.
LEMMA BalancedApplyEnd ==
    ASSUME TypeOK, SnapChain, LoopOK, Balanced, ApplyEnd
    PROVE  Balanced'
<1> SUFFICES ASSUME NEW t \in Tensors
             PROVE  theta'[t] = Plus(Plus(residue'[t], Recorded(t)'), Written(t)')
  BY DEF Balanced
<1>1. /\ Centre \in Vec /\ residue[t] \in Vec /\ pass \in Vec
  BY RecordsTyped DEF TypeOK
<1>2. /\ theta'[t] = Plus(Plus(residue[t], Recorded(t)), Written(t))
      /\ residue'[t] = residue[t] /\ Written(t)' = Zero /\ infos' = infos
  BY DEF Balanced, ApplyEnd, Written
<1>3. CASE t \in infos
  <2>1. Recorded(t) = Plus(Centre, Zero) /\ Written(t) = pass
    BY <1>3 DEF ApplyEnd, LoopOK, Recorded, Offset, Written
  <2>2. want \in Perturbations
    BY DEF ApplyEnd, LoopOK, TypeOK
  <2>3. Recorded(t)' = Plus(Centre, pass)
    BY <1>3, <2>2, NoneAssumption DEF ApplyEnd, LoopOK, Recorded, Centre, Offset
  <2>4. Plus(Plus(residue[t], Plus(Centre, Zero)), pass)
          = Plus(Plus(residue[t], Plus(Centre, pass)), Zero)
    <3>1. Plus(Centre, Zero) = Centre
      BY <1>1, VecSums
    <3>2. Plus(Plus(residue[t], Centre), pass) = Plus(residue[t], Plus(Centre, pass))
      BY <1>1, VecSums
    <3>3. Plus(residue[t], Plus(Centre, pass)) \in Vec
      BY <1>1, VecClosed
    <3> QED BY <3>1, <3>2, <3>3, VecSums
  <2> QED BY <1>2, <2>1, <2>3, <2>4
<1>4. CASE t \notin infos
  BY <1>2, <1>4 DEF Recorded, Written
<1> QED BY <1>3, <1>4

\* RevertEnd and DenoiseEnd both drop the perturbation their pass took back.
LEMMA BalancedRevertEnd ==
    ASSUME TypeOK, SnapChain, LoopOK, Balanced, RevertEnd \/ DenoiseEnd
    PROVE  Balanced'
<1> SUFFICES ASSUME NEW t \in Tensors
             PROVE  theta'[t] = Plus(Plus(residue'[t], Recorded(t)'), Written(t)')
  BY DEF Balanced
<1>1. Centre \in Vec /\ Offset \in Vec /\ residue[t] \in Vec /\ pass \in Vec
  BY RecordsTyped DEF TypeOK
<1>2. /\ theta'[t] = Plus(Plus(residue[t], Recorded(t)), Written(t))
      /\ residue'[t] = residue[t] /\ infos' = infos
      /\ Centre' = Centre
  BY DEF Balanced, RevertEnd, DenoiseEnd, Centre
<1>3. Written(t)' = Zero
  <2>1. CASE RevertEnd
    BY <2>1 DEF RevertEnd, Written
  <2>2. CASE DenoiseEnd /\ t \notin infos
    BY <2>2 DEF DenoiseEnd, Written
  <2>3. CASE DenoiseEnd /\ t \in infos
    <3>1. Written(t)' = Minus(Centre, Centre)
      BY <2>3 DEF DenoiseEnd, Written, LoopOK, SnapChain, Centre
    <3> QED BY <3>1, <1>1, VecSums
  <2> QED BY <2>1, <2>2, <2>3
<1>4. CASE t \in infos
  <2>1. Recorded(t) = Plus(Centre, Offset) /\ Written(t) = pass
    BY <1>4 DEF RevertEnd, DenoiseEnd, Recorded, Written
  <2>2. Recorded(t)' = Plus(Centre, Zero)
    BY <1>2, <1>4 DEF RevertEnd, DenoiseEnd, Recorded, Offset
  <2>3. Plus(Offset, pass) = Zero
    <3>1. active \in Perturbations /\ active # None
      BY DEF RevertEnd, DenoiseEnd, LoopOK, TypeOK
    <3>2. pass = Noise(active.seed, -active.sigma)
      BY DEF RevertEnd, DenoiseEnd, LoopOK
    <3> QED BY <3>1, <3>2, PerturbationVec DEF Offset
  <2>4. Plus(Plus(residue[t], Plus(Centre, Offset)), pass)
          = Plus(residue[t], Plus(Centre, Plus(Offset, pass)))
    <3>1. Plus(Centre, Offset) \in Vec
      BY <1>1, VecClosed
    <3>2. Plus(Plus(residue[t], Plus(Centre, Offset)), pass)
            = Plus(residue[t], Plus(Plus(Centre, Offset), pass))
      BY <1>1, <3>1, VecSums
    <3> QED BY <1>1, <3>2, VecSums
  <2>5. Plus(Plus(residue[t], Plus(Centre, Zero)), Zero)
          = Plus(residue[t], Plus(Centre, Zero))
    <3>1. Plus(residue[t], Plus(Centre, Zero)) \in Vec
      BY <1>1, VecClosed
    <3> QED BY <3>1, VecSums
  <2> QED BY <1>2, <1>3, <2>1, <2>2, <2>3, <2>4, <2>5
<1>5. CASE t \notin infos
  <2>1. Recorded(t) = Zero /\ Recorded(t)' = Zero /\ Written(t) = Zero
    BY <1>2, <1>5 DEF Recorded, Written
  <2> QED BY <1>2, <1>3, <2>1
<1> QED BY <1>4, <1>5

\* The update just written becomes part of the centre.
LEMMA BalancedUpdateEnd ==
    ASSUME TypeOK, SnapChain, LoopOK, Balanced, UpdateEnd
    PROVE  Balanced'
<1> SUFFICES ASSUME NEW t \in Tensors
             PROVE  theta'[t] = Plus(Plus(residue'[t], Recorded(t)'), Written(t)')
  BY DEF Balanced
<1>1. /\ Centre \in Vec /\ residue[t] \in Vec /\ pass \in Vec
  BY RecordsTyped DEF TypeOK
<1>2. /\ theta'[t] = Plus(Plus(residue[t], Recorded(t)), Written(t))
      /\ residue'[t] = residue[t] /\ Written(t)' = Zero /\ infos' = infos
  BY DEF Balanced, UpdateEnd, Written
<1>3. CASE t \in infos
  <2>1. Recorded(t) = Plus(Centre, Zero) /\ Written(t) = pass
    BY <1>3 DEF UpdateEnd, LoopOK, Recorded, Offset, Written
  <2>2. Centre' = Plus(Centre, pass)
    <3>1. Plus(Centre, pass) \in Vec
      BY <1>1, VecClosed
    <3>2. snap' = Append(snap, Plus(Centre, pass)) /\ snap \in Seq(Vec)
      BY DEF UpdateEnd, Centre, TypeOK
    <3> QED BY <3>1, <3>2 DEF Centre
  <2>3. Recorded(t)' = Plus(Plus(Centre, pass), Zero)
    BY <1>3, <2>2 DEF UpdateEnd, LoopOK, Recorded, Offset
  <2>4. Plus(Plus(residue[t], Plus(Centre, Zero)), pass)
          = Plus(Plus(residue[t], Plus(Plus(Centre, pass), Zero)), Zero)
    <3>1. Plus(Centre, Zero) = Centre
      BY <1>1, VecSums
    <3>2. Plus(Plus(residue[t], Centre), pass) = Plus(residue[t], Plus(Centre, pass))
      BY <1>1, VecSums
    <3>3. Plus(Centre, pass) \in Vec /\ Plus(residue[t], Plus(Centre, pass)) \in Vec
      BY <1>1, VecClosed
    <3> QED BY <3>1, <3>2, <3>3, VecSums
  <2> QED BY <1>2, <2>1, <2>3, <2>4
<1>4. CASE t \notin infos
  BY <1>2, <1>4 DEF Recorded, Written
<1> QED BY <1>3, <1>4

\* Every update is undone: what is left to account for is the residue.
LEMMA BalancedResetEnd ==
    ASSUME TypeOK, SnapChain, LoopOK, Balanced, ResetEnd
    PROVE  Balanced'
<1> SUFFICES ASSUME NEW t \in Tensors
             PROVE  theta'[t] = Plus(Plus(residue'[t], Recorded(t)'), Written(t)')
  BY DEF Balanced
<1>1. /\ Centre \in Vec /\ residue[t] \in Vec
  BY RecordsTyped DEF TypeOK
<1>2. /\ theta'[t] = Plus(Plus(residue[t], Recorded(t)), Written(t))
      /\ residue'[t] = residue[t] /\ Written(t)' = Zero
  BY DEF Balanced, ResetEnd, Written
<1>3. theta[t] = residue[t]
  <2>1. CASE t \in infos
    <3>1. Recorded(t) = Plus(Centre, Zero) /\ Written(t) = Minus(Zero, Centre)
      BY <2>1 DEF ResetEnd, LoopOK, SnapChain, Recorded, Offset, Written
    <3> QED BY <1>1, <3>1, BackToOrigin DEF Balanced
  <2>2. CASE t \notin infos
    <3>1. Recorded(t) = Zero /\ Written(t) = Zero
      BY <2>2 DEF Recorded, Written
    <3> QED BY <1>1, <3>1, VecSums DEF Balanced
  <2> QED BY <2>1, <2>2
<1>4. Recorded(t)' = Zero
  <2>1. Centre' = Zero /\ Offset' = Zero
    BY DEF ResetEnd, LoopOK, Centre, Offset
  <2> QED BY <2>1, VecClosed, VecSums DEF Recorded
<1>5. theta'[t] = theta[t]
  BY DEF ResetEnd
<1> QED BY <1>1, <1>2, <1>3, <1>4, <1>5, VecSums

\* The first init selects tensors whose records are empty.
LEMMA BalancedFirstInit ==
    ASSUME TypeOK, SnapChain, LoopOK, Balanced, NEW scope \in Scopes, FirstInit(scope)
    PROVE  Balanced'
<1> SUFFICES ASSUME NEW t \in Tensors
             PROVE  theta'[t] = Plus(Plus(residue'[t], Recorded(t)'), Written(t)')
  BY DEF Balanced
<1>1. Recorded(t) = Zero /\ Written(t) = Zero /\ Written(t)' = Zero
  BY DEF FirstInit, Recorded, Written
<1>2. Centre' = Zero /\ Offset' = Zero
  <2>1. history = <<>> /\ active = None
    BY DEF FirstInit, LoopOK
  <2>2. Len(snap) = 1 /\ snap[1] = Zero
    BY <2>1 DEF SnapChain
  <2> QED BY <2>1, <2>2 DEF FirstInit, Centre, Offset
<1>3. Recorded(t)' = Zero
  BY <1>2, VecClosed, VecSums DEF Recorded
<1> QED BY <1>1, <1>3 DEF Balanced, FirstInit

\* One add_: the tensor leaves todo and what is written to it grows by pass.
LEMMA BalancedWriteTensor ==
    ASSUME TypeOK, SnapChain, LoopOK, Balanced, NEW u \in Tensors, WriteTensor(u)
    PROVE  Balanced'
<1> SUFFICES ASSUME NEW t \in Tensors
             PROVE  theta'[t] = Plus(Plus(residue'[t], Recorded(t)'), Written(t)')
  BY DEF Balanced
<1> DEFINE R == Plus(residue[t], Recorded(t))
<1>1. R \in Vec /\ Centre \in Vec /\ pass \in Vec /\ residue[t] \in Vec /\ Recorded(t) \in Vec
  BY RecordsTyped, VecClosed DEF TypeOK
<1>2. /\ theta[t] = Plus(R, Written(t))
      /\ residue'[t] = residue[t] /\ Recorded(t)' = Recorded(t)
  BY DEF Balanced, WriteTensor, Recorded, Centre, Offset
<1>3. CASE t # u
  <2>1. Written(t)' = Written(t)
    BY <1>3 DEF WriteTensor, Written, Centre
  <2>2. theta'[t] = theta[t]
    BY <1>3 DEF WriteTensor, TypeOK
  <2> QED BY <1>2, <2>1, <2>2
<1>4. CASE t = u
  <2>1. t \in infos /\ t \in todo /\ t \notin todo' /\ phase # "idle" /\ UNCHANGED infos
    BY <1>4 DEF WriteTensor, LoopOK, TypeOK
  <2>2. theta'[t] = Plus(Plus(R, Written(t)), pass)
    BY <1>2, <1>4 DEF WriteTensor, TypeOK
  <2>3. CASE phase # "undo"
    <3>1. Written(t) = Zero /\ Written(t)' = pass
      BY <2>1, <2>3 DEF WriteTensor, Written
    <3> QED BY <1>1, <1>2, <2>2, <3>1, VecSums
  <2>4. CASE phase = "undo"
    <3>1. /\ left \in Nat /\ left < Len(history)
          /\ history[left + 1] \in Vec /\ snap[left + 1] \in Vec
      BY <2>1, <2>4 DEF LoopOK, TypeOK, SnapChain
    <3>2. snap[left + 2] = Plus(snap[left + 1], history[left + 1])
      BY <3>1 DEF SnapChain, TypeOK
    <3>3. /\ Written(t) = Minus(snap[left + 2], Centre)
          /\ Written(t)' = Minus(snap[left + 1], Centre)
      BY <2>1, <2>4 DEF WriteTensor, Written, Centre
    <3>4. pass = Minus(Zero, history[left + 1])
      BY <2>1, <2>4 DEF LoopOK
    <3>5. Plus(Plus(R, Written(t)), pass) = Plus(R, Written(t)')
      BY <1>1, <3>1, <3>2, <3>3, <3>4, UndoOne
    <3> QED BY <1>2, <2>2, <3>5
  <2> QED BY <2>3, <2>4
<1> QED BY <1>3, <1>4

\* A pass cut short: what it wrote moves into the residue.
LEMMA BalancedFault ==
    ASSUME TypeOK, SnapChain, LoopOK, Balanced, Fault
    PROVE  Balanced'
<1> SUFFICES ASSUME NEW t \in Tensors
             PROVE  theta'[t] = Plus(Plus(residue'[t], Recorded(t)'), Written(t)')
  BY DEF Balanced
<1> DEFINE r == residue[t]
           c == Recorded(t)
           w == Written(t)
<1>1. r \in Vec /\ c \in Vec /\ w \in Vec
  BY RecordsTyped DEF TypeOK
<1>2. /\ theta'[t] = Plus(Plus(r, c), w)
      /\ residue'[t] = Plus(r, w) /\ Recorded(t)' = c /\ Written(t)' = Zero
  BY DEF Balanced, Fault, Recorded, Centre, Offset, Written
<1>3. Plus(Plus(r, c), w) = Plus(Plus(r, w), c)
  <2> HIDE DEF r, c, w
  <2>1. Plus(Plus(r, c), w) = Plus(r, Plus(c, w)) /\ Plus(Plus(r, w), c) = Plus(r, Plus(w, c))
    BY <1>1, VecSums
  <2>2. Plus(c, w) = Plus(w, c)
    BY <1>1, VecSums
  <2> QED BY <2>1, <2>2
<1>4. Plus(Plus(r, w), c) \in Vec
  BY <1>1, VecClosed
<1> QED BY <1>2, <1>3, <1>4, VecSums

\* A request that starts has written nothing; one that is answered at once
\* never will; and before UndoNext and after it the same updates are undone.
LEMMA BalancedBegin ==
    ASSUME TypeOK, SnapChain, LoopOK, Balanced,
           \/ \E p \in Perturbations : ApplyBegin(p) \/ RevertBegin(p)
           \/ \E d \in Deltas : UpdateBegin(d)
           \/ \E scope \in Scopes \cup {None} : ResetBegin(scope)
           \/ UndoNext
    PROVE  Balanced'
<1>1. UNCHANGED <<theta, infos, history, active, snap, residue>>
  BY DEF ApplyBegin, RevertBegin, UpdateBegin, ResetBegin, UndoNext
<1>2. Centre \in Vec /\ Centre' = Centre
  BY <1>1, RecordsTyped DEF Centre
<1> SUFFICES ASSUME NEW t \in Tensors PROVE Written(t)' = Written(t)
  BY <1>1, BalancedIdle
<1>3. ASSUME NEW p \in Perturbations, ApplyBegin(p) \/ RevertBegin(p)
      PROVE  Written(t)' = Written(t)
  BY <1>3 DEF ApplyBegin, RevertBegin, Start, Written
<1>4. ASSUME NEW d \in Deltas, UpdateBegin(d) PROVE Written(t)' = Written(t)
  BY <1>4 DEF UpdateBegin, Start, Written
<1>5. ASSUME NEW scope \in Scopes \cup {None}, ResetBegin(scope)
      PROVE  Written(t)' = Written(t)
  <2>1. Written(t) = Zero
    BY <1>5 DEF ResetBegin, Written
  <2>2. CASE active # None
    BY <1>5, <2>1, <2>2 DEF ResetBegin, Start, Written
  <2>3. CASE active = None /\ t \in infos
    <3>1. Written(t)' = Minus(snap[Len(history) + 1], Centre)
      BY <1>1, <1>2, <1>5, <2>3 DEF ResetBegin, Written, LoopOK
    <3>2. snap[Len(history) + 1] = Centre
      BY DEF SnapChain, Centre
    <3> QED BY <1>2, <2>1, <3>1, <3>2, VecSums
  <2>4. CASE active = None /\ t \notin infos
    BY <1>1, <1>5, <2>1, <2>4 DEF ResetBegin, Written
  <2> QED BY <2>2, <2>3, <2>4
<1>6. CASE UndoNext
  <2>1. CASE t \in infos
    <3>1. Written(t) = Minus(snap[left + 1], Centre)
      BY <1>6, <2>1 DEF UndoNext, Written
    <3>2. Written(t)' = Minus(snap[left' + 2], Centre)
      BY <1>1, <1>2, <1>6, <2>1 DEF UndoNext, Start, Written
    <3>3. left' + 2 = left + 1
      BY <1>6 DEF UndoNext, TypeOK
    <3> QED BY <3>1, <3>2, <3>3
  <2>2. CASE t \notin infos
    BY <1>1, <1>6, <2>2 DEF UndoNext, Written
  <2> QED BY <2>1, <2>2
<1> QED BY <1>3, <1>4, <1>5, <1>6

\* Answers that start nothing, and stuttering.
LEMMA BalancedUntouched ==
    ASSUME Balanced, Untouched \/ UNCHANGED vars
    PROVE  Balanced'
<1>1. UNCHANGED <<theta, infos, history, active, phase, todo, pass, left, snap, residue>>
  BY DEF Untouched, vars
<1> QED BY <1>1, BalancedIdle DEF Written, Centre

\* Every step of the server keeps the weights accounted for, mid-request too.
LEMMA BalancedStep ==
    ASSUME TypeOK, SnapChain, LoopOK, Balanced, [Next]_vars
    PROVE  Balanced'
<1>1. CASE Request
  <2>1. \/ \E p \in Perturbations : ApplyBegin(p) \/ RevertBegin(p)
        \/ \E d \in Deltas : UpdateBegin(d)
        \/ \E scope \in Scopes \cup {None} : ResetBegin(scope)
        \/ \E scope \in Scopes : FirstInit(scope)
        \/ Untouched
    BY <1>1 DEF Request, ApplyAgain, ApplyRejected, RevertRejected, RevertAgain,
       UpdateRejected, ResetRejected
  <2> QED BY <2>1, BalancedBegin, BalancedFirstInit, BalancedUntouched
<1>2. CASE Serve
  BY <1>2, BalancedWriteTensor, BalancedApplyEnd, BalancedRevertEnd,
     BalancedUpdateEnd, BalancedBegin, BalancedResetEnd DEF Serve
<1>3. CASE Fault
  BY <1>3, BalancedFault
<1>4. CASE UNCHANGED vars
  BY <1>4, BalancedUntouched
<1> QED BY <1>1, <1>2, <1>3, <1>4 DEF Next

-------------------------------------------------------------------------------
(* Theorems *)

\* A fresh server object is at its base weights.
LEMMA InitInvariant == Init => IInv
<1> SUFFICES ASSUME Init PROVE IInv
  OBVIOUS
<1>1. TypeOK
  BY TypeInit
<1>2. SnapChain /\ LoopOK /\ ResidueOK
  BY DEF Init, SnapChain, LoopOK, ResidueOK
<1>3. Balanced
  <2>1. \A t \in Tensors : /\ theta[t] = Zero /\ residue[t] = Zero
                           /\ Recorded(t) = Zero /\ Written(t) = Zero
    BY DEF Init, Recorded, Written
  <2> QED BY <2>1, VecClosed, VecSums DEF Balanced
<1> QED BY <1>1, <1>2, <1>3 DEF IInv

\* The invariant of SeedReplayModelES at the grain of one tensor write.
THEOREM Invariance == Spec => []IInv
<1>1. IInv /\ [Next]_vars => IInv'
  BY TypeStep, ChainStep, LoopStep, ResidueStep, BalancedStep DEF IInv
<1> QED BY InitInvariant, <1>1, PTL DEF Spec

\* Every variable of the server object keeps its type.
THEOREM TypeCorrect == Spec => []TypeOK
<1>1. IInv => TypeOK
  BY DEF IInv
<1> QED BY Invariance, <1>1, PTL

\* Between requests the weights are exactly what the records and the residue of
\* failed passes say, for every model, history length and sequence of requests.
THEOREM Accounted == Spec => []WeightsAccounted
<1>1. IInv => WeightsAccounted
  <2> SUFFICES ASSUME IInv, phase = "idle", NEW t \in Tensors
               PROVE  theta[t] = Plus(residue[t], Recorded(t))
    BY DEF IInv, ResidueOK, WeightsAccounted
  <2>1. Plus(residue[t], Recorded(t)) \in Vec
    BY RecordsTyped, VecClosed DEF IInv, TypeOK
  <2>2. theta[t] = Plus(Plus(residue[t], Recorded(t)), Zero)
    BY DEF IInv, Balanced, Written
  <2> QED BY <2>1, <2>2, VecSums
<1> QED BY Invariance, <1>1, PTL

-------------------------------------------------------------------------------
(* Until a pass over the tensors raises, the server object is the atomic model *)
(* of ModelES, and a successful init leaves base weights.                      *)

\* What the steps of a request remember of its payload, and what follows a
\* successful init: it is true until the next request has been answered.
PayloadOK ==
    /\ phase = "update" => pass \in Deltas
    /\ phase = "idle" /\ last = [route |-> "init", ok |-> TRUE]
          => history = <<>> /\ active = None

-------------------------------------------------------------------------------
\* The answers of the other routes are not those of init.
LEMMA NotInit ==
    ASSUME NEW route, NEW ok, route # "init", Answer(route, ok)
    PROVE  last' # [route |-> "init", ok |-> TRUE]
BY DEF Answer

\* Only update starts an update pass, and every other route answers for itself.
LEMMA PayloadStep ==
    ASSUME TypeOK, LoopOK, PayloadOK, [Next]_vars
    PROVE  PayloadOK'
<1>1. CASE Request
  <2>1. ASSUME NEW p \in Perturbations,
               ApplyBegin(p) \/ RevertBegin(p) PROVE PayloadOK'
    BY <2>1 DEF PayloadOK, ApplyBegin, RevertBegin, Start
  <2>2. ASSUME NEW d \in Deltas, UpdateBegin(d) PROVE PayloadOK'
    BY <2>2 DEF PayloadOK, UpdateBegin, Start
  <2>3. ASSUME NEW scope \in Scopes \cup {None}, ResetBegin(scope) PROVE PayloadOK'
    BY <2>3 DEF PayloadOK, ResetBegin, Start
  <2>4. ASSUME NEW scope \in Scopes, FirstInit(scope) PROVE PayloadOK'
    BY <2>4 DEF PayloadOK, FirstInit, LoopOK
  <2>5. CASE \/ \E p \in Perturbations :
                   ApplyAgain(p) \/ ApplyRejected(p) \/ RevertRejected(p)
             \/ RevertAgain \/ UpdateRejected \/ ResetRejected
    <3>1. /\ Untouched
          /\ \E route \in {"apply", "revert", "update", "reset"}, ok \in BOOLEAN :
                Answer(route, ok)
      BY <2>5 DEF ApplyAgain, ApplyRejected, RevertRejected, RevertAgain,
         UpdateRejected, ResetRejected
    <3>2. last' # [route |-> "init", ok |-> TRUE]
      BY <3>1, NotInit
    <3> QED BY <3>1, <3>2 DEF Untouched, PayloadOK
  <2> QED BY <1>1, <2>1, <2>2, <2>3, <2>4, <2>5 DEF Request
<1>2. CASE Serve
  <2>1. ASSUME NEW t \in Tensors, WriteTensor(t) PROVE PayloadOK'
    BY <2>1 DEF PayloadOK, WriteTensor, LoopOK
  <2>2. CASE ApplyEnd \/ RevertEnd \/ UpdateEnd
    BY <2>2, NotInit DEF PayloadOK, ApplyEnd, RevertEnd, UpdateEnd
  <2>3. CASE DenoiseEnd \/ UndoNext
    BY <2>3 DEF PayloadOK, DenoiseEnd, UndoNext, Start
  <2>4. CASE ResetEnd
    BY <2>4 DEF PayloadOK, ResetEnd, LoopOK
  <2> QED BY <1>2, <2>1, <2>2, <2>3, <2>4 DEF Serve
<1>3. CASE Fault
  BY <1>3 DEF PayloadOK, Fault, Answer
<1>4. CASE UNCHANGED vars
  BY <1>4 DEF PayloadOK, vars
<1> QED BY <1>1, <1>2, <1>3, <1>4 DEF Next

\* The payload facts hold along every behaviour, next to IInv.
LEMMA PayloadInvariant == Spec => [](IInv /\ PayloadOK)
<1>1. Init => PayloadOK
  BY DEF Init, PayloadOK
<1>2. IInv /\ PayloadOK /\ [Next]_vars => PayloadOK'
  BY PayloadStep DEF IInv
<1> QED BY Invariance, <1>1, <1>2, PTL DEF Spec

-------------------------------------------------------------------------------
\* Before the first exception a tensor, apart from what the running request has
\* written, is exactly where the records say.
LEMMA SettledIsRecorded ==
    ASSUME IInv, faults = 0, NEW t \in Tensors
    PROVE  Settled(t) = Recorded(t) /\ Settled(t) \in Vec
<1>1. residue[t] = Zero
  BY DEF IInv, TypeOK, ResidueOK
<1>2. Recorded(t) \in Vec /\ Written(t) \in Vec
  BY RecordsTyped DEF IInv
<1>3. theta[t] = Plus(Recorded(t), Written(t))
  BY <1>1, <1>2, VecSums DEF IInv, Balanced
<1>4. \A v, w \in Vec : Minus(Plus(v, w), w) = v
  BY VecClosed, VecExtensional DEF Vec, Plus, Minus
<1> QED BY <1>2, <1>3, <1>4 DEF Settled

\* A successful init leaves base weights on every tensor, whatever requests,
\* repeated, refused or half-way through a run, came before it.
THEOREM InitRestores == Spec => []InitRestoresBase
<1>1. IInv /\ PayloadOK => InitRestoresBase
  <2> SUFFICES ASSUME IInv, PayloadOK, faults = 0, phase = "idle",
                      last = [route |-> "init", ok |-> TRUE], NEW t \in Tensors
               PROVE  history = <<>> /\ active = None /\ theta[t] = Zero
    BY DEF InitRestoresBase, InitLeavesBase, PayloadOK
  <2>1. history = <<>> /\ active = None
    BY DEF PayloadOK
  <2>2. Centre = Zero /\ Offset = Zero
    BY <2>1 DEF IInv, SnapChain, Centre, Offset
  <2>3. Recorded(t) = Zero /\ Written(t) = Zero
    BY <2>2, VecClosed, VecSums DEF Recorded, Written
  <2>4. residue[t] = Zero
    BY DEF IInv, TypeOK, ResidueOK
  <2>5. theta[t] = Zero
    BY <2>3, <2>4, VecClosed, VecSums DEF IInv, Balanced
  <2> QED BY <2>1, <2>5
<1> QED BY PayloadInvariant, <1>1, PTL

-------------------------------------------------------------------------------
(* The steps of the refinement *)

\* SettledIsRecorded of all tensors, before a step and after it.
AllSettled == \A t \in Tensors : Settled(t) = Recorded(t)

\* Before the first exception the visible weights are those of the records.
LEMMA SettledNow == IInv /\ faults = 0 => AllSettled
BY SettledIsRecorded DEF AllSettled

\* The same after a step.
LEMMA SettledNext == IInv' /\ (faults = 0)' => AllSettled'
<1>1. IInv /\ faults = 0 => AllSettled
  BY SettledNow
<1> QED BY <1>1, PTL

\* How the visible weights of a tensor move when its record moves by v.
LEMMA RecordedMoves ==
    ASSUME NEW c \in Vec, NEW v \in Vec
    PROVE  /\ Plus(Plus(c, Zero), v) = Plus(c, v)
           /\ Plus(Plus(c, Zero), v) = Plus(Plus(c, v), Zero)
<1>1. Plus(c, Zero) = c
  BY VecSums
<1>2. Plus(c, v) \in Vec
  BY VecClosed
<1> QED BY <1>1, <1>2, VecSums

\* A step that leaves the records alone is invisible.
LEMMA Invisible ==
    ASSUME IInv, IInv', faults = 0, faults' = 0, UNCHANGED <<infos, history, active, snap>>
    PROVE  UNCHANGED Abs!vars
<1>1. \A t \in Tensors : Recorded(t)' = Recorded(t)
  BY DEF Recorded, Centre, Offset
<1>2. \A t \in Tensors : Settled(t)' = Settled(t)
  BY <1>1, SettledNow, SettledNext DEF AllSettled
<1> QED BY <1>2 DEF Abs!vars

\* A pass that ended: the visible weights of the selected tensors have moved by
\* v, when the records have.
LEMMA VisibleMove ==
    ASSUME IInv, IInv', faults = 0, faults' = 0, NEW v \in Vec,
           UNCHANGED infos,
           \A t \in Tensors : t \in infos => Recorded(t)' = Plus(Recorded(t), v)
    PROVE  [t \in Tensors |-> Settled(t)]' = Abs!Moved(v)
<1>1. /\ \A t \in Tensors : Settled(t) = Recorded(t)
      /\ \A t \in Tensors : Settled(t)' = Recorded(t)'
  BY SettledNow, SettledNext DEF AllSettled
<1>2. \A t \in Tensors : t \notin infos => Recorded(t)' = Recorded(t)
  BY DEF Recorded
<1>3. \A t \in Tensors :
        Settled(t)' = IF t \in infos THEN Plus(Settled(t), v) ELSE Settled(t)
  BY <1>1, <1>2
<1> QED BY <1>3 DEF Abs!Moved, Abs!Plus, Plus

\* The last write of an apply is the atomic Apply.
LEMMA ApplyEndRefines ==
    ASSUME IInv, IInv', faults = 0, faults' = 0, ApplyEnd
    PROVE  Abs!Next
<1>1. want \in Perturbations /\ active = None /\ want # None /\ infos # {}
  BY DEF ApplyEnd, IInv, LoopOK, TypeOK
<1> DEFINE v == Noise(want.seed, want.sigma)
<1>2. v \in Vec /\ Centre \in Vec
  BY <1>1, PerturbationVec, RecordsTyped DEF IInv
<1>3. ASSUME NEW t \in Tensors, t \in infos
      PROVE  Recorded(t)' = Plus(Recorded(t), v)
  <2>1. Recorded(t) = Plus(Centre, Zero)
    BY <1>1, <1>3 DEF Recorded, Offset
  <2>2. Recorded(t)' = Plus(Centre, v)
    BY <1>1, <1>3 DEF ApplyEnd, Recorded, Centre, Offset
  <2> QED BY <1>2, <2>1, <2>2, RecordedMoves
<1>4. UNCHANGED <<infos, history>> /\ active' = want
  BY DEF ApplyEnd
<1>5. [t \in Tensors |-> Settled(t)]' = Abs!Moved(v)
  BY <1>2, <1>3, <1>4, VisibleMove
<1>6. want \in Abs!Perturbations
  BY <1>1 DEF Perturbations, Abs!Perturbations
<1>7. Abs!Apply(want)
  BY <1>1, <1>4, <1>5 DEF Abs!Apply, Abs!Noise, Noise
<1> QED BY <1>6, <1>7 DEF Abs!Next

\* The last write that takes noise back, in a revert or at the start of a reset,
\* is the atomic Revert.
LEMMA RevertEndRefines ==
    ASSUME IInv, IInv', faults = 0, faults' = 0, RevertEnd \/ DenoiseEnd
    PROVE  Abs!Next
<1>1. active \in Perturbations /\ active # None
  BY DEF RevertEnd, DenoiseEnd, IInv, LoopOK, TypeOK
<1> DEFINE v == Noise(active.seed, -active.sigma)
<1>2. v \in Vec /\ Centre \in Vec /\ Offset \in Vec /\ Plus(Offset, v) = Zero
  BY <1>1, PerturbationVec, RecordsTyped DEF IInv, Offset
<1>3. UNCHANGED <<infos, history, snap>> /\ active' = None
  BY DEF RevertEnd, DenoiseEnd
<1>4. ASSUME NEW t \in Tensors, t \in infos
      PROVE  Recorded(t)' = Plus(Recorded(t), v)
  <2>1. Recorded(t) = Plus(Centre, Offset)
    BY <1>4 DEF Recorded
  <2>2. Recorded(t)' = Plus(Centre, Zero)
    BY <1>3, <1>4 DEF Recorded, Centre, Offset
  <2> QED BY <1>2, <2>1, <2>2, VecSums
<1>5. [t \in Tensors |-> Settled(t)]' = Abs!Moved(v)
  BY <1>2, <1>3, <1>4, VisibleMove
<1>6. Abs!Revert
  BY <1>1, <1>3, <1>5 DEF Abs!Revert, Abs!Noise, Noise
<1> QED BY <1>6 DEF Abs!Next

\* The last write of an update is the atomic Update.
LEMMA UpdateEndRefines ==
    ASSUME IInv, IInv', PayloadOK, faults = 0, faults' = 0, UpdateEnd
    PROVE  Abs!Next
<1>1. pass \in Deltas /\ active = None /\ infos # {}
  BY DEF UpdateEnd, IInv, LoopOK, PayloadOK
<1>2. pass \in Vec /\ Centre \in Vec
  BY RecordsTyped DEF IInv, TypeOK
<1>3. UNCHANGED <<infos, active>> /\ history' = Append(history, pass)
  BY DEF UpdateEnd
<1>4. Centre' = Plus(Centre, pass)
  <2>1. Plus(Centre, pass) \in Vec
    BY <1>2, VecClosed
  <2>2. snap' = Append(snap, Plus(Centre, pass)) /\ snap \in Seq(Vec)
    BY DEF UpdateEnd, Centre, IInv, TypeOK
  <2> QED BY <2>1, <2>2 DEF Centre
<1>5. ASSUME NEW t \in Tensors, t \in infos
      PROVE  Recorded(t)' = Plus(Recorded(t), pass)
  <2>1. Recorded(t) = Plus(Centre, Zero)
    BY <1>1, <1>5 DEF Recorded, Offset
  <2>2. Recorded(t)' = Plus(Plus(Centre, pass), Zero)
    BY <1>1, <1>3, <1>4, <1>5 DEF Recorded, Offset
  <2> QED BY <1>2, <2>1, <2>2, RecordedMoves
<1>6. [t \in Tensors |-> Settled(t)]' = Abs!Moved(pass)
  BY <1>2, <1>3, <1>5, VisibleMove
<1>7. Abs!Update(pass)
  BY <1>1, <1>3, <1>6 DEF Abs!Update
<1> QED BY <1>1, <1>7 DEF Abs!Next

\* With no record left the visible weights are the base weights.
LEMMA VisibleBase ==
    ASSUME IInv', faults' = 0, Centre' = Zero, Offset' = Zero
    PROVE  [t \in Tensors |-> Settled(t)]' = Abs!AtBase
<1>1. \A t \in Tensors : Recorded(t)' = Zero
  BY VecClosed, VecSums DEF Recorded
<1>2. \A t \in Tensors : Settled(t)' = Zero
  BY <1>1, SettledNext DEF AllSettled
<1> QED BY <1>2 DEF Abs!AtBase, Abs!Zero, Zero

\* The end of a reset is the atomic Reset, or Open when init asked for it.
LEMMA ResetEndRefines ==
    ASSUME IInv, IInv', faults = 0, faults' = 0, ResetEnd
    PROVE  Abs!Next
<1>1. active = None /\ active' = None /\ infos # {} /\ goal \in Scopes \cup {None}
  BY DEF ResetEnd, IInv, LoopOK, TypeOK
<1>2. history' = <<>> /\ Centre' = Zero /\ Offset' = Zero
  BY <1>1 DEF ResetEnd, Centre, Offset
<1>3. [t \in Tensors |-> Settled(t)]' = Abs!AtBase
  BY <1>2, VisibleBase
<1>4. CASE goal # None /\ ScopeTensors[goal] # {}
  <2>1. goal \in Scopes /\ infos' = ScopeTensors[goal]
    BY <1>1, <1>4 DEF ResetEnd
  <2>2. Abs!Open(goal)
    BY <1>1, <1>2, <1>3, <1>4, <2>1 DEF Abs!Open
  <2> QED BY <2>1, <2>2 DEF Abs!Next
<1>5. CASE ~(goal # None /\ ScopeTensors[goal] # {})
  <2>1. UNCHANGED infos
    BY <1>5 DEF ResetEnd
  <2>2. Abs!Reset
    BY <1>1, <1>2, <1>3, <2>1 DEF Abs!Reset
  <2> QED BY <2>2 DEF Abs!Next
<1> QED BY <1>4, <1>5

\* The first init opens the run, or is refused and changes nothing.
LEMMA FirstInitRefines ==
    ASSUME IInv, IInv', faults = 0, faults' = 0, NEW scope \in Scopes, FirstInit(scope)
    PROVE  Abs!Next \/ UNCHANGED Abs!vars
<1>1. /\ infos = {} /\ history = <<>> /\ active = None
      /\ UNCHANGED <<history, active, snap>> /\ infos' = ScopeTensors[scope]
  BY DEF FirstInit, IInv, LoopOK
<1>2. CASE ScopeTensors[scope] # {}
  <2>1. Centre' = Zero /\ Offset' = Zero
    BY <1>1 DEF IInv, SnapChain, Centre, Offset
  <2>2. [t \in Tensors |-> Settled(t)]' = Abs!AtBase
    BY <2>1, VisibleBase
  <2>3. Abs!Open(scope)
    BY <1>1, <1>2, <2>2 DEF Abs!Open
  <2> QED BY <2>3 DEF Abs!Next
<1>3. CASE ScopeTensors[scope] = {}
  BY <1>1, <1>3, Invisible
<1> QED BY <1>2, <1>3

-------------------------------------------------------------------------------
\* Every step of the server is a step of ModelES or invisible.
LEMMA StepRefines ==
    ASSUME IInv, IInv', PayloadOK, faults = 0, faults' = 0, [Next]_vars
    PROVE  AbsStep
<1> USE DEF AbsStep
<1>1. CASE Request
  <2>1. CASE \E scope \in Scopes : FirstInit(scope)
    BY <2>1, FirstInitRefines
  <2>2. CASE ~ \E scope \in Scopes : FirstInit(scope)
    <3>1. UNCHANGED <<infos, history, active, snap>>
      BY <1>1, <2>2 DEF Request, ApplyBegin, ApplyAgain, ApplyRejected, RevertBegin,
         RevertRejected, RevertAgain, UpdateBegin, UpdateRejected, ResetBegin,
         ResetRejected, Untouched
    <3> QED BY <3>1, Invisible
  <2> QED BY <2>1, <2>2
<1>2. CASE Serve
  <2>1. CASE (\E t \in Tensors : WriteTensor(t)) \/ UndoNext
    <3>1. UNCHANGED <<infos, history, active, snap>>
      BY <2>1 DEF WriteTensor, UndoNext
    <3> QED BY <3>1, Invisible
  <2> QED BY <1>2, <2>1, ApplyEndRefines, RevertEndRefines, UpdateEndRefines,
             ResetEndRefines DEF Serve
<1>3. CASE Fault
  BY <1>3 DEF Fault, IInv, TypeOK
<1>4. CASE UNCHANGED vars
  <2>1. UNCHANGED <<infos, history, active, snap>>
    BY <1>4 DEF vars
  <2> QED BY <2>1, Invisible
<1> QED BY <1>1, <1>2, <1>3, <1>4 DEF Next

\* The count of exceptions only grows.
LEMMA FaultsGrow ==
    ASSUME TypeOK, [Next]_vars, faults' = 0
    PROVE  faults = 0
<1>1. CASE Fault
  BY <1>1 DEF Fault, TypeOK
<1>2. CASE Request
  BY <1>2 DEF Request, ApplyBegin, ApplyAgain, ApplyRejected, RevertBegin,
     RevertRejected, RevertAgain, UpdateBegin, UpdateRejected, ResetBegin,
     ResetRejected, FirstInit, Untouched
<1>3. CASE Serve
  BY <1>3 DEF Serve, WriteTensor, ApplyEnd, RevertEnd, UpdateEnd, DenoiseEnd,
     UndoNext, ResetEnd
<1>4. CASE UNCHANGED vars
  BY <1>4 DEF vars
<1> QED BY <1>1, <1>2, <1>3, <1>4 DEF Next

\* Until the first exception a client cannot tell the per-tensor server from
\* ModelES: the atomic, idempotent protocol its callers rely on.
THEOREM Refinement == Spec => RefinesModelES
<1>1. Init => Abs!Init
  <2> SUFFICES ASSUME Init PROVE Abs!Init
    OBVIOUS
  <2>1. \A t \in Tensors : Settled(t) = Zero
    BY VecClosed, VecSums DEF Init, Settled, Written
  <2> QED BY <2>1 DEF Init, Abs!Init, Abs!AtBase, Abs!Zero, Zero
<1>2. IInv /\ IInv' /\ PayloadOK /\ [Next]_vars => [faults' = 0 => AbsStep]_vars
  BY StepRefines, FaultsGrow DEF IInv
<1>3. Spec => [](IInv /\ PayloadOK)
  BY PayloadInvariant
<1> QED BY <1>1, <1>2, <1>3, PTL DEF Spec, RefinesModelES
=============================================================================
