--------------------------- MODULE MCStepOverlap ----------------------------
(***************************************************************************)
(* A small instance of StepQueue for TLC in which the processor and two    *)
(* requests overlap.                                                       *)
(***************************************************************************)
EXTENDS StepQueue, TLC

Symmetry == Permutations(Request)

\* Bound: after a failing call or a restart one process is idle, and the
\* others process the whole sequence (or are still creating its steps).
QuietInTrouble ==
  trouble > 0 =>
    /\ \E x \in Process : AtPc(x, "idle")
    /\ \A x \in Process : AtPc(x, "createSteps") \/ proc[x].ids \in {{}, Ids}
=============================================================================
