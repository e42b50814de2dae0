-------------------------------- MODULE Job --------------------------------
(***************************************************************************)
(* What the models of the tables that threads share (Calibration and       *)
(* TranslationTable) have in common: the job that uses them.               *)
(***************************************************************************)
EXTENDS Integers, FiniteSets

CONSTANTS
    Threads,    \* the processing threads
    Runs,       \* run numbers in the data
    MaxEvents   \* bound: events taken by all threads together

ASSUME JobAssumption ==
    /\ Runs \subseteq Nat \ {0} /\ IsFiniteSet(Runs)
    /\ MaxEvents \in Nat
=============================================================================
