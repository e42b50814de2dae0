---------------------------- MODULE MCRunOutput ----------------------------
(***************************************************************************)
(* A small instance of RunOutput for TLC: a job of two runs.               *)
(***************************************************************************)
EXTENDS RunOutput, TLC

CONSTANTS t1, t2

TwoRuns == [e \in Event |-> IF e <= 3 THEN 1 ELSE 2]

Symmetry == Permutations(Threads)
=============================================================================
