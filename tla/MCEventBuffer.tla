--------------------------- MODULE MCEventBuffer ---------------------------
(***************************************************************************)
(* Small instances of EventBuffer for TLC.  Threads are interchangeable.   *)
(***************************************************************************)
EXTENDS EventBuffer, TLC

CONSTANTS l1, l2, l3

TwoLoops   == {l1, l2}
ThreeLoops == {l1, l2, l3}

LoopSymmetry == Permutations(Loops)
=============================================================================
