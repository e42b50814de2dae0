---------------------------- MODULE MCEpicsData ----------------------------
(***************************************************************************)
(* A small instance of EpicsData for TLC: two EPICS variables, the second  *)
(* of which only every other EPICS event carries.                          *)
(***************************************************************************)
EXTENDS EpicsData, TLC

CONSTANTS l1, l2, l3, beam, temp

TwoLoops == {l1, l2}
TwoKeys  == {beam, temp}
MCKeysOf == [e \in Event |-> IF e % 2 = 0 THEN TwoKeys ELSE {beam}]

Symmetry == Permutations(Loops)
=============================================================================
