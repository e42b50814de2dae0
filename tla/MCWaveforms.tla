---------------------------- MODULE MCWaveforms ----------------------------
(***************************************************************************)
(* Waveforms for TLC: all waveforms of six samples with amplitudes below,  *)
(* at and above the thresholds; three channels of the external veto, two   *)
(* of them the readouts of one counter.                                    *)
(***************************************************************************)
EXTENDS Waveforms

MCLevels == [d \in Detectors |-> IF d \in {"calorimeter", "intveto"} THEN 0..3 ELSE 0..2]

MCExtChannels == {<<5, 1>>, <<6, 1>>, <<6, 2>>}
=============================================================================
