--------------------------- MODULE MCCalibration ---------------------------
(***************************************************************************)
(* An instance of Calibration with factories of the code.  "paddles" is    *)
(* the persistent Paddlesfa250Converter_factory with /DAQ/pedestals,       *)
(* "calo" CalorimeterHit_factory with /Calorimeter/Ene and "epics"         *)
(* epicsData_factory with /DAQ/epics_dT, which its erun does not clear.    *)
(***************************************************************************)
EXTENDS Calibration, TLC

CONSTANTS t1, t2

MCTable      == [paddles |-> "pedestals", calo |-> "ene", epics |-> "epics_dT"]
MCClears     == {"paddles", "calo"}
MCPersistent == {"paddles"}
MCRunKind    == {"epics"}
MCMalformed  == {<<"epics_dT", 2>>}
MCMissing    == {<<"pedestals", 2>>}

Symmetry == Permutations(Threads)
=============================================================================
