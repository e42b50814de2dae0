-------------------------- MODULE PluginPrograms --------------------------
(***************************************************************************)
(* The event processors of src/plugins and src/users, each reduced to what *)
(* its callbacks do with the things the threads share.  A callback is a    *)
(* set of paths, one for every way through its conditions and early        *)
(* returns, and a path is a sequence of operations:                        *)
(*   "lock", "unlock"   japp->RootWriteLock() and RootUnLock()             *)
(*   "book"             make histograms or a tree                          *)
(*   "set"              assign to the data members, all those of a row     *)
(*   "row"              t->Fill()                                          *)
(*   "hist"             fill histograms, or insert into a member map       *)
(*   "find"             look for the JROOTOutput of BDXEventProcessor      *)
(*   "add", "addBlind"  AddObject, with and without looking at the pointer *)
(*   "makeOnce"         make histograms; when they exist, unlock and return *)
(*   "throw"            .at() of a vector that is too short                *)
(* and, for BDXEventProcessor itself, "open", "closeET" and "close" of the *)
(* output file.  What a histogram shows, and under which cut, is left out, *)
(* and waveforms are of one length: an array of a row is set as a whole.   *)
(* loop->Get gives a thread objects of its own and is left out, but for    *)
(* what the factories it runs do to the ROOT lock where the plugin has it. *)
(***************************************************************************)
EXTENDS Naturals, SequencesExt

CONSTANT MaxHits      \* hits of an event a loop may find

Locked(s) == <<"lock">> \o s \o <<"unlock">>
PerHit(s) == {FlattenSeq([i \in 1..n |-> s]) : n \in 0..MaxHits}
Row  == <<"set", "row">>
Hist == <<"hist">>

\* The paths of a callback that does nothing, and of an init that books.
Nothing == {<<>>}
Books   == {Locked(<<"book">>)}

\* The paths of an evnt that gets its data and then does one of S; it returns
\* at once when GetSingle finds no event header.
AfterGet(S) == {<<>>} \cup S
\* The same, with triggerWords.at(0) in between, which throws when there are none.
AfterTrigger(S) == AfterGet(S \cup {<<"throw">>})

\* loop->Get with the lock held.  When a factory is new to the thread or to the
\* run, its RootWriteLock fails, as the thread has the lock, and its RootUnLock
\* gives it back.
GetInLock == {<<>>, <<"lock", "unlock">>}

\* operator[] of the map geometry, which inserts an unknown crystal.
Geometry == {<<>>, Hist}

\* What the constructor leaves in m_ROOTOutput and m_isFirstCallToBrun.
Constructed == [out |-> {"null"}, first |-> {TRUE}]
OutputUnset == [out |-> {"null", "garbage"}, first |-> {TRUE}]
FirstUnset  == [out |-> {"null"}, first |-> BOOLEAN]

\* first is what brun does on its first call, each what it does on every call.
Processor(new, init, first, each, evnt, erun) ==
    [new |-> new, init |-> init, first |-> first, brun |-> each,
     evnt |-> evnt, erun |-> erun, fini |-> Nothing]

-----------------------------------------------------------------------------
(***************************************************************************)
(* BDXEventProcessor, the first in the list of processors.                 *)
(***************************************************************************)
BDXEventProcessor_init == Books
BDXEventProcessor_brun == {Locked(<<"open">>)}
BDXEventProcessor_evnt == AfterGet({Locked(<<>>)})
BDXEventProcessor_erun == {Locked(<<"closeET">>)}
BDXEventProcessor_fini == {Locked(<<"close">>)}
BDXEventProcessor ==
    [new |-> Constructed, init |-> BDXEventProcessor_init, first |-> Nothing,
     brun |-> BDXEventProcessor_brun, evnt |-> BDXEventProcessor_evnt,
     erun |-> BDXEventProcessor_erun, fini |-> BDXEventProcessor_fini]

-----------------------------------------------------------------------------
(***************************************************************************)
(* src/plugins/monitoring: histograms for the online display, kept in      *)
(* memory.                                                                 *)
(***************************************************************************)
CalorimeterHits_init == Books
CalorimeterHits_evnt == AfterGet({Locked(s) : s \in PerHit(Hist)})
CalorimeterHits == Processor(Constructed, CalorimeterHits_init, Nothing, Nothing,
                             CalorimeterHits_evnt, Nothing)

Trigger_init == Books
Trigger_evnt == AfterGet({s \o Locked(Hist) : s \in {<<>>, Hist}})
Trigger == Processor(Constructed, Trigger_init, Nothing, Nothing,
                     Trigger_evnt, Nothing)

\* init keeps the lock when it has booked the histograms.
IntVetoSipm_init == {<<"lock", "book">>}
IntVetoSipm_evnt == AfterGet({Locked(s) : s \in PerHit(Hist)})
IntVetoSipm == Processor(Constructed, IntVetoSipm_init, Nothing, Nothing,
                         IntVetoSipm_evnt, Nothing)

\* A hit out of range ends evnt, after the hits before it; the lock is released.
DAQWaveformsMode1_init == Books
DAQWaveformsMode1_evnt == AfterGet({Locked(s) : s \in PerHit(Hist)})
DAQWaveformsMode1 == Processor(Constructed, DAQWaveformsMode1_init, Nothing,
                               Nothing, DAQWaveformsMode1_evnt, Nothing)

JLabFlux_init == Books
JLabFlux_evnt == {Locked(s) : s \in PerHit(Hist)}
JLabFlux == Processor(Constructed, JLabFlux_init, Nothing, Nothing,
                      JLabFlux_evnt, Nothing)

-----------------------------------------------------------------------------
(***************************************************************************)
(* src/plugins/monitoring and calibration: histograms that erun adds to    *)
(* the output.                                                             *)
(***************************************************************************)
BDXMiniClusters_init == Books
BDXMiniClusters_brun == {<<"find">>}
BDXMiniClusters_evnt == AfterGet(PerHit(Hist))
BDXMiniClusters_erun == {<<"add">>}
BDXMiniClusters == Processor(Constructed, BDXMiniClusters_init,
    BDXMiniClusters_brun, Nothing, BDXMiniClusters_evnt, BDXMiniClusters_erun)

\* The lock is taken for each hit, after geometry was looked up.
BDXMiniCrystals_init == Books
BDXMiniCrystals_brun == {<<"find">>}
BDXMiniCrystals_evnt == AfterGet(UNION {PerHit(g \o Locked(Hist)) : g \in Geometry})
BDXMiniCrystals_erun == {<<"add">>}
BDXMiniCrystals == Processor(Constructed, BDXMiniCrystals_init,
    BDXMiniCrystals_brun, Nothing, BDXMiniCrystals_evnt, BDXMiniCrystals_erun)

BDXMiniVetoCalibration_init == Books
BDXMiniVetoCalibration_brun == {<<"find">>}
BDXMiniVetoCalibration_evnt == AfterGet(PerHit(Locked(Hist)))
BDXMiniVetoCalibration_erun == {<<"add">>}
BDXMiniVetoCalibration == Processor(Constructed, BDXMiniVetoCalibration_init,
    BDXMiniVetoCalibration_brun, Nothing, BDXMiniVetoCalibration_evnt,
    BDXMiniVetoCalibration_erun)

BDXMiniCalorimeterEnergyCalibration_init == Books
BDXMiniCalorimeterEnergyCalibration_brun == {<<"find">>}
BDXMiniCalorimeterEnergyCalibration_evnt ==
    AfterGet(UNION {PerHit(g \o Locked(Hist)) : g \in Geometry})
BDXMiniCalorimeterEnergyCalibration_erun == {<<"add">>}
BDXMiniCalorimeterEnergyCalibration ==
    Processor(Constructed, BDXMiniCalorimeterEnergyCalibration_init,
              BDXMiniCalorimeterEnergyCalibration_brun, Nothing,
              BDXMiniCalorimeterEnergyCalibration_evnt,
              BDXMiniCalorimeterEnergyCalibration_erun)

\* No GetSingle and no lock.
BDXMiniVetoSIPMCalibration_init == Books
BDXMiniVetoSIPMCalibration_brun == {<<"find">>}
BDXMiniVetoSIPMCalibration_evnt == PerHit(Hist)
BDXMiniVetoSIPMCalibration_erun == {<<"add">>}
BDXMiniVetoSIPMCalibration == Processor(Constructed,
    BDXMiniVetoSIPMCalibration_init, BDXMiniVetoSIPMCalibration_brun, Nothing,
    BDXMiniVetoSIPMCalibration_evnt, BDXMiniVetoSIPMCalibration_erun)

\* No lock anywhere, and erun takes the pointer for set.
BDXMiniBeamMuonCalibration_init == {<<"book">>}
BDXMiniBeamMuonCalibration_brun == {<<"find">>}
BDXMiniBeamMuonCalibration_evnt == AfterGet({Hist})
BDXMiniBeamMuonCalibration_erun == {<<"addBlind">>}
BDXMiniBeamMuonCalibration == Processor(OutputUnset,
    BDXMiniBeamMuonCalibration_init, BDXMiniBeamMuonCalibration_brun, Nothing,
    BDXMiniBeamMuonCalibration_evnt, BDXMiniBeamMuonCalibration_erun)

\* The first time of a run and its maps are reset by brun, without the lock, and
\* the histograms are made from the maps by the first erun.  An event from
\* before that time returns with the lock.
BDXMiniStability_init  == Nothing
BDXMiniStability_first == {<<"find">>}
BDXMiniStability_brun  == {<<"set">>}
BDXMiniStability_evnt  ==
    AfterGet({Locked(<<"set", "hist">>), <<"lock", "set">>})
BDXMiniStability_erun  == {Locked(<<"makeOnce">>) \o <<"add">>}
BDXMiniStability == Processor(Constructed, BDXMiniStability_init,
    BDXMiniStability_first, BDXMiniStability_brun, BDXMiniStability_evnt,
    BDXMiniStability_erun)

BDXMiniSlowControls_init  == Nothing
BDXMiniSlowControls_first == {<<"find">>}
BDXMiniSlowControls_brun  == {<<"set">>}
BDXMiniSlowControls_evnt  ==
    AfterGet({Locked(<<"set", "hist">>), <<"lock", "set">>})
BDXMiniSlowControls_erun  == {Locked(<<"makeOnce">>) \o <<"add">>}
BDXMiniSlowControls == Processor(Constructed, BDXMiniSlowControls_init,
    BDXMiniSlowControls_first, BDXMiniSlowControls_brun,
    BDXMiniSlowControls_evnt, BDXMiniSlowControls_erun)

-----------------------------------------------------------------------------
(***************************************************************************)
(* src/users: trees that the first brun adds to the output.                *)
(***************************************************************************)
Calorimeter_SipmCalib_init == Books
Calorimeter_SipmCalib_brun == {<<"find", "add">>}
Calorimeter_SipmCalib_evnt == {Locked(s) : s \in PerHit(Row)}
Calorimeter_SipmCalib == Processor(Constructed, Calorimeter_SipmCalib_init,
    Calorimeter_SipmCalib_brun, Nothing, Calorimeter_SipmCalib_evnt, Nothing)

Calorimeter_SipmStudies_init == Books
Calorimeter_SipmStudies_brun == {<<"find", "add">>}
Calorimeter_SipmStudies_evnt == {Locked(Row)}
Calorimeter_SipmStudies == Processor(Constructed, Calorimeter_SipmStudies_init,
    Calorimeter_SipmStudies_brun, Nothing, Calorimeter_SipmStudies_evnt, Nothing)

Catania_init == Books
Catania_brun == {<<"find", "add">>}
Catania_evnt == AfterGet({Locked(Row)})
Catania == Processor(Constructed, Catania_init,
    Catania_brun, Nothing, Catania_evnt, Nothing)

BDXMiniIntVeto_init == Books
BDXMiniIntVeto_brun == {<<"find", "add">>}
BDXMiniIntVeto_evnt == AfterGet({g \o s : g \in Geometry, s \in {<<>>, Locked(Row)}})
BDXMiniIntVeto == Processor(Constructed, BDXMiniIntVeto_init,
    BDXMiniIntVeto_brun, Nothing, BDXMiniIntVeto_evnt, Nothing)

BDXMiniTimeDiff_init == Books
BDXMiniTimeDiff_brun == {<<"find", "add">>}
BDXMiniTimeDiff_evnt == AfterGet({Locked(<<"set">>), Locked(<<"set", "hist">>)})
BDXMiniTimeDiff == Processor(Constructed, BDXMiniTimeDiff_init,
    BDXMiniTimeDiff_brun, Nothing, BDXMiniTimeDiff_evnt, Nothing)

\* Charges and times of a detector without a hit stay those of an earlier event.
energycal_init == Books
energycal_brun == {<<"find", "add">>}
energycal_evnt == AfterGet({Locked(s \o <<"hist", "row">>) : s \in {<<>>, <<"set">>}})
energycal == Processor(FirstUnset, energycal_init,
    energycal_brun, Nothing, energycal_evnt, Nothing)

\* ped_evtbefore, of the row, is the pedestal of the row before.
Paddles_SigDisplay_init == Books
Paddles_SigDisplay_brun == {<<"find", "add">>}
Paddles_SigDisplay_evnt == AfterTrigger({Locked(s) : s \in PerHit(<<"row">>)})
Paddles_SigDisplay == Processor(OutputUnset, Paddles_SigDisplay_init,
    Paddles_SigDisplay_brun, Nothing, Paddles_SigDisplay_evnt, Nothing)

Paddles_calib_init == Books
Paddles_calib_brun == {<<"find", "add">>}
Paddles_calib_evnt == AfterTrigger({Locked(s) : s \in PerHit(Row)})
Paddles_calib == Processor(Constructed, Paddles_calib_init,
    Paddles_calib_brun, Nothing, Paddles_calib_evnt, Nothing)

Paddles_ene_init == Books
Paddles_ene_brun == {<<"find", "add">>}
Paddles_ene_evnt == AfterTrigger({Locked(s) : s \in PerHit(Row)})
Paddles_ene == Processor(Constructed, Paddles_ene_init,
    Paddles_ene_brun, Nothing, Paddles_ene_evnt, Nothing)

ExtVeto_SigDisplay_init == Books
ExtVeto_SigDisplay_brun == {<<"find", "add">>}
ExtVeto_SigDisplay_evnt == AfterTrigger({Locked(s) : s \in PerHit(Hist \o Row)})
ExtVeto_SigDisplay == Processor(Constructed, ExtVeto_SigDisplay_init,
    ExtVeto_SigDisplay_brun, Nothing, ExtVeto_SigDisplay_evnt, Nothing)

ExtVeto_Hit_init == Books
ExtVeto_Hit_brun == {<<"find", "add">>}
ExtVeto_Hit_evnt == AfterTrigger({Locked(s) : s \in PerHit(Row)})
ExtVeto_Hit == Processor(OutputUnset, ExtVeto_Hit_init,
    ExtVeto_Hit_brun, Nothing, ExtVeto_Hit_evnt, Nothing)

ExtVeto_summary_init == Books
ExtVeto_summary_brun == {<<"find", "add">>}
ExtVeto_summary_evnt == AfterTrigger({Locked(s) : s \in PerHit(Row)})
ExtVeto_summary == Processor(OutputUnset, ExtVeto_summary_init,
    ExtVeto_summary_brun, Nothing, ExtVeto_summary_evnt, Nothing)

ExtVeto_PheDisplay_init == Books
ExtVeto_PheDisplay_brun == {<<"find", "add">>}
ExtVeto_PheDisplay_evnt == AfterTrigger({Locked(s) : s \in PerHit(Row)})
ExtVeto_PheDisplay == Processor(Constructed, ExtVeto_PheDisplay_init,
    ExtVeto_PheDisplay_brun, Nothing, ExtVeto_PheDisplay_evnt, Nothing)

\* A hit sets the charge and the time of its own component only.
ExtVeto_PheDisplay_ch_init == Books
ExtVeto_PheDisplay_ch_brun == {<<"find", "add">>}
ExtVeto_PheDisplay_ch_evnt == AfterTrigger({Locked(s) : s \in PerHit(<<"row">>)})
ExtVeto_PheDisplay_ch == Processor(Constructed, ExtVeto_PheDisplay_ch_init,
    ExtVeto_PheDisplay_ch_brun, Nothing, ExtVeto_PheDisplay_ch_evnt, Nothing)

ExtVeto_calib_init == Books
ExtVeto_calib_brun == {<<"find", "add">>}
ExtVeto_calib_evnt == AfterTrigger({Locked(s) : s \in PerHit(Row)})
ExtVeto_calib == Processor(Constructed, ExtVeto_calib_init,
    ExtVeto_calib_brun, Nothing, ExtVeto_calib_evnt, Nothing)

ExtVeto_ChargeDisplay_init == Books
ExtVeto_ChargeDisplay_brun == {<<"find", "add">>}
ExtVeto_ChargeDisplay_evnt == AfterTrigger({Locked(s) : s \in PerHit(Row)})
ExtVeto_ChargeDisplay == Processor(Constructed, ExtVeto_ChargeDisplay_init,
    ExtVeto_ChargeDisplay_brun, Nothing, ExtVeto_ChargeDisplay_evnt, Nothing)

\* The body of the loop is commented out: the tree stays empty.
ExtVeto_check_init == Books
ExtVeto_check_brun == {<<"find", "add">>}
ExtVeto_check_evnt == AfterTrigger({Locked(<<>>)})
ExtVeto_check == Processor(Constructed, ExtVeto_check_init,
    ExtVeto_check_brun, Nothing, ExtVeto_check_evnt, Nothing)

\* The tree is not added to the output.  The sums are set when there is an
\* MCEvent, whose counts are taken for the lengths of its vectors.
MCtest_e_init == Books
MCtest_e_evnt == {Locked(Row), Locked(<<"row">>),
                  <<"lock", "set", "throw">>}
MCtest_e == Processor(Constructed, MCtest_e_init,
    Nothing, Nothing, MCtest_e_evnt, Nothing)

-----------------------------------------------------------------------------
(***************************************************************************)
(* src/users: processors that keep the lock too long, too short or not at  *)
(* all, or that lose it.                                                   *)
(***************************************************************************)
\* loop->Get between lock and unlock; eventN, tword and id are set by a hit of
\* the paddles, and the row is filled with or without one.
Paddles_basic_track_init == Books
Paddles_basic_track_brun == {<<"find", "add">>}
Paddles_basic_track_evnt ==
    AfterTrigger({Locked(h \o g \o <<"row">>) : h \in PerHit(<<"set">>), g \in GetInLock})
Paddles_basic_track == Processor(Constructed, Paddles_basic_track_init,
    Paddles_basic_track_brun, Nothing, Paddles_basic_track_evnt, Nothing)

\* The same, and a waveform of less than 98 samples makes samples.at throw.
Paddles_test_init == Books
Paddles_test_brun == {<<"find", "add">>}
Paddles_test_evnt ==
    AfterTrigger({<<"lock", "set", "throw">>} \cup
        {Locked(h \o g \o <<"row">>) : h \in PerHit(<<"set">>), g \in GetInLock})
Paddles_test == Processor(Constructed, Paddles_test_init,
    Paddles_test_brun, Nothing, Paddles_test_evnt, Nothing)

\* Members of the row are set before the lock is taken.
TWord_init == Books
TWord_brun == {<<"find", "add">>}
TWord_evnt == AfterTrigger({<<"set">> \o Locked(<<"row">>)})
TWord == Processor(Constructed, TWord_init,
    TWord_brun, Nothing, TWord_evnt, Nothing)

IntVeto_SipmCalib_init == Books
IntVeto_SipmCalib_brun == {<<"find", "add">>}
IntVeto_SipmCalib_evnt == 
    AfterGet({<<"set">>} \cup {<<"set">> \o Locked(s) : s \in PerHit(Row)})
IntVeto_SipmCalib == Processor(Constructed, IntVeto_SipmCalib_init,
    IntVeto_SipmCalib_brun, Nothing, IntVeto_SipmCalib_evnt, Nothing)

ExtVeto_eff_init == Books
ExtVeto_eff_brun == {<<"find", "add">>}
ExtVeto_eff_evnt == AfterTrigger({<<"set">> \o Locked(Row)})
ExtVeto_eff == Processor(Constructed, ExtVeto_eff_init,
    ExtVeto_eff_brun, Nothing, ExtVeto_eff_evnt, Nothing)

ExtVeto_eff_check_init == Books
ExtVeto_eff_check_brun == {<<"find", "add">>}
ExtVeto_eff_check_evnt == AfterTrigger({<<"set">> \o Locked(Row)})
ExtVeto_eff_check == Processor(Constructed, ExtVeto_eff_check_init,
    ExtVeto_eff_check_brun, Nothing, ExtVeto_eff_check_evnt, Nothing)

\* A canvas is drawn without a lock.
TriggerWord_init == {<<"book">>}
TriggerWord_evnt == AfterGet({Hist})
TriggerWord == Processor(Constructed, TriggerWord_init,
    Nothing, Nothing, TriggerWord_evnt, Nothing)

\* evnt never releases the lock.
MCtest_init == Nothing
MCtest_evnt == {<<"lock", "set">>}
MCtest == Processor(Constructed, MCtest_init,
    Nothing, Nothing, MCtest_evnt, Nothing)

MCtest2_init == Nothing
MCtest2_evnt == {<<"lock", "set">>}
MCtest2 == Processor(Constructed, MCtest2_init,
    Nothing, Nothing, MCtest2_evnt, Nothing)

-----------------------------------------------------------------------------
Monitoring == {CalorimeterHits, Trigger, IntVetoSipm, DAQWaveformsMode1, JLabFlux}

AddingInErun ==
    {BDXMiniClusters, BDXMiniCrystals, BDXMiniVetoCalibration,
     BDXMiniCalorimeterEnergyCalibration, BDXMiniVetoSIPMCalibration,
     BDXMiniBeamMuonCalibration, BDXMiniStability, BDXMiniSlowControls}

UserTrees ==
    {Calorimeter_SipmCalib, Calorimeter_SipmStudies, Catania, BDXMiniIntVeto,
     BDXMiniTimeDiff, energycal, Paddles_SigDisplay, Paddles_calib, Paddles_ene,
     ExtVeto_SigDisplay, ExtVeto_Hit, ExtVeto_summary, ExtVeto_PheDisplay,
     ExtVeto_PheDisplay_ch, ExtVeto_calib, ExtVeto_ChargeDisplay, ExtVeto_check,
     MCtest_e, Paddles_basic_track, Paddles_test, TWord, IntVeto_SipmCalib,
     ExtVeto_eff, ExtVeto_eff_check, TriggerWord, MCtest, MCtest2}

AllPlugins == Monitoring \cup AddingInErun \cup UserTrees
=============================================================================
