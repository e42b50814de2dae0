----------------------------- MODULE MCPlugins -----------------------------
(***************************************************************************)
(* Plugins for TLC: the programs of the repository's plugins, two threads  *)
(* and three events, the last of another run.                              *)
(***************************************************************************)
EXTENDS PluginPrograms, Plugins

MCRunOf == <<1, 1, 2>>

MCLeaky == {IntVetoSipm, BDXMiniStability, BDXMiniSlowControls, MCtest, MCtest2,
            MCtest_e, Paddles_test}
MCLosing == {Paddles_basic_track, Paddles_test}
MCUnlocked ==
    {Trigger, BDXMiniClusters, BDXMiniCrystals, BDXMiniCalorimeterEnergyCalibration,
     BDXMiniVetoSIPMCalibration, BDXMiniBeamMuonCalibration, BDXMiniIntVeto, TWord,
     IntVeto_SipmCalib, ExtVeto_eff, ExtVeto_eff_check, TriggerWord,
     Paddles_basic_track, Paddles_test}
MCMixed == {energycal, Paddles_SigDisplay, ExtVeto_PheDisplay_ch, MCtest_e, TWord,
            IntVeto_SipmCalib, ExtVeto_eff, ExtVeto_eff_check,
            Paddles_basic_track, Paddles_test}
MCResetting == {BDXMiniStability, BDXMiniSlowControls}
MCBlind == {BDXMiniBeamMuonCalibration, energycal, Paddles_SigDisplay,
            ExtVeto_Hit, ExtVeto_summary}

\* The premises of the theorems about Plugins hold of the repository's plugins.
ASSUME PluginsDisciplined == Discipline
ASSUME PluginsSaving == Saving
=============================================================================
