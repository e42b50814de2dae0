------------------------ MODULE MCTranslationTable ------------------------
(***************************************************************************)
(* A small instance of TranslationTable for TLC.                           *)
(***************************************************************************)
EXTENDS TranslationTable

CONSTANTS t1, t2, t3, c1, c2
=============================================================================
