---------------------------- MODULE MCFinalReport ----------------------------
(***************************************************************************)
(* Instance of FinalReport for TLC; the .cfg file gives the constants.     *)
(***************************************************************************)
EXTENDS FinalReport
=============================================================================
