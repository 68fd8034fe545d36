-------------------------------- MODULE MCVtb --------------------------------
(***************************************************************************)
(* Instance of Vtb for TLC; the .cfg files give the constants.             *)
(***************************************************************************)
EXTENDS Vtb
=============================================================================
