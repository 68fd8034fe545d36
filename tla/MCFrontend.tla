------------------------------ MODULE MCFrontend ------------------------------
(***************************************************************************)
(* Instance of Frontend for TLC; the .cfg file gives the constants.        *)
(***************************************************************************)
EXTENDS Frontend
=============================================================================
