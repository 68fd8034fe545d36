---------------------------- MODULE MCAsyncLogger ----------------------------
(***************************************************************************)
(* Instance of AsyncLogger for TLC; the .cfg files give the constants.     *)
(* Without symmetry, which liveness checking does not allow.               *)
(***************************************************************************)
EXTENDS AsyncLogger
=============================================================================
