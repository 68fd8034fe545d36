--------------------------- MODULE MCLoopbackPath ---------------------------
(***************************************************************************)
(* Instance of LoopbackPath for TLC; the .cfg files give the constants.    *)
(* The ring has one slot more than the pool has mbufs, bursts are smaller  *)
(* than both, and the guest sends enough packets to empty the pool, to     *)
(* have a second burst behind the first and to use freed mbufs again.      *)
(***************************************************************************)
EXTENDS LoopbackPath
=============================================================================
