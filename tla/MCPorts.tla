------------------------------ MODULE MCPorts ------------------------------
(***************************************************************************)
(* Instance of Ports for TLC; the .cfg files give the constants.           *)
(***************************************************************************)
EXTENDS Ports
=============================================================================
