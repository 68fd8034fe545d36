----------------------- MODULE MCPortHandlerLoopback -----------------------
(***************************************************************************)
(* Instance of PortHandlerLoopback for TLC: all thread modes, devices with *)
(* no queue pair up to MaxPairs of them.                                   *)
(***************************************************************************)
EXTENDS PortHandlerLoopback
=============================================================================
