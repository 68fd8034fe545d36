--------------------------- MODULE MCCmdlineParser ---------------------------
(***************************************************************************)
(* Instance of CmdlineParser for TLC: a flag that has a default, and an    *)
(* argument that is required and has none.                                 *)
(***************************************************************************)
EXTENDS CmdlineParser

CONSTANTS help, sockname, false, true, name, dash

MCArgs == {help, sockname}
MCRequired == {sockname}
MCDefault == [a \in MCArgs |-> IF a = help THEN false ELSE Empty]
MCValues == {false, true, name, dash}
MCDashed == {dash}
MCTrueValues == {true}
MCHelp == help
=============================================================================
