-------------------------- MODULE MCRemoteCommands --------------------------
(***************************************************************************)
(* Constants for model checking RemoteCommands: four commands, the third   *)
(* of which is invalid.                                                    *)
(***************************************************************************)
EXTENDS RemoteCommands
=============================================================================
