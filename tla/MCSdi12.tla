------------------------------- MODULE MCSdi12 -------------------------------
(***************************************************************************)
(* Constants for model checking Sdi12: the one shell of the interface      *)
(* core's configuration.                                                   *)
(***************************************************************************)
EXTENDS Sdi12
=============================================================================
