---------------------------- MODULE MCControlCore ----------------------------
(***************************************************************************)
(* Constants for model checking ControlCore.  A tick is 250 ms: the GNSS   *)
(* is polled every 500 ms, the modem reports once a second, and the system *)
(* workqueue makes the poll wait for less than 500 ms.  With BUSY = 2 it   *)
(* may wait for as long, and FixIsHeld is violated.                        *)
(***************************************************************************)
EXTENDS ControlCore
=============================================================================
