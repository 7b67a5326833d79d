---------------------------- MODULE MCIcmpPhyUart ----------------------------
(***************************************************************************)
(* Constants for model checking IcmpPhyUart.  At 115200 baud a frame of 70 *)
(* bytes takes 6.1 ms.  With three cells to the longest frame a tick is    *)
(* 2 ms, the 5 ms of the ICMP thread's loop are two ticks and the 10 ms of *)
(* the receive time-out five.                                              *)
(***************************************************************************)
EXTENDS IcmpPhyUart
=============================================================================
