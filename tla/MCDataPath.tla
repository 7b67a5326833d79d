----------------------------- MODULE MCDataPath -----------------------------
(***************************************************************************)
(* Constants for model checking DataPath.                                  *)
(*                                                                         *)
(* A flush that is submitted waits for at most 6 more readings: 1 in the   *)
(* queue, the 2 of the imu poller that runs, and 3 of the pollers that are *)
(* pending before it.  They and the line that caused the flush have at     *)
(* most 9 cells, so 10 is the least BUFFER_SIZE that gives EnoughRoom.     *)
(* The line lengths are such that a buffer is filled with less the second  *)
(* time than the first, so that what is left of the first is behind its    *)
(* end.                                                                    *)
(***************************************************************************)
EXTENDS DataPath
CONSTANTS imu, adc
MCLineLength == [n \in 1 .. MaxLines |-> IF n % 4 = 2 THEN 2 ELSE 1]
MCReadings == [p \in Pollers |-> IF p = imu THEN 2 ELSE 1]

ASSUME MCAssumption == EnoughRoom
=============================================================================
