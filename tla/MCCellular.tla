----------------------------- MODULE MCCellular -----------------------------
(***************************************************************************)
(* Constants for model checking Cellular.                                  *)
(***************************************************************************)
EXTENDS Cellular, TLC
MCSymmetry == Permutations(Packets)
=============================================================================
