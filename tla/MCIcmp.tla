------------------------------- MODULE MCIcmp -------------------------------
(***************************************************************************)
(* Constants for model checking Icmp.                                      *)
(***************************************************************************)
EXTENDS Icmp, TLC

CONSTANTS t1

\* One NOTIFY that an application sends, one that the peer sends.
MCNotify == [type |-> "NOTIFY", target |-> t1, msg_id |-> 255, body |-> NULL]
MCAppFrames == {MCNotify}
MCPeerFrames == {MCNotify}

MCSymmetry == Permutations(Blocks) \cup Permutations(Callers)
=============================================================================
