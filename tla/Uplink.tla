------------------------------- MODULE Uplink -------------------------------
(***************************************************************************)
(* What the clients of cellular_send_packet are promised, and what         *)
(* RemoteCommands takes the cellular module for: a bounded queue.  What    *)
(* was accepted is handed to the socket once and in the order of           *)
(* acceptance; nothing is forgotten, whatever happens to the connection.   *)
(***************************************************************************)
EXTENDS Naturals, Sequences

CONSTANTS Items, Size

VARIABLE outgoing       \* what was accepted and is not through with the socket

Init == outgoing = <<>>

Accept(m) == Len(outgoing) < Size /\ outgoing' = Append(outgoing, m)

\* send, whatever it returns.
HandOver == outgoing # <<>> /\ outgoing' = Tail(outgoing)

Next == HandOver \/ \E m \in Items : Accept(m)

Spec == Init /\ [][Next]_outgoing
=============================================================================
