---------------------------- MODULE LossyChannel ----------------------------
(***************************************************************************)
(* What the ICMP server relies on of the link to the other core: a frame   *)
(* arrives as it was sent, at most once and in the order of sending, or it *)
(* does not arrive.  A frame is its number in the order of sending.        *)
(***************************************************************************)
EXTENDS Naturals, Sequences

VARIABLES sent,       \* how many frames were sent
          received    \* the frames that arrived

LastOf(s) == IF s = <<>> THEN 0 ELSE s[Len(s)]

Init == sent = 0 /\ received = <<>>

Send == sent' = sent + 1 /\ UNCHANGED received

\* The frames between the last one that arrived and this one are lost.
Receive ==
    /\ \E n \in (LastOf(received) + 1) .. sent : received' = Append(received, n)
    /\ UNCHANGED sent

Next == Send \/ Receive

Spec == Init /\ [][Next]_<<sent, received>>
=============================================================================
