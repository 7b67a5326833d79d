----------------------------- MODULE AtLeastOnce -----------------------------
(***************************************************************************)
(* What remote_commands.c promises whoever issues commands, with no poll,  *)
(* message or packet slab: a command is executed, perhaps more than once,  *)
(* before it is taken off the server, and the next one only after that.    *)
(* An invalid command is never executed, so nothing behind it is either.   *)
(***************************************************************************)
EXTENDS Naturals

CONSTANTS Commands, Invalid

VARIABLES issued,     \* how many commands the server was given
          removed,    \* how many of them have left it
          last        \* the command that was executed last

Init == issued = 0 /\ removed = 0 /\ last = 0

Issue ==
    /\ issued + 1 \in Commands
    /\ issued' = issued + 1
    /\ UNCHANGED <<removed, last>>

\* The oldest command on the server, for the first time or once more.
Execute ==
    /\ removed < issued /\ removed + 1 \notin Invalid
    /\ last' = removed + 1
    /\ UNCHANGED <<issued, removed>>

Remove ==
    /\ last = removed + 1
    /\ removed' = removed + 1
    /\ UNCHANGED <<issued, last>>

Next == Issue \/ Execute \/ Remove

Spec == Init /\ [][Next]_<<issued, removed, last>>
=============================================================================
