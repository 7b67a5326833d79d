------------------------------ MODULE Workqueue ------------------------------
(***************************************************************************)
(* Zephyr's system workqueue, as the control core's work items use it: one *)
(* cooperative thread that runs the pending items first in, first out.     *)
(* Submitting an item that is already pending changes nothing; an item may *)
(* be submitted while it runs.  External: modelled from its use in src/.   *)
(***************************************************************************)
EXTENDS Naturals, Sequences

CONSTANTS NULL

VARIABLES
    workq,     \* the pending items
    running    \* the item whose handler runs, or NULL

Pending == {workq[i] : i \in 1 .. Len(workq)}

SubmitWork(item) ==
    workq' = IF item \in Pending THEN workq ELSE Append(workq, item)

StartWork(item) ==
    /\ running = NULL
    /\ workq # <<>> /\ Head(workq) = item
    /\ running' = item
    /\ workq' = Tail(workq)

EndWork == running' = NULL
=============================================================================
