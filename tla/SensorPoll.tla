----------------------------- MODULE SensorPoll -----------------------------
(***************************************************************************)
(* The sensor pollers of the control core (sensors/adc/adcs.c,             *)
(* sensors/imu/lis3mdl.c and lsm6dso.c, sensors/temp_hum/sht4x.c): work    *)
(* items that read a sensor, put the readings in the datapoint queue and   *)
(* schedule themselves again.                                              *)
(*                                                                         *)
(* Time is abstracted: a scheduled item may become due at any moment.      *)
(* The drivers sleep while they transfer, so other threads run between     *)
(* readings.  A datapoint is the poller it comes from.                     *)
(***************************************************************************)
EXTENDS Workqueue, FiniteSets

CONSTANTS
    Pollers,
    Readings,                    \* how many datapoints a poller submits
    DATAPOINT_QUEUE_MAX_ITEMS

ASSUME SensorPollAssumption ==
    /\ IsFiniteSet(Pollers) /\ Readings \in [Pollers -> Nat]
    /\ DATAPOINT_QUEUE_MAX_ITEMS \in Nat \ {0}

VARIABLES
    scheduled,          \* the pollers whose k_work_delayable has a time-out set
    left,               \* the readings the running handler has still to submit
    datapoint_queue

sensors == <<scheduled, left, datapoint_queue>>

\* The init functions schedule every poller with K_NO_WAIT.
SensorPollInit ==
    /\ scheduled = Pollers
    /\ left = 0
    /\ datapoint_queue = <<>>

\* The time-out of a delayable work item expires.
PollDue(p) ==
    /\ p \in scheduled
    /\ scheduled' = scheduled \ {p}
    /\ SubmitWork(p)
    /\ UNCHANGED <<running, left, datapoint_queue>>

\* ..._poll_work_handler is entered.
PollStart(p) ==
    /\ StartWork(p)
    /\ left' = Readings[p]
    /\ UNCHANGED <<scheduled, datapoint_queue>>

\* datapoint_enqueue with K_NO_WAIT.
Submitted(p) ==
    IF Len(datapoint_queue) < DATAPOINT_QUEUE_MAX_ITEMS
    THEN Append(datapoint_queue, p)
    ELSE datapoint_queue

\* A reading is submitted.
Reading ==
    /\ running \in Pollers /\ left > 0
    /\ left' = left - 1
    /\ datapoint_queue' = Submitted(running)
    /\ UNCHANGED <<workq, running, scheduled>>

\* The sensor fails: the handler goes on to a later reading or, with none left, to
\* the rescheduling.
ReadingFailsReturns ==
    /\ running \in Pollers /\ left > 0
    /\ left' = 0
    /\ EndWork
    /\ UNCHANGED <<workq, scheduled, datapoint_queue>>
ReadingFails ==
    /\ running \in Pollers /\ left > 0
    /\ left' \in 0 .. (left - 1)
    /\ UNCHANGED <<workq, running, scheduled, datapoint_queue>>

\* k_work_schedule: nothing if the item is scheduled or pending already.
PollEnd ==
    /\ running \in Pollers /\ left = 0
    /\ scheduled' = scheduled \cup ({running} \ Pending)
    /\ EndWork
    /\ UNCHANGED <<workq, left, datapoint_queue>>

\* ..._set_poll_interval: k_work_reschedule sets the time-out in any case.
SetPollInterval(p) ==
    /\ scheduled' = scheduled \cup {p}
    /\ UNCHANGED <<workq, running, left, datapoint_queue>>

PollStep ==
    \/ \E p \in Pollers : PollStart(p)
    \/ Reading \/ ReadingFails \/ PollEnd

----------------------------------------------------------------------------
SensorPollTypeOK ==
    /\ scheduled \subseteq Pollers
    /\ left \in Nat
    /\ datapoint_queue \in Seq(Pollers)
    /\ Len(datapoint_queue) <= DATAPOINT_QUEUE_MAX_ITEMS

\* No poller stops for good, whatever fails and whenever its interval is changed.
PollersAlive ==
    \A p \in Pollers : p \in scheduled \/ p \in Pending \/ p = running

\* Every poller polls again and again, even with a card that fails in the middle
\* of a flush on the same workqueue.
PollersKeepPolling == \A p \in Pollers : []<>(running = p)
=============================================================================
