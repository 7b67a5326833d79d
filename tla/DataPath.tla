------------------------------ MODULE DataPath ------------------------------
(***************************************************************************)
(* The way of a datapoint from the sensors to the SD card: the pollers put *)
(* it in datapoint_queue, the datapoint thread (datapoint/datapoint.c)     *)
(* takes it out and submits it to the SD card writer as a line.            *)
(*                                                                         *)
(* Pollers and SD card writer share the system workqueue: while the card   *)
(* is written no sensor is polled.  That, and not a lock, is what keeps    *)
(* the datapoint thread from filling the second buffer before the first    *)
(* one is written.                                                         *)
(***************************************************************************)
EXTENDS SdCard, SensorPoll

\* The work items are distinct.
ASSUME ItemsAssumption == NULL \notin Pollers \cup {"flush"} /\ "flush" \notin Pollers

vars == <<workq, running, sdcard, sensors>>

Init ==
    /\ workq = <<>> /\ running = NULL
    /\ SdCardInit /\ SensorPollInit

\* datapoint_thread takes a datapoint and calls dp_sink_sd_card.  (For its other
\* sink, dp_sink_cellular, see Cellular: it does not block.)
DatapointDequeue ==
    /\ datapoint_queue # <<>>
    /\ SubmitLine
    /\ datapoint_queue' = Tail(datapoint_queue)
    /\ UNCHANGED <<workq, running, scheduled, left>>

DatapointThread ==
    \/ DatapointDequeue
    \/ UNCHANGED <<running, sensors>> /\ SubmitFlush
    \/ UNCHANGED <<workq, running, sensors>> /\ (Swap \/ CopyCell \/ LineDone)

WorkqueueStep ==
    \/ FlushStep /\ UNCHANGED sensors
    \/ PollStep /\ UNCHANGED sdcard

Due(p) == PollDue(p) /\ UNCHANGED sdcard

Next ==
    \/ DatapointThread
    \/ WorkqueueStep
    \/ \E p \in Pollers : Due(p) \/ (SetPollInterval(p) /\ UNCHANGED sdcard)

Spec == Init /\ [][Next]_vars

\* The workqueue runs what it is given and time passes.  fs_write comes to an end
\* since there is an end to what it writes.
FairSpec ==
    /\ Spec
    /\ WF_vars(WorkqueueStep)
    /\ \A p \in Pollers : WF_vars(Due(p))

----------------------------------------------------------------------------
\* Every variable holds a value of its type; in particular a line and a terminator
\* fit in the buffer the line is copied to.
TypeOK ==
    /\ workq \in Seq(Pollers \cup {"flush"})
    /\ running \in Pollers \cup {"flush", NULL}
    /\ SdCardTypeOK
    /\ SensorPollTypeOK

\* The readings of some pollers in one round, and the cells of the lines after line m
\* up to line n.
ReadingsOf(P) == UNION {{p} \X (1 .. Readings[p]) : p \in P}
CellsOf(m, n) == UNION {{k} \X (1 .. LineLength[k]) : k \in (m + 1) .. n}

\* An empty buffer holds the lines after line m, if they are at most that many, and a
\* terminator.
Fits(m, most) ==
    \A n \in m .. MaxLines : n - m <= most => Cardinality(CellsOf(m, n)) < BUFFER_SIZE

\* When a flush is submitted, what can arrive until it is over fits in the other buffer:
\* the line in hand, the queue, what the poller that runs has still to read, and a round
\* of the pollers that are pending before the flush.
FlushFits ==
    pc = "submit" =>
        Fits(line - 1, 1 + Len(datapoint_queue) + left
                         + Cardinality(ReadingsOf(Pollers \cap Pending)))

\* A buffer holds one line, one round of all pollers and k lines more, wherever it begins.
RoomFor(k) ==
    \A m \in 0 .. MaxLines : Fits(m, 1 + k + Cardinality(ReadingsOf(Pollers)))

\* Enough for FlushFits in every state: the queue may be full, and the poller that runs
\* pending again.
EnoughRoom == \A p \in Pollers : RoomFor(DATAPOINT_QUEUE_MAX_ITEMS + Readings[p])
=============================================================================
