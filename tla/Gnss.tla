-------------------------------- MODULE Gnss --------------------------------
(***************************************************************************)
(* The GNSS poller of the control core, sensors/gnss/gnss.c: the events of *)
(* the modem, handled in interrupts, against a work item that looks every  *)
(* POLL ticks for a fix and hands it to submit_float_datapoint.            *)
(*                                                                         *)
(* The modem is external, modelled from the comments of gnss.c: while it   *)
(* searches there is an event every PVT ticks; once it has a fix it says   *)
(* so again in an event of its own, sleeps, and wakes up for the next one. *)
(* The poll work runs at most BUSY ticks after it is due, when the work    *)
(* item before it on the system workqueue is done.  Handlers take less     *)
(* than a tick; an interrupt may come between any two steps of the poll    *)
(* handler.  A fix is its number, and 0 is a position without a fix.       *)
(*                                                                         *)
(* Submitted means handed to submit_float_datapoint, whose return value    *)
(* the handler ignores: when datapoint_queue is full it drops the part it  *)
(* was given, as in SensorPoll, and the poll goes on as if it had not.     *)
(*                                                                         *)
(* The module has no behaviour of its own: ControlCore starts it.          *)
(***************************************************************************)
EXTENDS Integers

CONSTANTS
    POLL,         \* poll_interval_ms, in ticks
    PVT,          \* the second between two PVT events, in ticks
    BUSY,         \* the longest the system workqueue makes the poll wait
    MaxFixes      \* bound: the fixes the modem finds

ASSUME GnssAssumption ==
    /\ POLL \in Nat \ {0} /\ PVT \in Nat \ {0}
    /\ BUSY \in Nat /\ MaxFixes \in Nat

VARIABLES
    modem,        \* off, asleep, woken: no PVT event yet, searching, or fix, fixed:
                  \* the event of its fix, the one of its sleep comes next
    pvt_in,       \* ticks until the next PVT event of a search
    fixes,        \* how many fixes it has found
    gnss_internal_state, last_pvt, pvt_data_sem,
    poll_in,      \* ticks until gnss_poll_work is due, less than 0 if it waits
    at,           \* where gnss_poll_work_handler is
    read,         \* how many parts of last_pvt it has submitted
    submitted     \* history: the fixes all of whose parts it has submitted

modem_vars == <<modem, pvt_in, fixes>>
isr_vars == <<gnss_internal_state, last_pvt, pvt_data_sem>>
poll_vars == <<poll_in, at, read, submitted>>
gnss == <<modem_vars, isr_vars, poll_vars>>

Searching == modem \in {"woken", "searching"}

GnssInitialState ==
    /\ modem = "off" /\ pvt_in = 0 /\ fixes = 0
    /\ gnss_internal_state = "search" /\ last_pvt = 0 /\ pvt_data_sem = 0
    /\ poll_in = 0 /\ at = "off" /\ read = 0 /\ submitted = {}

\* gnss_init succeeds: the modem searches and the poll work is scheduled with
\* K_NO_WAIT.
GnssStarts ==
    /\ modem' = "woken" /\ pvt_in' = PVT
    /\ at' = "idle"
    /\ UNCHANGED <<fixes, isr_vars, poll_in, read, submitted>>

----------------------------------------------------------------------------
\* gnss_event_handler.

\* nrf_modem_gnss_read succeeds, and pvt_data_sem is given, or it fails.
PvtReadCounted(n) ==
    \/ last_pvt' = n /\ pvt_data_sem' = pvt_data_sem + 1
    \/ UNCHANGED <<last_pvt, pvt_data_sem>>
PvtRead(n) ==
    \/ last_pvt' = n /\ pvt_data_sem' = 1
    \/ UNCHANGED <<last_pvt, pvt_data_sem>>

\* PVT, with or without a fix.
PvtEvent ==
    /\ Searching /\ pvt_in = 0
    /\ \/ modem' = "searching" /\ fixes' = fixes /\ PvtRead(0)
       \/ /\ fixes < MaxFixes /\ fixes' = fixes + 1
          /\ modem' = "fix" /\ PvtRead(fixes')
    /\ pvt_in' = PVT
    /\ UNCHANGED <<gnss_internal_state, poll_vars>>

\* FIX, after the PVT event of the fix.
FixEvent ==
    /\ modem = "fix" /\ modem' = "fixed"
    /\ PvtRead(fixes)
    /\ UNCHANGED <<pvt_in, fixes, gnss_internal_state, poll_vars>>

\* SLEEP_AFTER_FIX, or SLEEP_AFTER_TIMEOUT some seconds after the search began.
SleepEvent ==
    /\ modem \in {"searching", "fixed"}
    /\ modem' = "asleep" /\ gnss_internal_state' = "sleep"
    /\ UNCHANGED <<pvt_in, fixes, last_pvt, pvt_data_sem, poll_vars>>

\* PERIODIC_WAKEUP
WakeupEvent ==
    /\ modem = "asleep" /\ modem' = "woken" /\ pvt_in' = PVT
    /\ gnss_internal_state' = "search"
    /\ UNCHANGED <<fixes, last_pvt, pvt_data_sem, poll_vars>>

----------------------------------------------------------------------------
\* gnss_poll_work_handler.

RescheduleAsPvt == at' = "idle" /\ poll_in' = PVT
Reschedule == at' = "idle" /\ poll_in' = POLL

\* Until the modem is awake there is nothing to do.
PollDrained ==
    /\ at = "idle" /\ poll_in <= 0
    /\ IF gnss_internal_state = "sleep"
       THEN Reschedule /\ pvt_data_sem' = 0
       ELSE at' = "take" /\ UNCHANGED <<poll_in, pvt_data_sem>>
    /\ UNCHANGED <<modem_vars, gnss_internal_state, last_pvt, read, submitted>>
Poll ==
    /\ at = "idle" /\ poll_in <= 0
    /\ IF gnss_internal_state = "sleep"
       THEN Reschedule
       ELSE at' = "take" /\ UNCHANGED poll_in
    /\ UNCHANGED <<modem_vars, isr_vars, read, submitted>>

Take ==
    /\ at = "take" /\ pvt_data_sem = 1
    /\ pvt_data_sem' = 0
    /\ at' = "flags"
    /\ UNCHANGED <<modem_vars, gnss_internal_state, last_pvt, poll_in, read, submitted>>

NothingToTake ==
    /\ at = "take" /\ pvt_data_sem = 0
    /\ Reschedule
    /\ UNCHANGED <<modem_vars, isr_vars, read, submitted>>

\* Only a fix is submitted.
Flags ==
    /\ at = "flags"
    /\ at' = IF last_pvt # 0 THEN "submit" ELSE "take"
    /\ read' = 0
    /\ UNCHANGED <<modem_vars, isr_vars, poll_in, submitted>>

\* process_fix_data: latitude, longitude, accuracy, altitude and its accuracy.  Whether
\* datapoint_enqueue has room for a part makes no difference to what the handler does.
Parts == 5
SubmitPart ==
    /\ at = "submit" /\ read < Parts
    /\ read' = read + 1
    /\ UNCHANGED <<modem_vars, isr_vars, poll_in, at, submitted>>

Processed ==
    /\ at = "submit" /\ read = Parts
    /\ at' = "take"
    /\ submitted' = submitted \cup {last_pvt}
    /\ UNCHANGED <<modem_vars, isr_vars, poll_in, read>>

----------------------------------------------------------------------------
\* Time passes: no event is due, no handler runs, and the poll has waited for the
\* workqueue no longer than BUSY.
GnssTick ==
    /\ modem = "asleep" \/ (Searching /\ pvt_in > 0)
    /\ at = "idle" /\ poll_in > -BUSY
    /\ pvt_in' = IF Searching THEN pvt_in - 1 ELSE pvt_in
    /\ poll_in' = poll_in - 1
    /\ UNCHANGED <<modem, fixes, isr_vars, at, read, submitted>>

ModemEvent == PvtEvent \/ FixEvent \/ SleepEvent \/ WakeupEvent
PollStep == Poll \/ Take \/ NothingToTake \/ Flags \/ SubmitPart \/ Processed
GnssStep == ModemEvent \/ PollStep \/ GnssTick

\* The workqueue and time go on, and the modem reports what is due: after a fix that it
\* sleeps, and some day that it wakes up.
GnssFairness == WF_gnss(PollStep) /\ WF_gnss(GnssTick) /\ WF_gnss(ModemEvent)

----------------------------------------------------------------------------
GnssTypeOK ==
    /\ modem \in {"off", "woken", "searching", "fix", "fixed", "asleep"}
    /\ pvt_in \in 0 .. PVT /\ fixes \in 0 .. MaxFixes
    /\ gnss_internal_state \in {"search", "sleep"}
    /\ last_pvt \in 0 .. fixes /\ pvt_data_sem \in 0 .. 1
    /\ poll_in \in -BUSY .. POLL
    /\ at \in {"off", "idle", "take", "flags", "submit"} /\ read \in 0 .. Parts
    /\ submitted \subseteq 1 .. fixes

\* last_pvt, which interrupts write and the poll handler reads part by part without a
\* lock, is not overwritten before its fix is submitted, nor while it is (a fix can be
\* submitted twice): what is submitted is one fix, and none is lost once it was read.
\* The modem goes to sleep right after a fix, and the handler does nothing then, so
\* this depends on the poll between the wake-up and the first PVT event.
FixIsHeld ==
    [][last_pvt' # last_pvt =>
          at # "submit" /\ (last_pvt = 0 \/ last_pvt \in submitted)]_gnss

\* A fix that was read is handed to the datapoint queue, after the modem has woken up at
\* the latest.  What the queue has no room for is lost there.
FixIsSubmitted ==
    \A n \in 1 .. MaxFixes : last_pvt = n ~> n \in submitted
=============================================================================
