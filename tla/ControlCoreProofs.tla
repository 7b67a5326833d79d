-------------------------- MODULE ControlCoreProofs --------------------------
(***************************************************************************)
(* Theorems about the start-up of the control core, for every choice of    *)
(* sensors and load switches, and about its GNSS poller, for every number  *)
(* of fixes and every timing in which the poll comes between the wake-up   *)
(* of the modem and its first PVT event.                                   *)
(***************************************************************************)
EXTENDS ControlCore, TLAPS

\* The interval of the poll and the longest wait for the workqueue are together less
\* than the time between two PVT events: 500 ms and the wait against a second.
PollsInTime == POLL + BUSY < PVT

----------------------------------------------------------------------------
\* The GNSS poller.

\* The handler submits what last_pvt holds, or will with its next steps.
Active == last_pvt # 0 /\ (pvt_data_sem = 1 \/ at \in {"flags", "submit"})

\* What is not yet submitted is active; and while something is, no event can
\* overwrite it with anything else: the next one comes after the poll.
GnssInv ==
    /\ GnssTypeOK
    /\ modem = "off" <=> at = "off"
    /\ modem = "off" => last_pvt = 0
    /\ modem = "asleep" <=> gnss_internal_state = "sleep"
    /\ at = "submit" => last_pvt # 0
    /\ last_pvt # 0 /\ last_pvt \notin submitted => Active
    /\ Active =>
        /\ modem # "searching"
        /\ modem = "fix" => last_pvt = fixes
        /\ modem = "woken" => pvt_in > 0 /\ (at = "idle" => pvt_in > poll_in + BUSY)

LEMMA GnssInit == GnssInitialState => GnssInv
BY GnssAssumption DEF GnssInitialState, GnssInv, GnssTypeOK, Active, Parts

LEMMA GnssStart ==
    ASSUME PollsInTime, GnssInv, modem = "off", GnssStarts
    PROVE  GnssInv'
BY GnssAssumption
DEF GnssStarts, GnssInv, GnssTypeOK, Active, isr_vars, Parts, PollsInTime

\* When an event comes, there is nothing left to submit.
LEMMA EventFinds ==
    ASSUME GnssInv, PvtEvent
    PROVE  ~Active
BY DEF GnssInv, PvtEvent, Searching

LEMMA PvtEventStep ==
    ASSUME GnssInv, PvtEvent
    PROVE  GnssInv'
<1> USE GnssAssumption DEF GnssInv, GnssTypeOK, Parts
<1>1. ~Active /\ modem \in {"woken", "searching"}
      /\ UNCHANGED <<gnss_internal_state, poll_in, at, read, submitted>> /\ pvt_in' = PVT
  BY EventFinds DEF PvtEvent, Searching, poll_vars
<1>2. CASE modem' = "searching" /\ fixes' = fixes /\ PvtRead(0)
  BY <1>1, <1>2 DEF PvtRead, Active
<1>3. CASE fixes < MaxFixes /\ fixes' = fixes + 1 /\ modem' = "fix" /\ PvtRead(fixes')
  <2>1. fixes' \in 1 .. MaxFixes /\ \A n \in 0 .. fixes : n \in 0 .. fixes'
    BY <1>3
  <2>2. CASE last_pvt' = fixes' /\ pvt_data_sem' = 1
    BY <1>1, <1>3, <2>1, <2>2 DEF Active
  <2>3. CASE UNCHANGED <<last_pvt, pvt_data_sem>>
    BY <1>1, <1>3, <2>1, <2>3 DEF Active
  <2> QED
    BY <1>3, <2>2, <2>3 DEF PvtRead
<1> QED
  BY <1>2, <1>3 DEF PvtEvent

LEMMA ModemStep ==
    ASSUME PollsInTime, GnssInv, ModemEvent
    PROVE  GnssInv'
<1> USE GnssAssumption DEF GnssInv, GnssTypeOK, Parts
<1>1. CASE FixEvent
  <2>1. fixes \in 0 .. fixes /\ (Active => last_pvt = fixes)
    BY <1>1 DEF FixEvent
  <2> QED
    BY <1>1, <2>1 DEF FixEvent, PvtRead, poll_vars, Active
<1>2. CASE SleepEvent
  BY <1>2 DEF SleepEvent, poll_vars, Active
<1>3. CASE WakeupEvent
  BY <1>3 DEF WakeupEvent, poll_vars, Active, PollsInTime
<1> QED
  BY <1>1, <1>2, <1>3, PvtEventStep DEF ModemEvent

LEMMA PollStepInv ==
    ASSUME GnssInv, PollStep
    PROVE  GnssInv'
<1> USE GnssAssumption DEF GnssInv, GnssTypeOK, Parts, modem_vars, isr_vars, Reschedule
<1>1. CASE Poll
  BY <1>1 DEF Poll, Active
<1>2. CASE Take
  BY <1>2 DEF Take, Active
<1>3. CASE NothingToTake
  BY <1>3 DEF NothingToTake, Active
<1>4. CASE Flags
  BY <1>4 DEF Flags, Active
<1>5. CASE SubmitPart
  BY <1>5 DEF SubmitPart, Active
<1>6. CASE Processed
  BY <1>6 DEF Processed, Active
<1> QED
  BY <1>1, <1>2, <1>3, <1>4, <1>5, <1>6 DEF PollStep

LEMMA TickInv ==
    ASSUME GnssInv, GnssTick
    PROVE  GnssInv'
BY GnssAssumption DEF GnssInv, GnssTypeOK, Parts, GnssTick, Searching, isr_vars, Active

\* Of the steps of GnssStep only the events of a fix or of a search write last_pvt.
LEMMA HeldStep ==
    ASSUME GnssInv, GnssStep, last_pvt' # last_pvt
    PROVE  at # "submit" /\ (last_pvt = 0 \/ last_pvt \in submitted)
<1>1. PvtEvent \/ FixEvent
  BY DEF GnssStep, ModemEvent, SleepEvent, WakeupEvent, PollStep, Poll, Take,
         NothingToTake, Flags, SubmitPart, Processed, GnssTick, isr_vars
<1>2. ~Active
  BY <1>1, EventFinds DEF GnssInv, FixEvent, PvtRead
<1> QED
  BY <1>2 DEF GnssInv, Active

----------------------------------------------------------------------------
\* The start-up.

LEMMA TheCalls ==
    /\ Len(StartUp) = 10
    /\ StartUp[1] = "sense_core" /\ StartUp[2] = "heartbeat" /\ StartUp[3] = "sd_writer"
    /\ StartUp[4] = "gnss" /\ StartUp[5] = "lis3mdl" /\ StartUp[6] = "lsm6dso"
    /\ StartUp[7] = "sht4x" /\ StartUp[8] = "adcs"
    /\ StartUp[9] = "cellular" /\ StartUp[10] = "remote_commands"
BY DEF StartUp, Before, SensorsInit

\* The number of the call of a sensor's init function.
Position == [gnss |-> 4, lis3mdl |-> 5, lsm6dso |-> 6, sht4x |-> 7, adcs |-> 8]

LEMMA CallingFacts ==
    ASSUME NEW c, Calling(c), main \in 0 .. Len(StartUp)
    PROVE  /\ main' = main + 1 /\ main' \in 1 .. Len(StartUp) /\ Len(StartUp) = 10
           /\ c = "sense_core" <=> main = 0
           /\ c = "heartbeat" <=> main = 1
           /\ c = "sd_writer" <=> main = 2
           /\ c = "gnss" <=> main = 3
           /\ \A s \in AllSensors : c = s <=> main' = Position[s]
           /\ c = "cellular" <=> main = 8
           /\ c = "remote_commands" <=> main = 9
BY TheCalls DEF Calling, AllSensors, Position

\* What the calls that are over have done; the others have done nothing yet.
StartInv ==
    /\ rails \in [Rails -> {"unset", "on", "off"}]
    /\ main \in 0 .. Len(StartUp)
    /\ faulty \subseteq Calls \cup Rails
    /\ initialised \subseteq Calls /\ scheduled \subseteq Calls
    /\ cellular \in BOOLEAN
    /\ heartbeat_timer \in {"off", "periodic", "oneshot"}
    /\ main >= 1 /\ "ls_sensors" \in Rails =>
        rails["ls_sensors"] = "on" \/ "ls_sensors" \in faulty
    /\ main >= 2 => heartbeat_timer = "periodic" \/ "heartbeat" \in faulty
    /\ heartbeat_timer # "oneshot"
    /\ main >= 3 => "sd_writer" \in initialised
    /\ \A s \in Configured : main >= Position[s] =>
        s \in scheduled \cap initialised \/ s \in faulty
    /\ cellular => main >= 9
    /\ main >= 10 => "remote_commands" \in scheduled
    /\ scheduled \cap Configured # {} => main >= 4
    /\ main = 0 => scheduled = {}
    /\ ScheduledWasInitialised
    /\ modem # "off" => main >= 4

LEMMA SensorFacts ==
    \A s \in Configured : s \in AllSensors /\ s \in Calls /\ Position[s] \in 4 .. 8
BY ControlCoreAssumption DEF AllSensors, Calls, Position

LEMMA InitStart == Init => StartInv
<1> SUFFICES ASSUME Init PROVE StartInv
  OBVIOUS
<1>1. /\ main = 0 /\ faulty = {} /\ initialised = {} /\ scheduled = {}
      /\ ~cellular /\ cellular \in BOOLEAN
      /\ heartbeat_timer = "off" /\ modem = "off" /\ rails = [r \in Rails |-> "unset"]
  BY DEF Init, GnssInitialState
<1>2. \A s \in Configured : ~(0 >= Position[s])
  BY SensorFacts
<1>3. ScheduledWasInitialised /\ main \in 0 .. Len(StartUp)
  BY <1>1, TheCalls DEF ScheduledWasInitialised
<1> QED
  BY <1>1, <1>2, <1>3 DEF StartInv

LEMMA SenseCoreStep ==
    ASSUME StartInv, SenseCoreInit
    PROVE  StartInv'
<1>1. /\ main = 0 /\ main' = 1 /\ main' \in 0 .. Len(StartUp) /\ scheduled = {}
      /\ UNCHANGED <<initialised, scheduled, cellular, heartbeat_timer, modem>>
  BY CallingFacts DEF StartInv, SenseCoreInit, gnss, modem_vars
<1>2. PICK F \in SUBSET Rails : rails' = Set(F) /\ faulty' = F
  BY DEF SenseCoreInit
<1>3. rails' \in [Rails -> {"unset", "on", "off"}]
  BY <1>2 DEF Set
<1>4. "ls_sensors" \in Rails => rails'["ls_sensors"] = "on" \/ "ls_sensors" \in faulty'
  BY <1>2 DEF Set, Supplied
<1>5. \A s \in Configured : ~(1 >= Position[s])
  BY SensorFacts
<1> QED
  BY <1>1, <1>2, <1>3, <1>4, <1>5 DEF StartInv, ScheduledWasInitialised

LEMMA SensorStep ==
    ASSUME StartInv, NEW s \in Configured, SensorInit(s)
    PROVE  StartInv'
<1> USE DEF StartInv, SensorInit
<1>1. /\ s \in AllSensors /\ s \in Calls
      /\ \A q \in Configured : q \in AllSensors /\ Position[q] \in 4 .. 8
  BY SensorFacts
<1>2. /\ main' = main + 1 /\ main' = Position[s] /\ main' \in 0 .. Len(StartUp)
      /\ \A q \in Configured : main' = Position[q] => q = s
  BY <1>1, CallingFacts
<1>3. CASE SensorFails(s)
  BY <1>1, <1>2, <1>3
  DEF SensorFails, ScheduledWasInitialised, gnss, modem_vars
<1>4. CASE SensorStarts(s)
  BY <1>1, <1>2, <1>4
  DEF SensorStarts, ScheduledWasInitialised, gnss, modem_vars
<1> QED
  BY <1>3, <1>4

LEMMA OtherStarts ==
    ASSUME StartInv, \/ HeartbeatInitStart \/ SdWriterInit
                     \/ CellularInit \/ RemoteCommandsInit
                     \/ \E s \in AllSensors \ Configured : LeftOut(s)
    PROVE  StartInv'
<1> USE DEF StartInv, gnss, modem_vars, ScheduledWasInitialised
<1>1. \A q \in Configured : q \in AllSensors /\ Position[q] \in 4 .. 8
  BY SensorFacts
<1>2. CASE HeartbeatInitStart
  <2>1. main = 1 /\ main' = 2 /\ main' \in 0 .. Len(StartUp)
    BY <1>2, CallingFacts DEF HeartbeatInitStart
  <2> QED
    BY <1>1, <1>2, <2>1 DEF HeartbeatInitStart, Started, Calls
<1>3. CASE SdWriterInit
  <2>1. main = 2 /\ main' = 3 /\ main' \in 0 .. Len(StartUp)
    BY <1>3, CallingFacts DEF SdWriterInit
  <2> QED
    BY <1>1, <1>3, <2>1 DEF SdWriterInit, Calls
<1>4. CASE CellularInit
  <2>1. main = 8 /\ main' = 9 /\ main' \in 0 .. Len(StartUp)
    BY <1>4, CallingFacts DEF CellularInit
  <2> QED
    <3>1. CASE cellular' = TRUE /\ UNCHANGED faulty
      BY <1>1, <1>4, <2>1, <3>1 DEF CellularInit
    <3>2. CASE faulty' = faulty \cup {"cellular"} /\ UNCHANGED cellular
      BY <1>1, <1>4, <2>1, <3>2 DEF CellularInit, Calls
    <3> QED
      BY <1>4, <3>1, <3>2 DEF CellularInit
<1>5. CASE RemoteCommandsInit
  <2>1. main = 9 /\ main' = 10 /\ main' \in 0 .. Len(StartUp)
    BY <1>5, CallingFacts DEF RemoteCommandsInit
  <2> QED
    BY <1>1, <1>5, <2>1 DEF RemoteCommandsInit, Calls
<1>6. ASSUME NEW s \in AllSensors \ Configured, LeftOut(s) PROVE StartInv'
  <2>1. /\ main' = main + 1 /\ main' = Position[s] /\ main' \in 0 .. Len(StartUp)
        /\ \A q \in Configured : main' # Position[q]
    BY <1>1, <1>6, CallingFacts DEF LeftOut
  <2>2. Position[s] \in 4 .. 8
    BY DEF AllSensors, Position
  <2> QED
    BY <1>1, <1>6, <2>1, <2>2 DEF LeftOut
<1> QED
  BY <1>2, <1>3, <1>4, <1>5, <1>6

\* The heartbeat, what the first readings put to use, and remote commands.
LEMMA RunningStep ==
    ASSUME StartInv, HeartbeatTrigger \/ SdWriterSubmit \/ Command
    PROVE  StartInv'
<1> USE DEF StartInv, gnss, modem_vars, ScheduledWasInitialised
<1>1. \A q \in Configured : q \in AllSensors /\ q \in Calls /\ Position[q] \in 4 .. 8
  BY SensorFacts
<1>2. CASE HeartbeatTrigger
  BY <1>2 DEF HeartbeatTrigger, Started, core
<1>3. CASE SdWriterSubmit
  BY <1>1, <1>3 DEF SdWriterSubmit, Calls, AllSensors
<1>4. ASSUME NEW s \in Configured, UpdateSensorPollRate(s) PROVE StartInv'
  BY <1>1, <1>4 DEF UpdateSensorPollRate, CommandArrives
<1>5. ASSUME NEW level \in {"on", "off"}, UpdateVoltageRailState(level) PROVE StartInv'
  BY <1>5 DEF UpdateVoltageRailState, CommandArrives
<1> QED
  BY <1>2, <1>3, <1>4, <1>5 DEF Command

LEMMA StartStep == StartInv /\ [Next]_vars => StartInv'
<1> SUFFICES ASSUME StartInv, [Next]_vars PROVE StartInv'
  OBVIOUS
<1>1. CASE MainStep
  <2>1. CASE MainLoop
    BY <2>1 DEF MainLoop, vars, core, StartInv, ScheduledWasInitialised, gnss, modem_vars
  <2> QED
    BY <1>1, <2>1, SenseCoreStep, SensorStep, OtherStarts DEF MainStep
<1>2. CASE HeartbeatTrigger \/ SdWriterSubmit \/ Command
  BY <1>2, RunningStep
<1>3. CASE GnssStep /\ UNCHANGED <<core, heartbeat_timer>>
  <2>1. modem' # "off" => modem # "off"
    BY <1>3 DEF GnssStep, ModemEvent, PvtEvent, Searching, FixEvent, SleepEvent,
                WakeupEvent, PollStep, Poll, Take, NothingToTake, Flags, SubmitPart,
                Processed, GnssTick, modem_vars
  <2> QED
    BY <1>3, <2>1 DEF StartInv, ScheduledWasInitialised, core
<1>4. CASE UNCHANGED vars
  BY <1>4 DEF vars, core, StartInv, ScheduledWasInitialised, gnss, modem_vars
<1> QED
  BY <1>1, <1>2, <1>3, <1>4 DEF Next

LEMMA StartInvariant == Spec => []StartInv
<1>1. Init => StartInv
  BY InitStart
<1> QED
  BY <1>1, StartStep, PTL DEF Spec

----------------------------------------------------------------------------
\* The GNSS poller in the core.

\* The poller is started once, and no other step of the core touches it.
LEMMA CoreStep ==
    ASSUME StartInv, [Next]_vars, ~UNCHANGED gnss
    PROVE  GnssStep \/ (modem = "off" /\ GnssStarts)
<1>1. ASSUME NEW s \in Configured, SensorInit(s)
      PROVE  modem = "off" /\ GnssStarts
  <2>1. s = "gnss" /\ GnssStarts
    BY <1>1 DEF SensorInit, SensorFails, SensorStarts
  <2>2. main = 3
    BY <1>1, <2>1, CallingFacts DEF SensorInit, StartInv
  <2> QED
    BY <2>1, <2>2 DEF StartInv
<1> QED
  BY <1>1
  DEF Next, MainStep, SenseCoreInit, HeartbeatInitStart, SdWriterInit, CellularInit,
      RemoteCommandsInit, LeftOut, MainLoop, HeartbeatTrigger, SdWriterSubmit, Command,
      UpdateSensorPollRate, UpdateVoltageRailState, vars

LEMMA GnssInvStep ==
    ASSUME PollsInTime, StartInv, GnssInv, [Next]_vars
    PROVE  GnssInv'
<1>1. CASE UNCHANGED gnss
  BY <1>1 DEF gnss, modem_vars, isr_vars, poll_vars, GnssInv, GnssTypeOK, Active
<1> QED
  BY <1>1, CoreStep, GnssStart, ModemStep, PollStepInv, TickInv DEF GnssStep

LEMMA GnssInvariant ==
    ASSUME PollsInTime
    PROVE  Spec => []GnssInv
<1>1. Init => GnssInv
  BY GnssInit DEF Init
<1>2. StartInv /\ GnssInv /\ [Next]_vars => GnssInv'
  BY GnssInvStep
<1> QED
  BY <1>1, <1>2, StartInvariant, PTL DEF Spec

----------------------------------------------------------------------------
\* The theorems.

\* Whatever fails during the start-up of the control core, once main is in its loop every
\* sensor that works is polled, remote commands are polled for, and the heart beats.
THEOREM IsolatesFailures == Spec => []FailuresAreIsolated
<1>1. StartInv => FailuresAreIsolated
  <2> SUFFICES ASSUME StartInv, InLoop PROVE FailuresAreIsolated
    BY DEF FailuresAreIsolated
  <2>1. main = 10 /\ \A s \in Configured : Position[s] \in 4 .. 8
    BY TheCalls, SensorFacts DEF InLoop
  <2> QED
    BY <2>1 DEF StartInv, FailuresAreIsolated, Unpowered
<1> QED
  BY <1>1, StartInvariant, PTL

\* No work item is submitted before k_work_init, however early datapoints and remote
\* commands come, except by a command for a sensor whose init function failed.
THEOREM InitialisedFirst == Spec => []ScheduledWasInitialised
<1>1. StartInv => ScheduledWasInitialised
  BY DEF StartInv
<1> QED
  BY <1>1, StartInvariant, PTL

\* Every variable keeps its type; in particular gnss_poll_work_handler submits no
\* position that has no fix.
THEOREM TypeCorrect ==
    ASSUME PollsInTime
    PROVE  Spec => []TypeOK
<1>1. StartInv /\ GnssInv => TypeOK
  BY DEF StartInv, GnssInv, TypeOK
<1> QED
  BY <1>1, StartInvariant, GnssInvariant, PTL

\* gnss_poll_work_handler submits each fix that gnss_event_handler has read before
\* another event overwrites it, and reads no part of another one, as long as the
\* workqueue lets it run between the wake-up of the modem and the first PVT event.
THEOREM HoldsFix ==
    ASSUME PollsInTime
    PROVE  Spec => FixIsHeld
<1>1. StartInv /\ GnssInv /\ [Next]_vars =>
        [last_pvt' # last_pvt =>
            at # "submit" /\ (last_pvt = 0 \/ last_pvt \in submitted)]_gnss
  <2> SUFFICES ASSUME StartInv, GnssInv, [Next]_vars, last_pvt' # last_pvt
               PROVE  at # "submit" /\ (last_pvt = 0 \/ last_pvt \in submitted)
    OBVIOUS
  <2>1. GnssStep
    BY CoreStep DEF gnss, isr_vars, GnssStarts
  <2> QED
    BY <2>1, HeldStep
<1> QED
  BY <1>1, StartInvariant, GnssInvariant, PTL DEF Spec, FixIsHeld
=============================================================================
