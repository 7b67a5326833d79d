----------------------------- MODULE ControlCore -----------------------------
(***************************************************************************)
(* The start-up of the control core: sense_core_init of the board, main,   *)
(* sensors_init and the init functions they call, with the heartbeat timer *)
(* (lib/heartbeat/heartbeat.c) and the GNSS poller, and with the remote    *)
(* commands that may arrive as soon as the cellular thread runs.           *)
(*                                                                         *)
(* A work item is named for its owner; pollers schedule themselves again   *)
(* and again (SensorPoll), so an item once scheduled stays so.             *)
(***************************************************************************)
EXTENDS Gnss, Sequences

CONSTANTS
    Rails,         \* the load switches the device tree has
    Configured     \* the sensors Kconfig selects

AllSensors == {"gnss", "lis3mdl", "lsm6dso", "sht4x", "adcs"}
AllRails == {"ls_sensors", "ls_sdcard", "ls_spiflash", "ls_5vl", "ls_5vh"}

ASSUME ControlCoreAssumption ==
    /\ Rails \subseteq AllRails /\ Configured \subseteq AllSensors

VARIABLES
    rails,             \* the level of each load switch
    main,              \* how many calls are over, of those before the loop of main
    faulty,            \* the parts that were found not to work
    initialised,       \* the work items that k_work_init was called for
    scheduled,         \* the work items that were given to the workqueue
    cellular,          \* whether there is a cellular thread
    heartbeat_timer    \* off, periodic or oneshot

core == <<rails, main, faulty, initialised, scheduled, cellular>>
vars == <<core, heartbeat_timer, gnss>>

Calls == AllSensors \cup {"sense_core", "heartbeat", "sd_writer", "cellular",
                          "remote_commands"}

\* sensors_init
SensorsInit == <<"gnss", "lis3mdl", "lsm6dso", "sht4x", "adcs">>

\* sense_core_init is called before main.
Before == <<"sense_core", "heartbeat">>
CellularFirst == Before \o <<"sd_writer", "cellular", "remote_commands">> \o SensorsInit
StartUp == Before \o <<"sd_writer">> \o SensorsInit \o <<"cellular", "remote_commands">>

Init ==
    /\ rails = [r \in Rails |-> "unset"]
    /\ main = 0
    /\ faulty = {} /\ initialised = {} /\ scheduled = {}
    /\ cellular = FALSE
    /\ heartbeat_timer = "off"
    /\ GnssInitialState

Calling(c) == main < Len(StartUp) /\ StartUp[main + 1] = c /\ main' = main + 1
InLoop == main = Len(StartUp)

----------------------------------------------------------------------------
\* set_supply for each load switch, whose GPIO port may not be ready: the others are
\* set in any case.
Supplied == {"ls_sensors", "ls_spiflash", "ls_5vl"}
SetUnlessAnyFails(F) ==
    [r \in Rails |-> IF F # {} THEN "unset" ELSE IF r \in Supplied THEN "on" ELSE "off"]
Set(F) ==
    [r \in Rails |-> IF r \in F THEN "unset" ELSE IF r \in Supplied THEN "on" ELSE "off"]

SenseCoreInit ==
    /\ Calling("sense_core")
    /\ \E F \in SUBSET Rails : rails' = Set(F) /\ faulty' = F
    /\ UNCHANGED <<initialised, scheduled, cellular, heartbeat_timer, gnss>>

\* k_timer_start with a period as long as the duration.
StartedOnce == "oneshot"
Started == "periodic"

\* heartbeat_init_start, whose pin may not be ready.
HeartbeatInitStart ==
    /\ Calling("heartbeat")
    /\ \/ heartbeat_timer' = Started /\ UNCHANGED faulty
       \/ faulty' = faulty \cup {"heartbeat"} /\ UNCHANGED heartbeat_timer
    /\ UNCHANGED <<rails, initialised, scheduled, cellular, gnss>>

\* heartbeat_trigger, in the interrupt of the timer: it starts the timer again unless
\* the pin cannot be toggled.
HeartbeatTrigger ==
    /\ heartbeat_timer # "off"
    /\ \/ heartbeat_timer' = Started
       \/ heartbeat_timer' = IF heartbeat_timer = "periodic" THEN "periodic" ELSE "off"
    /\ UNCHANGED <<core, gnss>>

\* sd_writer_init
SdWriterInit ==
    /\ Calling("sd_writer")
    /\ initialised' = initialised \cup {"sd_writer"}
    /\ UNCHANGED <<rails, faulty, scheduled, cellular, heartbeat_timer, gnss>>

\* The readings a poller submits reach the datapoint thread and, from there, the work
\* item of the SD card writer once a buffer is full.
SdWriterSubmit ==
    /\ scheduled \cap Configured # {}
    /\ scheduled' = scheduled \cup {"sd_writer"}
    /\ UNCHANGED <<rails, main, faulty, initialised, cellular, heartbeat_timer, gnss>>

----------------------------------------------------------------------------
\* ..._init of a sensor: gnss_init, imu_lis3mdl_init, imu_lsm6dso_init, sht4x_init or
\* adcs_init.  The device is not ready when it does not work or has no supply, and the
\* GNSS fails if a call into the modem does; main takes no notice of either.
Unpowered(s) == s # "gnss" /\ "ls_sensors" \in Rails /\ rails["ls_sensors"] # "on"

SensorFails(s) ==
    /\ faulty' = faulty \cup {s}
    /\ UNCHANGED <<initialised, scheduled, gnss>>

SensorStarts(s) ==
    /\ ~Unpowered(s)
    /\ initialised' = initialised \cup {s} /\ scheduled' = scheduled \cup {s}
    /\ IF s = "gnss" THEN GnssStarts ELSE UNCHANGED gnss
    /\ UNCHANGED faulty

SensorInit(s) ==
    /\ Calling(s)
    /\ SensorFails(s) \/ SensorStarts(s)
    /\ UNCHANGED <<rails, cellular, heartbeat_timer>>

\* The call is not compiled in.
LeftOut(s) ==
    /\ Calling(s)
    /\ UNCHANGED <<rails, faulty, initialised, scheduled, cellular, heartbeat_timer, gnss>>

\* cellular_init fails, or there is a thread that brings the modem up and handles what
\* it receives some time later.
CellularInit ==
    /\ Calling("cellular")
    /\ \/ cellular' = TRUE /\ UNCHANGED faulty
       \/ faulty' = faulty \cup {"cellular"} /\ UNCHANGED cellular
    /\ UNCHANGED <<rails, initialised, scheduled, heartbeat_timer, gnss>>

RemoteCommandsInit ==
    /\ Calling("remote_commands")
    /\ initialised' = initialised \cup {"remote_commands"}
    /\ scheduled' = scheduled \cup {"remote_commands"}
    /\ UNCHANGED <<rails, faulty, cellular, heartbeat_timer, gnss>>

\* The loop of main: icmp_notify and a second's sleep, for ever (see Icmp).
MainLoop == InLoop /\ UNCHANGED vars

----------------------------------------------------------------------------
\* A response to the GET of the poll work is handled in the cellular thread.
CommandArrives == cellular /\ "remote_commands" \in scheduled

\* update_sensor_poll_rate: k_work_reschedule of the poll work, whether or not it was
\* initialised.  There is no command for the GNSS.
UpdateSensorPollRate(s) ==
    /\ CommandArrives /\ s \in Configured \ {"gnss"}
    /\ scheduled' = scheduled \cup {s}
    /\ UNCHANGED <<rails, main, faulty, initialised, cellular, heartbeat_timer, gnss>>

\* update_voltage_rail_state
UpdateVoltageRailState(level) ==
    /\ CommandArrives /\ "ls_5vh" \in Rails
    /\ rails' = [rails EXCEPT !["ls_5vh"] = level]
    /\ UNCHANGED <<main, faulty, initialised, scheduled, cellular, heartbeat_timer, gnss>>

----------------------------------------------------------------------------
MainStep ==
    \/ SenseCoreInit \/ HeartbeatInitStart \/ SdWriterInit
    \/ \E s \in Configured : SensorInit(s)
    \/ \E s \in AllSensors \ Configured : LeftOut(s)
    \/ CellularInit \/ RemoteCommandsInit
    \/ MainLoop

Command ==
    \/ \E s \in Configured : UpdateSensorPollRate(s)
    \/ \E level \in {"on", "off"} : UpdateVoltageRailState(level)

Next ==
    \/ MainStep
    \/ HeartbeatTrigger
    \/ SdWriterSubmit \/ Command
    \/ GnssStep /\ UNCHANGED <<core, heartbeat_timer>>

Spec == Init /\ [][Next]_vars

FairSpec == Spec /\ WF_vars(MainStep) /\ GnssFairness

----------------------------------------------------------------------------
\* Properties.

\* Every variable holds a value of its type.
TypeOK ==
    /\ rails \in [Rails -> {"unset", "on", "off"}]
    /\ main \in 0 .. Len(StartUp)
    /\ faulty \subseteq Calls \cup Rails
    /\ initialised \subseteq Calls /\ scheduled \subseteq Calls
    /\ cellular \in BOOLEAN
    /\ heartbeat_timer \in {"off", "periodic", "oneshot"}
    /\ GnssTypeOK

\* Once main is in its loop all that works does its work, whatever else has failed:
\* the poll of every sensor that has its supply and is ready, the poll for remote
\* commands, and the heartbeat, even if its pin could not be toggled at times.
FailuresAreIsolated ==
    InLoop =>
        /\ \A s \in Configured :
               s \notin scheduled => s \in faulty /\ (Unpowered(s) => "ls_sensors" \in faulty)
        /\ "remote_commands" \in scheduled
        /\ heartbeat_timer # "off" \/ "heartbeat" \in faulty

\* The workqueue is given no work item before it is initialised, however soon the
\* datapoints of the first sensors and the first remote commands come -- except, on a
\* command, the one of a sensor whose init function has returned with an error.
ScheduledWasInitialised == scheduled \subseteq initialised \cup (faulty \cap Configured)
=============================================================================
