# Verification of the SENSE firmware

TLA+ models of the firmware of the SENSE board, TLC configurations that check them on small instances,
and TLAPS proofs about its core. Paths below are relative to the repository (`lib/icmp/icmp.c` is
`src/lib/icmp/icmp.c` in `PROJECT.json`, which maps every definition to its lines).

The board has two processors. The **control core** (nRF9161) polls sensors, logs datapoints to an SD
card, and talks to a server over LTE. The **interface core** (nRF5340) has the SDI-12 bus and the
user's shell. A UART joins them, and both run the same ICMP (Inter-Core Message Protocol) library.
Both run Zephyr: preemptive threads, a cooperative system workqueue, interrupts.

## 1. Inventory

| part | state | operations | interacts with |
|---|---|---|---|
| ICMP server `lib/icmp/icmp.c`, `icmp_frame.[ch]` (slab), `icmp_queue.[ch]` | in-flight bitmap and table under a mutex, frame slab, tx and rx queue, the singleton `icmp_work_ctx` under `icmp_work_sem`, target callbacks | `icmp_command`, `icmp_respond`, `icmp_notify`, `icmp_register_target`, `icmp_init`; the ICMP thread; the dispatch and the time-out handler on the workqueue; the timer | its callers (any thread), the PHY, the system workqueue, the peer core |
| ICMP UART PHY `icmp_phy_uart.c` | DMA receive buffer, transmit buffer | `send`, UART events in interrupt context | slab and rx queue; the peer |
| frame codec `icmp_frame.c` | none | pack, unpack (length, CRC) | PHY |
| cellular `lib/cellular/cellular.c`, `cellular_packet.c`, `cellular_queue.c` | `cellular_state`, the thread object, packet slab, uplink queue | `cellular_init`, `cellular_send_packet`, the thread: start-up, send and receive | backend, datapoint thread, remote commands |
| nRF backend `cellular_backend_nrf.c` | `lte_connected_sem` | modem up, wait for the network, event handler | the modem library |
| remote commands `remote_commands.c` | poll work item, ids | GET poll, execution, DELETE | cellular, pollers, the server |
| CoAP builder `lib/coap/coap.c` | none | builds a request | remote commands, datapoint |
| datapoint pipeline `datapoint/*.c` | `datapoint_queue` | `submit_*_datapoint`, thread with its sinks | pollers, SD card writer, cellular |
| SD card writer `sd_card/sd_card.c` | two buffers, the flush work item, the file | `sd_card_submit_line`, `sd_writer_work_handler` | datapoint thread, system workqueue |
| sensor pollers `sensors/adc`, `imu`, `temp_hum` | delayable work items, intervals | poll, change of the interval | datapoint queue, system workqueue |
| GNSS `sensors/gnss/gnss.c` | last fix, its semaphore, sleep flag | modem events in interrupts, poll | datapoint queue, system workqueue |
| SDI-12 `cores/interface/src/sdi12/*.c` | command and response queue, UART buffers, `tx_sem`, `rx_sem` | shell command, thread, UART callback | shell, UART driver |
| heartbeat `lib/heartbeat/heartbeat.c` | one timer, `heartbeat_state` | start, stop, the timer's interrupt | the pin of a LED, `main` |
| core start-up `cores/*/src/main.c`, `sensors/sensors.c` | none | initialisation in order, then a loop of notifications | everything, once |
| board `boards/skwort/sense_core/board.c` | the levels of the load switches | `sense_core_init`, before `main` | whatever the switches supply |

What is hard, and what makes each part correct:

- **ICMP server.** One frame passes by pointer through caller, queue, ICMP thread, interrupt and
  workqueue; the handlers change the in-flight table with a lock they may not have; a response may be
  late, repeated or never come; allocation and enqueueing can fail half way. Correct: every frame has
  one owner and is freed once; the dispatch singleton is not overwritten; bitmap, table and commands
  agree; every accepted command is answered or dropped, once; reception never stalls.
- **Data path.** The flush of one SD buffer sleeps while the other one is filled, with no lock between
  them. Correct: the file holds the lines whole and in order; the buffers are not swapped under a
  flush; no poller stops for good.
- **Cellular.** The creator stores a state after the thread it describes has started; error states are
  visible before the thread has ended; slab and queue are exhausted together or not at all. Correct:
  the state clients read agrees with the thread; packets have one owner; start-up ends.
- **Remote commands.** Neither GET nor DELETE is acknowledged and DELETE names no command. Correct: no
  command is removed without having been executed, and none takes effect out of order.
- **SDI-12.** A time-out crosses the release of the receive buffer, and then the thread waits without
  limit. Correct: that wait ends; no credit or answer is left over for the next command.

- **UART link.** The ICMP thread packs the transmit buffer anew every 5 ms while the DMA may still be
  sending from it: the longest frame, 70 bytes, takes 6.1 ms at 115200 baud. Frames less than the receive
  time-out of 10 ms apart end up in one receive buffer, of which only the first frame is read. When the
  slab is exhausted or the buffer is malformed it is not cleared. Correct: what arrives is what was sent,
  once and in order; frames far enough apart arrive; reception always restarts.
- **GNSS.** Interrupts overwrite the last fix while the poll reads it, and the modem reports its sleep
  right after the fix, upon which the poll does nothing until it wakes up. Correct: each fix that was
  read is submitted, whole, before it is overwritten.
- **Start-up.** Every part may be missing or fail, work items run and commands arrive before the start-up
  is over. Correct: a failure stays where it is; nothing is used before it is initialised.

`PROJECT.json` lists the hazards line by line, each with its properties or the reason it has none.

## 2. Modules

| module | models | used by |
|---|---|---|
| `CommandLifecycle` | abstract: what the issuer of a command is promised | `Icmp` (refinement) |
| `Icmp` | the ICMP server and the receive interrupt | `MCIcmp`, `IcmpProofs` |
| `LossyChannel` | abstract: what the ICMP server relies on of the link | `IcmpPhyUart` (refinement) |
| `IcmpPhyUart` | one direction of the UART link, with the frame codec | `MCIcmpPhyUart`, `IcmpPhyUartProofs` |
| `Workqueue` | the system workqueue (external), as two actions | `SdCard`, `SensorPoll` |
| `SdCard` | the SD card writer, to the cell | `DataPath` |
| `SensorPoll` | pollers and the datapoint queue | `DataPath` |
| `DataPath` | pollers, datapoint thread and writer composed over one workqueue | `MCDataPath`, `DataPathProofs` |
| `Gnss` | the modem's events and the GNSS poll | `ControlCore` |
| `ControlCore` | board and core start-up, heartbeat, first commands, composed with `Gnss` | `MCControlCore`, `ControlCoreProofs` |
| `Uplink` | abstract: what the senders of packets are promised | `Cellular`, `RemoteCommands` (refinements) |
| `Cellular` | cellular library, slab, queue and backend | `MCCellular`, `CellularProofs` |
| `AtLeastOnce` | abstract: what the issuer of remote commands is promised | `RemoteCommands` (refinement) |
| `RemoteCommands` | poll, execution and DELETE against an external server and network | `MCRemoteCommands`, `RemoteCommandsProofs` |
| `Sdi12` | shell command, thread, UART callback; the UART and the sensor are external | `MCSdi12`, `Sdi12Proofs` |
| `IcmpProofs`, `IcmpLifecycleProofs` and the six `...Proofs` above | theorems, section 5 | |

Conventions. A thread is a program counter (`pc`, `thread`, `icmp_thread`, `handler`), and one action
is what it does between two points where another thread can run and make a difference. What the
cooperative workqueue runs without sleeping is one action. A call that returns an error and changes
nothing is a disabled action. Variables marked *history* are not in the code; properties use them.

### Icmp

`icmp_command` is four steps: `CommandLock` (mutex taken with `K_NO_WAIT`, lowest free id),
`CommandStore` (the read-modify-write of the bitmap, the table entry, the unlock), `FrameAlloc` and
`Enqueue`, with their failures. `icmp_respond` and `icmp_notify` share the last two. The ICMP thread is
`PhyInit`, then the loop `TxDequeue`/`TxEmpty`, `TxStamp`, `TxSend`, `RxDispatch`/`RxIdle`. The dispatch
handler is two actions, up to the callback and from its return on, so that with
`BlockingCallbacks = TRUE` everything else runs while a callback sleeps; with `FALSE` no thread does.
The handler's bounded wait for the mutex (30 ms, 20 ms) is a choice: it gets the mutex when it is
free, and gives up when it is held. Interrupts and the peer act at any time: the peer answers what has
reached it as often as it likes, in any order.

Payloads are abstracted to the command they belong to, time stamps to ages that saturate just above
`MAX_AGE`. `fate` records what has become of each command; a callback or a drop for a command that is
not in flight makes it `misfired`, a value that `CommandLifecycle` does not have.

### IcmpPhyUart

Two cores have two such directions, which share nothing. Buffers are made of cells of a few bytes; a cell
is told by its frame and its place, a tick is the time of one cell on the wire. `Send` is
`icmp_phy_uart_send`: it packs the transmit buffer whether or not the DMA is idle, and `uart_tx` refuses
when it is not. `TransmitCell` reads the buffer as it is at that moment, so a frame can be sent whose
head is of one frame and whose tail is of the next. `RxBufReleased`, `RxStopped` and `RxDisabled` are the
cases of `icmp_uart_cb`. `Whole` is `icmp_frame_unpack`: it looks at as many cells as the first one
says, and accepts them if they are those of one frame. Two frames of the same content are mixed
unnoticed in the code, and harmlessly: the mixture is both. `LossyChannel` numbers the frames and says
that the numbers that arrive increase; it is also what `Icmp` assumes of its peer, weakened there to any
order.

### DataPath

The writer's buffers are arrays of cells; a line is copied and written cell by cell, so a swap under a
running flush mixes lines in the model just as in memory. The card may fail at the mount, the open and
after any written cell. The pollers have numbers of readings in place of sensors; a sensor's failure
skips readings. Time is abstracted: a scheduled item may become due at any moment.

### Gnss, ControlCore

`Gnss` has every event of `gnss_event_handler` and cuts the poll handler wherever an interrupt may come:
at the flag, the semaphore, the look at the flags of the fix, and before each of the five values it
submits. `submitted` means handed to `submit_float_datapoint`: the handler ignores its return value, and a
full datapoint queue drops what it is given, in `Gnss` without a trace and in `SensorPoll` as `Submitted`. Time is counted in ticks between events and polls, because what decides is whether the poll after
a wake-up comes before the first event of the new search. The modem is external: what follows what is
taken from the comments of `gnss.c`.

`ControlCore` has the calls of `sense_core_init`, `main` and `sensors_init` in their order; `main` counts
those that are over. Each part may fail, each sensor may be left out of the build. The pollers, the
SD card writer and commands run as soon as something can schedule them, long before `main` is in its
loop. Which load switch supplies the I2C sensors is a fact of the board that the device tree does not
state; `Unpowered` takes it to be `ls_sensors`. A GNSS that is started runs the steps of `Gnss` in between.

### Cellular, RemoteCommands, Sdi12

`Cellular` splits `cellular_init` at its check, the creation of the thread and the store of `STARTING`,
and the thread at each stage of `init_cellular_stack` and each step of its loop; the receive callback
sends from inside the thread. Between the two stands `Uplink`, a bounded queue: `Cellular` implements it,
with the packet in the thread's hand as its head, and `RemoteCommands` uses it, with a datapoint thread
that shares it. `Poll` is the whole poll handler and has no guard; when its item expires, against which
state of the network, is `PollExpires`, the environment's part. `AtLeastOnce` is what the poll promises: it has only what was issued, what is off the server
and what was executed last. `Sdi12` models the UART driver by what `sdi12.c` relies on: one
release of the buffer for each time reception is enabled. `uart_tx` and `uart_rx_enable` may fail; the code
ignores what the latter returns, and `rx_failed` remembers it for the last command. Its thread is split at
every semaphore and UART call.

## 3. Runs

| run | bounds | distinct states | shows |
|---|---|---|---|
| `icmp_sleeping_callbacks` | 2 callers, 2 commands, 3 blocks, queues of 2, 2 ids, callbacks may sleep | 1,394,090 | `FrameOwnership`, `DispatchSlot`, `MismatchIsLate`, refinement of `CommandLifecycle` |
| `icmp_inflight` | 2 callers, 2 commands, 2 blocks, queues of 2, 2 ids, callbacks do not sleep, fairness | 108,810 | `TypeOK`, `NoFrameLeaked`, `InflightTable`, `PendingUnlessFailed`, `AcceptedResolves`, `FramesAreFreed` |
| `icmp_uart` | 4 frames of 1 to 3 cells, loop of 2 ticks, time-out of 5 | 56,048 | `TypeOK`, `SpacedFramesArrive`, `ReceiverRecovers`, refinement of `LossyChannel` |
| `data_path` | 2 pollers (2 and 1 readings), datapoint queue of 1, buffers of 10, 23 lines | 765,075 | `NoOverrun`, `LogWhole`, `LogOrdered`, `PollersAlive`, `PollersKeepPolling` |
| `cellular` | 1 starter, 3 senders, 3 packets | 3,312 | `PacketOwnership`, `RoomForEveryPacket`, `StateMatchesThread`, `StackNotReused`, `StartResolves`, `PacketsAreFreed` |
| `remote_commands` | 4 commands, the third invalid, 3 datapoints, uplink of 2 | 922 | `TypeOK`, `ExecutedInOrder` (refinement of `AtLeastOnce`), `CommandsComplete` |
| `sdi12` | 1 shell, 2 commands, queues of 4 | 972 | `ReleaseWillCome`, `AtRest`, `ResponseIsCurrent`, `CommandReturns` |
| `control_core` | poll 2, PVT 4, wait 1 tick, 2 fixes, 2 load switches, 2 sensors | 723,257 | `TypeOK`, `FailuresAreIsolated`, `ScheduledWasInitialised`, `FixIsHeld`, `FixIsSubmitted` |
| four more | see section 4 | | disagreements of code and documentation |

Why the bounds are enough to be interesting:

- *icmp*. An id is used again as soon as its command is answered or dropped, while answers to it are
  still on their way; the slab is exhausted; with three blocks and queues of two, queues overflow; one
  command has no callback; the peer's frames compete with answers. `MAX_AGE = 0` makes an entry expire at
  the first tick: a larger one only delays it. `icmp_inflight` has no symmetry, as it checks liveness.
- *icmp_uart*. Three cells are the least that let a frame be overtaken while it is sent (3 > 2) with
  something of it on either side; the time-out is twice the loop, as in the code (10 ms, 5 ms), and a
  tick. Four frames: one that leaves its cells behind, one that is mixed with the next, that one, and one
  after the silence. Frames as short as one cell let several fit in one receive buffer.
- *control_core*. A tick is 250 ms. The second fix is the one that would overwrite the first. `ls_sensors`
  is the load switch whose failure disables sensors and `ls_5vh` the one that commands switch; all I2C
  sensors are treated alike, so one stands for them, and three more are left out of this build. The
  workqueue delays the poll by less than 500 ms. `BUSY = 2`, a delay of 500 ms, violates `FixIsHeld`: a
  flush of the SD card that takes so long right after the modem's wake-up costs a fix. A fix is submitted
  by the poll before the modem reports its sleep, if that poll comes in time, and otherwise only after the
  modem's next wake-up, by default two minutes later, with the time of its submission; it may be submitted
  twice, because the modem reports it in two events.
- *data_path*. A flush that is submitted waits for what stands before it on the workqueue. Until it is
  over at most these lines arrive: those in the queue, the remaining readings of the poller that runs,
  and one round of every poller pending before it. If they, the line that caused the flush and the
  terminator fit in one buffer whenever a flush is submitted (`FlushFits`, about the state at that
  moment), there is no overrun: section 5 proves it for all sizes. The run has sizes with which `FlushFits`
  holds in every state, even with a full queue and the running poller pending again (`EnoughRoom`, an `ASSUME`
  of `MCDataPath`). Ten is the least size that does; with `BUFFER_SIZE = 9` TLC finds `NoOverrun` violated.
  23 lines fill the two buffers often enough for each to be reused.

  The default sizes of the code do not have `EnoughRoom`. One round of all pollers is 18 readings (humidity
  and temperature 2, magnetometer 3, accelerometer and gyroscope 6, ADCs 2, and the 5 of one GNSS fix, whose
  handler is for the data path a poller that often reads nothing), in lines of at most 48 bytes. By
  `OverrunNeedsBacklog` with k = 2, (1 + 2 + 18) × 48 = 1008 < 1024: a buffer of 1024 bytes is overrun only if,
  when a flush is submitted, more than two datapoints are queued, or the poller that runs is pending
  again, or a GNSS poll finds both events of a fix and submits ten. Nothing enforces that; the priority of
  the datapoint thread (6, below the cellular thread) does not, and the queue has ten slots.
- *cellular*. Every sender can hold a packet while the queue holds others; the thread fails at every
  stage and is started again.
- *remote_commands*. Two commands before the invalid one let a DELETE meet the wrong command; the
  datapoint thread can exhaust the uplink at each step. `MaxPosts` bounds how often.
- *sdi12*. Two commands tell a stale answer from a current one.

Assumptions that the runs make and the reader should know:

- `cellular` has `StarterYields = FALSE`: `main` runs at priority 0 and is not preempted by the cellular
  thread at 5. With `TRUE` both `StateMatchesThread` and `StartResolves` fail, because `STARTING` is
  stored over what the thread has stored. It also has `RestartWaits = TRUE`; section 4 has the other.
- `remote_commands` has `Promptly = TRUE`: messages are delivered once, or lost, before the next poll
  ten seconds later. With `FALSE` `RemovedWasExecuted`, `ExecutedInOrder` and `CommandsComplete` fail: a
  late DELETE removes a command nobody has executed. Nothing in `remote_commands.c` enforces it, so a
  delayed message is outside what the run shows, and it stands in `PollExpires`, not in `Poll`. The server, its queue and the meaning of DELETE
  are external and modelled from how `remote_commands.c` uses them.
- `sdi12` has one shell, as the core is configured. A command takes at most 21 ms before its
  transmission, 658 ms for its 79 characters at 1200 baud, 100 ms for the answer and 5 ms after it,
  less than the shell's 1000 ms; that is why `ShellTimeout` waits for the thread, or for the thread to be
  stuck. With two shells nothing pairs a response with its command. If `uart_rx_enable` (`sdi12.c:151`)
  fails with reception off, no release is to come and the `K_FOREVER` wait at line 184 does not end: the
  thread is then `Stuck`, and every later command of the shell times out. The model has that. `ReleaseWillCome` excludes the command it happened to, and no other;
  `CommandReturns` holds all the same.

### Fairness

Only what the scheduler gives is assumed. A thread that can run at infinitely many moments runs (strong
fairness: others preempt it and return the processor), the workqueue runs what it is given, timers
expire, time passes. A driver operation that has a time-out, or that cannot fail to end, ends (a UART
transmission; the disabling of a reception; `fs_write`). Nothing is assumed of users, sensors, the SD
card, the peer, or the sender and the state of the UART line. There are two exceptions: the network in
`remote_commands` does not lose everything for ever, and the modem in `control_core` reports what is due:
its sleep after a fix, and some day that it wakes up. `StartResolves` assumes nothing of the network:
waiting for it has a time-out.

### Faulty variants

Some definitions are preceded by a variant with a plausible bug. The model does not use it; put in
place of the definition it must violate the property on the right, so the property does depend on
that code.

| run | definition | variant | bug | violates |
|---|---|---|---|---|
| `icmp_sleeping_callbacks` | `Enqueue` | `EnqueueAndFree` | the sender frees the frame it has queued | `FrameOwnership` |
| | `CanDispatch` | `CanAlwaysDispatch` | `icmp_work_sem` not taken | `DispatchSlot` |
| | `FreeMsgIds` | `FreeMsgIdsUnchecked` | ids allocated without a look at the bitmap | `MismatchIsLate` |
| | `ClearEntries` | `ClearNothing` | answered entry not cleared | `CommandLifecycle` |
| `icmp_inflight` | `FreeMsgIds` | `FreeMsgIdsFromOne` | ids counted from one, not from zero | `TypeOK` |
| | `ReleaseContext` | `ReleaseContextOnly` | frame not freed after dispatch | `NoFrameLeaked` |
| | `ClearEntries` | `ClearEntriesOnly` | bit not unset | `InflightTable` |
| | `Stamped` | `StampedIfUnlocked` | no stamp when the mutex is held | `PendingUnlessFailed` |
| | `TimedOut` | `TimedOutIfAwaited` | commands without callback not dropped | `AcceptedResolves` |
| | `ReleaseContext` | `ReleaseFrameOnly` | semaphore not given back | `FramesAreFreed` |
| `icmp_uart` | `ReleaseDue` | `ReleaseDueIfSilent` | a full buffer is not released | `TypeOK` |
| | | `ReleaseDueIfFull` | no time-out | `ReceiverRecovers` |
| | `Whole` | `WholeInClearedBuffer` | what follows the frame must be zero | `SpacedFramesArrive` |
| | `Enqueued` | `EnqueuedNotCleared` | receive buffer not cleared | `LossyChannel` |
| `data_path` | `IsFull` | `FullIfPast` | no room kept for the terminator | `TypeOK` |
| | `FlushStart` | `FlushStartDetached` | flush beside the workqueue | `NoOverrun` |
| | `Swap` | `SwapUnterminated` | no terminator | `LogWhole` |
| | `Open` | `OpenActiveBuffer` | the wrong buffer is written | `LogOrdered` |
| | `ReadingFails` | `ReadingFailsReturns` | return without rescheduling | `PollersAlive` |
| | `Mount` | `MountWaits` | the handler hangs without a card | `PollersKeepPolling` |
| `control_core` | `PvtRead` | `PvtReadCounted` | semaphore without a limit | `TypeOK` |
| | `Set` | `SetUnlessAnyFails` | return at the first port that is not ready | `FailuresAreIsolated` |
| | `StartUp` | `CellularFirst` | cellular and commands before the sensors | `ScheduledWasInitialised` |
| | `Reschedule` | `RescheduleAsPvt` | a poll as seldom as the modem's events | `FixIsHeld` |
| | `Poll` | `PollDrained` | semaphore emptied while the modem sleeps | `FixIsSubmitted` |
| `cellular` | `Registered` | `RegisteredCounts` | semaphore without a limit | `TypeOK` |
| | `UplinkDequeue` | `UplinkDequeueAndFree` | packet freed before it is sent | `PacketOwnership` |
| | `UplinkQueueMaxItems` | `UplinkQueueTooShort` | queue shorter than the slab | `RoomForEveryPacket` |
| | `InitialiseSocket` | `InitialiseSocketGoesOn` | no return after a socket error | `StateMatchesThread` |
| | `MayStart` | `MayStartUnlessRunning` | a start while one is under way | `StackNotReused` |
| | `Fail` | `FailRetries` | a failing stage starts over | `StartResolves` |
| | `Transmit` | `TransmitFreesIfSent` | packet not freed when `send` fails | `PacketsAreFreed` |
| `remote_commands` | `Sent` | `SentAnyway` | full uplink not noticed | `TypeOK` |
| | `Deletes` | `DeletesUnlessNone` | invalid commands deleted too | `ExecutedInOrder` |
| | | `DeletesOnce` | no DELETE for a command executed again | `CommandsComplete` |
| `sdi12` | `Released` | `ReleasedCounts` | semaphore without a limit | `TypeOK` |
| | `Dequeue` | `DequeueNotEnabled` | reception not enabled | `ReleaseWillCome` |
| | `Disable` | `DisableOnly` | no wait for the release | `AtRest` |
| | `Dequeue` | `DequeueNotCleared` | receive buffer not cleared | `ResponseIsCurrent` |
| | `ReceiveTimeout` | `ReceiveWaitsForData` | time-out only after data | `CommandReturns` |

## 4. What the code does and the documentation does not say

Each is a run of its own, with one property that TLC finds violated; `PROJECT.json` quotes the lines.

- `icmp_pending_forever`, `PendingIsOnItsWay`. `icmp_command` enters the command in the table and then
  fails for lack of a frame; the entry is never dropped and its id never comes back.
  `PendingUnlessFailed` and `AcceptedResolves` say what does hold.
- `icmp_late_response`, `ResponseMatchesCommand`. The response to a dropped command runs the callback
  of the later command that got its id. `MismatchIsLate` says what does hold: nothing but such a response
  reaches another command's callback.
- `icmp_ignored_lock`, `InflightTable`. After a callback that sleeps, the handler changes the bitmap
  while a caller holds the mutex; the caller's store brings the freed bit back for good.
- `cellular_restart`, `StackNotReused`. The error state is stored before the thread ends; a client that
  restarts at once reuses the stack of a live thread.

## 5. Proofs

Each theorem holds for every value of the constants that satisfies the assumptions of its module and
those in the third column.

| module | theorem | assumes | states |
|---|---|---|---|
| `IcmpProofs` | `TypeCorrect` | | `TypeOK`; in particular no id outside the table |
| | `SingleDispatch` | | `DispatchSlot` |
| | `FramesAreOwned` | | `FrameOwnership` |
| | `SlabDoesNotShrink` | no more blocks than a queue has slots (the default, 8 and 8) | `NoFrameLeaked` |
| `IcmpLifecycleProofs` | `ImplementsLifecycle` | | the refinement of `CommandLifecycle` |
| | `InflightIsBounded` | | no more commands in flight than entries of the table |
| | `OutcomesAreFinal` | | a command that was answered or dropped stays so |
| | `MismatchesAreLate` | | `MismatchIsLate` |
| | `TableAgrees` | callbacks do not sleep | `InflightTable` |
| | `PendingIsQueued` | callbacks do not sleep | `PendingUnlessFailed` |
| `IcmpPhyUartProofs` | `TypeCorrect`, `Refinement` | | `TypeOK`, the refinement of `LossyChannel` |
| | `ReceivedOnceInOrder` | | what arrives was sent, once and in order |
| | `SpacedArrive` | | `SpacedFramesArrive` |
| `DataPathProofs` | `TypeCorrect`, `PollersStayAlive` | | `TypeOK`, `PollersAlive` |
| | `BuffersNotOverrun` | of the behaviour: `[]FlushFits` | `NoOverrun` |
| | `OverrunNeedsBacklog` | (1 + k + readings of a round) × longest line < buffer | no overrun unless, as a flush is submitted, more than k datapoints are queued or the running poller is pending again |
| | `LogIsWhole` | | `LogWhole` as long as there was no overrun |
| | `LogIsOrdered` | of the behaviour: `[]NoOverrun` | `LogOrdered` |
| `ControlCoreProofs` | `IsolatesFailures` | | `FailuresAreIsolated` |
| | `InitialisedFirst` | | `ScheduledWasInitialised` |
| | `TypeCorrect`, `HoldsFix` | `PollsInTime` | `TypeOK`, `FixIsHeld` |
| `CellularProofs` | `TypeCorrect`, `RoomInQueue` | | `TypeOK`, `RoomForEveryPacket` |
| | `PacketsAreOwned`, `ThreadIsExclusive` | `OneStarter` | `PacketOwnership`, `StackNotReused` |
| | `ImplementsUplink` | `OneStarter` | the refinement of `Uplink` |
| | `StateIsTrue` | `OneStarter`, `~StarterYields` | `StateMatchesThread` |
| `RemoteCommandsProofs` | `TypeCorrect` | | `TypeOK` |
| | `DeliversInOrder`, `RemovesExecuted` | `Promptly` | `ExecutedInOrder`, the refinement of `AtLeastOnce`; `RemovedWasExecuted` |
| | `UsesUplink` | | the refinement of `Uplink` |
| `Sdi12Proofs` | `TypeCorrect`, `NoLostRelease`, `CleanBetweenCommands` | | `TypeOK`, `ReleaseWillCome`, `AtRest` |
| | `OwnResponse` | one shell | `ResponseIsCurrent` |

The assumptions are not for convenience: the runs of section 4, or the values named in section 3, show
properties violated without them. `OneStarter` is one client that waits for the thread's end before it
starts it again; `~StarterYields` that the thread cannot preempt it, as `main` at priority 0 is not
preempted at 5. Only the stored state needs the latter: packets and the thread object are safe whatever
the priorities. `FlushFits` is a condition on the moments at which a flush is submitted, explained in section 3;
that the buffers are not overrun is all that the two theorems on the log need, and of
the sizes only `OverrunNeedsBacklog` assumes more than that a line fits in a buffer.
`PollsInTime` is `POLL + BUSY < PVT`: the interval of the GNSS poll and the longest wait for the workqueue
are together less than the second between two PVT events.

The arguments:

- *Frames* (`IcmpProofs`). `TypeOK` alone is not inductive: `TxSend` and `CommandStore` use `tx_frame`
  and `out[c]` without looking, so `Locals` says what they hold at each program counter. A response
  callback is told its command by the table, so `CallbacksHaveOwner` says that an entry with a callback
  has one. `DispatchSlot` ties semaphore, context, queued item and running handler together; without it
  the handler could find no context. `Separate(Held, Allocated)` says that what the owners hold is
  allocated and disjoint; with `NoDuplicates` of both queues it is what makes freeing one block harmless
  to the others. It is stated over an arbitrary function from owners to sets of blocks, so that the four
  moves a block can make are four lemmas, `AllocateSeparate`, `PassSeparate`, `FreeSeparate`,
  `ForgetSeparate`. No leak is a separate argument: `Covered` (every allocated block has an owner) is
  lost only by `EnqueueFails` and `ReceiveFull`, and `FullQueue` shows by counting that, when the slab
  fits the queues, a full queue holds every block, so there is none to lose.
- *Commands* (`IcmpLifecycleProofs`, on the same invariant). The lock that a sleeping callback ignores
  spoils the bitmap, but never so that a bit in use is unset. That is `TableInv`: `Entered` says that a
  command in flight has exactly one entry and that its bit is set, and that an entry belongs to a command
  in flight or to the one whose callback runs; `Critical` says of the caller between its two reads of
  the bitmap that bits may have been unset since the first, but none set. It is inductive with sleeping
  callbacks, and gives the refinement. If they do not sleep nothing happens between the two reads
  (`InStep`), and bitmap and table agree. `WayInv` follows the frame of a pending entry through caller,
  queue and ICMP thread. `MismatchIsLate` needs neither. `BoundInv` says of every frame there is, whether at a
  caller, in a block or with the peer, that it bears the id of its command's entry as long as that command
  is in flight: what parts a frame from its entry is the end of the command, and a new entry is made
  only where there is none. `OriginInv` adds that a response that comes in belongs to a command of this
  core, and follows blocks along the two paths to tell what comes in from what goes out.
- *UART link*. `Fresh`: if the receive buffer begins with the head of a frame, that frame is later than
  all that have arrived, and if the DMA is about to send a head, it is later still. That the transmit
  buffer is packed anew under the DMA does not disturb this, because what it is packed with is later.
  `DueInv` follows a frame that is to arrive: it is being sent and what was sent of it is at the start of
  the receive buffer (`Going`), or it is there whole (`There`), or it has arrived; what else is in
  either buffer does not matter, because `Whole` looks at no more cells than the first one says.
- *Pollers*. A poller that is neither scheduled nor queued is running. A handler of the SD card writer
  runs in no poller's place, because it has begun exactly if the workqueue runs the flush.
- *SD card writer*. `NoOverrun` is an argument by counting (`RoomInv`). While a flush is outstanding,
  `Coming` counts the lines that may still arrive before it is over: the one in hand, the queue, the
  remaining readings of the poller that runs, and the readings of the pollers `Ahead` of the flush on the
  workqueue. No step makes `Done + Coming` larger, as a poller that is submitted now stands behind the flush
  and none stands there twice; `HasRoom` says that these lines fit behind what is in the active buffer.
  `FlushFits` is what establishes it when the flush is submitted; `RoomInBytes` and `FlushFitsIf` turn a count
  of lines into one of bytes. `LogInv` needs none of this, but that the buffers are not swapped
  under a flush (`SwapInv`, as long as there was no overrun). Then only one side works on each
  buffer: what is left of the flush and `Filling`, what is in the active buffer up to its end, are together
  what is not in the file, and the flush finds the end of its buffer by the terminator of the swap
  (`StrnLenFacts`), whatever an earlier filling has left behind. `OrderInv` says of the same sequence
  that it is in order and later than the file, which a failure that drops part of it does not disturb.
- *Start-up* (`StartInv`). What the calls that are over have done, each by its position in the start-up;
  and that nothing can be scheduled from outside before the call that makes it possible. *Fix*
  (`GnssInv`): whatever was read and not submitted is still to be taken by the poll or being submitted;
  while that is so the modem is past the fix, asleep, or awake with its next event after the next poll.
- *Packets and thread*. `NoneShared` holds unconditionally, and with it there is always room in the queue,
  by counting. That none is lost needs the thread not to be replaced while it holds a packet: `Away` says that
  whenever the state permits a start, and until the thread is created, there is no thread or one about to
  end. The refinement of `Uplink` follows: the packet in the thread's hand and the queue behind it are one
  queue, whose head leaves only after `send`. `StateInv` adds, for a client that is not preempted, that
  between the creation and the store of `STARTING` the thread has not run.
- *Remote commands*. One message of a poll is on its way at a time (`OneMessage`), and it speaks of the
  head of the server's queue (`HeadOfServer`), from which everything before was executed. So a DELETE that
  arrives maps to the `Remove` of the command executed last, and the response to a GET to an `Execute` of
  the head. That variables keep their types needs none of this.
- *SDI-12*. Once a command is taken reception is on, or its release was reported, or it could not be
  enabled for this command (`Release`). With one shell there is one command, in one place (`OneAtATime`);
  only a stuck thread leaves commands in the queue that nobody waits for, and then there are no responses.

Only model-checked: liveness, which under fairness is outside the prover's reach, like ENABLED
(`AcceptedResolves`, `FramesAreFreed`, `ReceiverRecovers`, `PollersKeepPolling`, `StartResolves`,
`PacketsAreFreed`, `CommandsComplete`, `CommandReturns`, `FixIsSubmitted`). Every invariant and every action
property that a passing run checks is proved. The refinements of `Uplink` are proved and are in no run, and
so is `RemovedWasExecuted`, which the refinement of `AtLeastOnce` that `remote_commands` checks implies.
No module has recursive operators.

## 6. Not modelled

- *Frame codec*: that a CRC of 16 bits accepts a mixture of frames once in 65536; `Whole` accepts none.
- *UART PHY*: a second receive buffer, which the code never supplies; failures of its `uart_rx_enable`, after
  which the core receives nothing until it is reset (those of SDI-12 are in `Sdi12`).
- *Datapoint formats*, *CoAP packets*: pure functions, abstracted to a line's length and to model values.
- *Heartbeat*: `heartbeat_stop`, which nothing calls, and `heartbeat_state`, which nothing reads.
- *Interface core*: its `main` starts ICMP and the heartbeat and notifies once a second, like the control
  core's, unless the shell's USB device is not ready.
- *Initialisation failures* of the SDI-12 pins and UART, whose thread then ends (the one of the ICMP PHY is
  in `Icmp`); calls with invalid arguments, which change no state.
- *Board files, device trees, CDDL schemas, CI scripts*: no behaviour of the program.

## 7. Plan

What is left:

1. `IcmpLink`: two instances of `Icmp` over two of `LossyChannel`, for what one core's command and the
   other's target callback see of each other.
2. Whether the default sizes can be overrun in practice needs a bound on how far the datapoint thread falls
   behind, which is the scheduling of five threads; without one the queue may be full.
