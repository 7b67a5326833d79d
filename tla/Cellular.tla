------------------------------ MODULE Cellular ------------------------------
(***************************************************************************)
(* The cellular module of the control core: lib/cellular/cellular.c with   *)
(* its packet slab and uplink queue (cellular_packet.c, cellular_queue.c)  *)
(* and its nRF91 backend (cellular_backend_nrf.c).                         *)
(*                                                                         *)
(*   - starters call cellular_init, as often as they like;                 *)
(*   - senders call cellular_send_packet; one of them, RecvCallback, is    *)
(*     the receive callback that the cellular thread itself calls;         *)
(*   - the cellular thread brings the backend, the remote server and the   *)
(*     socket up and then sends and receives, or fails and ends;           *)
(*   - the modem reports network registrations at any time.                *)
(*                                                                         *)
(* cellular_init creates the thread in a static object, over whatever is   *)
(* there.  A thread object that was created over a live thread is beyond   *)
(* what the model says: it records the fact in reused.                     *)
(*                                                                         *)
(* Some definitions are preceded by a faulty variant of themselves, which  *)
(* the model does not use; see README.md.                                  *)
(***************************************************************************)
EXTENDS Integers, FiniteSets, Sequences

CONSTANTS
    Starters,         \* threads that call cellular_init
    Senders,          \* threads that call cellular_send_packet
    RecvCallback,     \* the sender that is the receive callback
    Packets,          \* blocks of cellular_packet_slab
    StarterYields,    \* may the cellular thread run while a starter is inside
                      \* cellular_init (its priority is not below the starter's)?
    RestartWaits,     \* does a starter that saw an error state wait for the
                      \* thread's end before it calls cellular_init again?
    NULL

ASSUME CellularAssumption ==
    /\ IsFiniteSet(Packets) /\ NULL \notin Packets
    /\ RecvCallback \in Senders
    /\ StarterYields \in BOOLEAN /\ RestartWaits \in BOOLEAN

\* CONFIG_CELLULAR_UPLINK_QUEUE_MAX_ITEMS sizes the queue and the slab.
UplinkQueueTooShort == Cardinality(Packets) - 1
UplinkQueueMaxItems == Cardinality(Packets)

VARIABLES
    cellular_state,
    thread,           \* how far the cellular thread is, "none" if it has ended
    reused,           \* history: a thread was created over a live one
    starter,          \* per starter: how far it is in cellular_init
    lte_connected,    \* the count of lte_connected_sem
    listening,        \* has lte_event_handler been registered?
    used,             \* the allocated blocks of cellular_packet_slab
    uplink_queue,
    uplink_packet,    \* the thread's local variable, NULL when freed
    packet            \* per sender: the packet it has allocated

startup == <<cellular_state, thread, reused, starter>>
modem == <<lte_connected, listening>>
uplink == <<used, uplink_queue, uplink_packet, packet>>
vars == <<startup, modem, uplink>>

\* The stages of the thread: init_cellular_stack, the loop, and the time between
\* the store of an error state and the end of the thread.
Starting == {"modem", "connect", "resolve", "socket", "up"}
Loop == {"send", "transmit", "recv", "callback"}
Stages == Starting \cup Loop \cup {"ending", "none"}

ErrorStates == {"BACKEND_ERROR", "REMOTE_SERVER_ERROR", "SOCKET_ERROR"}

Init ==
    /\ cellular_state = "UNINITIALISED"
    /\ thread = "none" /\ reused = FALSE
    /\ starter = [s \in Starters |-> "idle"]
    /\ lte_connected = 0 /\ listening = FALSE
    /\ used = {} /\ uplink_queue = <<>> /\ uplink_packet = NULL
    /\ packet = [c \in Senders |-> NULL]

\* A starter of higher priority is inside cellular_init: the thread waits.
ThreadMayRun == StarterYields \/ \A s \in Starters : starter[s] = "idle"

----------------------------------------------------------------------------
\* cellular_init.

\* The call is refused while the state says that a thread is there.
MayStartUnlessRunning == cellular_state # "RUNNING"
MayStart == cellular_state \notin {"STARTING", "RUNNING"}

\* The check of the state.  -EBUSY changes nothing.
InitCheck(s) ==
    /\ starter[s] = "idle"
    /\ MayStart
    /\ RestartWaits /\ cellular_state \in ErrorStates => thread = "none"
    /\ starter' = [starter EXCEPT ![s] = "checked"]
    /\ UNCHANGED <<cellular_state, thread, reused, modem, uplink>>

\* The callback or the backend is NULL.
InitInvalid(s) ==
    /\ starter[s] = "checked"
    /\ cellular_state' = "UNINITIALISED"
    /\ starter' = [starter EXCEPT ![s] = "idle"]
    /\ UNCHANGED <<thread, reused, modem, uplink>>

InitCreate(s) ==
    /\ starter[s] = "checked"
    /\ reused' = (reused \/ thread # "none")
    /\ thread' = "modem"
    /\ starter' = [starter EXCEPT ![s] = "created"]
    /\ UNCHANGED <<cellular_state, modem, uplink>>

\* The thread may have run by now: STARTING replaces whatever it stored.
InitStarting(s) ==
    /\ starter[s] = "created"
    /\ cellular_state' = "STARTING"
    /\ starter' = [starter EXCEPT ![s] = "idle"]
    /\ UNCHANGED <<thread, reused, modem, uplink>>

CellularInit(s) == InitCheck(s) \/ InitInvalid(s) \/ InitCreate(s) \/ InitStarting(s)

----------------------------------------------------------------------------
\* init_cellular_stack.

\* The thread is at this stage and takes its next step.
At(stage) == ThreadMayRun /\ thread = stage

\* A stage fails: the error state is stored, then the thread returns.
FailRetries(error) ==
    /\ thread' = "modem"
    /\ UNCHANGED <<cellular_state, reused, starter, modem, uplink>>
Fail(error) ==
    /\ cellular_state' = error
    /\ thread' = "ending"
    /\ UNCHANGED <<reused, starter, modem, uplink>>

Proceed(stage) ==
    /\ thread' = stage
    /\ UNCHANGED <<cellular_state, reused, starter, uplink>>

\* nrf_modem_lib_init and the registration of lte_event_handler, in
\* initialise_modem.  A modem that is already initialised is not an error.
ModemUp ==
    /\ At("modem")
    /\ \/ Fail("BACKEND_ERROR")
       \/ /\ listening' = TRUE
          /\ Proceed("connect") /\ UNCHANGED lte_connected

\* lte_lc_func_mode_set fails, or k_sem_take times out.
ConnectFails == At("connect") /\ Fail("BACKEND_ERROR")

Connected ==
    /\ At("connect")
    /\ lte_connected = 1 /\ lte_connected' = 0
    /\ Proceed("resolve") /\ UNCHANGED listening

Resolve ==
    /\ At("resolve")
    /\ \/ Fail("REMOTE_SERVER_ERROR")
       \/ Proceed("socket") /\ UNCHANGED modem

InitialiseSocketGoesOn ==
    /\ At("socket")
    /\ cellular_state' \in {cellular_state, "SOCKET_ERROR"}
    /\ thread' = "up"
    /\ UNCHANGED <<reused, starter, modem, uplink>>
InitialiseSocket ==
    /\ At("socket")
    /\ \/ Fail("SOCKET_ERROR")
       \/ Proceed("up") /\ UNCHANGED modem

SetRunning ==
    /\ At("up")
    /\ cellular_state' = "RUNNING"
    /\ thread' = "send"
    /\ UNCHANGED <<reused, starter, modem, uplink>>

\* The thread function returns.
ThreadEnds ==
    /\ At("ending")
    /\ thread' = "none"
    /\ UNCHANGED <<cellular_state, reused, starter, modem, uplink>>

\* lte_event_handler: the network reports a registration.
RegisteredCounts ==
    /\ listening
    /\ lte_connected' = lte_connected + 1
    /\ UNCHANGED <<startup, listening, uplink>>
Registered ==
    /\ listening
    /\ lte_connected' = 1
    /\ UNCHANGED <<startup, listening, uplink>>

----------------------------------------------------------------------------
\* cellular_send_packet.

\* The receive callback runs inside the thread.
SenderMayRun(c) == c = RecvCallback => At("callback")

PacketAlloc(c) ==
    /\ SenderMayRun(c)
    /\ packet[c] = NULL
    /\ \E p \in Packets \ used :
        /\ used' = used \cup {p}
        /\ packet' = [packet EXCEPT ![c] = p]
    /\ UNCHANGED <<startup, modem, uplink_queue, uplink_packet>>

\* k_msgq_put with K_NO_WAIT.  There is no step for a full queue: see
\* RoomForEveryPacket.
UplinkEnqueue(c) ==
    /\ SenderMayRun(c)
    /\ packet[c] # NULL
    /\ Len(uplink_queue) < UplinkQueueMaxItems
    /\ uplink_queue' = Append(uplink_queue, packet[c])
    /\ packet' = [packet EXCEPT ![c] = NULL]
    /\ UNCHANGED <<startup, modem, used, uplink_packet>>

----------------------------------------------------------------------------
\* The loop of cellular_thread_function.

Go(stage) ==
    /\ thread' = stage
    /\ UNCHANGED <<cellular_state, reused, starter, modem>>

UplinkDequeueAndFree ==
    /\ At("send")
    /\ uplink_queue # <<>>
    /\ uplink_packet' = Head(uplink_queue)
    /\ uplink_queue' = Tail(uplink_queue)
    /\ used' = used \ {Head(uplink_queue)}
    /\ Go("transmit") /\ UNCHANGED packet
UplinkDequeue ==
    /\ At("send")
    /\ uplink_queue # <<>>
    /\ uplink_packet' = Head(uplink_queue)
    /\ uplink_queue' = Tail(uplink_queue)
    /\ Go("transmit") /\ UNCHANGED <<used, packet>>

UplinkEmpty ==
    /\ At("send")
    /\ uplink_queue = <<>>
    /\ Go("recv") /\ UNCHANGED uplink

\* send, whatever it returns, and the release of the packet.
TransmitFreesIfSent ==
    /\ At("transmit")
    /\ used' \in {used, used \ {uplink_packet}}
    /\ uplink_packet' = NULL
    /\ Go("recv") /\ UNCHANGED <<uplink_queue, packet>>
Transmit ==
    /\ At("transmit")
    /\ used' = used \ {uplink_packet}
    /\ uplink_packet' = NULL
    /\ Go("recv") /\ UNCHANGED <<uplink_queue, packet>>

\* recv returns nothing or an error, or a datagram for the receive callback.
Receive ==
    /\ At("recv")
    /\ Go("send") \/ Go("callback")
    /\ UNCHANGED uplink

CallbackReturns ==
    /\ At("callback")
    /\ packet[RecvCallback] = NULL
    /\ Go("send") /\ UNCHANGED uplink

LoopStep == UplinkDequeue \/ UplinkEmpty \/ Transmit \/ Receive \/ CallbackReturns

StartupStep ==
    \/ ModemUp \/ ConnectFails \/ Connected \/ Resolve \/ InitialiseSocket
    \/ SetRunning \/ ThreadEnds

Next ==
    \/ \E s \in Starters : CellularInit(s)
    \/ StartupStep
    \/ Registered
    \/ \E c \in Senders : PacketAlloc(c) \/ UplinkEnqueue(c)
    \/ LoopStep

Spec == Init /\ [][Next]_vars

\* Threads are scheduled, so a call of cellular_init goes on and the cellular
\* thread runs; what it waits for has a time-out (CONFIG_CELLULAR_CONN_TIMEOUT) or
\* does not block; a starter that keeps calling cellular_init cannot keep the
\* thread off the processor for ever.  Nothing is assumed of the network, nor that
\* anybody calls cellular_init or cellular_send_packet.
Fairness ==
    /\ \A s \in Starters : WF_vars(InitCreate(s) \/ InitInvalid(s) \/ InitStarting(s))
    /\ SF_vars(StartupStep) /\ SF_vars(LoopStep)
    /\ \A c \in Senders : SF_vars(UplinkEnqueue(c))

FairSpec == Spec /\ Fairness

----------------------------------------------------------------------------
\* Properties.

\* Every variable holds a value of its type; in particular a semaphore that reports
\* the network never counts more than one registration.
TypeOK ==
    /\ cellular_state \in {"UNINITIALISED", "STARTING", "RUNNING"} \cup ErrorStates
    /\ thread \in Stages /\ reused \in BOOLEAN
    /\ starter \in [Starters -> {"idle", "checked", "created"}]
    /\ lte_connected \in {0, 1} /\ listening \in BOOLEAN
    /\ used \subseteq Packets
    /\ uplink_queue \in Seq(Packets)
    /\ uplink_packet \in Packets \cup {NULL}
    /\ packet \in [Senders -> Packets \cup {NULL}]

Queued == {uplink_queue[i] : i \in 1 .. Len(uplink_queue)}

\* Every allocated packet has exactly one owner: a sender that fills it, the queue
\* (once) or the thread.  So none is freed twice, sent after it was given to
\* another sender, or lost, across restarts of the thread too.
PacketOwnership ==
    /\ \A c \in Senders : packet[c] # NULL =>
        packet[c] \in used \ (Queued \cup {uplink_packet})
    /\ \A c, d \in Senders : packet[c] = packet[d] /\ c # d => packet[c] = NULL
    /\ uplink_packet # NULL => uplink_packet \in used \ Queued
    /\ Queued \subseteq used /\ Cardinality(Queued) = Len(uplink_queue)
    /\ used \subseteq Queued \cup {uplink_packet} \cup {packet[c] : c \in Senders}

\* A sender that got a packet finds room in the queue for it: the unchecked failure
\* of cellular_uplink_enqueue, which would leak the packet, cannot happen.
RoomForEveryPacket ==
    \A c \in Senders : packet[c] # NULL => Len(uplink_queue) < UplinkQueueMaxItems

\* What is between a sender's enqueueing and the return of send.
Outgoing == (IF uplink_packet = NULL THEN <<>> ELSE <<uplink_packet>>) \o uplink_queue

Queue == INSTANCE Uplink WITH outgoing <- Outgoing, Items <- Packets,
                              Size <- Cardinality(Packets)

\* To its clients the module is the bounded queue of Uplink: packets are handed to the
\* socket in the order they were enqueued and each one once, and none is forgotten when
\* the thread fails, ends and is started again.
Uplink == Queue!Spec

\* The state that clients are shown agrees with the thread: RUNNING exactly in
\* the loop, STARTING only while the stack comes up, an error only when it did not.
StateMatchesThread ==
    \/ \E s \in Starters : starter[s] # "idle"
    \/ /\ cellular_state = "RUNNING" <=> thread \in Loop
       /\ cellular_state = "STARTING" <=> thread \in Starting
       /\ cellular_state \in ErrorStates => thread \in {"ending", "none"}

\* The thread object and its stack are only given to k_thread_create when the last
\* thread has ended ("Each of the *_ERROR states indicate that the cellular module
\* has stopped").
StackNotReused == ~reused

\* The module does not stay in STARTING: the network comes up, or a time-out ends
\* the attempt.
StartResolves == cellular_state = "STARTING" ~> cellular_state # "STARTING"

\* Once the module runs, every packet that a sender has allocated is sent, or its
\* sending fails, and it comes free again.
PacketsAreFreed ==
    \A p \in Packets : cellular_state = "RUNNING" /\ p \in used ~> p \notin used
=============================================================================
