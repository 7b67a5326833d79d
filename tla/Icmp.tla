-------------------------------- MODULE Icmp --------------------------------
(***************************************************************************)
(* The Inter-Core Message Protocol server of one core: lib/icmp/icmp.c     *)
(* with its frame slab (icmp_frame.[ch]), its two message queues           *)
(* (icmp_queue.[ch]) and the receive side of its UART PHY.                 *)
(*                                                                         *)
(* The threads of the system are                                           *)
(*   - the callers of icmp_command, icmp_respond and icmp_notify, each at  *)
(*     a program counter pc[c], preempted between any two steps;           *)
(*   - the ICMP thread, icmp_thread_function;                              *)
(*   - the system workqueue, which runs icmp_dispatch_handler, the         *)
(*     callbacks and icmp_inflight_timeout_handler.  It is cooperative:    *)
(*     what it runs is one step, except that it waits for the mutex, and   *)
(*     that a callback may sleep if BlockingCallbacks is TRUE;             *)
(*   - the timer and UART interrupts, at any time;                         *)
(*   - the peer core, which answers a command at any time, any number of   *)
(*     times or never.                                                     *)
(*                                                                         *)
(* Some definitions are preceded by a faulty variant of themselves         *)
(* (FreeMsgIdsFromOne, EnqueueAndFree, ...).  The model does not use it;   *)
(* README.md says which property tells it from the code.                   *)
(*                                                                         *)
(* A frame's payload is abstracted to the command it carries or answers.   *)
(* A time stamp is abstracted to the age it gives: SEND_PENDING for the    *)
(* code's 0, otherwise the ticks since, saturating just above MAX_AGE.     *)
(***************************************************************************)
EXTENDS Integers, FiniteSets, Sequences

CONSTANTS
    Callers,            \* threads that call the public functions
    Reqs,               \* commands; each is issued at most once
    NullCallback,       \* the commands issued with cb = NULL
    Blocks,             \* blocks of icmp_slab
    Targets,            \* target ids, 0 .. CONFIG_ICMP_MAX_TARGETS - 1
    MAX_INFLIGHT,       \* ICMP_MAX_INFLIGHT_MSGS
    QUEUE_MAX_ITEMS,    \* ICMP_QUEUE_MAX_ITEMS
    MAX_AGE,            \* CONFIG_ICMP_MAX_INFLIGHT_MSG_AGE, in ticks
    AppFrames,          \* the NOTIFY and RESPONSE frames callers send
    PeerFrames,         \* the NOTIFY and COMMAND frames the peer sends
    BlockingCallbacks,  \* may a callback sleep?
    NULL

Ids == 0 .. (MAX_INFLIGHT - 1)
NotifyId == 255
SEND_PENDING == -1

Frames ==
    {f \in [type : {"COMMAND", "RESPONSE", "NOTIFY"}, target : Targets,
            msg_id : Ids \cup {NotifyId}, body : Reqs \cup {NULL}] :
        f.type # "NOTIFY" => f.msg_id \in Ids}

ASSUME ConstantsAssumption ==
    /\ MAX_INFLIGHT \in 1 .. 32 /\ QUEUE_MAX_ITEMS \in Nat \ {0} /\ MAX_AGE \in Nat
    /\ BlockingCallbacks \in BOOLEAN
    /\ IsFiniteSet(Blocks) /\ IsFiniteSet(Reqs)
    /\ NullCallback \subseteq Reqs

ASSUME FramesAssumption ==
    /\ AppFrames \subseteq {f \in Frames : f.type # "COMMAND" /\ f.body = NULL}
    /\ PeerFrames \subseteq {f \in Frames : f.type # "RESPONSE" /\ f.body = NULL}

\* What icmp_work_ctx holds, and what the handler remembers while it is in a
\* callback: which kind, and for a response callback its user_data.
Contexts == [frame : Blocks, icmp_cb : BOOLEAN]
Activations == [callback : {"response", "target"}, user_data : Reqs \cup {NULL}]

Owners == Callers \cup {"tx_queue", "icmp_thread", "rx_queue", "workqueue"}

ASSUME NullAssumption ==
    /\ NULL \notin Blocks \cup Reqs \cup Callers \cup Frames
    /\ NULL \notin Contexts \cup Activations
    /\ Callers \cap {"tx_queue", "icmp_thread", "rx_queue", "workqueue"} = {}

VARIABLES
    registered,       \* rx_dispatch_cb: has the target a callback?
    mutex,            \* the caller holding icmp_inflight_mutex, or NULL
    seen,             \* the bitmap as the caller holding the mutex read it
    inflight_bitmap,  \* the set of the ids whose bit is set
    inflight_table,   \* icmp_inflight_table
    slab,             \* what each block holds, NULL if it is free
    tx_queue,
    rx_queue,
    icmp_thread,      \* where the ICMP thread is
    tx_frame,         \* its local variable of that name
    work_sem,         \* icmp_work_sem
    work_ctx,         \* icmp_work_ctx; NULL once its frame is freed
    workq,            \* pending items of the system workqueue
    running,          \* the callback icmp_dispatch_handler is in, or NULL
    pc, out, buf,     \* per caller: program counter, the frame icmp_send_frame
                      \* is given, the block it has allocated
    peer,             \* the commands that reached the peer
    fate,             \* history: what has become of each command
    failed            \* history: commands icmp_command refused after it had
                      \* entered them in the table

inflight == <<mutex, seen, inflight_bitmap, inflight_table>>
thread == <<icmp_thread, tx_frame>>
work == <<work_sem, work_ctx, workq, running>>
callers == <<pc, out, buf>>
queues == <<tx_queue, rx_queue>>
vars == <<registered, inflight, slab, queues, thread, work, callers, peer,
          fate, failed>>

----------------------------------------------------------------------------
\* The data the actions work on.

Elements(q) == {q[i] : i \in 1 .. Len(q)}

EmptyEntry == [timestamp |-> SEND_PENDING, callback |-> FALSE, user_data |-> NULL]

FreeBlocks == {b \in Blocks : slab[b] = NULL}

Freed(b) == [slab EXCEPT ![b] = NULL]

\* k_work_submit: an item that is already pending is not queued twice.
Submitted(item) ==
    IF item \in Elements(workq) THEN workq ELSE Append(workq, item)

\* The ids allocate_msg_id chooses from.  It takes the lowest.
FreeMsgIdsUnchecked == Ids
FreeMsgIdsFromOne == (1 .. MAX_INFLIGHT) \ inflight_bitmap
FreeMsgIds == Ids \ inflight_bitmap

\* The bits of ids are unset and their table entries removed.
ClearNothing(ids) == UNCHANGED <<inflight_bitmap, inflight_table>>
ClearEntriesOnly(ids) ==
    /\ inflight_table' = [id \in Ids |-> IF id \in ids THEN EmptyEntry
                                         ELSE inflight_table[id]]
    /\ UNCHANGED inflight_bitmap
ClearEntries(ids) ==
    /\ inflight_bitmap' = inflight_bitmap \ ids
    /\ inflight_table' = [id \in Ids |-> IF id \in ids THEN EmptyEntry
                                         ELSE inflight_table[id]]

\* update_inflight_timestamp: the entry is stamped whoever holds the mutex, and
\* whether or not the id still belongs to the command in the frame.
StampedIfUnlocked(f) ==
    IF f.type = "COMMAND" /\ mutex = NULL
    THEN [inflight_table EXCEPT ![f.msg_id].timestamp = 0]
    ELSE inflight_table
Stamped(f) ==
    IF f.type = "COMMAND"
    THEN [inflight_table EXCEPT ![f.msg_id].timestamp = 0]
    ELSE inflight_table

\* The condition under which the scan of the table drops an entry.
TimedOutIfAwaited(e) == e.callback /\ e.timestamp # SEND_PENDING /\ e.timestamp > MAX_AGE
TimedOut(e) == e.timestamp # SEND_PENDING /\ e.timestamp > MAX_AGE

\* A callback that runs, or a drop, for a command that is not in flight is
\* recorded as a misfire.
Resolved(r, outcome) == IF fate[r] = "inflight" THEN outcome ELSE "misfired"

\* The system workqueue is cooperative: while it is inside a callback that
\* does not sleep, no thread runs.
ThreadsMayRun == BlockingCallbacks \/ running = NULL

\* The ICMP thread has initialised the PHY and started the timer.
Started == icmp_thread \notin {"off", "start", "dead"}

----------------------------------------------------------------------------
Init ==
    /\ registered = [t \in Targets |-> FALSE]
    /\ mutex = NULL /\ seen = {}
    /\ inflight_bitmap = {}
    /\ inflight_table = [id \in Ids |-> EmptyEntry]
    /\ slab = [b \in Blocks |-> NULL]
    /\ tx_queue = <<>> /\ rx_queue = <<>>
    /\ icmp_thread = "off" /\ tx_frame = NULL
    /\ work_sem = 1 /\ work_ctx = NULL
    /\ workq = <<>> /\ running = NULL
    /\ pc = [c \in Callers |-> "idle"]
    /\ out = [c \in Callers |-> NULL]
    /\ buf = [c \in Callers |-> NULL]
    /\ peer = {}
    /\ fate = [r \in Reqs |-> "unused"] /\ failed = {}

\* icmp_register_target, called with a valid target and callback.
RegisterTarget(t) ==
    /\ ThreadsMayRun
    /\ registered' = [registered EXCEPT ![t] = TRUE]
    /\ UNCHANGED <<inflight, slab, queues, thread, work, callers, peer, fate, failed>>

\* icmp_init: the thread is created; it runs when it is scheduled.
IcmpInit ==
    /\ ThreadsMayRun
    /\ icmp_thread = "off"
    /\ icmp_thread' = "start"
    /\ UNCHANGED <<registered, inflight, slab, queues, tx_frame, work, callers,
                   peer, fate, failed>>

----------------------------------------------------------------------------
\* The callers.

\* icmp_command up to the choice of the message id.  -EBUSY when the mutex is
\* held and -EAGAIN when every id is taken change no state.
CommandLock(c, r, t) ==
    /\ ThreadsMayRun
    /\ pc[c] = "idle" /\ fate[r] = "unused"
    /\ mutex = NULL
    /\ \E id \in FreeMsgIds :
        /\ \A j \in FreeMsgIds : id <= j
        /\ out' = [out EXCEPT ![c] = [type |-> "COMMAND", target |-> t,
                                      msg_id |-> id, body |-> r]]
    /\ mutex' = c /\ seen' = inflight_bitmap
    /\ pc' = [pc EXCEPT ![c] = "locked"]
    /\ UNCHANGED <<registered, inflight_bitmap, inflight_table, slab, queues,
                   thread, work, buf, peer, fate, failed>>

\* The rest of the critical section.  `inflight_bitmap |= ...` reads the bitmap
\* again: what it stores is based on the value before or after a change made
\* meanwhile by a handler that does not hold the mutex.
CommandStore(c) ==
    LET id == out[c].msg_id
        r == out[c].body
    IN
    /\ ThreadsMayRun
    /\ pc[c] = "locked"
    /\ \E base \in {seen, inflight_bitmap} : inflight_bitmap' = base \cup {id}
    /\ inflight_table' = [inflight_table EXCEPT ![id] =
            [timestamp |-> SEND_PENDING, callback |-> r \notin NullCallback,
             user_data |-> r]]
    /\ mutex' = NULL /\ seen' = {}
    /\ pc' = [pc EXCEPT ![c] = "alloc"]
    /\ fate' = [fate EXCEPT ![r] = "inflight"]
    /\ UNCHANGED <<registered, slab, queues, thread, work, out, buf, peer, failed>>

\* icmp_respond and icmp_notify.
Send(c, f) ==
    /\ ThreadsMayRun
    /\ pc[c] = "idle"
    /\ out' = [out EXCEPT ![c] = f]
    /\ pc' = [pc EXCEPT ![c] = "alloc"]
    /\ UNCHANGED <<registered, inflight, slab, queues, thread, work, buf, peer,
                   fate, failed>>

\* icmp_send_frame returns to the caller, which may call again.
Return(c) ==
    /\ pc' = [pc EXCEPT ![c] = "idle"]
    /\ out' = [out EXCEPT ![c] = NULL]
    /\ buf' = [buf EXCEPT ![c] = NULL]

\* icmp_send_frame returns an error, and so does icmp_command.
ReturnError(c) ==
    /\ Return(c)
    /\ failed' = failed \cup ({out[c].body} \ {NULL})

FrameAlloc(c) ==
    /\ ThreadsMayRun
    /\ pc[c] = "alloc"
    /\ \E b \in FreeBlocks :
        /\ slab' = [slab EXCEPT ![b] = out[c]]
        /\ buf' = [buf EXCEPT ![c] = b]
    /\ pc' = [pc EXCEPT ![c] = "enqueue"]
    /\ UNCHANGED <<registered, inflight, queues, thread, work, out, peer, fate, failed>>

FrameAllocFails(c) ==
    /\ ThreadsMayRun
    /\ pc[c] = "alloc"
    /\ FreeBlocks = {}
    /\ ReturnError(c)
    /\ UNCHANGED <<registered, inflight, slab, queues, thread, work, peer, fate>>

EnqueueAndFree(c) ==
    /\ ThreadsMayRun
    /\ pc[c] = "enqueue"
    /\ Len(tx_queue) < QUEUE_MAX_ITEMS
    /\ tx_queue' = Append(tx_queue, buf[c])
    /\ slab' = Freed(buf[c])
    /\ Return(c)
    /\ UNCHANGED <<registered, inflight, rx_queue, thread, work, peer, fate, failed>>
Enqueue(c) ==
    /\ ThreadsMayRun
    /\ pc[c] = "enqueue"
    /\ Len(tx_queue) < QUEUE_MAX_ITEMS
    /\ tx_queue' = Append(tx_queue, buf[c])
    /\ Return(c)
    /\ UNCHANGED <<registered, inflight, slab, rx_queue, thread, work, peer, fate, failed>>

\* The queue is full: the call fails and its frame is not freed.
EnqueueFails(c) ==
    /\ ThreadsMayRun
    /\ pc[c] = "enqueue"
    /\ Len(tx_queue) = QUEUE_MAX_ITEMS
    /\ ReturnError(c)
    /\ UNCHANGED <<registered, inflight, slab, queues, thread, work, peer, fate>>

CallerStep(c) ==
    \/ CommandStore(c)
    \/ FrameAlloc(c) \/ FrameAllocFails(c)
    \/ Enqueue(c) \/ EnqueueFails(c)

----------------------------------------------------------------------------
\* The ICMP thread.

PhyInit ==
    /\ ThreadsMayRun
    /\ icmp_thread = "start"
    /\ icmp_thread' \in {"tx", "dead"}
    /\ UNCHANGED <<registered, inflight, slab, queues, tx_frame, work, callers,
                   peer, fate, failed>>

TxDequeue ==
    /\ ThreadsMayRun
    /\ icmp_thread = "tx"
    /\ tx_queue # <<>>
    /\ tx_frame' = Head(tx_queue)
    /\ tx_queue' = Tail(tx_queue)
    /\ icmp_thread' = "stamp"
    /\ UNCHANGED <<registered, inflight, slab, rx_queue, work, callers, peer,
                   fate, failed>>

TxEmpty ==
    /\ ThreadsMayRun
    /\ icmp_thread = "tx"
    /\ tx_queue = <<>>
    /\ icmp_thread' = "rx"
    /\ UNCHANGED <<registered, inflight, slab, queues, tx_frame, work, callers,
                   peer, fate, failed>>

TxStamp ==
    /\ ThreadsMayRun
    /\ icmp_thread = "stamp"
    /\ inflight_table' = Stamped(slab[tx_frame])
    /\ icmp_thread' = "send"
    /\ UNCHANGED <<registered, mutex, seen, inflight_bitmap, slab, queues,
                   tx_frame, work, callers, peer, fate, failed>>

\* phy_api->send and the release of the frame.  A frame whose send fails, or
\* which is lost on the wire, is gone.
TxSend ==
    LET f == slab[tx_frame] IN
    /\ ThreadsMayRun
    /\ icmp_thread = "send"
    /\ \/ peer' = peer
       \/ f.type = "COMMAND" /\ peer' = peer \cup {f}
    /\ slab' = Freed(tx_frame)
    /\ tx_frame' = NULL
    /\ icmp_thread' = "rx"
    /\ UNCHANGED <<registered, inflight, queues, work, callers, fate, failed>>

\* k_sem_take(&icmp_work_sem, K_NO_WAIT) succeeds.
CanAlwaysDispatch == TRUE
CanDispatch == work_sem = 1

\* icmp_dispatch: the frame and the callback of its target, as registered now,
\* are handed to the workqueue in the singleton work_ctx.
RxDispatch ==
    LET b == Head(rx_queue) IN
    /\ ThreadsMayRun
    /\ icmp_thread = "rx"
    /\ CanDispatch /\ rx_queue # <<>>
    /\ rx_queue' = Tail(rx_queue)
    /\ work_sem' = 0
    /\ work_ctx' = [frame |-> b, icmp_cb |-> registered[slab[b].target]]
    /\ workq' = Submitted("dispatch")
    /\ icmp_thread' = "tx"
    /\ UNCHANGED <<registered, inflight, slab, tx_queue, tx_frame, running,
                   callers, peer, fate, failed>>

RxIdle ==
    /\ ThreadsMayRun
    /\ icmp_thread = "rx"
    /\ ~CanDispatch \/ rx_queue = <<>>
    /\ icmp_thread' = "tx"
    /\ UNCHANGED <<registered, inflight, slab, queues, tx_frame, work, callers,
                   peer, fate, failed>>

ThreadStep == TxDequeue \/ TxEmpty \/ TxStamp \/ TxSend \/ RxDispatch \/ RxIdle

----------------------------------------------------------------------------
\* The system workqueue.

\* The workqueue is about to run the handler of this item.
Runs(item) ==
    /\ running = NULL
    /\ workq # <<>> /\ Head(workq) = item
    /\ workq' = Tail(workq)

\* The frame is a response to an id in flight that has a response callback.
HasResponseCallback(f) ==
    /\ f.type = "RESPONSE"
    /\ f.msg_id \in inflight_bitmap
    /\ inflight_table[f.msg_id].callback

\* icmp_dispatch_handler up to its call of the response callback.
DispatchResponse ==
    LET f == slab[work_ctx.frame]
        r == inflight_table[f.msg_id].user_data
    IN
    /\ Runs("dispatch")
    /\ mutex = NULL
    /\ HasResponseCallback(f)
    /\ running' = [callback |-> "response", user_data |-> r]
    /\ fate' = [fate EXCEPT ![r] = Resolved(r, "answered")]
    /\ UNCHANGED <<registered, inflight, slab, queues, thread, work_sem,
                   work_ctx, callers, peer, failed>>

\* icmp_dispatch_handler up to its call of the target's callback.
DispatchTarget ==
    LET f == slab[work_ctx.frame] IN
    /\ Runs("dispatch")
    /\ mutex = NULL
    /\ ~HasResponseCallback(f) /\ work_ctx.icmp_cb
    /\ running' = [callback |-> "target", user_data |-> NULL]
    /\ UNCHANGED <<registered, inflight, slab, queues, thread, work_sem,
                   work_ctx, callers, peer, fate, failed>>

\* The frame is released and the singleton is free again.
ReleaseContextOnly ==
    /\ UNCHANGED slab
    /\ work_ctx' = NULL
    /\ work_sem' = 1
ReleaseFrameOnly ==
    /\ slab' = Freed(work_ctx.frame)
    /\ work_ctx' = NULL
    /\ UNCHANGED work_sem
ReleaseContext ==
    /\ slab' = Freed(work_ctx.frame)
    /\ work_ctx' = NULL
    /\ work_sem' = 1

\* No callback takes the frame, or the mutex stayed held for 30 ms.
DispatchDrop ==
    LET f == slab[work_ctx.frame] IN
    /\ Runs("dispatch")
    /\ mutex # NULL \/ (~HasResponseCallback(f) /\ ~work_ctx.icmp_cb)
    /\ ReleaseContext
    /\ UNCHANGED <<registered, inflight, queues, thread, running, callers, peer,
                   fate, failed>>

\* The callback returns.  After a response callback the handler clears the
\* entry of the id in the frame, whether it gets the mutex or not.
CallbackReturn ==
    LET id == slab[work_ctx.frame].msg_id IN
    /\ running # NULL
    /\ IF running.callback = "response"
       THEN ClearEntries({id})
       ELSE UNCHANGED <<inflight_bitmap, inflight_table>>
    /\ ReleaseContext
    /\ running' = NULL
    /\ UNCHANGED <<registered, mutex, seen, queues, thread, workq, callers,
                   peer, fate, failed>>

\* icmp_inflight_timeout_handler.
Timeout ==
    LET expired == {id \in inflight_bitmap : TimedOut(inflight_table[id])}
        dropped == {inflight_table[id].user_data : id \in expired}
    IN
    /\ Runs("timeout")
    /\ mutex = NULL
    /\ ClearEntries(expired)
    /\ fate' = [r \in Reqs |-> IF r \in dropped THEN Resolved(r, "dropped")
                               ELSE fate[r]]
    /\ UNCHANGED <<registered, mutex, seen, slab, queues, thread, work_sem,
                   work_ctx, running, callers, peer, failed>>

\* The mutex stayed held for 20 ms: this scan is skipped.
TimeoutSkipped ==
    /\ Runs("timeout")
    /\ mutex # NULL
    /\ UNCHANGED <<registered, inflight, slab, queues, thread, work_sem,
                   work_ctx, running, callers, peer, fate, failed>>

WorkqueueStep ==
    \/ DispatchResponse \/ DispatchTarget \/ DispatchDrop
    \/ CallbackReturn
    \/ Timeout \/ TimeoutSkipped

----------------------------------------------------------------------------
\* Interrupts, the peer and the passage of time.

TimerIsr ==
    /\ Started
    /\ workq' = Submitted("timeout")
    /\ UNCHANGED <<registered, inflight, slab, queues, thread, work_sem,
                   work_ctx, running, callers, peer, fate, failed>>

\* The peer's answer, to a target of this core, to a command that reached it.
Answer(p, t) == [p EXCEPT !.type = "RESPONSE", !.target = t]

\* icmp_uart_cb with a well-formed frame and a free block; with no free block
\* the frame is lost and nothing changes.
Receive(f) ==
    /\ Started
    /\ Len(rx_queue) < QUEUE_MAX_ITEMS
    /\ \E b \in FreeBlocks :
        /\ slab' = [slab EXCEPT ![b] = f]
        /\ rx_queue' = Append(rx_queue, b)
    /\ UNCHANGED <<registered, inflight, tx_queue, thread, work, callers, peer,
                   fate, failed>>

\* The receive queue is full, which the interrupt handler does not notice.
ReceiveFull(f) ==
    /\ Started
    /\ Len(rx_queue) = QUEUE_MAX_ITEMS
    /\ \E b \in FreeBlocks : slab' = [slab EXCEPT ![b] = f]
    /\ UNCHANGED <<registered, inflight, queues, thread, work, callers, peer,
                   fate, failed>>

UartIsr(f) == Receive(f) \/ ReceiveFull(f)

Tick ==
    /\ inflight_table' = [id \in Ids |->
            LET t == inflight_table[id].timestamp IN
            IF t = SEND_PENDING \/ t > MAX_AGE THEN inflight_table[id]
            ELSE [inflight_table[id] EXCEPT !.timestamp = t + 1]]
    /\ UNCHANGED <<registered, mutex, seen, inflight_bitmap, slab, queues,
                   thread, work, callers, peer, fate, failed>>

----------------------------------------------------------------------------
Next ==
    \/ \E t \in Targets : RegisterTarget(t)
    \/ IcmpInit
    \/ \E c \in Callers :
        \/ \E r \in Reqs, t \in Targets : CommandLock(c, r, t)
        \/ \E f \in AppFrames : Send(c, f)
        \/ CallerStep(c)
    \/ PhyInit \/ ThreadStep
    \/ WorkqueueStep
    \/ TimerIsr
    \/ \E f \in PeerFrames : UartIsr(f)
    \/ \E p \in peer, t \in Targets : UartIsr(Answer(p, t))
    \/ Tick

Spec == Init /\ [][Next]_vars

\* The workqueue runs what it is given, the timer keeps firing and time passes.
\* A thread is fair in the strong sense: callbacks on the workqueue preempt it,
\* but they do not take the processor for ever.  Nothing is assumed of the peer,
\* nor that a caller ever calls.
Fairness ==
    /\ SF_vars(PhyInit) /\ SF_vars(ThreadStep)
    /\ \A c \in Callers : SF_vars(CallerStep(c))
    /\ WF_vars(WorkqueueStep)
    /\ WF_vars(TimerIsr) /\ WF_vars(Tick)

FairSpec == Spec /\ Fairness

----------------------------------------------------------------------------
\* Properties.

Entries == [timestamp : -1 .. (MAX_AGE + 1), callback : BOOLEAN,
            user_data : Reqs \cup {NULL}]

\* Every variable holds a value of its type.  In particular no message id past the
\* end of the table is allocated.
TypeOK ==
    /\ registered \in [Targets -> BOOLEAN]
    /\ mutex \in Callers \cup {NULL} /\ seen \subseteq Ids
    /\ inflight_bitmap \subseteq Ids
    /\ inflight_table \in [Ids -> Entries]
    /\ slab \in [Blocks -> Frames \cup {NULL}]
    /\ tx_queue \in Seq(Blocks) /\ rx_queue \in Seq(Blocks)
    /\ icmp_thread \in {"off", "start", "tx", "stamp", "send", "rx", "dead"}
    /\ tx_frame \in Blocks \cup {NULL}
    /\ work_sem \in {0, 1}
    /\ work_ctx \in Contexts \cup {NULL}
    /\ workq \in Seq({"dispatch", "timeout"})
    /\ running \in Activations \cup {NULL}
    /\ pc \in [Callers -> {"idle", "locked", "alloc", "enqueue"}]
    /\ out \in [Callers -> Frames \cup {NULL}]
    /\ buf \in [Callers -> Blocks \cup {NULL}]
    /\ peer \subseteq {f \in Frames : f.type = "COMMAND"}
    /\ fate \in [Reqs -> {"unused", "inflight", "answered", "dropped", "misfired"}]
    /\ failed \subseteq Reqs

\* Who has a pointer to which block and will still use it: the caller between
\* icmp_frame_alloc and icmp_tx_enqueue, the queues, the ICMP thread's tx_frame
\* and the dispatch handler's context.
Holds(o) ==
    CASE o = "tx_queue" -> Elements(tx_queue)
      [] o = "icmp_thread" -> {tx_frame} \ {NULL}
      [] o = "rx_queue" -> Elements(rx_queue)
      [] o = "workqueue" -> IF work_ctx = NULL THEN {} ELSE {work_ctx.frame}
      [] OTHER -> {buf[o]} \ {NULL}

NoDuplicates(q) == \A i, j \in 1 .. Len(q) : q[i] = q[j] => i = j

Allocated == {b \in Blocks : slab[b] # NULL}

\* No frame is used after it is freed and none is freed twice: across callers,
\* interrupts, ICMP thread and workqueue, each allocated frame is reachable from
\* at most one place, and what is reachable is allocated.
FrameOwnership ==
    /\ \A o \in Owners : Holds(o) \subseteq Allocated
    /\ \A o1, o2 \in Owners : o1 # o2 => Holds(o1) \cap Holds(o2) = {}
    /\ NoDuplicates(tx_queue) /\ NoDuplicates(rx_queue)

\* Every allocated frame is reachable, so that it will be freed: icmp_slab does
\* not shrink.  (The tests' "Frame not free'd.".)
NoFrameLeaked == \A b \in Allocated : \E o \in Owners : b \in Holds(o)

\* The singleton icmp_work_ctx is reused only when the dispatch that uses it is
\* over: icmp_work_sem is taken exactly while one dispatch is queued or running,
\* never both, and then the context holds its frame.
DispatchSlot ==
    LET queued == "dispatch" \in Elements(workq) IN
    /\ work_sem = 0 <=> queued \/ running # NULL
    /\ ~(queued /\ running # NULL)
    /\ work_sem = 0 <=> work_ctx # NULL
    /\ NoDuplicates(workq)

\* The bitmap, the table and the commands in flight agree: a bit is set exactly
\* when its entry belongs to a command, no command has two entries, and a command
\* stays in the table until it is answered or dropped.  A frame already dispatched
\* to a response callback keeps its entry until the callback returns.
InflightTable ==
    /\ \A id \in Ids :
        id \in inflight_bitmap <=> inflight_table[id].user_data # NULL
    /\ \A i, j \in inflight_bitmap :
        inflight_table[i].user_data = inflight_table[j].user_data => i = j
    /\ \A r \in Reqs : fate[r] = "inflight" =>
        \E id \in inflight_bitmap : inflight_table[id].user_data = r

\* The COMMAND frame of command r, under this id, is still to be time-stamped.
OnItsWay(id, r) ==
    LET Is(f) == f.type = "COMMAND" /\ f.msg_id = id /\ f.body = r IN
    \/ \E c \in Callers : pc[c] \in {"alloc", "enqueue"} /\ Is(out[c])
    \/ \E i \in 1 .. Len(tx_queue) : Is(slab[tx_queue[i]])
    \/ icmp_thread = "stamp" /\ Is(slab[tx_frame])

PendingEntries ==
    {id \in inflight_bitmap : inflight_table[id].timestamp = SEND_PENDING}

\* "Skip entries pending send": an entry the timeout scan skips, and so never
\* drops, belongs to a command whose frame is still on its way to the PHY.
PendingIsOnItsWay ==
    \A id \in PendingEntries : OnItsWay(id, inflight_table[id].user_data)

\* The same, of the commands for which icmp_command did not return an error.
PendingUnlessFailed ==
    \A id \in PendingEntries :
        LET r == inflight_table[id].user_data IN r \in failed \/ OnItsWay(id, r)

\* A response callback is given the response to its own command.
ResponseMatchesCommand ==
    running # NULL /\ running.callback = "response" =>
        slab[work_ctx.frame].body = running.user_data

\* It is so as long as the command to which the response belongs is in flight: only a
\* response to a command that was answered or dropped before reaches another's callback.
MismatchIsLate ==
    running # NULL /\ running.callback = "response" =>
        LET r == slab[work_ctx.frame].body IN
        r = running.user_data \/ (r \in Reqs /\ fate[r] \in {"answered", "dropped"})

\* Every command that icmp_command accepted without an error is answered or
\* dropped in the end, if the PHY could be initialised: its id comes free again.
AcceptedResolves ==
    \A r \in Reqs :
        fate[r] = "inflight" ~>
            fate[r] # "inflight" \/ r \in failed \/ ~Started

\* Once the server runs, every frame is freed in the end: neither direction
\* stalls, whatever the other one and the callbacks do.
FramesAreFreed ==
    \A b \in Blocks : Started /\ slab[b] # NULL ~> slab[b] = NULL

Lifecycle ==
    INSTANCE CommandLifecycle
        WITH Reqs <- Reqs, MAX_INFLIGHT <- MAX_INFLIGHT, fate <- fate
\* What the issuers of commands are promised (see CommandLifecycle).
CommandLifecycle == Lifecycle!Spec
=============================================================================
