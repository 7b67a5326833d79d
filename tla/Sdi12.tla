-------------------------------- MODULE Sdi12 --------------------------------
(***************************************************************************)
(* SDI-12 on the interface core (cores/interface/src/sdi12): the shell     *)
(* command queues a command and waits for a response, the SDI-12 thread    *)
(* sends it over a half-duplex UART and waits for the answer.              *)
(*                                                                         *)
(* The UART driver is external, modelled from its use in sdi12.c.  It      *)
(* releases the receive buffer once for each time reception is enabled:    *)
(* when a response is complete, on an error (noise on the line), or when   *)
(* uart_rx_disable is called; reception is then off.  Enabling may fail,   *)
(* in particular where reception is enabled: it then stays as it was.      *)
(*                                                                         *)
(* A message is the command it is or answers, EMPTY if the buffer holds    *)
(* none.                                                                   *)
(***************************************************************************)
EXTENDS Integers, FiniteSets, Sequences

CONSTANTS
    Shells,
    Commands,
    SDI12_CMD_QUEUE_SIZE,
    SDI12_RSP_QUEUE_SIZE,
    EMPTY

ASSUME Sdi12Assumption ==
    /\ IsFiniteSet(Shells) /\ EMPTY \notin Commands
    /\ SDI12_CMD_QUEUE_SIZE \in Nat \ {0} /\ SDI12_RSP_QUEUE_SIZE \in Nat \ {0}

Messages == Commands \cup {EMPTY}

VARIABLES
    asked,           \* per shell: the command it waits for, or EMPTY
    cmd_q,
    rsp_q,
    pc,              \* where sdi12_thread is
    send_buffer,
    recv_buffer,
    rx_on,           \* is reception enabled?
    sending,         \* is a transmission under way?
    direction,       \* of the transceiver: sdi12_tx_en or sdi12_rx_en
    tx_sem, rx_sem,
    answer,          \* what the sensor is answering, or EMPTY
    tx_failed,       \* history: uart_tx has failed
    rx_failed        \* history: for the last command reception was not enabled

queues == <<asked, cmd_q, rsp_q>>
thread == <<pc, send_buffer>>
uart == <<recv_buffer, rx_on, sending, direction>>
sems == <<tx_sem, rx_sem>>
failures == <<tx_failed, rx_failed>>
vars == <<queues, thread, uart, sems, answer, failures>>

Init ==
    /\ asked = [s \in Shells |-> EMPTY]
    /\ cmd_q = <<>> /\ rsp_q = <<>>
    /\ pc = "idle" /\ send_buffer = EMPTY
    /\ recv_buffer = EMPTY /\ rx_on = FALSE /\ sending = FALSE
    /\ direction = "tx"
    /\ tx_sem = 0 /\ rx_sem = 0
    /\ answer = EMPTY /\ tx_failed = FALSE /\ rx_failed = FALSE

----------------------------------------------------------------------------
\* cmd_sdi12: it waits for a response, or returns if the command queue is full.

ShellSend(s, c) ==
    /\ asked[s] = EMPTY
    /\ \/ /\ Len(cmd_q) < SDI12_CMD_QUEUE_SIZE
          /\ cmd_q' = Append(cmd_q, c)
          /\ asked' = [asked EXCEPT ![s] = c]
       \/ /\ Len(cmd_q) = SDI12_CMD_QUEUE_SIZE
          /\ UNCHANGED <<cmd_q, asked>>
    /\ UNCHANGED <<rsp_q, thread, uart, sems, answer, failures>>

ShellReceive(s) ==
    /\ asked[s] # EMPTY
    /\ rsp_q # <<>>
    /\ rsp_q' = Tail(rsp_q)
    /\ asked' = [asked EXCEPT ![s] = EMPTY]
    /\ UNCHANGED <<cmd_q, thread, uart, sems, answer, failures>>

\* Reception is off and rx_sem will not be given: the thread waits for ever.
Stuck == pc = "drain" /\ ~rx_on /\ rx_sem = 0

\* RESPONSE_TIMEOUT_MS.  It is longer than the thread takes for one command, so that
\* a lone shell gives up only when the thread has, or is stuck: 21 ms before the
\* transmission, at most 79 characters of 8.3 ms, 100 ms for the answer and 5 ms before
\* the next.
ShellTimeout(s) ==
    /\ asked[s] # EMPTY
    /\ Cardinality(Shells) = 1 => Stuck \/ (pc = "idle" /\ cmd_q = <<>> /\ rsp_q = <<>>)
    /\ asked' = [asked EXCEPT ![s] = EMPTY]
    /\ UNCHANGED <<cmd_q, rsp_q, thread, uart, sems, answer, failures>>

----------------------------------------------------------------------------
\* sdi12_thread.

\* uart_rx_enable, whatever it returns.
EnableReception ==
    /\ rx_on' \in {TRUE, rx_on}
    /\ rx_failed' = ~rx_on'

\* A command is taken, the receive buffer cleared and reception enabled.
DequeueNotCleared ==
    /\ pc = "idle" /\ cmd_q # <<>>
    /\ send_buffer' = Head(cmd_q) /\ cmd_q' = Tail(cmd_q)
    /\ direction' = "tx"
    /\ EnableReception
    /\ pc' = "transmit"
    /\ UNCHANGED <<asked, rsp_q, recv_buffer, sending, sems, answer, tx_failed>>
DequeueNotEnabled ==
    /\ pc = "idle" /\ cmd_q # <<>>
    /\ send_buffer' = Head(cmd_q) /\ cmd_q' = Tail(cmd_q)
    /\ direction' = "tx"
    /\ recv_buffer' = EMPTY
    /\ pc' = "transmit"
    /\ UNCHANGED <<asked, rsp_q, rx_on, sending, sems, answer, failures>>
Dequeue ==
    /\ pc = "idle" /\ cmd_q # <<>>
    /\ send_buffer' = Head(cmd_q) /\ cmd_q' = Tail(cmd_q)
    /\ direction' = "tx"
    /\ recv_buffer' = EMPTY
    /\ EnableReception
    /\ pc' = "transmit"
    /\ UNCHANGED <<asked, rsp_q, sending, sems, answer, tx_failed>>

TransmitStart ==
    /\ pc = "transmit"
    /\ sending' = TRUE
    /\ pc' = "wait_tx"
    /\ UNCHANGED <<queues, send_buffer, recv_buffer, rx_on, direction, sems, answer,
                   failures>>

\* uart_tx fails: `continue`, with reception as it is.
TransmitFails ==
    /\ pc = "transmit"
    /\ tx_failed' = TRUE
    /\ pc' = "idle"
    /\ UNCHANGED <<queues, send_buffer, uart, sems, answer, rx_failed>>

TransmitDone ==
    /\ pc = "wait_tx"
    /\ tx_sem = 1 /\ tx_sem' = 0
    /\ pc' = "wait_rx"
    /\ UNCHANGED <<queues, send_buffer, uart, rx_sem, answer, failures>>

\* The buffer was released: what it holds is the response, if there is room for it.
Received ==
    /\ pc = "wait_rx"
    /\ rx_sem = 1 /\ rx_sem' = 0
    /\ rsp_q' = IF Len(rsp_q) < SDI12_RSP_QUEUE_SIZE THEN Append(rsp_q, recv_buffer)
                ELSE rsp_q
    /\ send_buffer' = EMPTY
    /\ pc' = "idle"
    /\ UNCHANGED <<asked, cmd_q, uart, tx_sem, answer, failures>>

\* k_sem_take times out after 100 ms; before the thread disables reception, the
\* buffer may still be released.
ReceiveWaitsForData ==
    /\ pc = "wait_rx"
    /\ rx_sem = 0 /\ recv_buffer # EMPTY
    /\ pc' = "disable"
    /\ UNCHANGED <<queues, send_buffer, uart, sems, answer, failures>>
ReceiveTimeout ==
    /\ pc = "wait_rx"
    /\ rx_sem = 0
    /\ pc' = "disable"
    /\ UNCHANGED <<queues, send_buffer, uart, sems, answer, failures>>

\* uart_rx_disable, an error if reception is off already.
DisableOnly ==
    /\ pc = "disable"
    /\ pc' = "idle"
    /\ UNCHANGED <<queues, send_buffer, uart, sems, answer, failures>>
Disable ==
    /\ pc = "disable"
    /\ pc' = "drain"
    /\ UNCHANGED <<queues, send_buffer, uart, sems, answer, failures>>

\* k_sem_take(&rx_sem, K_FOREVER)
Drain ==
    /\ pc = "drain"
    /\ rx_sem = 1 /\ rx_sem' = 0
    /\ pc' = "idle"
    /\ UNCHANGED <<queues, send_buffer, uart, tx_sem, answer, failures>>

ThreadStep ==
    \/ Dequeue \/ TransmitStart \/ TransmitFails \/ TransmitDone
    \/ Received \/ ReceiveTimeout \/ Disable \/ Drain

----------------------------------------------------------------------------
\* sdi12_uart_cb, and the sensor.

\* UART_TX_DONE: the sensor may answer, unless the answer is to come too late.
TxDone ==
    /\ sending
    /\ sending' = FALSE
    /\ tx_sem' = 1
    /\ direction' = "rx"
    /\ answer' \in {EMPTY, send_buffer}
    /\ UNCHANGED <<queues, thread, recv_buffer, rx_on, rx_sem, failures>>

\* UART_RX_BUF_RELEASED
ReleasedCounts ==
    /\ rx_on /\ rx_on' = FALSE
    /\ rx_sem' = rx_sem + 1
Released ==
    /\ rx_on /\ rx_on' = FALSE
    /\ rx_sem' = 1

\* The response is complete.
ResponseArrives ==
    /\ answer # EMPTY /\ direction = "rx"
    /\ Released
    /\ recv_buffer' = answer /\ answer' = EMPTY
    /\ UNCHANGED <<queues, thread, sending, direction, tx_sem, failures>>

\* Reception stops before that, by an error or because it was disabled.
ReceptionStops ==
    /\ Released
    /\ UNCHANGED <<queues, thread, recv_buffer, sending, direction, tx_sem, answer,
                   failures>>

\* The answer finds reception off, or the transceiver sending.
AnswerLost ==
    /\ answer # EMPTY /\ (~rx_on \/ direction = "tx")
    /\ answer' = EMPTY
    /\ UNCHANGED <<queues, thread, uart, sems, failures>>

UartStep == TxDone \/ ResponseArrives \/ ReceptionStops \/ AnswerLost

Next ==
    \/ \E s \in Shells :
        \/ \E c \in Commands : ShellSend(s, c)
        \/ ShellReceive(s) \/ ShellTimeout(s)
    \/ ThreadStep
    \/ UartStep

Spec == Init /\ [][Next]_vars

\* The threads run, a transmission comes to an end, and uart_rx_disable stops the
\* reception.  Nothing is assumed of the sensor, nor of who uses the shell.
Fairness ==
    /\ WF_vars(ThreadStep)
    /\ \A s \in Shells : WF_vars(ShellReceive(s) \/ ShellTimeout(s))
    /\ WF_vars(TxDone)
    /\ WF_vars(pc = "drain" /\ ReceptionStops)

FairSpec == Spec /\ Fairness

----------------------------------------------------------------------------
\* Properties.

\* Every variable holds a value of its type; the semaphores do not exceed their limit.
TypeOK ==
    /\ asked \in [Shells -> Messages]
    /\ cmd_q \in Seq(Commands) /\ Len(cmd_q) <= SDI12_CMD_QUEUE_SIZE
    /\ rsp_q \in Seq(Messages) /\ Len(rsp_q) <= SDI12_RSP_QUEUE_SIZE
    /\ pc \in {"idle", "transmit", "wait_tx", "wait_rx", "disable", "drain"}
    /\ send_buffer \in Messages /\ recv_buffer \in Messages /\ answer \in Messages
    /\ rx_on \in BOOLEAN /\ sending \in BOOLEAN /\ direction \in {"tx", "rx"}
    /\ tx_sem \in {0, 1} /\ rx_sem \in {0, 1}
    /\ tx_failed \in BOOLEAN /\ rx_failed \in BOOLEAN

\* The thread never waits for a release that will not come: while it waits for the
\* answer, or for the end of a reception it has disabled, either reception is on or
\* rx_sem has been given, whenever the time-out and the release cross.  Unless reception
\* was not enabled for this command, which the code does not look at.
ReleaseWillCome ==
    pc \in {"wait_rx", "disable", "drain"} => rx_on \/ rx_sem = 1 \/ rx_failed

\* Between commands reception is off and rx_sem is not given: no release is left to
\* be taken for the answer to the next command.  Unless uart_tx has failed: then
\* reception stays enabled.
AtRest == pc = "idle" /\ ~tx_failed => ~rx_on /\ rx_sem = 0

\* A lone shell gets the response to the command it sent, or an empty one, but never
\* the response to an earlier command: at most one response is queued, for the shell
\* that waits.
ResponseIsCurrent ==
    \A i \in 1 .. Len(rsp_q) :
        i = 1 /\ \E s \in Shells : asked[s] # EMPTY /\ rsp_q[i] \in {asked[s], EMPTY}

\* Every shell command returns, whatever the sensor, the line and the driver do, and
\* even if the thread is stuck.
CommandReturns == \A s \in Shells : asked[s] # EMPTY ~> asked[s] = EMPTY
=============================================================================
