----------------------------- MODULE Sdi12Proofs -----------------------------
(***************************************************************************)
(* Theorems about Sdi12, for any shells, commands and queue sizes: type    *)
(* correctness, the accounting of receive-buffer releases, and that a lone *)
(* shell gets no response but its own.                                     *)
(***************************************************************************)
EXTENDS Sdi12, FiniteSetTheorems, TLAPS

\* Once a command is taken, reception is on or its release has been reported, unless it
\* could not be enabled.  Both hold only after a failed transmission, which leaves
\* reception on.
Release ==
    /\ pc # "idle" => rx_on \/ rx_sem = 1 \/ rx_failed
    /\ ~tx_failed => ~rx_on \/ rx_sem = 0

IInv == TypeOK /\ Release /\ AtRest

\* A transmission ends with tx_sem, while the thread waits for it.
Transmission ==
    /\ sending => pc = "wait_tx" /\ tx_sem = 0
    /\ tx_sem = 1 => pc = "wait_tx"

\* With one shell there is one command at a time: it is in the queue, or the thread
\* has it, or its response is queued, or it has failed.  An answer to an earlier one
\* may still be on its way, but not once the command has been transmitted.  A thread
\* that is stuck gives no response any more.
InHand == {"transmit", "wait_tx", "wait_rx"}
OneCommand(s) ==
    /\ cmd_q # <<>> => cmd_q = <<asked[s]>>
    /\ rsp_q # <<>> => Len(rsp_q) = 1 /\ rsp_q[1] \in {asked[s], EMPTY}
    /\ cmd_q # <<>> => pc = "idle" /\ rsp_q = <<>>
    /\ rsp_q # <<>> => pc = "idle"
    /\ asked[s] = EMPTY => pc = "idle" /\ cmd_q = <<>> /\ rsp_q = <<>>
    /\ pc \in InHand => send_buffer = asked[s] /\ recv_buffer \in {asked[s], EMPTY}
    /\ pc \in InHand /\ direction = "rx" => answer \in {asked[s], EMPTY}
OneAtATime == IF Stuck THEN rsp_q = <<>> ELSE \A s \in Shells : OneCommand(s)

LoneInv == TypeOK /\ Transmission /\ OneAtATime

----------------------------------------------------------------------------
\* Releases.

LEMMA InitIInv == Init => IInv
<1> SUFFICES ASSUME Init PROVE IInv
  OBVIOUS
<1>1. asked \in [Shells -> Messages]
  BY DEF Init, Messages
<1>2. TypeOK
  <2>1. cmd_q \in Seq(Commands) /\ rsp_q \in Seq(Messages)
    BY DEF Init
  <2>2. Len(cmd_q) = 0 /\ Len(rsp_q) = 0
    BY DEF Init
  <2>3. EMPTY \in Messages
    BY DEF Messages
  <2>4. 0 <= SDI12_CMD_QUEUE_SIZE /\ 0 <= SDI12_RSP_QUEUE_SIZE
    BY Sdi12Assumption
  <2>5. /\ pc = "idle" /\ direction = "tx" /\ tx_sem = 0 /\ rx_sem = 0
        /\ send_buffer \in Messages /\ recv_buffer \in Messages /\ answer \in Messages
    BY <2>3 DEF Init
  <2>6. rx_on \in BOOLEAN /\ sending \in BOOLEAN /\ tx_failed \in BOOLEAN /\ rx_failed \in BOOLEAN
    BY DEF Init
  <2> QED
    BY <1>1, <2>1, <2>2, <2>4, <2>5, <2>6 DEF TypeOK
<1>3. Release /\ AtRest
  BY DEF Init, Release, AtRest
<1> QED
  BY <1>2, <1>3 DEF IInv

\* The shell and the queue of commands.
LEMMA ShellIInv ==
    ASSUME IInv, NEW s \in Shells,
           (\E c \in Commands : ShellSend(s, c)) \/ ShellReceive(s) \/ ShellTimeout(s)
    PROVE  IInv'
<1> USE DEF IInv, failures
<1>1. TypeOK'
  <2>1. ASSUME NEW c \in Commands, ShellSend(s, c) PROVE TypeOK'
    <3>1. cmd_q' \in Seq(Commands) /\ Len(cmd_q') <= SDI12_CMD_QUEUE_SIZE
      <4>1. CASE Len(cmd_q) < SDI12_CMD_QUEUE_SIZE /\ cmd_q' = Append(cmd_q, c)
        BY <4>1, Sdi12Assumption DEF TypeOK
      <4>2. CASE UNCHANGED cmd_q
        BY <4>2 DEF TypeOK
      <4> QED
        BY <2>1, <4>1, <4>2 DEF ShellSend
    <3>2. asked' \in [Shells -> Messages]
      BY <2>1 DEF ShellSend, TypeOK, Messages
    <3> QED
      BY <2>1, <3>1, <3>2 DEF ShellSend, TypeOK, thread, uart, sems
  <2>2. CASE ShellReceive(s)
    BY <2>2, Sdi12Assumption
    DEF ShellReceive, TypeOK, Messages, thread, uart, sems
  <2>3. CASE ShellTimeout(s)
    BY <2>3, Sdi12Assumption
    DEF ShellTimeout, TypeOK, Messages, thread, uart, sems
  <2> QED
    BY <2>1, <2>2, <2>3
<1>2. Release' /\ AtRest'
  BY DEF ShellSend, ShellReceive, ShellTimeout, Release, AtRest, thread, uart, sems
<1> QED
  BY <1>1, <1>2

\* The thread enables reception for a command, and takes one release for it: here, when
\* the response is there (Received), or after it has disabled reception (Drain).
LEMMA ThreadIInv ==
    ASSUME IInv, ThreadStep
    PROVE  IInv'
<1> USE DEF IInv, failures
<1>1. CASE Dequeue
  <2>1. TypeOK'
    <3>1. /\ cmd_q' \in Seq(Commands) /\ Len(cmd_q') <= SDI12_CMD_QUEUE_SIZE
          /\ send_buffer' \in Commands
      BY <1>1, Sdi12Assumption DEF Dequeue, TypeOK
    <3>2. rx_on' \in BOOLEAN /\ rx_failed' \in BOOLEAN
      BY <1>1 DEF Dequeue, EnableReception, TypeOK
    <3> QED
      BY <1>1, <3>1, <3>2 DEF Dequeue, TypeOK, Messages, sems
  <2>2. Release' /\ AtRest'
    BY <1>1 DEF Dequeue, EnableReception, TypeOK, Release, AtRest, sems
  <2> QED
    BY <2>1, <2>2
<1>2. CASE TransmitStart
  BY <1>2 DEF TransmitStart, TypeOK, Release, AtRest, queues, sems
<1>3. CASE TransmitFails
  <2>1. TypeOK'
    BY <1>3 DEF TransmitFails, TypeOK, queues, uart, sems
  <2>2. Release'
    BY <1>3 DEF TransmitFails, Release
  <2>3. AtRest'
    BY <1>3 DEF TransmitFails, AtRest
  <2> QED
    BY <2>1, <2>2, <2>3
<1>4. CASE TransmitDone
  BY <1>4 DEF TransmitDone, TypeOK, Release, AtRest, queues, uart
<1>5. CASE Received
  <2>1. rsp_q' \in Seq(Messages) /\ Len(rsp_q') <= SDI12_RSP_QUEUE_SIZE
    BY <1>5, Sdi12Assumption DEF Received, TypeOK
  <2> QED
    BY <1>5, <2>1, Sdi12Assumption
    DEF Received, TypeOK, Release, AtRest, Messages, uart
<1>6. CASE ReceiveTimeout \/ Disable
  BY <1>6
  DEF ReceiveTimeout, Disable, TypeOK, Release, AtRest, queues, uart, sems
<1>7. CASE Drain
  BY <1>7 DEF Drain, TypeOK, Release, AtRest, queues, uart
<1> QED
  BY <1>1, <1>2, <1>3, <1>4, <1>5, <1>6, <1>7 DEF ThreadStep

\* The driver releases the buffer when reception goes off.
LEMMA UartIInv ==
    ASSUME IInv, UartStep
    PROVE  IInv'
<1> USE DEF IInv, failures
<1>1. CASE TxDone
  BY <1>1, Sdi12Assumption
  DEF TxDone, TypeOK, Release, AtRest, Messages, queues, thread
<1>2. CASE ResponseArrives \/ ReceptionStops
  <2>1. TypeOK'
    <3>1. EMPTY \in Messages
      BY DEF Messages
    <3> QED
      BY <1>2, <3>1
      DEF ResponseArrives, ReceptionStops, Released, TypeOK, queues, thread
  <2>2. Release' /\ AtRest'
    BY <1>2
    DEF ResponseArrives, ReceptionStops, Released, TypeOK, Release, AtRest, queues, thread
  <2> QED
    BY <2>1, <2>2
<1>3. CASE AnswerLost
  BY <1>3, Sdi12Assumption
  DEF AnswerLost, TypeOK, Release, AtRest, Messages, queues, thread, uart, sems
<1> QED
  BY <1>1, <1>2, <1>3 DEF UartStep

LEMMA NextIInv == IInv /\ [Next]_vars => IInv'
<1> SUFFICES ASSUME IInv, [Next]_vars PROVE IInv'
  OBVIOUS
<1>1. CASE UNCHANGED vars
  BY <1>1
  DEF vars, queues, thread, uart, sems, failures, IInv, TypeOK, Release, AtRest
<1> QED
  BY <1>1, ShellIInv, ThreadIInv, UartIInv DEF Next

LEMMA Invariant == Spec => []IInv
BY InitIInv, NextIInv, PTL DEF Spec

\* Every variable holds a value of its type, and tx_sem and rx_sem are binary.
THEOREM TypeCorrect == Spec => []TypeOK
<1>1. IInv => TypeOK
  BY DEF IInv
<1> QED
  BY <1>1, Invariant, PTL

\* sdi12_thread never waits for a release that will not come, however its time-out,
\* the end of a response and uart_rx_disable cross.
THEOREM NoLostRelease == Spec => []ReleaseWillCome
<1>1. IInv => ReleaseWillCome
  BY DEF IInv, Release, ReleaseWillCome
<1> QED
  BY <1>1, Invariant, PTL

\* Between commands no release is left for the next one, unless uart_tx has failed.
THEOREM CleanBetweenCommands == Spec => []AtRest
<1>1. IInv => AtRest
  BY DEF IInv
<1> QED
  BY <1>1, Invariant, PTL
----------------------------------------------------------------------------
\* A lone shell.

LEMMA InitLone == Init => LoneInv
<1> SUFFICES ASSUME Init PROVE LoneInv
  OBVIOUS
<1>1. Transmission /\ OneAtATime
  BY DEF Init, Transmission, OneAtATime, OneCommand, Stuck, InHand
<1> QED
  BY <1>1, InitIInv DEF LoneInv, IInv

\* A thread that is stuck stays so, and the response queue stays empty.
LEMMA StuckLone ==
    ASSUME LoneInv, Stuck, [Next]_vars
    PROVE  Stuck' /\ OneAtATime'
<1>1. pc = "drain" /\ rx_sem = 0 /\ ~rx_on /\ rsp_q = <<>>
  BY DEF LoneInv, OneAtATime, Stuck
<1>2. UNCHANGED <<pc, rx_on, rx_sem, rsp_q>>
  BY <1>1
  DEF Next, ShellSend, ShellReceive, ShellTimeout, ThreadStep, Dequeue, TransmitStart,
      TransmitFails, TransmitDone, Received, ReceiveTimeout, Disable, Drain, UartStep, TxDone,
      ResponseArrives, ReceptionStops, AnswerLost, Released, queues, thread, uart, sems, vars
<1> QED
  BY <1>1, <1>2 DEF Stuck, OneAtATime

LEMMA ShellLone ==
    ASSUME LoneInv, ~Stuck, NEW s, Shells = {s},
           (\E c \in Commands : ShellSend(s, c)) \/ ShellReceive(s) \/ ShellTimeout(s)
    PROVE  OneCommand(s)'
<1>1. OneCommand(s) /\ TypeOK
  BY DEF LoneInv, OneAtATime
<1> USE <1>1 DEF InHand
<1>2. ASSUME NEW c \in Commands, ShellSend(s, c) PROVE OneCommand(s)'
  <2>1. CASE Len(cmd_q) < SDI12_CMD_QUEUE_SIZE /\ cmd_q' = Append(cmd_q, c)
             /\ asked' = [asked EXCEPT ![s] = c]
    <3>1. /\ asked'[s] = c /\ c # EMPTY
          /\ pc = "idle" /\ cmd_q = <<>> /\ rsp_q = <<>>
      BY <1>2, <2>1, Sdi12Assumption DEF ShellSend, TypeOK, OneCommand
    <3>2. cmd_q' = <<c>>
      BY <2>1, <3>1
    <3> QED
      BY <1>2, <3>1, <3>2 DEF ShellSend, OneCommand, thread
  <2>2. CASE UNCHANGED <<cmd_q, asked>>
    BY <1>2, <2>2 DEF ShellSend, OneCommand, thread, uart
  <2> QED
    BY <1>2, <2>1, <2>2 DEF ShellSend
<1>3. CASE ShellReceive(s)
  <2>1. pc = "idle" /\ cmd_q = <<>> /\ Len(rsp_q) = 1
    BY <1>3 DEF ShellReceive, OneCommand
  <2>2. rsp_q' = <<>>
    BY <1>3, <2>1 DEF ShellReceive, TypeOK
  <2>3. asked'[s] = EMPTY /\ cmd_q' = <<>> /\ pc' = "idle"
    BY <1>3, <2>1 DEF ShellReceive, TypeOK, thread
  <2> QED
    BY <2>2, <2>3 DEF OneCommand
<1>4. CASE ShellTimeout(s)
  <2>1. Cardinality(Shells) = 1
    BY FS_Singleton
  <2>2. pc = "idle" /\ cmd_q = <<>> /\ rsp_q = <<>>
    BY <1>4, <2>1 DEF ShellTimeout
  <2>3. asked'[s] = EMPTY /\ cmd_q' = <<>> /\ rsp_q' = <<>> /\ pc' = "idle"
    BY <1>4, <2>2 DEF ShellTimeout, TypeOK, thread
  <2> QED
    BY <2>3 DEF OneCommand
<1> QED
  BY <1>2, <1>3, <1>4

LEMMA ThreadLone ==
    ASSUME LoneInv, ~Stuck, NEW s, Shells = {s}, ThreadStep
    PROVE  OneCommand(s)'
<1>0. OneCommand(s) /\ TypeOK
  BY DEF LoneInv, OneAtATime
<1> USE <1>0 DEF InHand
<1>1. CASE Dequeue
  <2>1. /\ cmd_q = <<asked[s]>> /\ rsp_q = <<>> /\ pc = "idle"
        /\ asked[s] # EMPTY
    BY <1>1 DEF Dequeue, OneCommand
  <2>2. cmd_q' = <<>> /\ send_buffer' = asked[s]
    BY <1>1, <2>1 DEF Dequeue
  <2> QED
    BY <1>1, <2>1, <2>2 DEF Dequeue, OneCommand
<1>2. CASE TransmitStart
  BY <1>2 DEF TransmitStart, OneCommand, queues
<1>3. CASE TransmitFails
  BY <1>3 DEF TransmitFails, OneCommand, queues
<1>4. CASE TransmitDone
  BY <1>4 DEF TransmitDone, OneCommand, queues, uart
<1>5. CASE Received
  <2>1. /\ rsp_q = <<>> /\ recv_buffer \in {asked[s], EMPTY}
        /\ cmd_q = <<>> /\ asked[s] # EMPTY
    BY <1>5 DEF Received, OneCommand
  <2>2. rsp_q' = <<recv_buffer>>
    BY <1>5, <2>1, Sdi12Assumption DEF Received
  <2> QED
    BY <1>5, <2>1, <2>2 DEF Received, OneCommand
<1>6. CASE ReceiveTimeout \/ Disable
  BY <1>6 DEF ReceiveTimeout, Disable, OneCommand, queues
<1>7. CASE Drain
  BY <1>7 DEF Drain, OneCommand, queues
<1> QED
  BY <1>1, <1>2, <1>3, <1>4, <1>5, <1>6, <1>7 DEF ThreadStep

\* What the sensor answers from now on, it answers to the command that was sent.
LEMMA UartLone ==
    ASSUME LoneInv, ~Stuck, NEW s, Shells = {s}, UartStep
    PROVE  OneCommand(s)'
<1>0. OneCommand(s) /\ Transmission
  BY DEF LoneInv, OneAtATime
<1> USE <1>0 DEF InHand
<1>1. CASE TxDone
  BY <1>1 DEF TxDone, Transmission, OneCommand, queues, thread
<1>2. CASE ResponseArrives
  BY <1>2 DEF ResponseArrives, Released, OneCommand, queues, thread
<1>3. CASE ReceptionStops \/ AnswerLost
  BY <1>3 DEF ReceptionStops, AnswerLost, OneCommand, queues, thread, uart
<1> QED
  BY <1>1, <1>2, <1>3 DEF UartStep

LEMMA TransmissionStep ==
    ASSUME TypeOK, Transmission, [Next]_vars
    PROVE  Transmission'
<1> USE DEF Transmission
<1>1. CASE UNCHANGED vars
  BY <1>1 DEF vars, thread, uart, sems
<1>2. ASSUME NEW s \in Shells,
             (\E c \in Commands : ShellSend(s, c)) \/ ShellReceive(s) \/ ShellTimeout(s)
      PROVE  Transmission'
  BY <1>2 DEF ShellSend, ShellReceive, ShellTimeout, thread, uart, sems
<1>3. CASE ThreadStep
  BY <1>3
  DEF ThreadStep, Dequeue, TransmitStart, TransmitFails, TransmitDone, Received,
      ReceiveTimeout, Disable, Drain, TypeOK, uart, sems
<1>4. CASE UartStep
  BY <1>4
  DEF UartStep, TxDone, ResponseArrives, ReceptionStops, AnswerLost, thread, uart, sems
<1> QED
  BY <1>1, <1>2, <1>3, <1>4 DEF Next

LEMMA NextLone ==
    ASSUME NEW s, Shells = {s}, IInv, LoneInv, [Next]_vars
    PROVE  LoneInv'
<1>1. TypeOK' /\ Transmission'
  BY NextIInv, TransmissionStep DEF IInv, LoneInv
<1>2. CASE Stuck
  BY <1>1, <1>2, StuckLone DEF LoneInv
<1>3. CASE ~Stuck
  <2>1. OneCommand(s)
    BY <1>3 DEF LoneInv, OneAtATime
  <2>2. OneCommand(s)'
    <3>1. CASE UNCHANGED vars
      BY <2>1, <3>1 DEF vars, queues, thread, uart, OneCommand, InHand
    <3> QED
      BY <1>3, <3>1, ShellLone, ThreadLone, UartLone DEF Next
  \* The thread gets stuck with a command in hand, before a response is queued.
  <2>3. Stuck' => rsp_q' = <<>>
    BY <2>2 DEF OneCommand, Stuck
  <2> QED
    BY <1>1, <2>2, <2>3 DEF LoneInv, OneAtATime
<1> QED
  BY <1>2, <1>3

\* A lone shell is never given the response to a command other than the one it waits
\* for, whatever the sensor answers and however late.
THEOREM OwnResponse == Cardinality(Shells) = 1 => (Spec => []ResponseIsCurrent)
<1> SUFFICES ASSUME Cardinality(Shells) = 1 PROVE Spec => []ResponseIsCurrent
  OBVIOUS
<1>1. PICK s : Shells = {s}
  BY FS_Singleton, Sdi12Assumption
<1>2. IInv /\ LoneInv /\ [Next]_vars => LoneInv'
  BY <1>1, NextLone
<1>3. LoneInv => ResponseIsCurrent
  <2> SUFFICES ASSUME LoneInv, NEW i \in 1 .. Len(rsp_q)
               PROVE  i = 1 /\ asked[s] # EMPTY /\ rsp_q[i] \in {asked[s], EMPTY}
    BY <1>1 DEF ResponseIsCurrent
  <2>1. rsp_q # <<>>
    OBVIOUS
  <2>2. asked[s] # EMPTY /\ Len(rsp_q) = 1 /\ rsp_q[1] \in {asked[s], EMPTY}
    BY <1>1, <2>1 DEF LoneInv, OneAtATime, OneCommand
  <2> QED
    BY <2>2
<1> QED
  BY <1>2, <1>3, InitLone, Invariant, PTL DEF Spec
=============================================================================
