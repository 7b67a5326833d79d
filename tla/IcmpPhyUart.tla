----------------------------- MODULE IcmpPhyUart -----------------------------
(***************************************************************************)
(* One direction of the link between the cores: icmp_phy_uart_send and the *)
(* transmit buffer of one core, the UART, and the receive buffer and UART  *)
(* callback of the other (lib/icmp/icmp_phy_uart.c), with the frame codec  *)
(* (lib/icmp/icmp_frame.c).                                                *)
(*                                                                         *)
(* Buffers and frames are made of cells, a few bytes each; a tick is the   *)
(* time a cell takes on the wire.  A cell is told by the frame it belongs  *)
(* to and its place in it.  The CRC accepts a buffer exactly if it holds   *)
(* one frame's cells in their places.                                      *)
(*                                                                         *)
(* The UART driver is external, modelled from its use: the DMA sends from  *)
(* frame_buf while the ICMP thread goes on; the receive buffer is released *)
(* when it is full, when the line has been silent for ICMP_UART_RX_TIMEOUT *)
(* after a byte, or on a line error, and reception is then off.            *)
(* Interrupts take less than a tick.                                       *)
(***************************************************************************)
EXTENDS Integers, Sequences

CONSTANTS
    MAX_FRAME_SIZE,   \* ICMP_MAX_FRAME_SIZE, in cells
    LOOP_PERIOD,      \* the sleep of the ICMP thread between two sends, in ticks
    RX_TIMEOUT,       \* ICMP_UART_RX_TIMEOUT, in ticks
    MaxFrames         \* bound: the frames that are sent

ASSUME IcmpPhyUartAssumption ==
    /\ MAX_FRAME_SIZE \in Nat \ {0} /\ LOOP_PERIOD \in Nat \ {0}
    /\ RX_TIMEOUT \in Nat \ {0} /\ MaxFrames \in Nat

Places == 1 .. MAX_FRAME_SIZE

VARIABLES
    frame_buf,      \* the transmit buffer
    tx_pos,         \* the cell the DMA sends next, 0 if it is idle
    tx_end,         \* the last cell it is to send
    pause,          \* ticks until the ICMP thread looks at its queue again
    icmp_rx_buf,
    rx,             \* reception: not started, on, or disabled since a release
    rx_pos,         \* how many cells were received since it was enabled
    quiet,          \* ticks since the last cell on the wire, up to RX_TIMEOUT
    sent, received, \* history: frames sent, frames put in the receive queue
    due             \* history: the last frame that was sent into a silent line, if
                    \* nothing has happened since that may cost it, or 0

tx == <<frame_buf, tx_pos, tx_end, pause, sent>>
receiver == <<icmp_rx_buf, rx, rx_pos, received>>
vars == <<tx, receiver, quiet, due>>

----------------------------------------------------------------------------
\* The frame codec.

Zero == [frame |-> 0, part |-> 0, length |-> 0]
Cleared == [k \in Places |-> Zero]

\* The buffer after memset and icmp_frame_pack.
Packed(n, length) ==
    [k \in Places |-> IF k <= length THEN [frame |-> n, part |-> k, length |-> length]
                      ELSE Zero]

\* icmp_frame_unpack returns 0: the first cell is that of a frame, its length says how
\* many cells are the frame's, and they are.  What lies behind them does not matter.
WholeInClearedBuffer(buf) ==
    /\ buf[1].part = 1
    /\ buf = Packed(buf[1].frame, buf[1].length)
Whole(buf) ==
    /\ buf[1].part = 1
    /\ \A k \in 1 .. buf[1].length : buf[k] = [buf[1] EXCEPT !.part = k]


----------------------------------------------------------------------------
Init ==
    /\ frame_buf = Cleared /\ tx_pos = 0 /\ tx_end = 0 /\ pause = 0
    /\ icmp_rx_buf = Cleared /\ rx = "off" /\ rx_pos = 0
    /\ quiet = RX_TIMEOUT
    /\ sent = 0 /\ received = <<>> /\ due = 0

\* icmp_phy_uart_init of the receiving core.
PhyUartInit ==
    /\ rx = "off" /\ rx' = "on"
    /\ UNCHANGED <<tx, icmp_rx_buf, rx_pos, received, quiet, due>>

\* The line is silent and the receiver waits for the first byte of a frame.
Listening == rx = "on" /\ rx_pos = 0 /\ tx_pos = 0 /\ quiet = RX_TIMEOUT

\* icmp_phy_uart_send, with a frame of some length, one that fits because
\* icmp_command, icmp_respond and icmp_notify have checked it.  uart_tx returns -EBUSY
\* if the DMA is still sending; frame_buf has been packed again by then.
Send(length) ==
    /\ pause = 0 /\ sent < MaxFrames
    /\ sent' = sent + 1
    /\ pause' = LOOP_PERIOD
    /\ frame_buf' = Packed(sent', length)
    /\ IF tx_pos = 0 THEN tx_pos' = 1 /\ tx_end' = length ELSE UNCHANGED <<tx_pos, tx_end>>
    /\ due' = IF Listening THEN sent' ELSE IF tx_pos = 0 THEN due ELSE 0
    /\ UNCHANGED <<receiver, quiet>>

----------------------------------------------------------------------------
\* The UART.

\* The receive buffer is to be released.
ReleaseDueIfFull == rx = "on" /\ rx_pos = MAX_FRAME_SIZE
ReleaseDueIfSilent == rx = "on" /\ rx_pos > 0 /\ quiet = RX_TIMEOUT
ReleaseDue ==
    /\ rx = "on" /\ rx_pos > 0
    /\ rx_pos = MAX_FRAME_SIZE \/ quiet = RX_TIMEOUT

TimePasses ==
    /\ ~ReleaseDue /\ rx # "disabled"
    /\ pause' = IF pause = 0 THEN 0 ELSE pause - 1

\* A cell goes over the wire.
TransmitCell ==
    /\ TimePasses
    /\ tx_pos # 0
    /\ tx_pos' = IF tx_pos = tx_end THEN 0 ELSE tx_pos + 1
    /\ IF rx = "on"
       THEN /\ rx_pos' = rx_pos + 1
            /\ icmp_rx_buf' = [icmp_rx_buf EXCEPT ![rx_pos'] = frame_buf[tx_pos]]
       ELSE UNCHANGED <<rx_pos, icmp_rx_buf>>
    /\ quiet' = 0
    /\ UNCHANGED <<frame_buf, tx_end, sent, rx, received, due>>

Silence ==
    /\ TimePasses
    /\ tx_pos = 0
    /\ quiet' = IF quiet = RX_TIMEOUT THEN quiet ELSE quiet + 1
    /\ UNCHANGED <<frame_buf, tx_pos, tx_end, sent, receiver, due>>

Tick == TransmitCell \/ Silence

----------------------------------------------------------------------------
\* icmp_uart_cb.

\* UART_RX_BUF_RELEASED: no free frame, a malformed frame, or a frame for the receive
\* queue.  (What becomes of it if the queue is full is in Icmp.)  Only the last clears
\* the buffer.
AllocFails == UNCHANGED <<icmp_rx_buf, received>>
Malformed == ~Whole(icmp_rx_buf) /\ UNCHANGED <<icmp_rx_buf, received>>
EnqueuedNotCleared ==
    /\ Whole(icmp_rx_buf)
    /\ received' = Append(received, icmp_rx_buf[1].frame)
    /\ UNCHANGED icmp_rx_buf
Enqueued ==
    /\ Whole(icmp_rx_buf)
    /\ received' = Append(received, icmp_rx_buf[1].frame)
    /\ icmp_rx_buf' = Cleared

RxBufReleased ==
    /\ ReleaseDue
    /\ rx' = "disabled"
    /\ \/ AllocFails /\ due' = 0
       \/ (Malformed \/ Enqueued) /\ UNCHANGED due
    /\ UNCHANGED <<tx, rx_pos, quiet>>

\* UART_RX_STOPPED, then the release of what was received.
RxStopped ==
    /\ rx = "on" /\ rx' = "disabled"
    /\ AllocFails \/ Malformed \/ Enqueued
    /\ due' = 0
    /\ UNCHANGED <<tx, rx_pos, quiet>>

\* UART_RX_DISABLED: reception starts again at the beginning of the buffer.
RxDisabled ==
    /\ rx = "disabled"
    /\ rx' = "on" /\ rx_pos' = 0
    /\ UNCHANGED <<tx, icmp_rx_buf, received, quiet, due>>

----------------------------------------------------------------------------
Next ==
    \/ PhyUartInit
    \/ \E length \in Places : Send(length)
    \/ Tick
    \/ RxBufReleased \/ RxStopped \/ RxDisabled

Spec == Init /\ [][Next]_vars

\* Time passes and interrupts are served; nothing is assumed of the sender, the line
\* or the slab.
FairSpec == Spec /\ WF_vars(Tick) /\ WF_vars(RxBufReleased) /\ WF_vars(RxDisabled)

----------------------------------------------------------------------------
\* Properties.

Cells == [frame : 0 .. MaxFrames, part : 0 .. MAX_FRAME_SIZE,
          length : 0 .. MAX_FRAME_SIZE]

\* Every variable holds a value of its type; in particular no cell is received past
\* the end of the buffer.
TypeOK ==
    /\ frame_buf \in [Places -> Cells] /\ icmp_rx_buf \in [Places -> Cells]
    /\ tx_pos \in 0 .. MAX_FRAME_SIZE /\ tx_end \in 0 .. MAX_FRAME_SIZE
    /\ pause \in 0 .. LOOP_PERIOD
    /\ rx \in {"off", "on", "disabled"} /\ rx_pos \in 0 .. MAX_FRAME_SIZE
    /\ quiet \in 0 .. RX_TIMEOUT
    /\ sent \in 0 .. MaxFrames /\ received \in Seq(0 .. MaxFrames)
    /\ due \in 0 .. MaxFrames

\* The link is a lossy channel: whatever the transmit buffer is packed with while the
\* DMA sends, however frames run together, and whatever a failure leaves behind in the
\* receive buffer, no frame is made up, mixed, repeated or overtaken.
Channel == INSTANCE LossyChannel WITH sent <- sent, received <- received
LossyChannel == Channel!Spec

\* A frame that is sent when the line was silent for the receive time-out arrives,
\* unless the next one is sent before it is out, the line fails or the slab is
\* exhausted: neither frames that follow too soon nor what an earlier failure has left
\* in the receive buffer cost it.  It has arrived when the line is silent again.
SpacedFramesArrive ==
    due # 0 /\ Listening => \E i \in 1 .. Len(received) : received[i] = due

\* Once started, the receiver comes back to the beginning of its buffer again and
\* again, whatever it receives, ready for the next frame.
ReceiverRecovers == rx # "off" ~> rx = "on" /\ rx_pos = 0
=============================================================================
