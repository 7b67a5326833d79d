-------------------------- MODULE IcmpPhyUartProofs --------------------------
(***************************************************************************)
(* Theorems about IcmpPhyUart, for frames, loop periods and time-outs of   *)
(* any length: type correctness, that the link implements LossyChannel,    *)
(* and that spaced frames arrive.                                          *)
(***************************************************************************)
EXTENDS IcmpPhyUart, TLAPS

\* The DMA stops within the buffer.
TxBounds == tx_pos # 0 => tx_pos <= tx_end

\* Every cell of the transmit buffer is in its place, and the first one is of the last
\* frame that was sent.
FrameBufInPlace ==
    /\ \A k \in Places : frame_buf[k].part \in {0, k}
    /\ frame_buf[1].part = 1 => frame_buf[1].frame = sent

\* A frame whose first cell is at the start of the receive buffer was not received yet.
\* If the DMA is about to send a first cell, the one in the buffer is older.
Fresh ==
    /\ Channel!LastOf(received) <= sent
    /\ icmp_rx_buf[1].part = 1 =>
           Channel!LastOf(received) < icmp_rx_buf[1].frame /\ icmp_rx_buf[1].frame <= sent
    /\ tx_pos = 1 =>
           /\ Channel!LastOf(received) < sent
           /\ icmp_rx_buf[1].part = 1 => icmp_rx_buf[1].frame < sent

IInv == TypeOK /\ TxBounds /\ FrameBufInPlace /\ Fresh

----------------------------------------------------------------------------
USE IcmpPhyUartAssumption

LEMMA CellsFacts ==
    /\ Zero \in Cells /\ Cleared \in [Places -> Cells]
    /\ 1 \in Places
BY DEF Zero, Cleared, Cells, Places

\* What is put in the receive queue begins with the first cell of a frame.
LEMMA WholeBegins ==
    ASSUME NEW buf, Whole(buf)
    PROVE  buf[1].part = 1
<1> DEFINE rest == \A k \in 1 .. buf[1].length : buf[k] = [buf[1] EXCEPT !.part = k]
<1>1. buf[1].part = 1 /\ rest
  BY Zenon DEF Whole
<1> HIDE DEF rest
<1> QED
  BY <1>1

LEMMA PackedFacts ==
    ASSUME NEW n \in 0 .. MaxFrames, NEW length \in Places
    PROVE  /\ Packed(n, length) \in [Places -> Cells]
           /\ \A k \in Places : Packed(n, length)[k].part \in {0, k}
           /\ Packed(n, length)[1].part = 1 => Packed(n, length)[1].frame = n
BY CellsFacts DEF Packed, Cells, Places, Zero

LEMMA LastOfAppend ==
    ASSUME NEW S, NEW q \in Seq(S), NEW x \in S
    PROVE  Channel!LastOf(Append(q, x)) = x
BY DEF Channel!LastOf

LEMMA LastOfType ==
    ASSUME NEW q \in Seq(0 .. MaxFrames)
    PROVE  Channel!LastOf(q) \in 0 .. MaxFrames
BY DEF Channel!LastOf

----------------------------------------------------------------------------
\* The invariant.

LEMMA InitIInv == Init => IInv
<1> SUFFICES ASSUME Init PROVE IInv
  OBVIOUS
<1>1. TypeOK
  BY CellsFacts DEF Init, TypeOK
<1>2. TxBounds /\ FrameBufInPlace
  BY CellsFacts DEF Init, TxBounds, FrameBufInPlace, Cleared, Zero
<1>3. Fresh
  BY CellsFacts DEF Init, Fresh, Cleared, Zero, Channel!LastOf
<1> QED
  BY <1>1, <1>2, <1>3 DEF IInv

\* icmp_phy_uart_send packs the buffer for a frame that is newer than all before it.
LEMMA SendIInv ==
    ASSUME IInv, NEW length \in Places, Send(length)
    PROVE  IInv'
<1> USE DEF IInv
<1>1. sent' = sent + 1 /\ sent \in 0 .. MaxFrames /\ sent' \in 0 .. MaxFrames
  BY DEF Send, TypeOK
<1>2. TypeOK'
  <2>1. due' \in 0 .. MaxFrames
    BY <1>1 DEF Send, TypeOK
  <2>2. tx_pos' \in 0 .. MAX_FRAME_SIZE /\ tx_end' \in 0 .. MAX_FRAME_SIZE
    BY DEF Send, TypeOK, Places
  <2>3. frame_buf' \in [Places -> Cells]
    BY <1>1, PackedFacts DEF Send
  <2> QED
    BY <1>1, <2>1, <2>2, <2>3 DEF Send, TypeOK, receiver
<1>3. TxBounds'
  BY DEF Send, TypeOK, TxBounds, Places
<1>4. FrameBufInPlace'
  BY <1>1, PackedFacts DEF Send, FrameBufInPlace
<1>5. Fresh'
  <2>1. Channel!LastOf(received) \in 0 .. MaxFrames /\ received' = received
        /\ icmp_rx_buf' = icmp_rx_buf /\ icmp_rx_buf[1].frame \in 0 .. MaxFrames
    BY LastOfType, CellsFacts DEF TypeOK, Send, receiver, Cells
  <2> QED
    BY <1>1, <2>1 DEF Send, Fresh, TypeOK
<1> QED
  BY <1>2, <1>3, <1>4, <1>5

\* A cell that goes over the wire: a first cell is that of the last frame.
LEMMA TransmitCellIInv ==
    ASSUME IInv, TransmitCell
    PROVE  IInv'
<1> USE DEF IInv
<1>1. tx_pos \in Places /\ frame_buf[tx_pos] \in Cells /\ tx_pos <= tx_end
  BY DEF TransmitCell, TypeOK, TxBounds, Places
<1>2. rx = "on" => rx_pos' \in Places
  BY DEF TransmitCell, TimePasses, ReleaseDue, TypeOK, Places
<1>3. /\ icmp_rx_buf' \in [Places -> Cells]
      /\ rx_pos' \in 0 .. MAX_FRAME_SIZE
  <2>1. CASE rx = "on"
    BY <1>1, <1>2, <2>1 DEF TransmitCell, TypeOK, Places
  <2>2. CASE rx # "on"
    BY <2>2 DEF TransmitCell, TypeOK
  <2> QED
    BY <2>1, <2>2
<1>4. TypeOK'
  <2>1. tx_pos' \in 0 .. MAX_FRAME_SIZE /\ pause' \in 0 .. LOOP_PERIOD
    BY <1>1 DEF TransmitCell, TimePasses, TypeOK, Places
  <2> QED
    BY <1>3, <2>1 DEF TransmitCell, TypeOK
<1>5. TxBounds'
  BY <1>1 DEF TransmitCell, TypeOK, TxBounds
<1>6. FrameBufInPlace'
  BY DEF TransmitCell, FrameBufInPlace
<1>7. Fresh'
  <2>1. received' = received /\ sent' = sent /\ tx_pos' # 1
    BY <1>1 DEF TransmitCell, Places
  <2>2. Channel!LastOf(received) \in 0 .. MaxFrames
    BY LastOfType DEF TypeOK
  <2>3. CASE icmp_rx_buf'[1] = icmp_rx_buf[1]
    BY <2>1, <2>3 DEF Fresh
  <2>4. CASE icmp_rx_buf'[1] # icmp_rx_buf[1]
    <3>1. icmp_rx_buf'[1] = frame_buf[tx_pos]
      BY <1>2, <2>4, CellsFacts DEF TransmitCell, TypeOK
    <3>2. icmp_rx_buf'[1].part = 1 => tx_pos = 1 /\ frame_buf[1].frame = sent
      BY <1>1, <3>1 DEF FrameBufInPlace, Places
    <3> QED
      BY <2>1, <2>2, <3>1, <3>2 DEF Fresh, TypeOK
  <2> QED
    BY <2>3, <2>4
<1> QED
  BY <1>4, <1>5, <1>6, <1>7

\* The release of the receive buffer: what is put in the queue is new.
Released == AllocFails \/ Malformed \/ Enqueued

LEMMA ReleasedIInv ==
    ASSUME IInv, Released, UNCHANGED <<tx, quiet, rx_pos>>, rx' = "disabled",
           due' \in {0, due}
    PROVE  IInv'
<1> USE DEF IInv
<1>1. CASE UNCHANGED <<icmp_rx_buf, received>>
  BY <1>1 DEF TypeOK, TxBounds, FrameBufInPlace, Fresh, tx
<1>2. CASE Enqueued
  <2> DEFINE n == icmp_rx_buf[1].frame
  <2>1. /\ icmp_rx_buf[1].part = 1 /\ n \in 0 .. MaxFrames
        /\ received' = Append(received, n) /\ icmp_rx_buf' = Cleared
    BY <1>2, WholeBegins, CellsFacts DEF Enqueued, TypeOK, Cells
  <2>2. /\ received' \in Seq(0 .. MaxFrames)
        /\ Channel!LastOf(received') = n
    BY <2>1, LastOfAppend DEF TypeOK
  <2>3. TypeOK'
    BY <2>1, <2>2, CellsFacts DEF TypeOK, tx
  <2>4. TxBounds' /\ FrameBufInPlace'
    BY DEF TxBounds, FrameBufInPlace, tx
  <2>5. Fresh'
    <3>1. icmp_rx_buf'[1].part = 0
      BY <2>1, CellsFacts DEF Cleared, Zero
    <3> QED
      BY <2>1, <2>2, <3>1 DEF Fresh, tx
  <2> QED
    BY <2>3, <2>4, <2>5
<1> QED
  BY <1>1, <1>2 DEF Released, AllocFails, Malformed

LEMMA NextIInv == IInv /\ [Next]_vars => IInv'
<1> SUFFICES ASSUME IInv, [Next]_vars PROVE IInv'
  OBVIOUS
<1>1. CASE UNCHANGED vars
  BY <1>1 DEF vars, tx, receiver, IInv, TypeOK, TxBounds, FrameBufInPlace, Fresh
<1>2. CASE PhyUartInit \/ RxDisabled
  BY <1>2 DEF PhyUartInit, RxDisabled, tx, IInv, TypeOK, TxBounds, FrameBufInPlace, Fresh
<1>3. ASSUME NEW length \in Places, Send(length) PROVE IInv'
  BY <1>3, SendIInv
<1>4. CASE TransmitCell
  BY <1>4, TransmitCellIInv
<1>5. CASE Silence
  BY <1>5 DEF Silence, TimePasses, receiver, IInv, TypeOK, TxBounds, FrameBufInPlace, Fresh
<1>6. CASE RxBufReleased \/ RxStopped
  BY <1>6, ReleasedIInv DEF RxBufReleased, RxStopped, Released
<1> QED
  BY <1>1, <1>2, <1>3, <1>4, <1>5, <1>6 DEF Next, Tick

LEMMA Invariant == Spec => []IInv
BY InitIInv, NextIInv, PTL DEF Spec

\* Every variable holds a value of its type; in particular nothing is received past
\* the end of icmp_rx_buf.
THEOREM TypeCorrect == Spec => []TypeOK
<1>1. IInv => TypeOK
  BY DEF IInv
<1> QED
  BY <1>1, Invariant, PTL

----------------------------------------------------------------------------
\* Refinement.

LEMMA InitChannel == Init => Channel!Init
BY DEF Init, Channel!Init

LEMMA ReleasedChannel ==
    ASSUME IInv, Released, UNCHANGED sent
    PROVE  [Channel!Next]_(<<sent, received>>)
<1>1. CASE UNCHANGED received
  BY <1>1
<1>2. CASE Enqueued
  <2>1. icmp_rx_buf[1].part = 1 /\ received' = Append(received, icmp_rx_buf[1].frame)
    BY <1>2, WholeBegins DEF Enqueued
  <2>2. icmp_rx_buf[1].frame \in 0 .. MaxFrames
        /\ Channel!LastOf(received) \in 0 .. MaxFrames /\ sent \in 0 .. MaxFrames
    BY LastOfType, CellsFacts DEF IInv, TypeOK, Cells
  <2>3. icmp_rx_buf[1].frame \in (Channel!LastOf(received) + 1) .. sent
    BY <2>1, <2>2 DEF IInv, Fresh
  <2> QED
    BY <2>1, <2>3 DEF Channel!Next, Channel!Receive
<1> QED
  BY <1>1, <1>2 DEF Released, AllocFails, Malformed

LEMMA StepChannel == IInv /\ [Next]_vars => [Channel!Next]_(<<sent, received>>)
<1> SUFFICES ASSUME IInv, [Next]_vars PROVE [Channel!Next]_(<<sent, received>>)
  OBVIOUS
<1>1. CASE UNCHANGED <<sent, received>>
  BY <1>1
<1>2. ASSUME NEW length \in Places, Send(length) PROVE Channel!Next
  BY <1>2 DEF Send, receiver, Channel!Next, Channel!Send
<1>3. CASE RxBufReleased \/ RxStopped
  BY <1>3, ReleasedChannel DEF RxBufReleased, RxStopped, Released, tx
<1> QED
  BY <1>1, <1>2, <1>3
  DEF Next, Tick, PhyUartInit, TransmitCell, Silence, RxDisabled, vars, tx, receiver

\* The link implements the lossy channel: a frame arrives as it was sent, once and in
\* order, or not at all, although the transmit buffer is packed while the DMA reads it
\* and failures leave the receive buffer as it is.
THEOREM Refinement == Spec => LossyChannel
BY InitChannel, StepChannel, Invariant, PTL DEF Spec, LossyChannel, Channel!Spec

LEMMA ElementOf ==
    ASSUME NEW q \in Seq(0 .. MaxFrames), NEW i \in 1 .. Len(q)
    PROVE  q[i] \in 0 .. MaxFrames
OBVIOUS

\* What LossyChannel comes to: the frames that arrive were sent, in this order.
OnceInOrder ==
    /\ \A i \in 1 .. Len(received) : received[i] \in 1 .. sent
    /\ \A i, j \in 1 .. Len(received) : i < j => received[i] < received[j]

LEMMA LastIsGreatest ==
    ASSUME NEW q \in Seq(0 .. MaxFrames), NEW i \in 1 .. Len(q),
           \A j, k \in 1 .. Len(q) : j < k => q[j] < q[k]
    PROVE  q[i] <= Channel!LastOf(q)
<1>1. Channel!LastOf(q) = q[Len(q)] /\ Len(q) \in 1 .. Len(q)
  BY DEF Channel!LastOf
<1>2. q[i] \in Int
  BY ElementOf
<1>3. CASE i = Len(q)
  BY <1>1, <1>2, <1>3
<1>4. CASE i # Len(q)
  <2>1. i < Len(q) /\ q[Len(q)] \in Int
    BY <1>1, <1>4, ElementOf
  <2>2. q[i] < q[Len(q)]
    BY <1>1, <2>1
  <2> QED
    BY <1>1, <1>2, <2>1, <2>2
<1> QED
  BY <1>3, <1>4

LEMMA StepOnceInOrder ==
    ASSUME TypeOK, OnceInOrder, [Channel!Next]_(<<sent, received>>)
    PROVE  OnceInOrder'
<1> USE DEF TypeOK, OnceInOrder
<1>1. CASE UNCHANGED <<sent, received>>
  BY <1>1
<1>2. CASE Channel!Send
  BY <1>2 DEF Channel!Send
<1>3. CASE Channel!Receive
  <2>1. PICK n \in (Channel!LastOf(received) + 1) .. sent :
            received' = Append(received, n) /\ sent' = sent
    BY <1>3 DEF Channel!Receive
  <2>2. /\ n \in Int /\ n <= sent /\ Channel!LastOf(received) < n
        /\ Channel!LastOf(received) \in Nat
    BY <2>1, LastOfType
  <2>3. \A i \in 1 .. Len(received) : received[i] <= Channel!LastOf(received)
    BY LastIsGreatest
  <2>4. /\ Len(received') = Len(received) + 1 /\ received'[Len(received) + 1] = n
        /\ \A i \in 1 .. Len(received) : received'[i] = received[i]
    BY <2>1
  <2> QED
    BY <2>1, <2>2, <2>3, <2>4
<1> QED
  BY <1>1, <1>2, <1>3 DEF Channel!Next

\* No frame is received twice, after a later one or without having been sent, although
\* the transmit buffer is packed anew under the DMA and several frames share a receive
\* buffer.
THEOREM ReceivedOnceInOrder == Spec => []OnceInOrder
<1>1. Init => OnceInOrder
  BY DEF Init, OnceInOrder
<1>2. IInv /\ OnceInOrder /\ [Next]_vars => OnceInOrder'
  BY StepChannel, StepOnceInOrder DEF IInv
<1> QED
  BY <1>1, <1>2, Invariant, PTL DEF Spec

----------------------------------------------------------------------------
\* Spaced frames.

Arrived == \E i \in 1 .. Len(received) : received[i] = due

\* The frame that is due is being sent from the beginning of the receive buffer on, ...
Going ==
    /\ tx_pos \in Places /\ tx_end \in Places
    /\ frame_buf = Packed(due, tx_end)
    /\ rx = "on" /\ rx_pos = tx_pos - 1
    /\ \A k \in 1 .. rx_pos : icmp_rx_buf[k] = frame_buf[k]
    /\ rx_pos > 0 => quiet = 0

\* ... or is whole in there.
There ==
    /\ rx = "on" /\ rx_pos > 0
    /\ icmp_rx_buf[1].length \in 1 .. rx_pos
    /\ \A k \in 1 .. icmp_rx_buf[1].length :
           icmp_rx_buf[k] = [frame |-> due, part |-> k, length |-> icmp_rx_buf[1].length]

DueInv == due # 0 => Going \/ There \/ Arrived

LEMMA PackedCell ==
    ASSUME NEW n, NEW length \in Places, NEW k \in 1 .. length
    PROVE  Packed(n, length)[k] = [frame |-> n, part |-> k, length |-> length]
BY DEF Packed, Places

\* What has arrived stays so.
LEMMA ArrivedStays ==
    ASSUME TypeOK, Arrived, due' = due,
           \/ received' = received
           \/ \E n : received' = Append(received, n)
    PROVE  Arrived'
<1>1. PICK i \in 1 .. Len(received) : received[i] = due
  BY DEF Arrived
<1>2. CASE received' = received
  BY <1>1, <1>2 DEF Arrived
<1>3. ASSUME NEW n, received' = Append(received, n) PROVE Arrived'
  <2>1. Len(received') = Len(received) + 1 /\ received'[i] = received[i]
    BY <1>3 DEF TypeOK
  <2> QED
    BY <1>1, <2>1 DEF Arrived, TypeOK
<1> QED
  BY <1>2, <1>3

\* A frame sent into a silent line is on its way; one that is sent before the frame due
\* is out makes it lost, but none does that is sent later.
LEMMA SendDue ==
    ASSUME TypeOK, DueInv, NEW length \in Places, Send(length), due' # 0
    PROVE  DueInv'
<1>1. CASE Listening
  <2>1. Going'
    BY <1>1 DEF Send, Going, Listening, receiver, Places, TypeOK
  <2> QED
    BY <2>1 DEF DueInv
<1>2. CASE ~Listening
  <2>1. tx_pos = 0 /\ due' = due /\ UNCHANGED receiver
    BY <1>2 DEF Send
  <2>2. There \/ Arrived
    BY <2>1 DEF DueInv, Going, Places
  <2> QED
    BY <2>1, <2>2, ArrivedStays DEF DueInv, There, receiver
<1> QED
  BY <1>1, <1>2

LEMMA TransmitDue ==
    ASSUME TypeOK, TxBounds, DueInv, TransmitCell, due' # 0
    PROVE  DueInv'
<1>1. due' = due /\ received' = received /\ frame_buf' = frame_buf /\ tx_end' = tx_end
      /\ rx' = rx /\ quiet' = 0
  BY DEF TransmitCell, TimePasses
<1>2. rx = "on" => /\ rx_pos' = rx_pos + 1 /\ rx_pos' \in Places
                   /\ icmp_rx_buf'[rx_pos'] = frame_buf[tx_pos]
                   /\ \A k \in 1 .. rx_pos : icmp_rx_buf'[k] = icmp_rx_buf[k]
  BY DEF TransmitCell, TimePasses, ReleaseDue, TypeOK, Places
<1>3. CASE Going
  <2>1. /\ rx_pos' = tx_pos /\ tx_pos \in Places
        /\ \A k \in 1 .. rx_pos' : icmp_rx_buf'[k] = frame_buf[k]
    BY <1>2, <1>3 DEF Going, Places
  <2>2. CASE tx_pos # tx_end
    <3>1. tx_pos' = tx_pos + 1 /\ tx_pos' \in Places
      BY <1>3, <2>2 DEF Going, TransmitCell, TxBounds, TypeOK, Places
    <3> QED
      BY <1>1, <1>3, <2>1, <3>1 DEF Going, DueInv, Places
  <2>3. CASE tx_pos = tx_end
    <3>1. \A k \in 1 .. rx_pos' :
            icmp_rx_buf'[k] = [frame |-> due, part |-> k, length |-> tx_end]
      BY <1>3, <2>1, <2>3, PackedCell DEF Going
    <3>2. rx_pos' = tx_end /\ tx_end \in Places /\ 1 \in 1 .. rx_pos'
      BY <1>3, <2>1, <2>3 DEF Going, Places
    <3>3. icmp_rx_buf'[1].length = tx_end
      <4>1. icmp_rx_buf'[1] = [frame |-> due, part |-> 1, length |-> tx_end]
        BY <3>1, <3>2
      <4> QED
        BY <4>1
    <3>4. There'
      BY <1>1, <1>3, <3>1, <3>2, <3>3 DEF There, Going, Places
    <3> QED
      BY <3>4 DEF DueInv
  <2> QED
    BY <2>2, <2>3
<1>4. CASE There
  <2> DEFINE n == icmp_rx_buf[1].length
  <2>1. n \in 1 .. rx_pos /\ rx_pos \in Nat /\ 1 \in 1 .. rx_pos /\ rx_pos' = rx_pos + 1
    BY <1>2, <1>4 DEF There, TypeOK
  <2>2. \A k \in 1 .. n : k \in 1 .. rx_pos
    BY <2>1
  <2>3. icmp_rx_buf'[1] = icmp_rx_buf[1]
        /\ \A k \in 1 .. n : icmp_rx_buf'[k] = icmp_rx_buf[k]
    BY <1>2, <1>4, <2>1, <2>2 DEF There
  <2>4. There'
    BY <1>1, <1>4, <2>1, <2>3 DEF There
  <2> QED
    BY <2>4 DEF DueInv
<1>5. CASE Arrived
  BY <1>1, <1>5, ArrivedStays DEF DueInv
<1> QED
  BY <1>1, <1>3, <1>4, <1>5 DEF DueInv

\* A frame that is whole at the start of the buffer is put in the queue, if there is
\* room on the slab; one that is being sent is not interrupted.
LEMMA ReleaseDueInv ==
    ASSUME TypeOK, DueInv, RxBufReleased, due' # 0
    PROVE  DueInv'
<1>1. due' = due /\ (Malformed \/ Enqueued)
  BY DEF RxBufReleased
<1>2. ~Going
  BY DEF RxBufReleased, ReleaseDue, Going, Places, TypeOK
<1>3. CASE There
  <2> DEFINE n == icmp_rx_buf[1].length
  <2>1. n \in Nat \ {0}
        /\ \A k \in 1 .. n : icmp_rx_buf[k] = [frame |-> due, part |-> k, length |-> n]
    BY <1>3 DEF There, TypeOK
  <2> HIDE DEF n
  <2>2. icmp_rx_buf[1] = [frame |-> due, part |-> 1, length |-> n]
    BY <2>1
  <2>3. \A k \in 1 .. n : icmp_rx_buf[k] = [icmp_rx_buf[1] EXCEPT !.part = k]
    BY <2>1, <2>2
  <2>4. Whole(icmp_rx_buf)
    BY <2>2, <2>3 DEF Whole, n
  <2>5. received' = Append(received, due)
    BY <1>1, <2>2, <2>4 DEF Malformed, Enqueued
  <2>6. Len(received') = Len(received) + 1 /\ received'[Len(received')] = due
    BY <2>5 DEF TypeOK
  <2> QED
    BY <1>1, <2>6 DEF DueInv, Arrived, TypeOK
<1>4. CASE Arrived
  BY <1>1, <1>4, ArrivedStays DEF DueInv, Malformed, Enqueued
<1> QED
  BY <1>1, <1>2, <1>3, <1>4 DEF DueInv

LEMMA DueInvariant == Spec => []DueInv
<1>1. Init => DueInv
  BY DEF Init, DueInv
<1>2. TypeOK /\ TxBounds /\ DueInv /\ [Next]_vars => DueInv'
  <2> SUFFICES ASSUME TypeOK, TxBounds, DueInv, [Next]_vars, due' # 0 PROVE DueInv'
    BY DEF DueInv
  <2>1. CASE UNCHANGED vars
    BY <2>1 DEF vars, tx, receiver, DueInv, Going, There, Arrived
  <2>2. CASE PhyUartInit \/ RxDisabled
    <3>1. ~Going /\ ~There /\ due' = due /\ received' = received
      BY <2>2 DEF PhyUartInit, RxDisabled, Going, There
    <3> QED
      BY <3>1, ArrivedStays DEF DueInv
  <2>3. ASSUME NEW length \in Places, Send(length) PROVE DueInv'
    BY <2>3, SendDue
  <2>4. CASE TransmitCell
    BY <2>4, TransmitDue
  <2>5. CASE Silence
    <3>1. ~Going /\ due' = due /\ UNCHANGED receiver
      BY <2>5 DEF Silence, Going, Places
    <3> QED
      BY <3>1, ArrivedStays DEF DueInv, There, receiver
  <2>6. CASE RxBufReleased
    BY <2>6, ReleaseDueInv
  <2>7. CASE RxStopped
    BY <2>7 DEF RxStopped
  <2> QED
    BY <2>1, <2>2, <2>3, <2>4, <2>5, <2>6, <2>7 DEF Next, Tick
<1>3. IInv => TypeOK /\ TxBounds
  BY DEF IInv
<1> QED
  BY <1>1, <1>2, <1>3, Invariant, PTL DEF Spec

\* A frame that icmp_phy_uart_send sends when the line has been silent for the receive
\* time-out arrives, unless the next one is sent before it is out, the line fails or
\* the slab is exhausted.
THEOREM SpacedArrive == Spec => []SpacedFramesArrive
<1>1. DueInv => SpacedFramesArrive
  BY DEF DueInv, SpacedFramesArrive, Going, There, Arrived, Listening, Places
<1> QED
  BY <1>1, DueInvariant, PTL
=============================================================================
