--------------------------- MODULE DataPathProofs ---------------------------
(***************************************************************************)
(* Theorems about DataPath, for every number of pollers, readings, queue   *)
(* slots, every buffer size and every line length: type correctness; that  *)
(* no poller stops; that the log is whole and in order as long as the      *)
(* buffers are not swapped under a flush; and that they are not, unless    *)
(* more is waiting when a flush is submitted than a buffer holds.          *)
(***************************************************************************)
EXTENDS DataPath, FiniteSetTheorems, SequenceTheorems, TLAPS

Items == Pollers \cup {"flush"}

NoDuplicates(q) == \A i, j \in 1 .. Len(q) : q[i] = q[j] => i = j

----------------------------------------------------------------------------
\* The workqueue.

LEMMA SubmitWorkFacts ==
    ASSUME NEW item \in Items, workq \in Seq(Items), NoDuplicates(workq),
           SubmitWork(item)
    PROVE  /\ workq' \in Seq(Items) /\ NoDuplicates(workq')
           /\ Pending' = Pending \cup {item}
           /\ \A i \in 1 .. Len(workq') :
                  IF i \in 1 .. Len(workq) THEN workq'[i] = workq[i] ELSE workq'[i] = item
           /\ Len(workq') >= Len(workq)
<1>1. CASE item \in Pending
  BY <1>1 DEF SubmitWork, Pending
<1>2. CASE item \notin Pending
  <2>1. workq' = Append(workq, item)
    BY <1>2 DEF SubmitWork
  <2>2. Len(workq') = Len(workq) + 1 /\ workq' \in Seq(Items)
    BY <2>1
  <2>3. \A i \in 1 .. Len(workq') : workq'[i] = IF i = Len(workq') THEN item ELSE workq[i]
    BY <2>1
  <2>4. \A i \in 1 .. Len(workq) : workq[i] # item
    BY <1>2 DEF Pending
  <2> QED
    BY <2>2, <2>3, <2>4 DEF Pending, NoDuplicates
<1> QED
  BY <1>1, <1>2

LEMMA StartWorkFacts ==
    ASSUME NEW item \in Items, workq \in Seq(Items), NoDuplicates(workq),
           StartWork(item)
    PROVE  /\ workq' \in Seq(Items) /\ NoDuplicates(workq')
           /\ running = NULL /\ running' = item
           /\ Pending' = Pending \ {item}
           /\ Len(workq) \in Nat \ {0} /\ workq[1] = item
           /\ Len(workq') = Len(workq) - 1
           /\ \A i \in 1 .. Len(workq') : workq'[i] = workq[i + 1]
<1>1. Len(workq) \in Nat \ {0} /\ workq[1] = item /\ workq' = Tail(workq)
  BY DEF StartWork
<1>2. Len(workq') = Len(workq) - 1 /\ workq' \in Seq(Items)
  BY <1>1
<1>3. \A i \in 1 .. Len(workq') : i + 1 \in 1 .. Len(workq) /\ workq'[i] = workq[i + 1]
  BY <1>1, <1>2
<1>4. NoDuplicates(workq')
  BY <1>2, <1>3 DEF NoDuplicates
<1>5. \A i \in 1 .. Len(workq') : workq'[i] # item
  BY <1>1, <1>2, <1>3 DEF NoDuplicates
<1>6. \A i \in 1 .. Len(workq) : i = 1 \/ (i - 1 \in 1 .. Len(workq') /\ workq[i] = workq'[i - 1])
  BY <1>1, <1>2, <1>3
<1>7. Pending' = Pending \ {item}
  <2>1. Pending' \subseteq Pending \ {item}
    BY <1>3, <1>5 DEF Pending
  <2>2. Pending \ {item} \subseteq Pending'
    <3> SUFFICES ASSUME NEW i \in 1 .. Len(workq), workq[i] # item
                 PROVE  workq[i] \in Pending'
      BY DEF Pending
    <3>1. i - 1 \in 1 .. Len(workq') /\ workq[i] = workq'[i - 1]
      BY <1>1, <1>6
    <3> QED
      BY <3>1 DEF Pending
  <2> QED
    BY <2>1, <2>2
<1> QED
  BY <1>1, <1>2, <1>3, <1>4, <1>7 DEF StartWork

\* A handler of the SD card writer runs in no poller's place, and readings are left to
\* a poller that runs.
WorkInv ==
    /\ workq \in Seq(Items) /\ NoDuplicates(workq)
    /\ running \in Items \cup {NULL}
    /\ handler # "idle" <=> running = "flush"
    /\ left \in Nat
    /\ left > 0 => running \in Pollers /\ left <= Readings[running]
    /\ PollersAlive

LEMMA InitWork == Init => WorkInv
BY ItemsAssumption
DEF Init, SdCardInit, SensorPollInit, WorkInv, PollersAlive, Items, NoDuplicates

LEMMA FlushWork ==
    ASSUME WorkInv, FlushStep, UNCHANGED sensors
    PROVE  WorkInv'
<1> USE ItemsAssumption DEF WorkInv, PollersAlive, sensors
<1>1. CASE FlushStart
  <2>1. /\ workq' \in Seq(Items) /\ NoDuplicates(workq')
        /\ running = NULL /\ running' = "flush"
        /\ Pending \subseteq Pending' \cup {"flush"}
    BY <1>1, StartWorkFacts DEF FlushStart, Items
  <2> QED
    BY <1>1, <2>1 DEF FlushStart, Items
<1>2. CASE ~FlushStart
  <2>1. /\ UNCHANGED workq /\ running = "flush"
        /\ \/ running' = NULL /\ handler' = "idle"
           \/ running' = "flush" /\ handler' # "idle"
    BY <1>2 DEF FlushStep, Mount, Open, WriteCell, WriteEnds, Close, Unmount, EndWork
  <2> QED
    BY <2>1 DEF Pending, Items
<1> QED
  BY <1>1, <1>2

LEMMA PollWork ==
    ASSUME WorkInv, PollStep, UNCHANGED sdcard
    PROVE  WorkInv'
<1> USE ItemsAssumption, SensorPollAssumption DEF WorkInv, PollersAlive, sdcard, flusher
<1>1. ASSUME NEW p \in Pollers, PollStart(p) PROVE WorkInv'
  <2>1. /\ workq' \in Seq(Items) /\ NoDuplicates(workq')
        /\ running = NULL /\ running' = p
        /\ Pending \subseteq Pending' \cup {p}
    BY <1>1, StartWorkFacts DEF PollStart, Items
  <2>2. left' = Readings[p] /\ Readings[p] \in Nat
    BY <1>1 DEF PollStart
  <2> QED
    BY <1>1, <2>1, <2>2 DEF PollStart, Items
<1>2. CASE Reading \/ ReadingFails
  BY <1>2 DEF Reading, ReadingFails, Pending
<1>3. CASE PollEnd
  BY <1>3 DEF PollEnd, EndWork, Pending
<1> QED
  BY <1>1, <1>2, <1>3 DEF PollStep

LEMMA OtherWork ==
    ASSUME WorkInv,
           DatapointThread \/ \E p \in Pollers :
                Due(p) \/ (SetPollInterval(p) /\ UNCHANGED sdcard)
    PROVE  WorkInv'
<1> USE DEF WorkInv, PollersAlive, sdcard, sensors, flusher
<1>1. CASE DatapointThread /\ ~SubmitFlush
  BY <1>1 DEF DatapointThread, DatapointDequeue, SubmitLine, Swap, CopyCell, LineDone,
              Pending
<1>2. CASE DatapointThread /\ SubmitFlush
  <2>1. workq' \in Seq(Items) /\ NoDuplicates(workq') /\ Pending' = Pending \cup {"flush"}
    BY <1>2, SubmitWorkFacts DEF SubmitFlush, Items
  <2>2. UNCHANGED <<running, scheduled, left, handler>>
    BY <1>2 DEF DatapointThread, DatapointDequeue, SubmitFlush, SubmitLine, Swap,
                CopyCell, LineDone
  <2> QED
    BY <2>1, <2>2
<1>3. ASSUME NEW p \in Pollers, Due(p) PROVE WorkInv'
  <2>1. workq' \in Seq(Items) /\ NoDuplicates(workq') /\ Pending' = Pending \cup {p}
    BY <1>3, SubmitWorkFacts DEF Due, PollDue, Items
  <2> QED
    BY <1>3, <2>1 DEF Due, PollDue
<1>4. ASSUME NEW p \in Pollers, SetPollInterval(p), UNCHANGED sdcard PROVE WorkInv'
  BY <1>4 DEF SetPollInterval, Pending
<1> QED
  BY <1>1, <1>2, <1>3, <1>4

LEMMA WorkInvariant == Spec => []WorkInv
<1>1. WorkInv /\ [Next]_vars => WorkInv'
  <2> SUFFICES ASSUME WorkInv, [Next]_vars PROVE WorkInv'
    OBVIOUS
  <2>1. CASE UNCHANGED vars
    BY <2>1 DEF vars, WorkInv, PollersAlive, Pending, sensors, sdcard, flusher
  <2> QED
    BY <2>1, FlushWork, PollWork, OtherWork DEF Next, WorkqueueStep
<1> QED
  BY <1>1, InitWork, PTL DEF Spec

\* The poll work item of each sensor is always scheduled, pending or running, whichever
\* readings and writes to the card fail and whenever its interval is changed: none of
\* them leaves a poller that is never scheduled again.
THEOREM PollersStayAlive == Spec => []PollersAlive
<1>1. WorkInv => PollersAlive
  BY DEF WorkInv
<1> QED
  BY <1>1, WorkInvariant, PTL

----------------------------------------------------------------------------
\* Types.

LEMMA FlushBuf ==
    ASSUME active_buf \in Buffers
    PROVE  /\ flush_buf \in Buffers /\ flush_buf # active_buf
           /\ \A b \in Buffers : b # active_buf => b = flush_buf
BY DEF Buffers, flush_buf

\* strnlen returns an offset where there is a NUL, the first one, or BUFFER_SIZE.
LEMMA StrnLenFacts ==
    ASSUME NEW buf
    PROVE  /\ StrnLen(buf) \in 0 .. BUFFER_SIZE
           /\ \A i \in Offsets :
                  buf[i] = NUL /\ (\A j \in Offsets : j < i => buf[j] # NUL) => StrnLen(buf) = i
<1> USE SdCardAssumption
<1> DEFINE ends == {i \in Offsets : buf[i] = NUL}
<1>1. \A i \in ends : i \in Nat /\ i < BUFFER_SIZE
  BY DEF Offsets
<1>2. StrnLen(buf) = IF ends = {} THEN BUFFER_SIZE
                     ELSE CHOOSE i \in ends : \A j \in ends : i <= j
  BY DEF StrnLen
<1>3. ASSUME ends # {} PROVE \E i \in ends : \A j \in ends : i <= j
  <2>1. \E i \in ends : \A j \in ends : ~(<<j, i>> \in OpToRel(<, Nat))
    <3>1. ends \subseteq Nat
      BY <1>1
    <3> HIDE DEF ends
    <3> QED
      BY <1>3, <3>1, NatLessThanWellFounded, WFMin
  <2> QED
    <3>1. \A i, j \in Nat : <<j, i>> \in OpToRel(<, Nat) <=> j < i
      BY DEF OpToRel
    <3>2. PICK i \in ends : \A j \in ends : ~(<<j, i>> \in OpToRel(<, Nat))
      BY <2>1
    <3>3. \A j \in ends : i <= j
      <4> SUFFICES ASSUME NEW j \in ends PROVE i <= j
        OBVIOUS
      <4>1. ~(<<j, i>> \in OpToRel(<, Nat))
        BY <3>2
      <4>2. i \in Nat /\ j \in Nat
        BY <1>1
      <4>3. ~(j < i)
        BY <3>1, <4>1, <4>2, Zenon
      <4> QED
        BY <4>2, <4>3
    <3> QED
      BY <3>3
<1>4. \A i \in Offsets :
        buf[i] = NUL /\ (\A j \in Offsets : j < i => buf[j] # NUL)
            => i \in ends /\ \A j \in ends : i <= j
  BY DEF Offsets
<1> HIDE DEF ends
<1>5. ends # {} => StrnLen(buf) \in ends /\ \A j \in ends : StrnLen(buf) <= j
  BY <1>2, <1>3
<1>6. StrnLen(buf) \in 0 .. BUFFER_SIZE
  BY <1>1, <1>2, <1>5
<1>7. ASSUME NEW i \in ends, \A j \in ends : i <= j
      PROVE  StrnLen(buf) = i
  BY <1>1, <1>5, <1>7
<1> QED
  BY <1>4, <1>6, <1>7

LEMMA SliceFacts ==
    ASSUME NEW S, NEW buf, NEW i \in Nat, NEW j \in Nat, i <= j,
           \A k \in i .. (j - 1) : buf[k] \in S
    PROVE  /\ Slice(buf, i, j) \in Seq(S)
           /\ Len(Slice(buf, i, j)) = j - i
           /\ \A k \in 1 .. (j - i) : Slice(buf, i, j)[k] = buf[i + k - 1]
<1>1. \A k \in 1 .. (j - i) : i + k - 1 \in i .. (j - 1)
  OBVIOUS
<1> QED
  BY <1>1 DEF Slice

\* How far the active buffer is filled.
Filled == active_pos + IF pc = "copy" THEN copied ELSE 0

WriterInv ==
    /\ buffers \in [Buffers -> [Offsets -> Cells]]
    /\ active_buf \in Buffers /\ active_pos \in Offsets
    /\ pc \in {"idle", "swap", "submit", "copy"}
    /\ line \in 0 .. MaxLines /\ copied \in 0 .. BUFFER_SIZE
    /\ pc # "idle" => line > 0
    /\ pc = "copy" => active_pos + LineLength[line] \in Offsets
                      /\ copied <= LineLength[line]
    /\ pc = "submit" => active_pos = 0
    /\ pc \in {"swap", "submit"} => copied = 0
    /\ \A i \in Offsets : i < Filled => buffers[active_buf][i] # NUL

FlusherInv ==
    /\ handler \in {"idle", "mount", "open", "write", "close", "unmount"}
    /\ source \in Buffers \X (0 .. BUFFER_SIZE) /\ written \in 0 .. source[2]
    /\ last \in Cells /\ unwritten \in Seq(Cells \ {NUL})
    /\ overrun \in BOOLEAN

LEMMA TypeParts == WorkInv /\ WriterInv /\ FlusherInv /\ SensorPollTypeOK => TypeOK
BY DEF WorkInv, WriterInv, FlusherInv, TypeOK, SdCardTypeOK, Items

LEMMA NulIsNoLine ==
    /\ NUL \in Cells
    /\ \A n \in 1 .. MaxLines, k \in 1 .. BUFFER_SIZE :
            <<n, k>> \in Cells /\ <<n, k>> # NUL
BY DEF NUL, Cells

LEMMA LineLengthFacts ==
    /\ BUFFER_SIZE \in Nat \ {0} /\ MaxLines \in Nat
    /\ \A n \in 1 .. MaxLines : LineLength[n] \in 1 .. (BUFFER_SIZE - 1)
BY SdCardAssumption

LEMMA WriterStep ==
    ASSUME WriterInv, SubmitLine \/ Swap \/ SubmitFlush \/ CopyCell \/ LineDone
    PROVE  WriterInv'
<1> USE LineLengthFacts DEF WriterInv, Offsets
<1>1. CASE SubmitLine
  <2>1. line' \in 1 .. MaxLines /\ copied' = 0
        /\ UNCHANGED <<buffers, active_buf, active_pos>>
        /\ pc = "idle" /\ pc' \in {"swap", "copy"}
    BY <1>1 DEF SubmitLine
  <2>2. pc' = "copy" => active_pos + LineLength[line'] < BUFFER_SIZE
    BY <1>1, <2>1 DEF SubmitLine, IsFull
  <2>3. Filled' = Filled
    BY <2>1 DEF Filled
  <2> QED
    BY <2>1, <2>2, <2>3
<1>2. CASE Swap
  <2>1. /\ active_buf' \in Buffers /\ active_pos' = 0 /\ pc' = "submit"
        /\ UNCHANGED <<line, copied>> /\ pc = "swap"
    BY <1>2, FlushBuf DEF Swap
  <2>2. buffers' \in [Buffers -> [Offsets -> Cells]]
    BY <1>2, NulIsNoLine DEF Swap
  <2>3. Filled' = 0
    BY <2>1 DEF Filled
  <2> QED
    BY <2>1, <2>2, <2>3
<1>3. CASE SubmitFlush
  <2>1. UNCHANGED <<buffers, active_buf, active_pos, line, copied>>
        /\ pc = "submit" /\ pc' = "copy" /\ active_pos = 0 /\ copied = 0
    BY <1>3 DEF SubmitFlush
  <2>2. Filled' = Filled
    BY <2>1 DEF Filled
  <2> QED
    BY <2>1, <2>2
<1>4. CASE CopyCell
  <2>1. /\ pc = "copy" /\ line \in 1 .. MaxLines /\ copied < LineLength[line]
        /\ copied' = copied + 1
        /\ UNCHANGED <<active_buf, active_pos, pc, line>>
        /\ active_pos + copied \in Offsets
    BY <1>4 DEF CopyCell
  <2>2. <<line, copied + 1>> \in Cells \ {NUL}
    BY <2>1, NulIsNoLine
  <2>3. /\ buffers' \in [Buffers -> [Offsets -> Cells]]
        /\ \A i \in Offsets : buffers'[active_buf][i] =
               IF i = active_pos + copied THEN <<line, copied + 1>> ELSE buffers[active_buf][i]
    BY <1>4, <2>1, <2>2 DEF CopyCell
  <2>4. Filled' = Filled + 1 /\ Filled = active_pos + copied
    BY <2>1 DEF Filled
  <2>5. \A i \in Offsets : i < Filled' => buffers'[active_buf'][i] # NUL
    BY <2>1, <2>2, <2>3, <2>4
  <2>6. copied' \in 0 .. BUFFER_SIZE /\ copied' <= LineLength[line]
    BY <2>1
  <2> QED
    BY <2>1, <2>3, <2>5, <2>6
<1>5. CASE LineDone
  <2>1. /\ pc = "copy" /\ pc' = "idle" /\ copied = LineLength[line]
        /\ active_pos' = active_pos + copied
        /\ UNCHANGED <<buffers, active_buf, line, copied>>
    BY <1>5 DEF LineDone
  <2>2. Filled' = Filled
    BY <2>1 DEF Filled
  <2> QED
    BY <2>1, <2>2
<1> QED
  BY <1>1, <1>2, <1>3, <1>4, <1>5

LEMMA FlushLostFacts ==
    ASSUME WriterInv
    PROVE  /\ Slice(buffers[active_buf], 0, active_pos) \in Seq(Cells \ {NUL})
           /\ Len(Slice(buffers[active_buf], 0, active_pos)) = active_pos
<1>1. \A i \in 0 .. (active_pos - 1) : buffers[active_buf][i] \in Cells \ {NUL}
  BY LineLengthFacts DEF WriterInv, Filled, Offsets
<1> QED
  <2>1. active_pos \in Nat
    BY LineLengthFacts DEF WriterInv, Offsets
  <2>2. \A k \in 1 .. active_pos : 0 + k - 1 \in 0 .. (active_pos - 1)
    BY <2>1
  <2>3. /\ Slice(buffers[active_buf], 0, active_pos)
               = [k \in 1 .. active_pos |-> buffers[active_buf][0 + k - 1]]
        /\ \A k \in 1 .. active_pos : buffers[active_buf][0 + k - 1] \in Cells \ {NUL}
    BY <1>1, <2>1, <2>2 DEF Slice
  <2> QED
    BY <2>1, <2>3

LEMMA FlusherStep ==
    ASSUME WriterInv, FlusherInv, FlushStep
    PROVE  FlusherInv'
<1> USE LineLengthFacts DEF FlusherInv
<1>1. CASE FlushStart \/ Close \/ Unmount
  BY <1>1 DEF FlushStart, Close, Unmount
<1>2. CASE Mount
  BY <1>2, FlushLostFacts DEF Mount, FlushLost
<1>3. CASE Open
  <2>1. StrnLen(buffers[flush_buf]) \in 0 .. BUFFER_SIZE /\ flush_buf \in Buffers
    BY StrnLenFacts, FlushBuf DEF WriterInv
  <2> QED
    BY <1>3, <2>1, FlushLostFacts DEF Open, FlushLost
<1>4. CASE WriteCell
  <2>1. source[1] \in Buffers /\ written \in Offsets /\ written' \in 0 .. source[2]
        /\ source' = source
    BY <1>4 DEF WriteCell, Offsets
  <2>2. last' \in Cells
    BY <1>4, <2>1 DEF WriteCell, WriterInv
  <2>3. unwritten' \in Seq(Cells \ {NUL})
    BY <1>4 DEF WriteCell
  <2> QED
    BY <1>4, <2>1, <2>2, <2>3 DEF WriteCell
<1>5. CASE WriteEnds
  BY <1>5, FlushLostFacts DEF WriteEnds, FlushLost
<1> QED
  BY <1>1, <1>2, <1>3, <1>4, <1>5 DEF FlushStep

\* What the datapoint thread does to the history.
LEMMA HistoryStep ==
    ASSUME WriterInv, FlusherInv, SubmitLine \/ Swap \/ SubmitFlush \/ CopyCell \/ LineDone
    PROVE  FlusherInv'
<1> USE DEF FlusherInv, flusher
<1>1. CASE SubmitLine \/ SubmitFlush \/ CopyCell
  BY <1>1 DEF SubmitLine, SubmitFlush, CopyCell
<1>2. CASE Swap
  BY <1>2 DEF Swap
<1>3. CASE LineDone
  <2>1. \A k \in 1 .. copied : <<line, k>> \in Cells \ {NUL}
    BY <1>3, NulIsNoLine, LineLengthFacts DEF LineDone, WriterInv
  <2>2. [k \in 1 .. copied |-> <<line, k>>] \in Seq(Cells \ {NUL})
    BY <2>1 DEF WriterInv
  <2> QED
    BY <1>3, <2>2 DEF LineDone
<1> QED
  BY <1>1, <1>2, <1>3

LEMMA SensorStep ==
    ASSUME SensorPollTypeOK, WorkInv,
           \/ PollStep
           \/ \E p \in Pollers : PollDue(p) \/ SetPollInterval(p)
           \/ DatapointDequeue
    PROVE  SensorPollTypeOK'
<1> USE SensorPollAssumption DEF SensorPollTypeOK
<1>1. ASSUME NEW p \in Pollers, PollStart(p) \/ PollDue(p) \/ SetPollInterval(p)
      PROVE  SensorPollTypeOK'
  BY <1>1 DEF PollStart, PollDue, SetPollInterval
<1>2. CASE Reading
  <2>1. /\ Submitted(running) \in Seq(Pollers)
        /\ Len(Submitted(running)) <= DATAPOINT_QUEUE_MAX_ITEMS
    BY <1>2 DEF Submitted, Reading
  <2> QED
    BY <1>2, <2>1 DEF Reading
<1>3. CASE ReadingFails \/ PollEnd
  BY <1>3 DEF ReadingFails, PollEnd
<1>4. CASE DatapointDequeue
  BY <1>4 DEF DatapointDequeue
<1> QED
  BY <1>1, <1>2, <1>3, <1>4 DEF PollStep

TypeInv == WorkInv /\ WriterInv /\ FlusherInv /\ SensorPollTypeOK

LEMMA InitTypes == Init => WriterInv /\ FlusherInv /\ SensorPollTypeOK
<1> SUFFICES ASSUME Init PROVE WriterInv /\ FlusherInv /\ SensorPollTypeOK
  OBVIOUS
<1> USE LineLengthFacts, SensorPollAssumption, NulIsNoLine DEF Init, SdCardInit, SensorPollInit
<1>1. WriterInv
  BY DEF WriterInv, Buffers, Offsets, Filled
<1>2. FlusherInv
  <2>1. <<"buffer_b", 0>> \in Buffers \X (0 .. BUFFER_SIZE) /\ 0 \in 0 .. <<"buffer_b", 0>>[2]
    BY DEF Buffers
  <2>2. source = <<"buffer_b", 0>> /\ written = 0
    OBVIOUS
  <2>3. source \in Buffers \X (0 .. BUFFER_SIZE) /\ written \in 0 .. source[2]
    BY <2>1, <2>2
  <2>4. last \in Cells /\ unwritten \in Seq(Cells \ {NUL})
    OBVIOUS
  <2>5. handler = "idle" /\ overrun = FALSE
    OBVIOUS
  <2> QED
    BY <2>3, <2>4, <2>5 DEF FlusherInv
<1>3. SensorPollTypeOK
  BY DEF SensorPollTypeOK
<1> QED
  BY <1>1, <1>2, <1>3

LEMMA TypeInvariant == Spec => []TypeInv
<1>1. TypeInv /\ [Next]_vars => (WriterInv /\ FlusherInv /\ SensorPollTypeOK)'
  <2> SUFFICES ASSUME TypeInv, [Next]_vars
               PROVE  (WriterInv /\ FlusherInv /\ SensorPollTypeOK)'
    OBVIOUS
  <2> USE DEF TypeInv
  <2>1. UNCHANGED writer => WriterInv'
    BY DEF writer, WriterInv, Filled
  <2>2. UNCHANGED <<flusher, unwritten, overrun>> => FlusherInv'
    BY DEF flusher, FlusherInv
  <2>3. UNCHANGED sensors => SensorPollTypeOK'
    BY DEF sensors, SensorPollTypeOK
  <2>4. CASE UNCHANGED vars
    BY <2>1, <2>2, <2>3, <2>4 DEF vars, sdcard
  <2>5. CASE DatapointThread
    BY <2>3, <2>5, WriterStep, HistoryStep, SensorStep DEF DatapointThread, DatapointDequeue
  <2>6. CASE FlushStep /\ UNCHANGED sensors
    <3>1. UNCHANGED writer
      BY <2>6 DEF FlushStep, FlushStart, Mount, Open, WriteCell, WriteEnds, Close, Unmount
    <3> QED
      BY <2>1, <2>3, <2>6, <3>1, FlusherStep
  <2>7. CASE PollStep /\ UNCHANGED sdcard
    BY <2>1, <2>2, <2>7, SensorStep DEF sdcard
  <2>8. ASSUME NEW p \in Pollers, PollDue(p) \/ SetPollInterval(p), UNCHANGED sdcard
        PROVE  (WriterInv /\ FlusherInv /\ SensorPollTypeOK)'
    BY <2>1, <2>2, <2>8, SensorStep DEF sdcard
  <2> QED
    BY <2>4, <2>5, <2>6, <2>7, <2>8 DEF Next, WorkqueueStep, Due
<1> QED
  BY <1>1, InitTypes, WorkInvariant, PTL DEF Spec, TypeInv

\* Every variable holds a value of its type; in particular a line and a terminator fit
\* in the buffer sd_card_submit_line copies the line to, and no NUL is in a line.
THEOREM TypeCorrect == Spec => []TypeOK
BY TypeParts, TypeInvariant, PTL DEF TypeInv

----------------------------------------------------------------------------
\* The buffers are not swapped under a flush.

\* The pollers that run before the pending flush.
Ahead ==
    {p \in Pollers : \E i, j \in 1 .. Len(workq) :
        i < j /\ workq[i] = p /\ workq[j] = "flush"}

\* The lines that are in a buffer, and how many more may come before a flush is over.
Done == IF pc = "idle" THEN line ELSE line - 1
Coming ==
    (IF pc = "idle" THEN 0 ELSE 1) + Len(datapoint_queue) + left
        + Cardinality(ReadingsOf(Ahead))

HasRoom ==
    \A n \in Done .. MaxLines :
        n <= Done + Coming => active_pos + Cardinality(CellsOf(Done, n)) < BUFFER_SIZE

RoomInv ==
    /\ ~overrun
    /\ pc \in {"swap", "submit"} => ~FlushOutstanding
    /\ "flush" \in Pending => handler \notin {"mount", "open", "write"}
    /\ FlushOutstanding => HasRoom

LEMMA CellsOfFinite ==
    ASSUME NEW m \in Nat, NEW n \in 0 .. MaxLines
    PROVE  IsFiniteSet(CellsOf(m, n)) /\ Cardinality(CellsOf(m, n)) \in Nat
<1>1. CellsOf(m, n) \subseteq (1 .. MaxLines) \X (1 .. BUFFER_SIZE)
  BY LineLengthFacts DEF CellsOf
<1>2. IsFiniteSet(1 .. MaxLines) /\ IsFiniteSet(1 .. BUFFER_SIZE)
  BY FS_Interval, LineLengthFacts
<1>3. IsFiniteSet((1 .. MaxLines) \X (1 .. BUFFER_SIZE))
  BY <1>2, FS_Product
<1> QED
  BY <1>1, <1>3, FS_Subset, FS_CardinalityType

LEMMA NoCells == \A m \in Nat : Cardinality(CellsOf(m, m)) = 0
<1>1. \A m \in Nat : CellsOf(m, m) = {}
  BY DEF CellsOf
<1> QED
  BY <1>1, FS_EmptySet

\* A row of a table is as long as it says.
LEMMA RowSize ==
    ASSUME NEW x, NEW k \in Nat
    PROVE  IsFiniteSet({x} \X (1 .. k)) /\ Cardinality({x} \X (1 .. k)) = k
<1>1. IsFiniteSet({x}) /\ Cardinality({x}) = 1
  BY FS_Singleton
<1>2. IsFiniteSet(1 .. k) /\ Cardinality(1 .. k) = k
  BY FS_Interval
<1>3. Cardinality({x} \X (1 .. k)) = 1 * k /\ IsFiniteSet({x} \X (1 .. k))
  <2> DEFINE S == {x}
             T == 1 .. k
  <2>1. IsFiniteSet(S) /\ Cardinality(S) = 1 /\ IsFiniteSet(T) /\ Cardinality(T) = k
    BY <1>1, <1>2
  <2> HIDE DEF S, T
  <2>2. IsFiniteSet(S \X T) /\ Cardinality(S \X T) = Cardinality(S) * Cardinality(T)
    BY <2>1, FS_Product
  <2>3. IsFiniteSet(S \X T) /\ Cardinality(S \X T) = 1 * k
    BY <2>1, <2>2
  <2> QED
    BY <2>3 DEF S, T
<1> QED
  BY <1>3

LEMMA CellsOfNext ==
    ASSUME NEW m \in Nat, NEW n \in 0 .. MaxLines, m < n
    PROVE  Cardinality(CellsOf(m, n)) = LineLength[m + 1] + Cardinality(CellsOf(m + 1, n))
<1> DEFINE row == {m + 1} \X (1 .. LineLength[m + 1])
<1>1. CellsOf(m, n) = row \cup CellsOf(m + 1, n)
  <2>1. (m + 1) .. n = {m + 1} \cup ((m + 1) + 1) .. n
    BY LineLengthFacts
  <2> QED
    BY <2>1 DEF CellsOf
<1>2. row \cap CellsOf(m + 1, n) = {}
  BY DEF CellsOf
<1>3. LineLength[m + 1] \in Nat
  BY LineLengthFacts
<1>4. IsFiniteSet(row) /\ Cardinality(row) = LineLength[m + 1]
  BY <1>3, RowSize
<1>5. /\ IsFiniteSet(CellsOf(m + 1, n)) /\ Cardinality(CellsOf(m + 1, n)) \in Nat
  BY CellsOfFinite
<1> HIDE DEF row
<1>6. Cardinality(row \cup CellsOf(m + 1, n)) =
        Cardinality(row) + Cardinality(CellsOf(m + 1, n)) - Cardinality(row \cap CellsOf(m + 1, n))
  BY <1>4, <1>5, FS_Union
<1>7. Cardinality(row \cap CellsOf(m + 1, n)) = 0
  BY <1>2, FS_EmptySet
<1> QED
  BY <1>1, <1>3, <1>4, <1>5, <1>6, <1>7

LEMMA ReadingsOfFinite ==
    ASSUME NEW P \in SUBSET Pollers
    PROVE  IsFiniteSet(ReadingsOf(P)) /\ Cardinality(ReadingsOf(P)) \in Nat
<1> DEFINE row == [p \in P |-> {p} \X (1 .. Readings[p])]
           rows == {{p} \X (1 .. Readings[p]) : p \in P}
<1>1. IsFiniteSet(P)
  BY FS_Subset, SensorPollAssumption
<1>2. row \in Surjection(P, rows)
  BY DEF Surjection
<1>3. IsFiniteSet(rows)
  <2> HIDE DEF row, rows
  <2> QED
    BY <1>1, <1>2, FS_Surjection
<1>4. \A r \in rows : IsFiniteSet(r)
  <2> SUFFICES ASSUME NEW p \in P PROVE IsFiniteSet({p} \X (1 .. Readings[p]))
    OBVIOUS
  <2>1. Readings[p] \in Nat
    BY SensorPollAssumption
  <2> QED
    BY <2>1, RowSize
<1>5. IsFiniteSet(UNION rows)
  <2> HIDE DEF rows
  <2> QED
    BY <1>3, <1>4, FS_UNION
<1> QED
  BY <1>5, FS_CardinalityType DEF ReadingsOf

LEMMA ReadingsOfMore ==
    ASSUME NEW P \in SUBSET Pollers, NEW Q \in SUBSET P
    PROVE  /\ Cardinality(ReadingsOf(Q)) <= Cardinality(ReadingsOf(P))
           /\ \A p \in P \ Q :
                Cardinality(ReadingsOf(Q)) + Readings[p] <= Cardinality(ReadingsOf(P))
<1>1. IsFiniteSet(ReadingsOf(P)) /\ IsFiniteSet(ReadingsOf(Q))
      /\ Cardinality(ReadingsOf(Q)) \in Nat /\ Cardinality(ReadingsOf(P)) \in Nat
  BY ReadingsOfFinite
<1>2. ReadingsOf(Q) \subseteq ReadingsOf(P)
  BY DEF ReadingsOf
<1>3. ASSUME NEW p \in P \ Q
      PROVE  Cardinality(ReadingsOf(Q)) + Readings[p] <= Cardinality(ReadingsOf(P))
  <2> DEFINE row == {p} \X (1 .. Readings[p])
  <2>1. Readings[p] \in Nat
    BY SensorPollAssumption
  <2>2. IsFiniteSet(row) /\ Cardinality(row) = Readings[p]
    BY <2>1, RowSize
  <2>3. row \cap ReadingsOf(Q) = {} /\ row \cup ReadingsOf(Q) \subseteq ReadingsOf(P)
    BY DEF ReadingsOf
  <2> HIDE DEF row
  <2>4. Cardinality(row \cup ReadingsOf(Q)) =
            Cardinality(row) + Cardinality(ReadingsOf(Q)) - Cardinality(row \cap ReadingsOf(Q))
    BY <1>1, <2>2, FS_Union
  <2>5. Cardinality(row \cup ReadingsOf(Q)) <= Cardinality(ReadingsOf(P))
    BY <1>1, <2>3, FS_Subset
  <2>6. Cardinality(row \cap ReadingsOf(Q)) = 0
    BY <2>3, FS_EmptySet
  <2> QED
    BY <1>1, <2>1, <2>2, <2>4, <2>5, <2>6
<1> QED
  BY <1>1, <1>2, <1>3, FS_Subset

LEMMA ProductGrows ==
    \A a, b, c \in Nat : a <= b => a * c <= b * c
OBVIOUS

\* The room a buffer has, from its size and the length of the lines.
LEMMA RoomInBytes ==
    ASSUME NEW longest \in Nat, \A m \in 1 .. MaxLines : LineLength[m] <= longest,
           NEW k \in Nat,
           (1 + k + Cardinality(ReadingsOf(Pollers))) * longest < BUFFER_SIZE
    PROVE  RoomFor(k)
<1> DEFINE all == 1 + k + Cardinality(ReadingsOf(Pollers))
<1>1. all \in Nat
  BY ReadingsOfFinite
<1>2. all * longest < BUFFER_SIZE
  OBVIOUS
<1> HIDE DEF all
<1> SUFFICES ASSUME NEW m \in 0 .. MaxLines, NEW n \in m .. MaxLines, n - m <= all
             PROVE  Cardinality(CellsOf(m, n)) < BUFFER_SIZE
  BY DEF RoomFor, Fits, all
<1>3. CASE n <= m
  <2>1. CellsOf(m, n) = {}
    BY <1>3, LineLengthFacts DEF CellsOf
  <2> QED
    BY <2>1, FS_EmptySet, LineLengthFacts
<1>4. CASE n > m
  <2> DEFINE few == n - m
  <2>1. few \in Nat /\ few <= all
    BY <1>1, <1>4, LineLengthFacts
  <2>2. CellsOf(m, n) \subseteq ((m + 1) .. n) \X (1 .. longest)
    BY LineLengthFacts DEF CellsOf
  <2>3. IsFiniteSet((m + 1) .. n) /\ Cardinality((m + 1) .. n) = few
        /\ IsFiniteSet(1 .. longest) /\ Cardinality(1 .. longest) = longest
    <3>1. m + 1 \in Int /\ n \in Int /\ ~(m + 1 > n) /\ n - (m + 1) + 1 = few
      BY <1>4, LineLengthFacts
    <3>2. /\ IsFiniteSet((m + 1) .. n)
          /\ Cardinality((m + 1) .. n) = IF m + 1 > n THEN 0 ELSE n - (m + 1) + 1
      BY <3>1, FS_Interval
    <3>3. /\ IsFiniteSet(1 .. longest)
          /\ Cardinality(1 .. longest) = IF 1 > longest THEN 0 ELSE longest - 1 + 1
      BY FS_Interval
    <3>4. (IF 1 > longest THEN 0 ELSE longest - 1 + 1) = longest
      OBVIOUS
    <3> QED
      BY <3>1, <3>2, <3>3, <3>4
  <2>4. Cardinality(CellsOf(m, n)) <= few * longest
    <3> DEFINE S == (m + 1) .. n
               T == 1 .. longest
    <3>1. IsFiniteSet(S) /\ Cardinality(S) = few /\ IsFiniteSet(T) /\ Cardinality(T) = longest
          /\ CellsOf(m, n) \subseteq S \X T
      BY <2>2, <2>3
    <3> HIDE DEF S, T, few
    <3>2. IsFiniteSet(S \X T) /\ Cardinality(S \X T) = Cardinality(S) * Cardinality(T)
      BY <3>1, FS_Product
    <3>3. Cardinality(CellsOf(m, n)) <= Cardinality(S \X T)
      BY <3>1, <3>2, FS_Subset
    <3> QED
      BY <3>1, <3>2, <3>3
  <2>6. Cardinality(CellsOf(m, n)) \in Nat
    BY CellsOfFinite, LineLengthFacts
  <2> HIDE DEF few
  <2>7. few * longest <= all * longest /\ few * longest \in Nat /\ all * longest \in Nat
    BY <1>1, <2>1, ProductGrows
  <2> QED
    BY <1>2, <2>4, <2>6, <2>7, LineLengthFacts
<1> QED
  BY <1>3, <1>4, LineLengthFacts

LEMMA SumsOfNat ==
    \A a, b, c, d, e, f \in Nat :
        /\ a + b + c + d \in Nat
        /\ e + f <= b + c => a + e + f + d <= a + b + c + d
OBVIOUS

LEMMA ComingFacts ==
    ASSUME TypeInv
    PROVE  /\ Cardinality(ReadingsOf(Ahead)) \in Nat
           /\ Coming \in Nat /\ line \in 0 .. MaxLines
           /\ Done \in 0 .. MaxLines
           /\ Len(datapoint_queue) \in Nat /\ left \in Nat
           /\ active_pos \in Nat
<1>1. Cardinality(ReadingsOf(Ahead)) \in Nat
  BY ReadingsOfFinite DEF Ahead
<1>2. Len(datapoint_queue) \in Nat /\ left \in Nat
  BY DEF TypeInv, WorkInv, SensorPollTypeOK
<1>3. /\ pc # "idle" => line > 0
      /\ line \in 0 .. MaxLines /\ active_pos \in Nat
  BY LineLengthFacts DEF TypeInv, WriterInv, Offsets
<1> QED
  BY <1>1, <1>2, <1>3, LineLengthFacts DEF Coming, Done

\* The pollers ahead of the flush stay there until they run.
LEMMA AheadSubmit ==
    ASSUME WorkInv, NEW p \in Pollers, SubmitWork(p)
    PROVE  Ahead' \subseteq Ahead /\ ("flush" \in Pending' => "flush" \in Pending)
<1>1. /\ Pending' = Pending \cup {p}
      /\ \A i \in 1 .. Len(workq') :
            IF i \in 1 .. Len(workq) THEN workq'[i] = workq[i] ELSE workq'[i] = p
  BY SubmitWorkFacts DEF WorkInv, Items
<1>2. p # "flush"
  BY ItemsAssumption
<1>3. ASSUME NEW q \in Ahead' PROVE q \in Ahead
  <2>1. PICK i, j \in 1 .. Len(workq') : i < j /\ workq'[i] = q /\ workq'[j] = "flush"
    BY <1>3 DEF Ahead
  <2>2. j \in 1 .. Len(workq)
    BY <1>1, <1>2, <2>1
  <2>3. i \in 1 .. Len(workq)
    BY <2>1, <2>2 DEF WorkInv
  <2> QED
    BY <1>1, <2>1, <2>2, <2>3 DEF Ahead
<1> QED
  BY <1>1, <1>2, <1>3

LEMMA AheadStart ==
    ASSUME WorkInv, NEW item \in Items, StartWork(item)
    PROVE  /\ Ahead' \subseteq Ahead \ {item}
           /\ "flush" \in Pending' <=> "flush" \in Pending /\ item # "flush"
           /\ item # "flush" /\ "flush" \in Pending => item \in Ahead
<1>1. /\ NoDuplicates(workq)
      /\ Pending' = Pending \ {item}
      /\ Len(workq) \in Nat \ {0} /\ workq[1] = item
      /\ Len(workq') = Len(workq) - 1
      /\ \A i \in 1 .. Len(workq') : workq'[i] = workq[i + 1]
  BY StartWorkFacts DEF WorkInv
<1>2. ASSUME NEW q \in Ahead' PROVE q \in Ahead \ {item}
  <2>1. PICK i, j \in 1 .. Len(workq') : i < j /\ workq'[i] = q /\ workq'[j] = "flush"
    BY <1>2 DEF Ahead
  <2>2. i + 1 \in 1 .. Len(workq) /\ j + 1 \in 1 .. Len(workq) /\ i + 1 < j + 1 /\ i + 1 # 1
        /\ workq[i + 1] = q /\ workq[j + 1] = "flush"
    BY <1>1, <2>1
  <2>3. q # item
    BY <1>1, <2>2 DEF NoDuplicates
  <2>4. q \in Pollers
    BY <1>2 DEF Ahead
  <2> QED
    BY <2>2, <2>3, <2>4 DEF Ahead
<1>3. ASSUME item # "flush", "flush" \in Pending PROVE item \in Ahead
  <2>1. PICK j \in 1 .. Len(workq) : workq[j] = "flush"
    BY <1>3 DEF Pending
  <2>2. 1 \in 1 .. Len(workq) /\ 1 < j
    BY <1>1, <1>3, <2>1
  <2> QED
    BY <1>1, <1>3, <2>1, <2>2 DEF Ahead, Items
<1> QED
  BY <1>1, <1>2, <1>3

\* A step that makes no outstanding flush and nothing more to come leaves enough room.
LEMMA RoomStays ==
    ASSUME TypeInv, RoomInv, Coming' \in Nat,
           Done' = Done, active_pos' = active_pos,
           FlushOutstanding' => FlushOutstanding /\ Coming' <= Coming
    PROVE  FlushOutstanding' => HasRoom'
<1> SUFFICES ASSUME FlushOutstanding', NEW n \in Done .. MaxLines, n <= Done + Coming'
             PROVE  active_pos + Cardinality(CellsOf(Done, n)) < BUFFER_SIZE
  BY DEF HasRoom
<1>1. n <= Done + Coming
  BY ComingFacts, LineLengthFacts
<1> QED
  BY <1>1 DEF RoomInv, HasRoom

LEMMA SameWork ==
    UNCHANGED workq => UNCHANGED <<Ahead, Pending>>
BY DEF Ahead, Pending

\* Fewer pollers ahead of the flush make no more lines to come.
LEMMA ComingLess ==
    ASSUME TypeInv, UNCHANGED <<pc, left, datapoint_queue>>, Ahead' \subseteq Ahead
    PROVE  Coming' \in Nat /\ Coming' <= Coming
<1> DEFINE hand == IF pc = "idle" THEN 0 ELSE 1
           rest == Cardinality(ReadingsOf(Ahead))
           less == Cardinality(ReadingsOf(Ahead'))
<1>1. /\ Coming = hand + Len(datapoint_queue) + left + rest
      /\ Coming' = hand + Len(datapoint_queue) + left + less
  BY DEF Coming
<1>2. less \in Nat /\ less <= rest
  BY ReadingsOfMore, ReadingsOfFinite DEF Ahead
<1>3. hand \in Nat /\ rest \in Nat /\ Len(datapoint_queue) \in Nat /\ left \in Nat
  BY ComingFacts
<1> HIDE DEF hand, rest, less
<1> QED
  BY <1>1, <1>2, <1>3

\* A datapoint is taken out only while there is room for its line.
LEMMA RoomDequeue ==
    ASSUME TypeInv, TypeInv', RoomInv, DatapointDequeue
    PROVE  RoomInv'
<1>1. /\ pc = "idle" /\ line < MaxLines /\ line' = line + 1 /\ pc' # "idle"
      /\ pc' = IF IsFull(LineLength[line']) THEN "swap" ELSE "copy"
      /\ UNCHANGED <<active_pos, workq, left, handler, overrun>>
      /\ datapoint_queue # <<>> /\ datapoint_queue' = Tail(datapoint_queue)
  BY DEF DatapointDequeue, SubmitLine, flusher
<1>2. UNCHANGED <<Ahead, Pending>> /\ FlushOutstanding' = FlushOutstanding
  BY <1>1, SameWork DEF FlushOutstanding
<1>3. /\ datapoint_queue \in Seq(Pollers)
      /\ Len(datapoint_queue) >= 1 /\ Len(datapoint_queue') = Len(datapoint_queue) - 1
  BY <1>1 DEF TypeInv, SensorPollTypeOK
<1>4. Done' = Done /\ Done = line
  BY <1>1, ComingFacts DEF Done
<1>5. Coming' = Coming
  <2>1. Cardinality(ReadingsOf(Ahead))' = Cardinality(ReadingsOf(Ahead))
    BY <1>2
  <2> QED
    BY <1>1, <1>3, <2>1, ComingFacts DEF Coming
<1>6. FlushOutstanding' => HasRoom'
  BY <1>1, <1>2, <1>4, <1>5, ComingFacts, RoomStays
<1>7. FlushOutstanding => ~IsFull(LineLength[line'])
  <2> SUFFICES ASSUME FlushOutstanding PROVE ~IsFull(LineLength[line'])
    OBVIOUS
  <2>1. line + 1 \in Done .. MaxLines /\ line + 1 <= Done + Coming
    <3>1. Coming = 0 + Len(datapoint_queue) + left + Cardinality(ReadingsOf(Ahead))
      BY <1>1 DEF Coming
    <3>2. Coming >= 1
      BY <1>3, <3>1, ComingFacts
    <3>3. line \in Nat /\ line < MaxLines /\ Done = line /\ MaxLines \in Nat /\ Coming \in Nat
      BY <1>1, <1>4, ComingFacts, LineLengthFacts
    <3> QED
      BY <3>2, <3>3
  <2>2. active_pos + Cardinality(CellsOf(line, line + 1)) < BUFFER_SIZE
    BY <1>4, <2>1 DEF RoomInv, HasRoom
  <2>3. Cardinality(CellsOf(line, line + 1)) = LineLength[line + 1]
                                               + Cardinality(CellsOf(line + 1, line + 1))
    BY <1>1, CellsOfNext, ComingFacts, LineLengthFacts
  <2>4. Cardinality(CellsOf(line + 1, line + 1)) = 0
    BY NoCells, ComingFacts
  <2>5. LineLength[line + 1] \in Nat
    BY <1>1, ComingFacts, LineLengthFacts
  <2> QED
    <3>1. active_pos + LineLength[line + 1] < BUFFER_SIZE
      BY <2>2, <2>3, <2>4, <2>5
    <3>2. active_pos \in Nat /\ BUFFER_SIZE \in Nat
      BY ComingFacts, LineLengthFacts
    <3> QED
      BY <1>1, <2>5, <3>1, <3>2 DEF IsFull
<1> QED
  BY <1>1, <1>2, <1>6, <1>7 DEF RoomInv

\* When a flush is submitted the active buffer is empty, and only pollers that are pending
\* then run before it.
LEMMA RoomSubmit ==
    ASSUME FlushFits, TypeInv, TypeInv', RoomInv, SubmitFlush,
           UNCHANGED <<running, sensors>>
    PROVE  RoomInv'
<1>1. /\ pc = "submit" /\ pc' = "copy" /\ active_pos = 0
      /\ UNCHANGED <<active_pos, line, handler, overrun, datapoint_queue, left>>
  BY DEF SubmitFlush, sensors, TypeInv, WriterInv, flusher
<1>2. ~FlushOutstanding
  BY <1>1 DEF RoomInv
<1>3. Done' = Done /\ Done = line - 1
  BY <1>1 DEF Done
<1>4. HasRoom'
  <2> SUFFICES ASSUME NEW n \in Done .. MaxLines, n <= Done + Coming'
               PROVE  Cardinality(CellsOf(Done, n)) < BUFFER_SIZE
    <3>1. \A n \in Done .. MaxLines : Cardinality(CellsOf(Done, n)) \in Nat
      BY CellsOfFinite, ComingFacts, LineLengthFacts
    <3> QED
      BY <1>1, <1>3, <3>1 DEF HasRoom
  <2> DEFINE waiting == Pollers \cap Pending
             round == Cardinality(ReadingsOf(waiting))
             ahead == Cardinality(ReadingsOf(Ahead'))
  <2>1. Ahead' \subseteq waiting
    <3> SUFFICES ASSUME NEW q \in Ahead' PROVE q \in Pending
      BY DEF Ahead
    <3>1. PICK i, j \in 1 .. Len(workq') : i < j /\ workq'[i] = q
      BY DEF Ahead
    <3>2. SubmitWork("flush") /\ "flush" \notin Pending
      BY <1>2 DEF SubmitFlush, FlushOutstanding
    <3>3. workq' = Append(workq, "flush") /\ workq \in Seq(Items)
      BY <3>2 DEF SubmitWork, TypeInv, WorkInv, Items
    <3>4. i \in 1 .. Len(workq) /\ workq[i] = q
      BY <3>1, <3>3
    <3> QED
      BY <3>4 DEF Pending
  <2>2. ahead <= round /\ ahead \in Nat /\ round \in Nat
    BY <2>1, ReadingsOfMore, ReadingsOfFinite DEF Ahead
  <2>3. Coming' = 1 + Len(datapoint_queue) + left + ahead
    BY <1>1 DEF Coming
  <2>4. Fits(line - 1, 1 + Len(datapoint_queue) + left + round)
    BY <1>1 DEF FlushFits
  <2> HIDE DEF waiting, round, ahead
  <2>5. n - Done <= 1 + Len(datapoint_queue) + left + round
    <3>1. Len(datapoint_queue) \in Nat /\ left \in Nat /\ Done \in Nat /\ n \in Nat
      BY ComingFacts, LineLengthFacts
    <3>2. Coming' \in Nat /\ n - Done <= Coming'
      BY <2>2, <2>3, <3>1
    <3>3. Coming' <= 1 + Len(datapoint_queue) + left + round
      BY <2>2, <2>3, <3>1
    <3> QED
      BY <2>2, <3>1, <3>2, <3>3
  <2> QED
    BY <1>3, <2>4, <2>5 DEF Fits
<1>5. "flush" \in Pending' => handler' \notin {"mount", "open", "write"}
  BY <1>1, <1>2 DEF FlushOutstanding
<1> QED
  BY <1>1, <1>2, <1>4, <1>5 DEF RoomInv

LEMMA RoomLine ==
    ASSUME TypeInv, TypeInv', RoomInv, Swap \/ CopyCell \/ LineDone,
           UNCHANGED <<workq, running, sensors>>
    PROVE  RoomInv'
<1>1. UNCHANGED <<workq, left, datapoint_queue, Ahead, Pending, line, handler>>
  BY SameWork DEF Swap, CopyCell, LineDone, sensors, flusher
<1>2. FlushOutstanding' = FlushOutstanding
  BY <1>1 DEF FlushOutstanding
<1>3. Cardinality(ReadingsOf(Ahead))' = Cardinality(ReadingsOf(Ahead))
  BY <1>1
<1>4. CASE Swap
  BY <1>1, <1>2, <1>4 DEF RoomInv, Swap
<1>5. CASE CopyCell
  <2>1. pc = "copy" /\ UNCHANGED <<pc, active_pos, overrun>>
    BY <1>5 DEF CopyCell
  <2>2. Done' = Done /\ Coming' = Coming
    BY <1>1, <1>3, <2>1 DEF Done, Coming
  <2>3. FlushOutstanding' => HasRoom'
    BY <1>2, <2>1, <2>2, ComingFacts, RoomStays
  <2> QED
    BY <1>1, <2>1, <2>3 DEF RoomInv
<1>6. CASE LineDone
  <2>1. /\ pc = "copy" /\ pc' = "idle" /\ copied = LineLength[line]
        /\ active_pos' = active_pos + copied /\ UNCHANGED overrun
    BY <1>6 DEF LineDone
  <2>2. /\ Done = line - 1 /\ Done' = line /\ line \in 1 .. MaxLines
        /\ Coming' = Coming - 1
    <3>1. line \in 1 .. MaxLines
      BY <2>1, ComingFacts, LineLengthFacts DEF TypeInv, WriterInv
    <3>2. Done = line - 1 /\ Done' = line
      BY <1>1, <2>1 DEF Done
    <3>3. Coming = 1 + Len(datapoint_queue) + left + Cardinality(ReadingsOf(Ahead))
          /\ Coming' = 0 + Len(datapoint_queue) + left + Cardinality(ReadingsOf(Ahead))
      BY <1>1, <1>3, <2>1 DEF Coming
    <3> QED
      BY <3>1, <3>2, <3>3, ComingFacts
  <2>3. ASSUME HasRoom, NEW n \in line .. MaxLines, n <= line + Coming'
        PROVE  active_pos' + Cardinality(CellsOf(line, n)) < BUFFER_SIZE
    <3>1. n \in Done .. MaxLines /\ n <= Done + Coming /\ Done < n /\ Done \in Nat
      BY <2>2, <2>3, ComingFacts, LineLengthFacts
    <3>2. active_pos + Cardinality(CellsOf(Done, n)) < BUFFER_SIZE
      BY <2>3, <3>1 DEF HasRoom
    <3>3. Cardinality(CellsOf(Done, n)) = LineLength[Done + 1]
                                          + Cardinality(CellsOf(Done + 1, n))
      BY <3>1, CellsOfNext, LineLengthFacts
    <3>4. LineLength[line] \in Nat /\ Cardinality(CellsOf(line, n)) \in Nat /\ Done + 1 = line
      BY <2>2, CellsOfFinite, LineLengthFacts
    <3> QED
      <4>1. active_pos' = active_pos + LineLength[line] /\ active_pos \in Nat
        BY <2>1, ComingFacts
      <4>2. active_pos + (LineLength[line] + Cardinality(CellsOf(line, n))) < BUFFER_SIZE
        BY <3>2, <3>3, <3>4
      <4> QED
        BY <3>4, <4>1, <4>2, LineLengthFacts
  <2>4. HasRoom => HasRoom'
    BY <2>2, <2>3 DEF HasRoom
  <2> QED
    BY <1>1, <1>2, <2>1, <2>4 DEF RoomInv
<1> QED
  BY <1>4, <1>5, <1>6

LEMMA RoomFlush ==
    ASSUME TypeInv, TypeInv', RoomInv, FlushStep, UNCHANGED sensors
    PROVE  RoomInv'
<1>1. UNCHANGED <<pc, line, active_pos, left, datapoint_queue, overrun>>
  BY DEF FlushStep, FlushStart, Mount, Open, WriteCell, WriteEnds, Close, Unmount, writer,
         sensors
<1>2. Done' = Done
  BY <1>1 DEF Done
<1>3. CASE FlushStart
  <2>1. /\ Ahead' \subseteq Ahead /\ "flush" \notin Pending' /\ "flush" \in Pending
    BY <1>3, AheadStart, StartWorkFacts DEF FlushStart, Items, TypeInv, WorkInv, Pending
  <2>2. Coming' \in Nat /\ Coming' <= Coming
    BY <1>1, <2>1, ComingLess
  <2>3. FlushOutstanding
    BY <2>1 DEF FlushOutstanding
  <2>4. FlushOutstanding' => HasRoom'
    BY <1>1, <1>2, <2>2, <2>3, RoomStays
  <2> QED
    BY <1>1, <2>1, <2>3, <2>4 DEF RoomInv
<1>4. CASE ~FlushStart
  <2>1. /\ UNCHANGED workq
        /\ handler' \in {"mount", "open", "write"} => handler \in {"mount", "open", "write"}
    BY <1>4 DEF FlushStep, Mount, Open, WriteCell, WriteEnds, Close, Unmount
  <2>2. UNCHANGED <<Ahead, Pending>> /\ (FlushOutstanding' => FlushOutstanding)
    BY <2>1, SameWork DEF FlushOutstanding
  <2>3. Coming' = Coming
    BY <1>1, <2>2 DEF Coming
  <2>4. FlushOutstanding' => HasRoom'
    BY <1>1, <1>2, <2>2, <2>3, ComingFacts, RoomStays
  <2> QED
    BY <1>1, <2>1, <2>2, <2>4 DEF RoomInv
<1> QED
  BY <1>3, <1>4

LEMMA RoomPoll ==
    ASSUME TypeInv, TypeInv', RoomInv, PollStep, UNCHANGED sdcard
    PROVE  RoomInv'
<1>1. UNCHANGED <<pc, line, active_pos, handler, overrun>>
  BY DEF sdcard, writer, flusher
<1>2. Done' = Done
  BY <1>1 DEF Done
<1>3. ASSUME NEW p \in Pollers, PollStart(p)
      PROVE  RoomInv'
  <2>1. p \in Items /\ p # "flush"
    BY ItemsAssumption DEF Items
  <2>2. /\ Ahead' \subseteq Ahead \ {p}
        /\ "flush" \in Pending' <=> "flush" \in Pending
        /\ "flush" \in Pending => p \in Ahead
    BY <1>3, <2>1, AheadStart DEF PollStart, TypeInv
  <2>3. running = NULL /\ left' = Readings[p] /\ UNCHANGED datapoint_queue
        /\ Readings[p] \in Nat
    BY <1>3, SensorPollAssumption DEF PollStart, StartWork
  <2>4. left = 0 /\ handler = "idle"
    BY <2>3, ItemsAssumption, ComingFacts DEF TypeInv, WorkInv
  <2>5. FlushOutstanding' = FlushOutstanding
    BY <1>1, <2>2 DEF FlushOutstanding
  <2>6. Cardinality(ReadingsOf(Ahead')) \in Nat
    BY <2>2, ReadingsOfFinite DEF Ahead
  <2>7. Coming' \in Nat
    <3>1. Coming' = (IF pc = "idle" THEN 0 ELSE 1) + Len(datapoint_queue) + Readings[p]
                        + Cardinality(ReadingsOf(Ahead'))
      BY <1>1, <2>3 DEF Coming
    <3>2. Len(datapoint_queue) \in Nat /\ (IF pc = "idle" THEN 0 ELSE 1) \in Nat
      BY ComingFacts
    <3> QED
      BY <2>3, <2>6, <3>1, <3>2, SumsOfNat
  <2>8. FlushOutstanding => Coming' <= Coming
    <3> SUFFICES ASSUME FlushOutstanding PROVE Coming' <= Coming
      OBVIOUS
    <3>1. p \in Ahead \ Ahead'
      BY <2>2, <2>4 DEF FlushOutstanding
    <3>2. Cardinality(ReadingsOf(Ahead')) + Readings[p] <= Cardinality(ReadingsOf(Ahead))
      BY <2>2, <3>1, ReadingsOfMore DEF Ahead
    <3> QED
      BY <1>1, <2>3, <2>4, <2>6, <3>2, ComingFacts DEF Coming
  <2>9. FlushOutstanding' => HasRoom'
    BY <1>1, <1>2, <2>5, <2>7, <2>8, RoomStays
  <2> QED
    BY <1>1, <2>2, <2>5, <2>9 DEF RoomInv
<1>4. CASE Reading \/ ReadingFails \/ PollEnd
  <2>1. UNCHANGED workq
    BY <1>4 DEF Reading, ReadingFails, PollEnd
  <2>2. UNCHANGED <<Ahead, Pending, FlushOutstanding>>
    BY <1>1, <2>1, SameWork DEF FlushOutstanding
  <2>3. /\ Len(datapoint_queue') \in Nat /\ left' \in Nat
        /\ Len(datapoint_queue') + left' <= Len(datapoint_queue) + left
    <3>1. CASE Reading
      <4>1. left' = left - 1 /\ left > 0 /\ running \in Pollers
            /\ datapoint_queue' = Submitted(running)
        BY <3>1 DEF Reading
      <4>2. datapoint_queue \in Seq(Pollers)
        BY DEF TypeInv, SensorPollTypeOK
      <4>3. Len(datapoint_queue') \in {Len(datapoint_queue), Len(datapoint_queue) + 1}
        BY <4>1, <4>2 DEF Submitted
      <4> QED
        BY <4>1, <4>3, ComingFacts
    <3>2. CASE ReadingFails
      BY <3>2, ComingFacts DEF ReadingFails
    <3>3. CASE PollEnd
      BY <3>3, ComingFacts DEF PollEnd
    <3> QED
      BY <1>4, <3>1, <3>2, <3>3
  <2>4. Coming' \in Nat /\ Coming' <= Coming
    <3>1. Cardinality(ReadingsOf(Ahead))' = Cardinality(ReadingsOf(Ahead))
      BY <2>2
    <3> DEFINE one == IF pc = "idle" THEN 0 ELSE 1
               rest == Cardinality(ReadingsOf(Ahead))
    <3>2. /\ Coming = one + Len(datapoint_queue) + left + rest
          /\ Coming' = one + Len(datapoint_queue') + left' + rest
      BY <1>1, <3>1 DEF Coming
    <3>3. one \in Nat /\ rest \in Nat
      BY ComingFacts
    <3>4. Len(datapoint_queue) \in Nat /\ left \in Nat
      BY ComingFacts
    <3> HIDE DEF one, rest
    <3> QED
      BY <2>3, <3>2, <3>3, <3>4, SumsOfNat
  <2>5. FlushOutstanding' => HasRoom'
    BY <1>1, <1>2, <2>2, <2>4, RoomStays
  <2> QED
    BY <1>1, <2>2, <2>5 DEF RoomInv
<1> QED
  BY <1>3, <1>4 DEF PollStep

LEMMA RoomDue ==
    ASSUME TypeInv, TypeInv', RoomInv, NEW p \in Pollers, PollDue(p) \/ SetPollInterval(p),
           UNCHANGED sdcard
    PROVE  RoomInv'
<1>1. UNCHANGED <<pc, line, active_pos, handler, overrun, left, datapoint_queue>>
  BY DEF sdcard, writer, flusher, PollDue, SetPollInterval
<1>2. Done' = Done
  BY <1>1 DEF Done
<1>3. Ahead' \subseteq Ahead /\ ("flush" \in Pending' => "flush" \in Pending)
  BY AheadSubmit, SameWork DEF PollDue, SetPollInterval, TypeInv
<1>4. Coming' \in Nat /\ Coming' <= Coming
  BY <1>1, <1>3, ComingLess
<1>5. FlushOutstanding' => FlushOutstanding
  BY <1>1, <1>3 DEF FlushOutstanding
<1>6. FlushOutstanding' => HasRoom'
  BY <1>1, <1>2, <1>4, <1>5, RoomStays
<1> QED
  BY <1>1, <1>3, <1>5, <1>6 DEF RoomInv

LEMMA RoomSame == RoomInv /\ UNCHANGED vars => RoomInv'
BY DEF RoomInv, HasRoom, vars, sdcard, writer, flusher, sensors, FlushOutstanding, Pending,
       Done, Coming, Ahead

LEMMA RoomInvariant == Spec /\ []FlushFits => []RoomInv
<1>1. Init => RoomInv
  BY DEF Init, SdCardInit, RoomInv, FlushOutstanding, Pending
<1>2. TypeInv /\ TypeInv' /\ FlushFits /\ RoomInv /\ [Next]_vars => RoomInv'
  <2> SUFFICES ASSUME TypeInv, TypeInv', FlushFits, RoomInv, [Next]_vars PROVE RoomInv'
    OBVIOUS
  <2>1. CASE UNCHANGED vars
    BY <2>1, RoomSame
  <2>2. CASE DatapointThread
    BY <2>2, RoomDequeue, RoomSubmit, RoomLine DEF DatapointThread
  <2>3. CASE WorkqueueStep
    BY <2>3, RoomFlush, RoomPoll DEF WorkqueueStep
  <2>4. ASSUME NEW p \in Pollers, Due(p) \/ (SetPollInterval(p) /\ UNCHANGED sdcard)
        PROVE  RoomInv'
    BY <2>4, RoomDue DEF Due
  <2> QED
    BY <2>1, <2>2, <2>3, <2>4 DEF Next
<1> QED
  BY <1>1, <1>2, TypeInvariant, PTL DEF Spec

\* sd_card_submit_line never swaps the buffers before the flush of the other one is over,
\* if no flush was submitted with more waiting than a buffer holds: nothing but the order
\* of the work items on the system workqueue keeps it from that, with no bound on how long
\* the card takes.
THEOREM BuffersNotOverrun == Spec /\ []FlushFits => []NoOverrun
<1>1. RoomInv => NoOverrun
  BY DEF RoomInv, NoOverrun
<1> QED
  BY <1>1, RoomInvariant, PTL

\* Little in the queue, and a poller that is not pending again while it runs, is enough.
LEMMA FlushFitsIf ==
    ASSUME NEW k \in Nat, RoomFor(k), TypeInv,
           pc = "submit" => Len(datapoint_queue) <= k /\ running \notin Pending
    PROVE  FlushFits
<1> SUFFICES ASSUME pc = "submit"
             PROVE  Fits(line - 1, 1 + Len(datapoint_queue) + left
                                     + Cardinality(ReadingsOf(Pollers \cap Pending)))
  BY DEF FlushFits
<1> DEFINE waiting == Pollers \cap Pending
           some == Cardinality(ReadingsOf(waiting))
           round == Cardinality(ReadingsOf(Pollers))
<1>1. Len(datapoint_queue) \in Nat /\ left \in Nat /\ Len(datapoint_queue) <= k
      /\ line - 1 \in 0 .. MaxLines
  <2>1. Done = line - 1
    BY DEF Done
  <2> QED
    BY <2>1, ComingFacts
<1>2. some \in Nat /\ round \in Nat /\ some <= round
  BY ReadingsOfFinite, ReadingsOfMore
<1>3. left + some <= round
  <2>1. CASE left = 0
    BY <1>2, <2>1
  <2>2. CASE left > 0
    <3>1. running \in Pollers \ waiting /\ left <= Readings[running]
      BY <2>2 DEF TypeInv, WorkInv
    <3>2. some + Readings[running] <= round
      BY <3>1, ReadingsOfMore
    <3>3. Readings[running] \in Nat
      BY <3>1, SensorPollAssumption
    <3> HIDE DEF some, round, waiting
    <3> QED
      BY <1>1, <1>2, <3>1, <3>2, <3>3
  <2> QED
    BY <1>1, <2>1, <2>2
<1>4. Fits(line - 1, 1 + k + round)
  BY <1>1 DEF RoomFor
<1> HIDE DEF some, round, waiting
<1>5. \A n \in (line - 1) .. MaxLines :
          n - (line - 1) <= 1 + Len(datapoint_queue) + left + some
              => n - (line - 1) <= 1 + k + round
  BY <1>1, <1>2, <1>3, LineLengthFacts
<1>6. Fits(line - 1, 1 + Len(datapoint_queue) + left + some)
  BY <1>4, <1>5 DEF Fits
<1> QED
  BY <1>6 DEF some, waiting

\* A buffer that holds the line in hand, one round of all pollers and k lines more is not
\* overrun unless more than k datapoints are in the queue, or the poller that runs is due
\* again already, at the moment a flush is submitted: however many lines a behaviour has,
\* an overrun is due to a datapoint thread or a workqueue that lags behind.
THEOREM OverrunNeedsBacklog ==
    ASSUME NEW longest \in Nat, \A m \in 1 .. MaxLines : LineLength[m] <= longest,
           NEW k \in Nat,
           (1 + k + Cardinality(ReadingsOf(Pollers))) * longest < BUFFER_SIZE
    PROVE  Spec /\ [](pc = "submit" => Len(datapoint_queue) <= k /\ running \notin Pending)
              => []NoOverrun
<1> DEFINE Prompt == pc = "submit" => Len(datapoint_queue) <= k /\ running \notin Pending
<1>1. RoomFor(k)
  BY RoomInBytes
<1>2. TypeInv /\ Prompt => FlushFits
  BY <1>1, FlushFitsIf
<1> HIDE DEF Prompt
<1>3. Spec /\ []Prompt => []FlushFits
  BY <1>2, TypeInvariant, PTL
<1>4. Spec /\ []Prompt => []NoOverrun
  BY <1>3, BuffersNotOverrun, PTL
<1> QED
  BY <1>4 DEF Prompt

----------------------------------------------------------------------------
\* The log is whole and in order.

LEMMA SliceSeq ==
    ASSUME TypeInv, NEW b \in Buffers, NEW i \in 0 .. BUFFER_SIZE, NEW j \in i .. BUFFER_SIZE
    PROVE  /\ Slice(buffers[b], i, j) \in Seq(Cells)
           /\ Len(Slice(buffers[b], i, j)) = j - i
           /\ \A k \in 1 .. (j - i) : Slice(buffers[b], i, j)[k] = buffers[b][i + k - 1]
<1>1. \A k \in 1 .. (j - i) : i + k - 1 \in Offsets
  BY LineLengthFacts DEF Offsets
<1>2. Slice(buffers[b], i, j) = [k \in 1 .. (j - i) |-> buffers[b][i + k - 1]]
      /\ \A k \in 1 .. (j - i) : buffers[b][i + k - 1] \in Cells
  BY <1>1 DEF Slice, TypeInv, WriterInv
<1> QED
  BY <1>2, LineLengthFacts

LEMMA SliceSame ==
    ASSUME NEW buf, NEW new, NEW i \in Nat, NEW j \in Nat,
           \A k \in i .. (j - 1) : buf[k] = new[k]
    PROVE  Slice(buf, i, j) = Slice(new, i, j)
<1>1. \A k \in 1 .. (j - i) : i + k - 1 \in i .. (j - 1)
  OBVIOUS
<1> QED
  BY <1>1 DEF Slice

LEMMA SliceEmpty == \A buf : \A i \in Nat : Slice(buf, i, i) = <<>>
BY DEF Slice

LEMMA SliceHead ==
    ASSUME TypeInv, NEW b \in Buffers, NEW i \in 0 .. BUFFER_SIZE, NEW j \in i .. BUFFER_SIZE,
           i < j
    PROVE  /\ Slice(buffers[b], i, j) # <<>>
           /\ Head(Slice(buffers[b], i, j)) = buffers[b][i]
           /\ Tail(Slice(buffers[b], i, j)) = Slice(buffers[b], i + 1, j)
<1> DEFINE s == Slice(buffers[b], i, j)
           t == Slice(buffers[b], i + 1, j)
<1>1. /\ s \in Seq(Cells) /\ Len(s) = j - i
      /\ \A k \in 1 .. (j - i) : s[k] = buffers[b][i + k - 1]
  BY SliceSeq
<1>2. /\ t \in Seq(Cells) /\ Len(t) = j - (i + 1)
      /\ \A k \in 1 .. (j - (i + 1)) : t[k] = buffers[b][(i + 1) + k - 1]
  <2>1. i + 1 \in 0 .. BUFFER_SIZE /\ j \in (i + 1) .. BUFFER_SIZE
    BY LineLengthFacts
  <2> QED
    BY <2>1, SliceSeq
<1> HIDE DEF s, t
<1>3. s # <<>>
  BY <1>1, LineLengthFacts
<1>4. /\ Tail(s) \in Seq(Cells) /\ Len(Tail(s)) = Len(s) - 1
      /\ \A k \in 1 .. Len(Tail(s)) : Tail(s)[k] = s[k + 1]
  BY <1>1, <1>3, HeadTailProperties
<1>5. \A k \in 1 .. Len(Tail(s)) : Tail(s)[k] = t[k]
  BY <1>1, <1>2, <1>4, LineLengthFacts
<1>6. Len(Tail(s)) = Len(t)
  BY <1>1, <1>2, <1>4, LineLengthFacts
<1>7. Tail(s) = t
  BY <1>2, <1>4, <1>5, <1>6, SeqEqual
<1>8. Head(s) = s[1] /\ s[1] = buffers[b][i]
  BY <1>1, <1>3, LineLengthFacts
<1> QED
  BY <1>3, <1>7, <1>8 DEF s, t

LEMMA ConcatHead ==
    ASSUME NEW S, NEW s \in Seq(S), NEW t \in Seq(S), s # <<>>
    PROVE  /\ s \o t # <<>>
           /\ Head(s \o t) = Head(s)
           /\ Tail(s \o t) = Tail(s) \o t
<1> DEFINE st == s \o t
<1>1. /\ st \in Seq(S) /\ Len(st) = Len(s) + Len(t)
      /\ \A i \in 1 .. Len(s) + Len(t) : st[i] = IF i <= Len(s) THEN s[i] ELSE t[i - Len(s)]
  BY ConcatProperties
<1>2. Len(s) \in Nat \ {0} /\ Len(t) \in Nat
  OBVIOUS
<1>3. /\ Tail(s) \in Seq(S) /\ Len(Tail(s)) = Len(s) - 1
      /\ \A i \in 1 .. Len(Tail(s)) : Tail(s)[i] = s[i + 1]
  BY HeadTailProperties
<1> DEFINE tt == Tail(s) \o t
<1>4. /\ tt \in Seq(S) /\ Len(tt) = Len(Tail(s)) + Len(t)
      /\ \A i \in 1 .. Len(Tail(s)) + Len(t) :
            tt[i] = IF i <= Len(Tail(s)) THEN Tail(s)[i] ELSE t[i - Len(Tail(s))]
  BY <1>3, ConcatProperties
<1> HIDE DEF st, tt
<1>5. st # <<>>
  BY <1>1, <1>2
<1>6. /\ Tail(st) \in Seq(S) /\ Len(Tail(st)) = Len(st) - 1
      /\ \A i \in 1 .. Len(Tail(st)) : Tail(st)[i] = st[i + 1]
  BY <1>1, <1>5, HeadTailProperties
<1>7. Len(Tail(st)) = Len(tt)
  BY <1>1, <1>2, <1>3, <1>4, <1>6
<1>8. \A i \in 1 .. Len(Tail(st)) : Tail(st)[i] = tt[i]
  <2> SUFFICES ASSUME NEW i \in 1 .. Len(Tail(st)) PROVE Tail(st)[i] = tt[i]
    OBVIOUS
  <2>1. i \in 1 .. (Len(s) - 1) + Len(t) /\ Len(Tail(st)) = (Len(s) - 1) + Len(t)
    BY <1>1, <1>2, <1>6
  <2>2. Tail(st)[i] = IF i + 1 <= Len(s) THEN s[i + 1] ELSE t[(i + 1) - Len(s)]
    BY <1>1, <1>2, <1>6, <2>1
  <2>3. tt[i] = IF i <= Len(s) - 1 THEN Tail(s)[i] ELSE t[i - (Len(s) - 1)]
    BY <1>2, <1>3, <1>4, <2>1
  <2>4. (i + 1) - Len(s) = i - (Len(s) - 1)
    BY <1>2, <2>1
  <2> QED
    BY <1>2, <1>3, <2>1, <2>2, <2>3, <2>4
<1>9. Tail(st) = tt
  BY <1>4, <1>6, <1>7, <1>8, SeqEqual
<1>10. Head(st) = Head(s)
  BY <1>1, <1>2, <1>5
<1> QED
  BY <1>5, <1>9, <1>10 DEF st, tt

Filling == Slice(buffers[active_buf], 0, active_pos)
HasToFlush == FlushOutstanding \/ pc = "submit"

LogInv ==
    /\ handler = "write" => source = <<flush_buf, StrnLen(buffers[flush_buf])>>
    /\ pc = "copy" =>
         \A k \in 1 .. copied : buffers[active_buf][active_pos + k - 1] = <<line, k>>
    /\ LogWhole

LEMMA LogTypes ==
    ASSUME TypeInv
    PROVE  /\ ToFlush \in Seq(Cells)
           /\ Filling \in Seq(Cells) /\ Len(Filling) = active_pos
           /\ active_buf \in Buffers /\ active_pos \in Offsets
           /\ active_buf # flush_buf /\ flush_buf \in Buffers
<1> USE LineLengthFacts DEF TypeInv, FlusherInv, WriterInv, Offsets
<1>1. active_buf \in Buffers /\ active_pos \in 0 .. BUFFER_SIZE /\ flush_buf \in Buffers
      /\ active_pos \in Nat /\ active_buf # flush_buf
  BY FlushBuf
<1>2. Filling \in Seq(Cells) /\ Len(Filling) = active_pos
  <2>1. /\ Slice(buffers[active_buf], 0, active_pos) \in Seq(Cells)
        /\ Len(Slice(buffers[active_buf], 0, active_pos)) = active_pos - 0
    <3>1. 0 \in 0 .. BUFFER_SIZE /\ active_pos \in 0 .. BUFFER_SIZE
      BY <1>1
    <3> HIDE DEF TypeInv
    <3> QED
      BY <1>1, <3>1, SliceSeq
  <2> QED
    BY <1>1, <2>1 DEF Filling
<1>3. CASE handler = "write"
  <2>1. source[1] \in Buffers /\ written \in 0 .. BUFFER_SIZE /\ source[2] \in written .. BUFFER_SIZE
    OBVIOUS
  <2>2. ToFlush = Slice(buffers[source[1]], written, source[2])
    BY <1>3 DEF ToFlush
  <2> QED
    BY <1>1, <1>2, <2>1, <2>2, SliceSeq
<1>4. CASE handler # "write" /\ HasToFlush
  <2>1. StrnLen(buffers[flush_buf]) \in 0 .. BUFFER_SIZE /\ 0 \in 0 .. BUFFER_SIZE
    BY StrnLenFacts
  <2>2. ToFlush = Slice(buffers[flush_buf], 0, StrnLen(buffers[flush_buf]))
    BY <1>4 DEF ToFlush, HasToFlush
  <2> QED
    BY <1>1, <1>2, <2>1, <2>2, SliceSeq
<1>5. CASE handler # "write" /\ ~HasToFlush
  BY <1>1, <1>2, <1>5 DEF ToFlush, HasToFlush
<1> QED
  BY <1>3, <1>4, <1>5

\* A step that leaves the buffers and what is to be flushed alone.
LEMMA LogStays ==
    ASSUME LogInv, UNCHANGED <<buffers, active_buf, active_pos, source, written, unwritten>>,
           handler' = "write" <=> handler = "write", HasToFlush' <=> HasToFlush,
           pc' = "copy" => copied' = 0 \/ UNCHANGED <<pc, line, copied>>
    PROVE  LogInv'
<1>1. UNCHANGED flush_buf
  BY DEF flush_buf
<1>2. ToFlush' = ToFlush
  <2>1. CASE handler = "write"
    BY <2>1 DEF ToFlush
  <2>2. CASE handler # "write" /\ HasToFlush
    BY <1>1, <2>2 DEF ToFlush, HasToFlush
  <2>3. CASE handler # "write" /\ ~HasToFlush
    BY <2>3 DEF ToFlush, HasToFlush
  <2> QED
    BY <2>1, <2>2, <2>3
<1>3. LogWhole'
  BY <1>2 DEF LogInv, LogWhole
<1> QED
  BY <1>1, <1>3 DEF LogInv

\* Without an overrun at most one flush is outstanding, and none while one is submitted.
SwapInv ==
    /\ pc = "submit" => ~FlushOutstanding
    /\ "flush" \in Pending => handler \notin {"mount", "open", "write"}

\* Only SubmitFlush makes a flush outstanding, and only FlushStart lets one begin.
LEMMA OutstandingStays ==
    ASSUME TypeInv, [Next]_vars, ~SubmitFlush
    PROVE  /\ "flush" \in Pending' => "flush" \in Pending /\ ~FlushStart
           /\ ~FlushStart => (handler' \in {"mount", "open", "write"}
                                => handler \in {"mount", "open", "write"})
           /\ FlushOutstanding' => FlushOutstanding
<1>1. CASE FlushStart
  <2>1. "flush" \in Pending /\ "flush" \notin Pending'
    <3>1. "flush" \in Items /\ StartWork("flush")
      BY <1>1 DEF FlushStart, Items
    <3>2. Pending' = Pending \ {"flush"} /\ Len(workq) \in Nat \ {0} /\ workq[1] = "flush"
      BY <3>1, StartWorkFacts DEF TypeInv, WorkInv
    <3> QED
      BY <3>2 DEF Pending
  <2> QED
    BY <1>1, <2>1 DEF FlushOutstanding
<1>2. CASE ~FlushStart
  <2>1. handler' \in {"mount", "open", "write"} => handler \in {"mount", "open", "write"}
    BY <1>2
    DEF Next, DatapointThread, DatapointDequeue, SubmitLine, Swap, CopyCell, LineDone, flusher,
        WorkqueueStep, FlushStep, Mount, Open, WriteCell, WriteEnds, Close, Unmount, Due, vars,
        sdcard
  <2>2. CASE UNCHANGED workq
    BY <1>2, <2>1, <2>2, SameWork DEF FlushOutstanding
  <2>3. ASSUME NEW p \in Pollers, PollDue(p) \/ PollStart(p)
        PROVE  "flush" \in Pending' => "flush" \in Pending
    BY <2>3, AheadSubmit, AheadStart DEF PollDue, PollStart, TypeInv, Items
  <2>4. CASE \E p \in Pollers : PollDue(p) \/ PollStart(p)
    BY <1>2, <2>1, <2>3, <2>4 DEF FlushOutstanding
  <2>5. UNCHANGED workq \/ \E p \in Pollers : PollDue(p) \/ PollStart(p)
    BY <1>2
    DEF Next, DatapointThread, DatapointDequeue, Swap, CopyCell, LineDone, WorkqueueStep,
        FlushStep, Mount, Open, WriteCell, WriteEnds, Close, Unmount, PollStep, Reading,
        ReadingFails, PollEnd, SetPollInterval, Due, vars
  <2> QED
    BY <2>2, <2>4, <2>5
<1> QED
  BY <1>1, <1>2

LEMMA SwapStep ==
    ASSUME TypeInv, SwapInv, NoOverrun', [Next]_vars
    PROVE  SwapInv'
<1>1. CASE SubmitFlush
  BY <1>1 DEF SubmitFlush, flusher, SwapInv, FlushOutstanding
<1>2. CASE ~SubmitFlush
  <2>1. "flush" \in Pending' => handler' \notin {"mount", "open", "write"}
    BY <1>2, OutstandingStays DEF SwapInv
  <2>2. pc' = "submit" => ~FlushOutstanding
    <3>1. CASE Swap
      BY <3>1 DEF Swap, NoOverrun
    <3>2. CASE ~Swap
      <4>1. pc' = "submit" => pc = "submit"
        BY <1>2, <3>2
        DEF Next, DatapointThread, DatapointDequeue, SubmitLine, CopyCell, LineDone, writer,
            WorkqueueStep, FlushStep, FlushStart, Mount, Open, WriteCell, WriteEnds, Close,
            Unmount, Due, vars, sdcard
      <4> QED
        BY <4>1 DEF SwapInv
    <3> QED
      BY <3>1, <3>2
  <2> QED
    BY <1>2, <2>1, <2>2, OutstandingStays DEF SwapInv
<1> QED
  BY <1>1, <1>2

\* An overrun is not forgotten.
LEMMA OverrunStays == NoOverrun' /\ [Next]_vars => NoOverrun
BY DEF NoOverrun, Next, DatapointThread, DatapointDequeue, SubmitLine, SubmitFlush, Swap,
       CopyCell, LineDone, WorkqueueStep, FlushStep, FlushStart, Mount, Open, WriteCell,
       WriteEnds, Close, Unmount, Due, vars, sdcard

LEMMA SwapInvariant == Spec => [](NoOverrun => SwapInv)
<1>1. Init => SwapInv
  BY DEF Init, SdCardInit, SwapInv, FlushOutstanding, Pending
<1>2. TypeInv /\ (NoOverrun => SwapInv) /\ [Next]_vars => (NoOverrun' => SwapInv')
  BY SwapStep, OverrunStays
<1> QED
  BY <1>1, <1>2, TypeInvariant, PTL DEF Spec

LEMMA LogSwap ==
    ASSUME TypeInv, TypeInv', NoOverrun', LogInv, Swap, UNCHANGED <<workq, running, sensors>>
    PROVE  LogInv'
<1>1. /\ pc = "swap" /\ pc' = "submit" /\ active_buf' = flush_buf /\ active_pos' = 0
      /\ buffers' = [buffers EXCEPT ![active_buf][active_pos] = NUL]
      /\ UNCHANGED <<handler, unwritten>>
  BY DEF Swap, flusher
<1>2. ~FlushOutstanding /\ handler # "write" /\ ~HasToFlush
  BY <1>1 DEF Swap, NoOverrun, FlushOutstanding, HasToFlush
<1>3. ToFlush = <<>>
  BY <1>2 DEF ToFlush, HasToFlush
<1>4. unwritten = Filling
  BY <1>3, LogTypes, ConcatEmptySeq DEF LogInv, LogWhole, Filling
<1>5. /\ flush_buf' = active_buf
      /\ active_buf \in Buffers /\ flush_buf \in Buffers /\ active_buf # flush_buf
  BY <1>1, LogTypes, FlushBuf DEF Buffers, flush_buf
<1>6. /\ \A i \in Offsets : buffers'[active_buf][i] =
             IF i = active_pos THEN NUL ELSE buffers[active_buf][i]
      /\ active_pos \in Offsets
  BY <1>1, <1>5, LogTypes DEF TypeInv, WriterInv
<1>7. \A i \in Offsets : i < active_pos => buffers'[active_buf][i] # NUL
  BY <1>1, <1>6, LineLengthFacts DEF TypeInv, WriterInv, Filled, Offsets
<1>8. StrnLen(buffers'[active_buf]) = active_pos
  BY <1>6, <1>7, StrnLenFacts
<1>9. ToFlush' = Slice(buffers'[active_buf], 0, active_pos)
  BY <1>1, <1>2, <1>5, <1>8 DEF ToFlush
<1>10. Slice(buffers'[active_buf], 0, active_pos) = Filling
  <2>1. \A k \in 0 .. (active_pos - 1) : buffers'[active_buf][k] = buffers[active_buf][k]
    BY <1>6, LineLengthFacts DEF Offsets
  <2>2. active_pos \in Nat /\ 0 \in Nat
    BY <1>6, LineLengthFacts DEF Offsets
  <2> QED
    BY <2>1, <2>2, SliceSame DEF Filling
<1>11. Slice(buffers[active_buf], 0, active_pos)' = <<>>
  BY <1>1, SliceEmpty
<1>12. LogWhole'
  BY <1>1, <1>4, <1>9, <1>10, <1>11, LogTypes, ConcatEmptySeq DEF LogWhole
<1> QED
  BY <1>1, <1>2, <1>12 DEF LogInv

LEMMA LogCopy ==
    ASSUME TypeInv, TypeInv', LogInv, CopyCell, UNCHANGED <<workq, running, sensors>>
    PROVE  LogInv'
<1> USE LineLengthFacts
<1>1. /\ pc = "copy" /\ line \in 1 .. MaxLines /\ copied < LineLength[line]
      /\ copied' = copied + 1 /\ copied \in Nat
      /\ buffers' = [buffers EXCEPT ![active_buf][active_pos + copied] = <<line, copied + 1>>]
      /\ UNCHANGED <<active_buf, active_pos, pc, line, handler, source, written, unwritten>>
  BY DEF CopyCell, flusher, TypeInv, WriterInv
<1>2. UNCHANGED flush_buf /\ active_buf # flush_buf /\ flush_buf \in Buffers
      /\ active_buf \in Buffers /\ active_pos \in Nat
  BY <1>1, LogTypes DEF flush_buf, Offsets
<1>3. active_pos + copied \in Offsets
  BY <1>1 DEF TypeInv, WriterInv, Offsets
<1>4. /\ \A i \in Offsets : buffers'[active_buf][i] =
             IF i = active_pos + copied THEN <<line, copied + 1>> ELSE buffers[active_buf][i]
      /\ buffers'[flush_buf] = buffers[flush_buf]
  BY <1>1, <1>2, <1>3 DEF TypeInv, WriterInv
<1>5. HasToFlush' <=> HasToFlush
  BY <1>1 DEF HasToFlush, FlushOutstanding, Pending
<1>6. ToFlush' = ToFlush
  <2>1. CASE handler = "write"
    BY <1>1, <1>4, <2>1 DEF ToFlush, LogInv
  <2>2. CASE handler # "write" /\ HasToFlush
    BY <1>1, <1>2, <1>4, <1>5, <2>2 DEF ToFlush, HasToFlush
  <2>3. CASE handler # "write" /\ ~HasToFlush
    BY <1>1, <1>5, <2>3 DEF ToFlush, HasToFlush
  <2> QED
    BY <2>1, <2>2, <2>3
<1>7. Slice(buffers[active_buf], 0, active_pos)' = Slice(buffers[active_buf], 0, active_pos)
  <2>1. \A k \in 0 .. (active_pos - 1) : buffers[active_buf][k] = buffers'[active_buf][k]
    BY <1>1, <1>2, <1>3, <1>4 DEF Offsets
  <2>2. Slice(buffers[active_buf], 0, active_pos) = Slice(buffers'[active_buf], 0, active_pos)
    <3> DEFINE old == buffers[active_buf]
               new == buffers'[active_buf]
    <3>1. \A k \in 0 .. (active_pos - 1) : old[k] = new[k]
      BY <2>1
    <3>2. active_pos \in Nat /\ 0 \in Nat
      BY <1>2
    <3> HIDE DEF old, new
    <3>3. Slice(old, 0, active_pos) = Slice(new, 0, active_pos)
      BY <3>1, <3>2, SliceSame
    <3> QED
      BY <3>3 DEF old, new
  <2> QED
    BY <1>1, <2>2
<1>8. LogWhole'
  BY <1>1, <1>6, <1>7 DEF LogInv, LogWhole
<1>9. \A k \in 1 .. copied' : buffers'[active_buf][active_pos + k - 1] = <<line, k>>
  <2> SUFFICES ASSUME NEW k \in 1 .. copied + 1
               PROVE  buffers'[active_buf][active_pos + k - 1] = <<line, k>>
    BY <1>1
  <2>1. active_pos + k - 1 \in Offsets
    BY <1>1, <1>2, <1>3 DEF Offsets
  <2>2. CASE k = copied + 1
    BY <1>1, <1>2, <1>4, <2>1, <2>2
  <2>3. CASE k # copied + 1
    <3>1. k \in 1 .. copied /\ active_pos + k - 1 # active_pos + copied
      BY <1>1, <1>2, <2>3
    <3> QED
      BY <1>1, <1>4, <2>1, <3>1 DEF LogInv
  <2> QED
    BY <2>2, <2>3
<1>10. handler' = "write" => source' = <<flush_buf', StrnLen(buffers'[flush_buf'])>>
  BY <1>1, <1>2, <1>4 DEF LogInv
<1> QED
  BY <1>1, <1>8, <1>9, <1>10 DEF LogInv

\* The line that is copied, once it is.
NewCells == [k \in 1 .. copied |-> <<line, k>>]

LEMMA NewCellsFacts ==
    ASSUME TypeInv, pc = "copy"
    PROVE  /\ NewCells \in Seq(Cells) /\ Len(NewCells) = copied
           /\ \A k \in 1 .. copied : NewCells[k] = <<line, k>>
<1>1. copied \in Nat /\ \A k \in 1 .. copied : <<line, k>> \in Cells
  BY NulIsNoLine, LineLengthFacts DEF TypeInv, WriterInv
<1> QED
  BY <1>1 DEF NewCells

LEMMA ConcatThree ==
    ASSUME NEW a \in Seq(Cells), NEW b \in Seq(Cells), NEW c \in Seq(Cells)
    PROVE  (a \o b) \o c = a \o (b \o c)
BY ConcatAssociative

LEMMA LogLine ==
    ASSUME TypeInv, TypeInv', LogInv, LineDone, UNCHANGED <<workq, running, sensors>>
    PROVE  LogInv'
<1> USE LineLengthFacts
<1> DEFINE new == NewCells
<1>1. /\ pc = "copy" /\ pc' = "idle" /\ copied = LineLength[line]
      /\ copied \in Nat /\ active_pos \in Nat /\ line \in 1 .. MaxLines
      /\ active_pos' = active_pos + copied /\ unwritten' = unwritten \o new
      /\ UNCHANGED <<buffers, active_buf, line, handler, source, written>>
  BY DEF LineDone, NewCells, flusher, TypeInv, WriterInv, Offsets
<1>2. HasToFlush' <=> HasToFlush
  BY <1>1 DEF HasToFlush, FlushOutstanding, Pending
<1>3. UNCHANGED flush_buf
  BY <1>1 DEF flush_buf
<1>4. ToFlush' = ToFlush
  <2>1. CASE handler = "write"
    BY <1>1, <2>1 DEF ToFlush
  <2>2. CASE handler # "write" /\ HasToFlush
    BY <1>1, <1>2, <1>3, <2>2 DEF ToFlush, HasToFlush
  <2>3. CASE handler # "write" /\ ~HasToFlush
    BY <1>1, <1>2, <2>3 DEF ToFlush, HasToFlush
  <2> QED
    BY <2>1, <2>2, <2>3
<1>5. /\ new \in Seq(Cells) /\ Len(new) = copied
      /\ \A k \in 1 .. copied : new[k] = <<line, k>>
  BY <1>1, NewCellsFacts
<1> HIDE DEF new
<1>6. Filling' = Filling \o new
  <2>1. /\ Filling \in Seq(Cells) /\ Len(Filling) = active_pos
        /\ Filling' \in Seq(Cells) /\ Len(Filling') = active_pos + copied
    <3>1. active_buf \in Buffers /\ 0 \in 0 .. BUFFER_SIZE
          /\ active_pos + copied \in 0 .. BUFFER_SIZE
      BY <1>1, LogTypes DEF TypeInv, WriterInv, Offsets
    <3>2. /\ Slice(buffers[active_buf], 0, active_pos + copied) \in Seq(Cells)
          /\ Len(Slice(buffers[active_buf], 0, active_pos + copied)) = (active_pos + copied) - 0
      BY <3>1, SliceSeq
    <3>3. Filling' = Slice(buffers[active_buf], 0, active_pos + copied)
      BY <1>1 DEF Filling
    <3> QED
      BY <1>1, <3>2, <3>3, LogTypes
  <2>2. /\ Filling \o new \in Seq(Cells) /\ Len(Filling \o new) = active_pos + copied
        /\ \A i \in 1 .. active_pos + copied : (Filling \o new)[i] =
              IF i <= active_pos THEN Filling[i] ELSE new[i - active_pos]
    <3>1. /\ Filling \o new \in Seq(Cells)
          /\ Len(Filling \o new) = Len(Filling) + Len(new)
          /\ \A i \in 1 .. Len(Filling) + Len(new) : (Filling \o new)[i] =
                IF i <= Len(Filling) THEN Filling[i] ELSE new[i - Len(Filling)]
      BY <1>5, <2>1, ConcatProperties
    <3> QED
      BY <1>5, <2>1, <3>1
  <2>3. ASSUME NEW i \in 1 .. active_pos + copied
        PROVE  Filling'[i] = (Filling \o new)[i]
    <3>1. Filling' = [k \in 1 .. active_pos + copied |-> buffers[active_buf][0 + k - 1]]
      BY <1>1 DEF Filling, Slice
    <3>2. Filling'[i] = buffers[active_buf][i - 1]
      BY <1>1, <3>1
    <3>3. CASE i <= active_pos
      <4>1. Filling = [k \in 1 .. active_pos |-> buffers[active_buf][0 + k - 1]]
        BY <1>1 DEF Filling, Slice
      <4>2. Filling[i] = buffers[active_buf][i - 1]
        BY <1>1, <3>3, <4>1
      <4> QED
        BY <2>2, <3>2, <3>3, <4>2
    <3>4. CASE ~(i <= active_pos)
      <4>1. i - active_pos \in 1 .. copied /\ active_pos + (i - active_pos) - 1 = i - 1
        BY <1>1, <3>4
      <4>2. buffers[active_buf][i - 1] = <<line, i - active_pos>>
        BY <1>1, <4>1 DEF LogInv
      <4> QED
        BY <1>5, <2>2, <3>2, <3>4, <4>1, <4>2
    <3> QED
      BY <3>3, <3>4
  <2> QED
    BY <2>1, <2>2, <2>3, SeqEqual
<1>7. (ToFlush \o Filling) \o new = ToFlush \o (Filling \o new)
  <2>1. ToFlush \in Seq(Cells) /\ Filling \in Seq(Cells) /\ new \in Seq(Cells)
    BY <1>5, LogTypes
  <2> QED
    BY <2>1, ConcatThree
<1>8. LogWhole'
  BY <1>1, <1>4, <1>6, <1>7 DEF LogInv, LogWhole, Filling
<1> QED
  BY <1>1, <1>3, <1>8 DEF LogInv

LEMMA LogFlush ==
    ASSUME TypeInv, TypeInv', SwapInv, LogInv, FlushStep, UNCHANGED sensors
    PROVE  LogInv'
<1>1. UNCHANGED <<buffers, active_buf, active_pos, pc, line, copied, flush_buf, Filling>>
  BY DEF FlushStep, FlushStart, Mount, Open, WriteCell, WriteEnds, Close, Unmount, writer,
         flush_buf, Filling
<1>2. CASE FlushStart
  <2>1. "flush" \in Pending /\ handler' = "mount" /\ handler # "write"
        /\ UNCHANGED <<source, written, unwritten>>
    BY <1>2, ItemsAssumption, StartWorkFacts DEF FlushStart, Items, TypeInv, WorkInv, Pending
  <2> QED
    BY <1>1, <2>1, LogStays DEF HasToFlush, FlushOutstanding
\* The handler is through with the flush, whose rest is lost if the card fails.
<1>3. ASSUME handler \in {"mount", "open", "write"}, UNCHANGED workq,
             handler' \notin {"mount", "open", "write"},
             FlushLost \/ unwritten' = Filling
      PROVE  LogInv'
  <2>1. ~HasToFlush'
    BY <1>1, <1>3 DEF SwapInv, HasToFlush, FlushOutstanding, Pending
  <2>2. handler' # "write"
    BY <1>3
  <2>3. unwritten' = Filling'
    BY <1>1, <1>3 DEF FlushLost, Filling
  <2>4. ToFlush' = <<>>
    BY <2>1, <2>2 DEF ToFlush, HasToFlush
  <2>5. LogWhole'
    BY <2>3, <2>4, LogTypes, ConcatEmptySeq DEF LogWhole, Filling
  <2> QED
    BY <1>1, <2>2, <2>5 DEF LogInv
<1>4. CASE Mount
  <2>1. CASE handler' = "open" /\ UNCHANGED <<running, unwritten>>
    BY <1>1, <1>4, <2>1, LogStays DEF Mount, HasToFlush, FlushOutstanding
  <2>2. CASE handler' = "idle" /\ FlushLost
    BY <1>3, <1>4, <2>2 DEF Mount
  <2> QED
    BY <1>4, <2>1, <2>2 DEF Mount
<1>5. CASE Open
  <2>1. CASE handler' = "write"
    <3>1. /\ handler = "open" /\ UNCHANGED unwritten
          /\ source' = <<flush_buf, StrnLen(buffers[flush_buf])>> /\ written' = 0
      BY <1>5, <2>1 DEF Open
    <3>2. ToFlush = Slice(buffers[flush_buf], 0, StrnLen(buffers[flush_buf]))
      BY <3>1 DEF ToFlush, FlushOutstanding
    <3>3. ToFlush' = Slice(buffers[flush_buf], 0, StrnLen(buffers[flush_buf]))
      BY <1>1, <2>1, <3>1 DEF ToFlush
    <3>4. LogWhole'
      BY <1>1, <3>1, <3>2, <3>3 DEF LogInv, LogWhole
    <3> QED
      BY <1>1, <3>1, <3>4 DEF LogInv
  <2>2. CASE handler' = "unmount" /\ FlushLost
    BY <1>3, <1>5, <2>2 DEF Open
  <2> QED
    BY <1>5, <2>1, <2>2 DEF Open
<1>6. CASE WriteCell
  <2>1. /\ handler = "write" /\ written < source[2] /\ written' = written + 1
        /\ last' = buffers[source[1]][written]
        /\ unwritten' = IF unwritten # <<>> /\ Head(unwritten) = last'
                        THEN Tail(unwritten) ELSE unwritten
        /\ UNCHANGED <<handler, source>>
    BY <1>6 DEF WriteCell
  <2>2. source[1] \in Buffers /\ written \in 0 .. BUFFER_SIZE /\ source[2] \in written .. BUFFER_SIZE
    BY LineLengthFacts DEF TypeInv, FlusherInv
  <2>3. /\ ToFlush # <<>> /\ Head(ToFlush) = last'
        /\ Tail(ToFlush) = Slice(buffers[source[1]], written + 1, source[2])
    BY <2>1, <2>2, SliceHead DEF ToFlush
  <2>4. ToFlush' = Tail(ToFlush)
    BY <1>1, <2>1, <2>3 DEF ToFlush
  <2>5. unwritten # <<>> /\ Head(unwritten) = last' /\ Tail(unwritten) = Tail(ToFlush) \o Filling
    BY <2>3, LogTypes, ConcatHead DEF LogInv, LogWhole, Filling
  <2>6. LogWhole'
    BY <1>1, <2>1, <2>4, <2>5 DEF LogWhole, Filling
  <2> QED
    BY <1>1, <2>1, <2>6 DEF LogInv
<1>7. CASE WriteEnds
  <2>1. CASE written = source[2] /\ UNCHANGED unwritten
    <3>1. handler = "write" /\ written \in Nat
      BY <1>7 DEF WriteEnds, TypeInv, FlusherInv
    <3>2. ToFlush = <<>>
      BY <2>1, <3>1, SliceEmpty DEF ToFlush
    <3>3. unwritten' = Filling
      BY <2>1, <3>2, LogTypes, ConcatEmptySeq DEF LogInv, LogWhole, Filling
    <3> QED
      BY <1>3, <1>7, <3>3 DEF WriteEnds
  <2>2. CASE FlushLost
    BY <1>3, <1>7, <2>2 DEF WriteEnds
  <2> QED
    BY <1>7, <2>1, <2>2 DEF WriteEnds
<1>8. CASE Close \/ Unmount
  BY <1>1, <1>8, LogStays DEF Close, Unmount, HasToFlush, FlushOutstanding, Pending
<1> QED
  BY <1>2, <1>4, <1>5, <1>6, <1>7, <1>8 DEF FlushStep

LEMMA LogInvariant == Spec => [](NoOverrun => LogInv)
<1>1. Init => LogInv
  <2> SUFFICES ASSUME Init PROVE LogInv
    OBVIOUS
  <2> USE DEF Init, SdCardInit
  <2>1. handler = "idle" /\ pc = "idle" /\ workq = <<>> /\ active_pos = 0 /\ unwritten = <<>>
    OBVIOUS
  <2>2. ToFlush = <<>>
    BY <2>1 DEF ToFlush, FlushOutstanding, Pending
  <2>3. Slice(buffers[active_buf], 0, active_pos) = <<>>
    BY <2>1, SliceEmpty
  <2>4. <<>> \o <<>> = <<>>
    BY EmptySeq, ConcatEmptySeq
  <2> QED
    BY <2>1, <2>2, <2>3, <2>4 DEF LogInv, LogWhole
<1>2. TypeInv /\ TypeInv' /\ SwapInv /\ LogInv /\ NoOverrun' /\ [Next]_vars => LogInv'
  <2> SUFFICES ASSUME TypeInv, TypeInv', SwapInv, LogInv, NoOverrun', [Next]_vars
               PROVE  LogInv'
    OBVIOUS
  <2>1. ASSUME UNCHANGED sdcard, "flush" \in Pending' <=> "flush" \in Pending PROVE LogInv'
    BY <2>1, LogStays DEF sdcard, writer, flusher, HasToFlush, FlushOutstanding
  <2>2. CASE UNCHANGED vars
    BY <2>1, <2>2 DEF vars, Pending
  <2>3. CASE DatapointDequeue
    <3>1. /\ pc = "idle" /\ pc' \in {"swap", "copy"} /\ copied' = 0
          /\ UNCHANGED <<workq, buffers, active_buf, active_pos, handler, source, written,
                         unwritten>>
      BY <2>3 DEF DatapointDequeue, SubmitLine, flusher
    <3>2. HasToFlush' <=> HasToFlush
      BY <3>1 DEF HasToFlush, FlushOutstanding, Pending
    <3> QED
      BY <3>1, <3>2, LogStays
  <2>4. CASE SubmitFlush /\ UNCHANGED <<running, sensors>>
    <3>1. /\ pc = "submit" /\ pc' = "copy" /\ copied' = 0
          /\ UNCHANGED <<buffers, active_buf, active_pos, handler, source, written, unwritten>>
      BY <2>4 DEF SubmitFlush, flusher, TypeInv, WriterInv
    <3>2. "flush" \in Pending'
      BY <2>4, SubmitWorkFacts DEF SubmitFlush, TypeInv, WorkInv, Items
    <3>3. HasToFlush' /\ HasToFlush
      BY <3>1, <3>2 DEF HasToFlush, FlushOutstanding
    <3> QED
      BY <3>1, <3>3, LogStays
  <2>5. CASE UNCHANGED <<workq, running, sensors>> /\ (Swap \/ CopyCell \/ LineDone)
    BY <2>5, LogSwap, LogCopy, LogLine
  <2>6. CASE FlushStep /\ UNCHANGED sensors
    BY <2>6, LogFlush
  <2>7. CASE PollStep /\ UNCHANGED sdcard
    <3>1. ASSUME NEW p \in Pollers, PollStart(p) PROVE "flush" \in Pending' <=> "flush" \in Pending
      BY <3>1, ItemsAssumption, AheadStart DEF PollStart, TypeInv, Items
    <3>2. CASE Reading \/ ReadingFails \/ PollEnd
      BY <2>1, <2>7, <3>2, SameWork DEF Reading, ReadingFails, PollEnd
    <3> QED
      BY <2>1, <2>7, <3>1, <3>2 DEF PollStep
  <2>8. ASSUME NEW p \in Pollers, PollDue(p) \/ SetPollInterval(p), UNCHANGED sdcard
        PROVE  LogInv'
    <3>1. CASE PollDue(p)
      <4>1. Pending' = Pending \cup {p}
        BY <3>1, SubmitWorkFacts DEF PollDue, TypeInv, WorkInv, Items
      <4> QED
        BY <2>1, <2>8, <4>1, ItemsAssumption
    <3>2. CASE SetPollInterval(p)
      BY <2>1, <2>8, <3>2, SameWork DEF SetPollInterval
    <3> QED
      BY <2>8, <3>1, <3>2
  <2> QED
    BY <2>2, <2>3, <2>4, <2>5, <2>6, <2>7, <2>8
    DEF Next, DatapointThread, WorkqueueStep, Due
<1> QED
  BY <1>1, <1>2, TypeInvariant, SwapInvariant, OverrunStays, PTL DEF Spec

\* As long as there was no overrun, what is in the file, in the buffer of the flush and in
\* the active buffer is all that was submitted, to the cell and in order, unless the card
\* failed to write it: the swap, the flush and its errors lose nothing, for every size.
THEOREM LogIsWhole == Spec => [](NoOverrun => LogWhole)
<1>1. LogInv => LogWhole
  BY DEF LogInv
<1> QED
  BY <1>1, LogInvariant, PTL

\* What is not in the file is in order, and comes after what is.
OrderInv ==
    /\ \A i, j \in 1 .. Len(unwritten) : i < j => Later(unwritten[j], unwritten[i])
    /\ \A i \in 1 .. Len(unwritten) : Later(unwritten[i], last) /\ unwritten[i][1] <= Done
    /\ last[1] <= Done

LEMMA CellsAreNumbers == \A c \in Cells : c[1] \in Nat /\ c[2] \in Nat
BY LineLengthFacts DEF Cells, NUL

LEMMA OrderLine ==
    ASSUME TypeInv, OrderInv, LineDone, UNCHANGED last
    PROVE  OrderInv'
<1> USE LineLengthFacts
<1> DEFINE new == NewCells
<1>1. /\ pc = "copy" /\ pc' = "idle" /\ copied \in Nat /\ line \in 1 .. MaxLines
      /\ unwritten' = unwritten \o new /\ UNCHANGED line /\ unwritten \in Seq(Cells)
      /\ last \in Cells /\ copied = LineLength[line]
  BY DEF LineDone, NewCells, TypeInv, WriterInv, FlusherInv
<1>2. Done = line - 1 /\ Done' = line
  BY <1>1 DEF Done
<1>3. /\ new \in Seq(Cells) /\ Len(new) = copied
      /\ \A k \in 1 .. copied : new[k] = <<line, k>>
  BY <1>1, NewCellsFacts
<1> HIDE DEF new
<1> DEFINE n == Len(unwritten)
<1>4. /\ Len(unwritten') = n + copied /\ n \in Nat
      /\ \A i \in 1 .. n + copied : unwritten'[i] =
            IF i <= n THEN unwritten[i] ELSE new[i - n]
  <2>1. /\ Len(unwritten \o new) = Len(unwritten) + Len(new)
        /\ \A i \in 1 .. Len(unwritten) + Len(new) : (unwritten \o new)[i] =
                IF i <= Len(unwritten) THEN unwritten[i] ELSE new[i - Len(unwritten)]
    BY <1>1, <1>3, ConcatProperties
  <2> QED
    BY <1>1, <1>3, <2>1
<1>5. \A i \in 1 .. n : unwritten'[i] = unwritten[i] /\ unwritten[i] \in Cells
                        /\ unwritten[i][1] \in Nat /\ unwritten[i][1] < line
  <2>1. \A i \in 1 .. n : unwritten[i] \in Cells
    BY <1>1, ElementOfSeq
  <2>2. \A i \in 1 .. n : unwritten[i][1] \in Nat /\ unwritten[i][1] <= line - 1
    BY <1>2, <2>1, CellsAreNumbers DEF OrderInv
  <2>3. \A i \in 1 .. n : i \in 1 .. n + copied /\ i <= n
    BY <1>1, <1>4
  <2>4. \A i \in 1 .. n : unwritten'[i] = unwritten[i]
    BY <1>4, <2>3
  <2> QED
    BY <1>1, <2>1, <2>2, <2>4
<1>6. \A i \in (n + 1) .. (n + copied) : unwritten'[i] = <<line, i - n>>
  <2> SUFFICES ASSUME NEW i \in (n + 1) .. (n + copied)
               PROVE  unwritten'[i] = <<line, i - n>>
    OBVIOUS
  <2>1. i \in 1 .. n + copied /\ ~(i <= n) /\ i - n \in 1 .. copied
    BY <1>1, <1>4
  <2> QED
    BY <1>3, <1>4, <2>1
<1>7. \A i \in (n + 1) .. (n + copied) : unwritten'[i][1] = line
  BY <1>6
<1>8. last[1] \in Nat /\ last[1] < line
  BY <1>1, <1>2, CellsAreNumbers DEF OrderInv
<1> HIDE DEF n
<1>9. ASSUME NEW i \in 1 .. n + copied
      PROVE  Later(unwritten'[i], last) /\ unwritten'[i][1] <= line
  <2>1. CASE i \in 1 .. n
    BY <1>1, <1>5, <2>1 DEF OrderInv, n
  <2>2. CASE i \in (n + 1) .. (n + copied)
    <3>1. unwritten'[i][1] = line
      BY <1>7, <2>2
    <3>2. line \in Nat
      BY <1>1
    <3> QED
      BY <1>8, <3>1, <3>2 DEF Later
  <2> QED
    BY <1>1, <1>4, <2>1, <2>2
<1>10. ASSUME NEW i \in 1 .. n + copied, NEW j \in 1 .. n + copied, i < j
      PROVE  Later(unwritten'[j], unwritten'[i])
  <2>1. CASE j \in 1 .. n
    <3>1. i \in 1 .. n
      BY <1>1, <1>4, <1>10, <2>1
    <3> QED
      BY <1>5, <1>10, <2>1, <3>1 DEF OrderInv, n
  <2>2. CASE i \in 1 .. n /\ j \in (n + 1) .. (n + copied)
    BY <1>1, <1>5, <1>7, <2>2 DEF Later
  <2>3. CASE i \in (n + 1) .. (n + copied) /\ j \in (n + 1) .. (n + copied)
    <3>1. unwritten'[i] = <<line, i - n>> /\ unwritten'[j] = <<line, j - n>>
      BY <1>6, <2>3
    <3>2. j - n > i - n
      BY <1>1, <1>4, <1>10
    <3> QED
      BY <3>1, <3>2 DEF Later
  <2> QED
    <3>1. n \in Nat /\ copied \in Nat /\ i \in Nat /\ j \in Nat
      BY <1>1, <1>4
    <3>2. \/ j \in 1 .. n
          \/ i \in 1 .. n /\ j \in (n + 1) .. (n + copied)
          \/ i \in (n + 1) .. (n + copied) /\ j \in (n + 1) .. (n + copied)
      BY <1>10, <3>1
    <3> QED
      BY <2>1, <2>2, <2>3, <3>2
<1>11. 1 .. Len(unwritten') = 1 .. n + copied /\ last' = last /\ Done' = line
  BY <1>2, <1>4 DEF n
<1>12. last'[1] <= Done'
  BY <1>1, <1>8, <1>11
<1> QED
  BY <1>9, <1>10, <1>11, <1>12 DEF OrderInv

\* The card fails, and what was to be flushed is no longer awaited.
LEMMA OrderLost ==
    ASSUME TypeInv, LogInv, OrderInv, FlushLost, UNCHANGED <<pc, line, last>>
    PROVE  OrderInv'
<1>1. /\ ToFlush \in Seq(Cells) /\ Filling \in Seq(Cells) /\ unwritten = ToFlush \o Filling
      /\ unwritten' = Filling
  BY LogTypes DEF LogInv, LogWhole, Filling, FlushLost
<1> DEFINE n == Len(ToFlush)
<1>2. /\ Len(unwritten) = n + Len(Filling) /\ n \in Nat /\ Len(Filling) \in Nat
      /\ \A i \in 1 .. n + Len(Filling) :
            unwritten[i] = IF i <= n THEN ToFlush[i] ELSE Filling[i - n]
  BY <1>1, ConcatProperties
<1> HIDE DEF n
<1>3. \A i \in 1 .. Len(unwritten') :
        i + n \in 1 .. Len(unwritten) /\ unwritten'[i] = unwritten[i + n]
  BY <1>1, <1>2
<1>4. Done' = Done
  BY DEF Done
<1>5. ASSUME NEW i \in 1 .. Len(unwritten'), NEW j \in 1 .. Len(unwritten'), i < j
      PROVE  Later(unwritten'[j], unwritten'[i])
  <2>1. i + n < j + n
    BY <1>2, <1>5
  <2> QED
    BY <1>3, <2>1 DEF OrderInv
<1>6. \A i \in 1 .. Len(unwritten') : Later(unwritten'[i], last) /\ unwritten'[i][1] <= Done
  BY <1>3 DEF OrderInv
<1> QED
  BY <1>4, <1>5, <1>6 DEF OrderInv

\* fs_write writes the oldest cell that is not in the file.
LEMMA WritesOldest ==
    ASSUME TypeInv, LogInv, WriteCell
    PROVE  unwritten # <<>> /\ last' = Head(unwritten) /\ unwritten' = Tail(unwritten)
<1>1. /\ handler = "write" /\ written < source[2]
      /\ last' = buffers[source[1]][written]
      /\ unwritten' = IF unwritten # <<>> /\ Head(unwritten) = last'
                      THEN Tail(unwritten) ELSE unwritten
  BY DEF WriteCell
<1>2. source[1] \in Buffers /\ written \in 0 .. BUFFER_SIZE /\ source[2] \in written .. BUFFER_SIZE
  BY LineLengthFacts DEF TypeInv, FlusherInv
<1>3. ToFlush # <<>> /\ Head(ToFlush) = last'
  BY <1>1, <1>2, SliceHead DEF ToFlush
<1>4. unwritten # <<>> /\ Head(unwritten) = last'
  BY <1>3, LogTypes, ConcatHead DEF LogInv, LogWhole, Filling
<1> QED
  BY <1>1, <1>4

LEMMA OrderWrite ==
    ASSUME TypeInv, LogInv, OrderInv, WriteCell
    PROVE  OrderInv' /\ Later(last', last)
<1>1. unwritten # <<>> /\ unwritten \in Seq(Cells) /\ last' = Head(unwritten)
      /\ unwritten' = Tail(unwritten)
  <2>1. ToFlush \o Filling \in Seq(Cells)
    BY LogTypes, ConcatProperties
  <2>2. unwritten \in Seq(Cells)
    BY <2>1 DEF LogInv, LogWhole, Filling
  <2> QED
    BY <2>2, WritesOldest
<1>2. /\ Len(unwritten) \in Nat \ {0} /\ last' = unwritten[1]
      /\ Len(unwritten') = Len(unwritten) - 1
      /\ \A i \in 1 .. Len(unwritten') : unwritten'[i] = unwritten[i + 1]
  BY <1>1
<1>3. \A i \in 1 .. Len(unwritten') :
        /\ i + 1 \in 1 .. Len(unwritten) /\ 1 < i + 1
        /\ unwritten'[i] = unwritten[i + 1]
  BY <1>2
<1>4. Done' = Done
  BY DEF WriteCell, writer, Done
<1>5. 1 \in 1 .. Len(unwritten)
  BY <1>2
<1>6. Later(last', last) /\ last'[1] <= Done
  BY <1>2, <1>5 DEF OrderInv
<1>7. ASSUME NEW i \in 1 .. Len(unwritten'), NEW j \in 1 .. Len(unwritten'), i < j
      PROVE  Later(unwritten'[j], unwritten'[i])
  <2>1. i + 1 < j + 1
    BY <1>7
  <2> QED
    BY <1>3, <2>1 DEF OrderInv
<1>8. \A i \in 1 .. Len(unwritten') : Later(unwritten'[i], last') /\ unwritten'[i][1] <= Done
  BY <1>2, <1>3, <1>5 DEF OrderInv
<1> QED
  BY <1>4, <1>6, <1>7, <1>8 DEF OrderInv

LEMMA OrderStep ==
    ASSUME TypeInv, LogInv, OrderInv, [Next]_vars
    PROVE  OrderInv'
<1>1. ASSUME UNCHANGED <<pc, line, unwritten, last>> PROVE OrderInv'
  BY <1>1 DEF OrderInv, Done
<1>2. CASE UNCHANGED vars
  BY <1>1, <1>2 DEF vars, sdcard, writer, flusher
<1>3. CASE DatapointThread
  <2>1. UNCHANGED last
    BY <1>3 DEF DatapointThread, DatapointDequeue, SubmitLine, SubmitFlush, Swap, CopyCell,
                LineDone, flusher
  <2>2. CASE LineDone
    BY <2>1, <2>2, OrderLine
  <2>3. CASE ~LineDone
    <3>1. Done' = Done /\ UNCHANGED unwritten
      BY <1>3, <2>3, ComingFacts
      DEF DatapointThread, DatapointDequeue, SubmitLine, SubmitFlush, Swap, CopyCell, Done
    <3> QED
      BY <2>1, <3>1 DEF OrderInv
  <2> QED
    BY <2>2, <2>3
<1>4. CASE FlushStep
  <2>1. UNCHANGED <<pc, line>>
    BY <1>4 DEF FlushStep, FlushStart, Mount, Open, WriteCell, WriteEnds, Close, Unmount, writer
  <2>2. CASE WriteCell
    BY <2>2, OrderWrite
  <2>3. CASE ~WriteCell
    <3>1. UNCHANGED last /\ (UNCHANGED unwritten \/ FlushLost)
      BY <1>4, <2>3 DEF FlushStep, FlushStart, Mount, Open, WriteEnds, Close, Unmount
    <3> QED
      BY <1>1, <2>1, <3>1, OrderLost
  <2> QED
    BY <2>2, <2>3
<1>5. CASE UNCHANGED sdcard
  BY <1>1, <1>5 DEF sdcard, writer, flusher
<1> QED
  BY <1>2, <1>3, <1>4, <1>5 DEF Next, WorkqueueStep, Due

LEMMA OrderInvariant == Spec => [](NoOverrun => OrderInv)
<1>1. Init => OrderInv
  <2> SUFFICES ASSUME Init PROVE OrderInv
    OBVIOUS
  <2>1. unwritten = <<>> /\ last = <<0, 0>> /\ Done = 0
    BY DEF Init, SdCardInit, NUL, Done
  <2>2. last[1] <= Done
    BY <2>1
  <2> QED
    BY <2>1, <2>2 DEF OrderInv
<1> QED
  BY <1>1, OrderStep, TypeInvariant, LogInvariant, OverrunStays, PTL DEF Spec

\* Every cell that enters the file comes after the one that entered it last: lines are
\* written in the order they were submitted and none is written twice, even if the card
\* fails in between, as long as the buffers are not swapped under a flush.
THEOREM LogIsOrdered == Spec /\ []NoOverrun => LogOrdered
<1>1. TypeInv /\ LogInv /\ OrderInv /\ [Next]_vars
        => [written' = written + 1 => Later(last', last)]_sdcard
  <2> SUFFICES ASSUME TypeInv, LogInv, OrderInv, Next, written' = written + 1
               PROVE  Later(last', last)
    BY DEF vars
  <2>1. written \in Nat
    BY LineLengthFacts DEF TypeInv, FlusherInv
  <2>2. written' # written /\ written' # 0
    BY <2>1
  <2>3. WriteCell
    BY <2>2
    DEF Next, DatapointThread, DatapointDequeue, SubmitLine, SubmitFlush, Swap, CopyCell,
        LineDone, WorkqueueStep, FlushStep, FlushStart, Mount, Open, WriteEnds, Close, Unmount,
        Due, sdcard, flusher
  <2> QED
    BY <2>3, OrderWrite
<1> QED
  BY <1>1, TypeInvariant, LogInvariant, OrderInvariant, PTL DEF Spec, LogOrdered
=============================================================================
