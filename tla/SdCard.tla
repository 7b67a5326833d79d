------------------------------- MODULE SdCard -------------------------------
(***************************************************************************)
(* The SD card writer, cores/control/src/sd_card/sd_card.c: a double       *)
(* buffer that one thread fills with lines and a work item on the system   *)
(* workqueue writes to the log file.                                       *)
(*                                                                         *)
(* The work handler sleeps (k_sleep, SPI transfers), so the thread and the *)
(* handler interleave between any two steps, and cell by cell where one    *)
(* copies a line into a buffer and the other writes a buffer to the file.  *)
(* buf_mutex excludes other submitters, of which there are none, but not   *)
(* the handler: it is held exactly while pc # "idle".                      *)
(*                                                                         *)
(* A line is its number, and its k-th character is the cell <<number, k>>. *)
(* The module has no behaviour of its own: DataPath composes its actions   *)
(* with those of the threads that use it.                                  *)
(***************************************************************************)
EXTENDS Workqueue

CONSTANTS
    BUFFER_SIZE,
    LineLength,     \* the length of each line
    MaxLines        \* bound: lines submitted in a behaviour

ASSUME SdCardAssumption ==
    /\ BUFFER_SIZE \in Nat \ {0}
    /\ MaxLines \in Nat
    /\ LineLength \in [1 .. MaxLines -> 1 .. (BUFFER_SIZE - 1)]

VARIABLES
    buffers,        \* buffer_a and buffer_b
    active_buf,     \* flush_buf is the other one
    active_pos,
    pc,             \* where the thread is in sd_card_submit_line
    line,           \* the line it submits: its number
    copied,         \* how much of it memcpy has copied
    handler,        \* where sd_writer_work_handler is
    source,         \* the buffer and length it has given to fs_write
    written,        \* how much of that is in the file
    last,           \* the last cell of the log file
    unwritten,      \* history: the cells that were submitted and are not in the
                    \* file, less those of buffers the card failed to write
    overrun         \* history: the buffers were swapped before a flush was over

writer == <<buffers, active_buf, active_pos, pc, line, copied>>
flusher == <<handler, source, written, last>>
sdcard == <<writer, flusher, unwritten, overrun>>

Buffers == {"buffer_a", "buffer_b"}
NUL == <<0, 0>>
Offsets == 0 .. (BUFFER_SIZE - 1)

flush_buf == CHOOSE b \in Buffers : b # active_buf

\* The cells of a buffer from offset i on, up to offset j.
Slice(buf, i, j) == [k \in 1 .. (j - i) |-> buf[i + k - 1]]

\* strnlen(buf, BUFFER_SIZE)
StrnLen(buf) ==
    LET ends == {i \in Offsets : buf[i] = NUL} IN
    IF ends = {} THEN BUFFER_SIZE ELSE CHOOSE i \in ends : \A j \in ends : i <= j

SdCardInit ==
    /\ buffers = [b \in Buffers |-> [i \in Offsets |-> NUL]]
    /\ active_buf = "buffer_a" /\ active_pos = 0
    /\ pc = "idle" /\ line = 0 /\ copied = 0
    /\ handler = "idle" /\ source = <<"buffer_b", 0>> /\ written = 0
    /\ last = NUL /\ unwritten = <<>>
    /\ overrun = FALSE

----------------------------------------------------------------------------
\* sd_card_submit_line.

\* The active buffer has no room for this line and a terminator.
FullIfPast(n) == active_pos + n > BUFFER_SIZE
IsFull(n) == active_pos + n >= BUFFER_SIZE

\* The mutex is free, since there is no other submitter.
SubmitLine ==
    /\ pc = "idle"
    /\ line < MaxLines
    /\ line' = line + 1 /\ copied' = 0
    /\ pc' = IF IsFull(LineLength[line']) THEN "swap" ELSE "copy"
    /\ UNCHANGED <<buffers, active_buf, active_pos, flusher, unwritten, overrun>>

\* The handler has still to read what is in flush_buf.
FlushOutstanding == "flush" \in Pending \/ handler \in {"mount", "open", "write"}

SwapUnterminated ==
    /\ pc = "swap"
    /\ active_buf' = flush_buf /\ active_pos' = 0
    /\ overrun' = (overrun \/ FlushOutstanding)
    /\ pc' = "submit"
    /\ UNCHANGED <<buffers, line, copied, flusher, unwritten>>
Swap ==
    /\ pc = "swap"
    /\ buffers' = [buffers EXCEPT ![active_buf][active_pos] = NUL]
    /\ active_buf' = flush_buf /\ active_pos' = 0
    /\ overrun' = (overrun \/ FlushOutstanding)
    /\ pc' = "submit"
    /\ UNCHANGED <<line, copied, flusher, unwritten>>

SubmitFlush ==
    /\ pc = "submit"
    /\ SubmitWork("flush")
    /\ pc' = "copy"
    /\ UNCHANGED <<buffers, active_buf, active_pos, line, copied, flusher, unwritten,
                   overrun>>

\* One character of the memcpy.
CopyCell ==
    /\ pc = "copy"
    /\ copied < LineLength[line]
    /\ buffers' = [buffers EXCEPT ![active_buf][active_pos + copied] =
                        <<line, copied + 1>>]
    /\ copied' = copied + 1
    /\ UNCHANGED <<active_buf, active_pos, pc, line, flusher, unwritten, overrun>>

LineDone ==
    /\ pc = "copy"
    /\ copied = LineLength[line]
    /\ active_pos' = active_pos + copied
    /\ unwritten' = unwritten \o [k \in 1 .. copied |-> <<line, k>>]
    /\ pc' = "idle"
    /\ UNCHANGED <<buffers, active_buf, line, copied, flusher, overrun>>

----------------------------------------------------------------------------
\* sd_writer_work_handler.

FlushStartDetached ==
    /\ running = NULL /\ handler = "idle"
    /\ workq # <<>> /\ Head(workq) = "flush" /\ workq' = Tail(workq)
    /\ handler' = "mount"
    /\ UNCHANGED <<running, writer, source, written, last, unwritten, overrun>>
FlushStart ==
    /\ StartWork("flush")
    /\ handler' = "mount"
    /\ UNCHANGED <<writer, source, written, last, unwritten, overrun>>

\* The card fails: what was to be flushed is lost.
FlushLost == unwritten' = Slice(buffers[active_buf], 0, active_pos)

\* fs_mount.  The handler returns if it fails.
MountWaits ==
    /\ handler = "mount"
    /\ handler' \in {"open", "no_card"}
    /\ UNCHANGED <<workq, running, writer, source, written, last, unwritten, overrun>>
Mount ==
    /\ handler = "mount"
    /\ \/ handler' = "open" /\ UNCHANGED <<running, unwritten>>
       \/ handler' = "idle" /\ EndWork /\ FlushLost
    /\ UNCHANGED <<workq, writer, source, written, last, overrun>>

\* fs_open, and if it succeeds strnlen and the call of fs_write.
OpenActiveBuffer ==
    /\ handler = "open"
    /\ \/ /\ handler' = "write"
          /\ source' = <<active_buf, StrnLen(buffers[active_buf])>> /\ written' = 0
          /\ UNCHANGED unwritten
       \/ handler' = "unmount" /\ FlushLost /\ UNCHANGED <<source, written>>
    /\ UNCHANGED <<workq, running, writer, last, overrun>>
Open ==
    /\ handler = "open"
    /\ \/ /\ handler' = "write"
          /\ source' = <<flush_buf, StrnLen(buffers[flush_buf])>> /\ written' = 0
          /\ UNCHANGED unwritten
       \/ handler' = "unmount" /\ FlushLost /\ UNCHANGED <<source, written>>
    /\ UNCHANGED <<workq, running, writer, last, overrun>>

WriteCell ==
    /\ handler = "write"
    /\ written < source[2]
    /\ last' = buffers[source[1]][written]
    /\ unwritten' = IF unwritten # <<>> /\ Head(unwritten) = last'
                    THEN Tail(unwritten) ELSE unwritten
    /\ written' = written + 1
    /\ UNCHANGED <<workq, running, writer, handler, source, overrun>>

\* fs_write returns, having written everything or with an error.
WriteEnds ==
    /\ handler = "write"
    /\ handler' = "close"
    /\ \/ written = source[2] /\ UNCHANGED unwritten
       \/ written < source[2] /\ FlushLost
    /\ UNCHANGED <<workq, running, writer, source, written, last, overrun>>

\* fs_close, whatever it returns.
Close ==
    /\ handler = "close"
    /\ handler' = "unmount"
    /\ UNCHANGED <<workq, running, writer, source, written, last, unwritten, overrun>>

Unmount ==
    /\ handler = "unmount"
    /\ handler' = "idle"
    /\ EndWork
    /\ UNCHANGED <<workq, writer, source, written, last, unwritten, overrun>>

FlushStep == FlushStart \/ Mount \/ Open \/ WriteCell \/ WriteEnds \/ Close \/ Unmount

----------------------------------------------------------------------------
Cells == {NUL} \cup ((1 .. MaxLines) \X (1 .. BUFFER_SIZE))

SdCardTypeOK ==
    /\ buffers \in [Buffers -> [Offsets -> Cells]]
    /\ active_buf \in Buffers /\ active_pos \in Offsets
    /\ pc \in {"idle", "swap", "submit", "copy"}
    /\ line \in 0 .. MaxLines /\ copied \in 0 .. BUFFER_SIZE
    /\ pc = "copy" => active_pos + LineLength[line] \in Offsets
    /\ handler \in {"idle", "mount", "open", "write", "close", "unmount"}
    /\ source \in Buffers \X (0 .. BUFFER_SIZE) /\ written \in 0 .. source[2]
    /\ last \in Cells /\ unwritten \in Seq(Cells \ {NUL})
    /\ overrun \in BOOLEAN

\* What the handler has still to write, now or when it runs.
ToFlush ==
    IF handler = "write" THEN Slice(buffers[source[1]], written, source[2])
    ELSE IF FlushOutstanding \/ pc = "submit"
         THEN Slice(buffers[flush_buf], 0, StrnLen(buffers[flush_buf]))
         ELSE <<>>

\* The buffers are not swapped while the handler has still to read flush_buf: the
\* flush of one buffer is over before the other one is full.
NoOverrun == ~overrun

Later(c, d) == c[1] > d[1] \/ (c[1] = d[1] /\ c[2] > d[2])

\* Lines enter the file in the order they were submitted and nothing enters it
\* twice, even if the card fails in between and a buffer is lost with it.
LogOrdered == [][written' = written + 1 => Later(last', last)]_sdcard

\* What the handler has still to write and what is in the active buffer are together
\* everything that was submitted and is not in the file, to the cell and in order,
\* unless the card failed to write it: a line is lost in no other way.
LogWhole == ToFlush \o Slice(buffers[active_buf], 0, active_pos) = unwritten
=============================================================================
