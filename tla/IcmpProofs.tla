----------------------------- MODULE IcmpProofs -----------------------------
(***************************************************************************)
(* Proofs about Icmp for every number of callers, commands, blocks, ids    *)
(* and queue slots.                                                        *)
(***************************************************************************)
EXTENDS Icmp, FiniteSetTheorems, TLAPS

----------------------------------------------------------------------------
\* Queues.

\* A queue that grows by one element at its end.
LEMMA AppendFacts ==
    ASSUME NEW S, NEW q \in Seq(S), NEW x \in S
    PROVE  /\ Append(q, x) \in Seq(S)
           /\ Elements(Append(q, x)) = Elements(q) \cup {x}
           /\ NoDuplicates(q) /\ x \notin Elements(q)
                => NoDuplicates(Append(q, x))
BY DEF Elements, NoDuplicates

\* A queue that loses its head.
LEMMA TailFacts ==
    ASSUME NEW S, NEW q \in Seq(S), q # <<>>
    PROVE  /\ Head(q) \in S /\ Tail(q) \in Seq(S)
           /\ Head(q) \in Elements(q)
           /\ Elements(q) = {Head(q)} \cup Elements(Tail(q))
           /\ NoDuplicates(q) => /\ NoDuplicates(Tail(q))
                                 /\ Head(q) \notin Elements(Tail(q))
<1>1. Len(q) \in Nat \ {0} /\ Len(Tail(q)) = Len(q) - 1 /\ Head(q) = q[1]
  OBVIOUS
<1>2. \A i \in 1 .. Len(Tail(q)) : Tail(q)[i] = q[i + 1]
  OBVIOUS
<1>3. \A i \in 2 .. Len(q) : i - 1 \in 1 .. Len(Tail(q)) /\ q[i] = Tail(q)[i - 1]
  BY <1>1, <1>2
<1>4. Elements(q) = {Head(q)} \cup Elements(Tail(q))
  <2>1. Elements(q) \subseteq {Head(q)} \cup Elements(Tail(q))
    <3> SUFFICES ASSUME NEW i \in 1 .. Len(q), i # 1
                 PROVE  q[i] \in Elements(Tail(q))
      BY <1>1 DEF Elements
    <3>1. i \in 2 .. Len(q)
      BY <1>1
    <3> QED
      BY <1>3, <3>1 DEF Elements
  <2>2. {Head(q)} \cup Elements(Tail(q)) \subseteq Elements(q)
    BY <1>1, <1>2 DEF Elements
  <2> QED
    BY <2>1, <2>2
<1>5. NoDuplicates(q) => /\ NoDuplicates(Tail(q))
                         /\ Head(q) \notin Elements(Tail(q))
  BY <1>1, <1>2 DEF Elements, NoDuplicates
<1> QED
  BY <1>1, <1>4, <1>5

\* Everything in a queue comes from the set it is over.
LEMMA ElementsType ==
    ASSUME NEW S, NEW q \in Seq(S)
    PROVE  Elements(q) \subseteq S
BY DEF Elements

\* k_work_submit keeps the work queue free of duplicates.
LEMMA SubmittedFacts ==
    ASSUME NEW item \in {"dispatch", "timeout"},
           workq \in Seq({"dispatch", "timeout"}), NoDuplicates(workq)
    PROVE  /\ Submitted(item) \in Seq({"dispatch", "timeout"})
           /\ Elements(Submitted(item)) = Elements(workq) \cup {item}
           /\ NoDuplicates(Submitted(item))
BY AppendFacts DEF Submitted

----------------------------------------------------------------------------
\* Ownership of blocks, H[o] being what owner o holds and A what is allocated.

Separate(H, A) ==
    /\ \A o \in Owners : H[o] \subseteq A
    /\ \A o1, o2 \in Owners : o1 # o2 => H[o1] \cap H[o2] = {}

Covered(H, A) == \A b \in A : \E o \in Owners : b \in H[o]

\* A free block is allocated and handed to o.
LEMMA AllocateSeparate ==
    ASSUME NEW H, NEW A, Separate(H, A),
           NEW o \in Owners, NEW b, b \notin A, NEW G,
           G[o] = H[o] \cup {b}, \A p \in Owners \ {o} : G[p] = H[p]
    PROVE  /\ Separate(G, A \cup {b})
           /\ Covered(H, A) => Covered(G, A \cup {b})
BY DEF Separate, Covered

\* A block passes from o to p.
LEMMA PassSeparate ==
    ASSUME NEW H, NEW A, Separate(H, A),
           NEW o \in Owners, NEW p \in Owners, o # p, NEW b \in H[o], NEW G,
           G[o] = H[o] \ {b}, G[p] = H[p] \cup {b},
           \A x \in Owners \ {o, p} : G[x] = H[x]
    PROVE  /\ Separate(G, A)
           /\ Covered(H, A) => Covered(G, A)
BY DEF Separate, Covered

\* The block o holds is freed.
LEMMA FreeSeparate ==
    ASSUME NEW H, NEW A, Separate(H, A),
           NEW o \in Owners, NEW b \in H[o], NEW G,
           G[o] = H[o] \ {b}, \A p \in Owners \ {o} : G[p] = H[p]
    PROVE  /\ Separate(G, A \ {b})
           /\ Covered(H, A) => Covered(G, A \ {b})
BY DEF Separate, Covered

\* The block o holds is forgotten: it stays allocated and nobody holds it.
LEMMA ForgetSeparate ==
    ASSUME NEW H, NEW A, Separate(H, A),
           NEW o \in Owners, NEW b \in H[o], NEW G,
           G[o] = H[o] \ {b}, \A p \in Owners \ {o} : G[p] = H[p]
    PROVE  Separate(G, A)
BY DEF Separate

----------------------------------------------------------------------------
\* The inductive invariant.

\* What the local variables of the threads hold between two of their steps.
Locals ==
    /\ \A c \in Callers :
        /\ pc[c] = "locked" =>
            out[c] \in Frames /\ out[c].type = "COMMAND" /\ out[c].body \in Reqs
        /\ pc[c] \in {"alloc", "enqueue"} => out[c] \in Frames
        /\ pc[c] = "enqueue" <=> buf[c] # NULL
    /\ icmp_thread \in {"stamp", "send"} <=> tx_frame # NULL

\* An entry with a callback belongs to a command.
CallbacksHaveOwner ==
    \A id \in Ids : inflight_table[id].callback => inflight_table[id].user_data \in Reqs

Held == [o \in Owners |-> Holds(o)]

IInv ==
    /\ TypeOK
    /\ Locals
    /\ CallbacksHaveOwner
    /\ DispatchSlot
    /\ Separate(Held, Allocated)
    /\ NoDuplicates(tx_queue) /\ NoDuplicates(rx_queue)

USE DEF SEND_PENDING

LEMMA InitIInv == Init => IInv
<1> SUFFICES ASSUME Init PROVE IInv
  OBVIOUS
<1> USE ConstantsAssumption, NullAssumption DEF Init
<1>1. TypeOK
  BY DEF TypeOK, Entries, EmptyEntry
<1>2. Locals
  BY DEF Locals
<1>3. CallbacksHaveOwner
  BY DEF CallbacksHaveOwner, EmptyEntry
<1>4. DispatchSlot
  BY DEF DispatchSlot, Elements, NoDuplicates
<1>5. Separate(Held, Allocated)
  <2>1. \A o \in Owners : Held[o] = {}
    BY DEF Held, Holds, Owners, Elements
  <2> QED
    BY <2>1 DEF Separate
<1>6. NoDuplicates(tx_queue) /\ NoDuplicates(rx_queue)
  BY DEF NoDuplicates
<1> QED
  BY <1>1, <1>2, <1>3, <1>4, <1>5, <1>6 DEF IInv

\* Holds, one owner at a time, in this state and in the next.
LEMMA HoldsFacts ==
    /\ Holds("tx_queue") = Elements(tx_queue)
    /\ Holds("icmp_thread") = {tx_frame} \ {NULL}
    /\ Holds("rx_queue") = Elements(rx_queue)
    /\ Holds("workqueue") = IF work_ctx = NULL THEN {} ELSE {work_ctx.frame}
    /\ \A c \in Callers : Holds(c) = {buf[c]} \ {NULL}
    /\ Holds("tx_queue")' = Elements(tx_queue)'
    /\ Holds("icmp_thread")' = {tx_frame'} \ {NULL}
    /\ Holds("rx_queue")' = Elements(rx_queue)'
    /\ Holds("workqueue")' = IF work_ctx' = NULL THEN {} ELSE {work_ctx'.frame}
    /\ \A c \in Callers : Holds(c)' = {buf'[c]} \ {NULL}
BY NullAssumption DEF Holds

\* Whatever has an owner is a frame.
LEMMA HeldFrames ==
    ASSUME IInv
    PROVE  /\ \A c \in Callers : buf[c] # NULL => slab[buf[c]] \in Frames
           /\ \A b \in Elements(tx_queue) \cup Elements(rx_queue) : slab[b] \in Frames
           /\ tx_frame # NULL => slab[tx_frame] \in Frames
           /\ work_ctx # NULL => slab[work_ctx.frame] \in Frames
<1>1. ASSUME NEW o \in Owners, NEW b \in Holds(o) PROVE b \in Blocks /\ slab[b] \in Frames
  <2>1. b \in Allocated
    BY DEF IInv, Separate, Held
  <2> QED
    BY <2>1 DEF IInv, TypeOK, Allocated
<1>2. \A c \in Callers : buf[c] # NULL => buf[c] \in Holds(c) /\ c \in Owners
  BY HoldsFacts DEF Owners
<1>3. /\ Holds("tx_queue") = Elements(tx_queue)
      /\ Holds("rx_queue") = Elements(rx_queue)
      /\ tx_frame # NULL => tx_frame \in Holds("icmp_thread")
      /\ work_ctx # NULL => work_ctx.frame \in Holds("workqueue")
      /\ {"tx_queue", "icmp_thread", "rx_queue", "workqueue"} \subseteq Owners
  BY HoldsFacts DEF Owners
<1> QED
  BY <1>1, <1>2, <1>3

\* While a dispatch is queued or a callback runs, the context holds its frame.
LEMMA ContextHeld ==
    ASSUME IInv, running # NULL \/ (workq # <<>> /\ Head(workq) = "dispatch")
    PROVE  work_ctx # NULL /\ work_ctx.frame \in Blocks
           /\ slab[work_ctx.frame] \in Frames
<1>1. workq # <<>> => Head(workq) \in Elements(workq)
  BY TailFacts DEF IInv, TypeOK
<1>2. work_ctx # NULL
  BY <1>1 DEF IInv, DispatchSlot
<1> QED
  BY <1>2, HeldFrames DEF IInv, TypeOK, Contexts

\* What the peer answers is a frame.
LEMMA AnswerFrame ==
    ASSUME NEW p \in Frames, p.type = "COMMAND", NEW t \in Targets
    PROVE  Answer(p, t) \in Frames
<1>1. /\ p \in [type : {"COMMAND", "RESPONSE", "NOTIFY"}, target : Targets,
                msg_id : Ids \cup {NotifyId}, body : Reqs \cup {NULL}]
      /\ p.msg_id \in Ids
  BY DEF Frames
<1>2. /\ Answer(p, t) \in [type : {"COMMAND", "RESPONSE", "NOTIFY"}, target : Targets,
                           msg_id : Ids \cup {NotifyId}, body : Reqs \cup {NULL}]
      /\ Answer(p, t).msg_id = p.msg_id
  BY <1>1 DEF Answer
<1> QED
  BY <1>1, <1>2 DEF Frames

\* What icmp_dispatch puts in the context, the work queue and the receive queue.
LEMMA DispatchContext ==
    ASSUME IInv, RxDispatch
    PROVE  /\ work_ctx' \in Contexts /\ work_ctx'.frame = Head(rx_queue)
           /\ workq' \in Seq({"dispatch", "timeout"})
           /\ rx_queue' \in Seq(Blocks)
<1> USE DEF IInv, TypeOK
<1>1. /\ Head(rx_queue) \in Blocks /\ Head(rx_queue) \in Elements(rx_queue)
      /\ rx_queue' \in Seq(Blocks)
  BY TailFacts DEF RxDispatch
<1>2. slab[Head(rx_queue)].target \in Targets
  BY <1>1, HeldFrames DEF Frames
<1>3. work_ctx' \in Contexts /\ work_ctx'.frame = Head(rx_queue)
  BY <1>1, <1>2 DEF RxDispatch, Contexts
<1>4. workq' \in Seq({"dispatch", "timeout"})
  BY SubmittedFacts DEF RxDispatch, DispatchSlot
<1> QED
  BY <1>1, <1>3, <1>4

\* What the dispatch handler is in once it has called a callback.
LEMMA ActivationType ==
    ASSUME IInv, DispatchResponse \/ DispatchTarget
    PROVE  /\ running' \in Activations /\ running' # NULL
           /\ DispatchResponse => running'.user_data \in Reqs
<1>1. CASE DispatchResponse
  <2>1. HasResponseCallback(slab[work_ctx.frame])
    BY <1>1 DEF DispatchResponse
  <2>2. inflight_table[slab[work_ctx.frame].msg_id].user_data \in Reqs
    BY <2>1 DEF HasResponseCallback, IInv, TypeOK, CallbacksHaveOwner
  <2>3. running' \in Activations /\ running'.user_data \in Reqs
    BY <1>1, <2>2 DEF DispatchResponse, Activations
  <2> QED
    BY <2>3, NullAssumption
<1>2. CASE DispatchTarget
  <2>1. running' \in Activations
    BY <1>2 DEF DispatchTarget, Activations
  <2>2. ~DispatchResponse
    BY <1>2 DEF DispatchTarget, DispatchResponse
  <2> QED
    BY <2>1, <2>2, NullAssumption
<1> QED
  BY <1>1, <1>2

LEMMA TypeStep == IInv /\ [Next]_vars => TypeOK'
<1> SUFFICES ASSUME IInv, [Next]_vars PROVE TypeOK'
  OBVIOUS
<1> USE ConstantsAssumption, NullAssumption DEF IInv, inflight, queues, thread, work, callers
<1>1. ASSUME NEW t \in Targets, RegisterTarget(t) PROVE TypeOK'
  BY <1>1 DEF RegisterTarget, TypeOK
<1>2. CASE IcmpInit
  BY <1>2 DEF IcmpInit, TypeOK
<1>3. ASSUME NEW c \in Callers, NEW r \in Reqs, NEW t \in Targets, CommandLock(c, r, t)
      PROVE  TypeOK'
  BY <1>3 DEF CommandLock, FreeMsgIds, TypeOK, Frames
<1>4. ASSUME NEW c \in Callers, NEW f \in AppFrames, Send(c, f) PROVE TypeOK'
  BY <1>4, FramesAssumption DEF Send, TypeOK
<1>5. ASSUME NEW c \in Callers, CommandStore(c) PROVE TypeOK'
  <2>1. out[c].msg_id \in Ids /\ out[c].body \in Reqs
    BY <1>5 DEF CommandStore, Locals, Frames
  <2> DEFINE e == [timestamp |-> -1, callback |-> out[c].body \notin NullCallback,
                   user_data |-> out[c].body]
  <2>2. e \in Entries
    BY <2>1 DEF Entries
  <2>3. inflight_table' = [inflight_table EXCEPT ![out[c].msg_id] = e]
    BY <1>5 DEF CommandStore
  <2>4. inflight_table' \in [Ids -> Entries]
    BY <2>1, <2>2, <2>3 DEF TypeOK
  <2> QED
    BY <1>5, <2>1, <2>4 DEF CommandStore, TypeOK
<1>6. ASSUME NEW c \in Callers, FrameAlloc(c) PROVE TypeOK'
  BY <1>6 DEF FrameAlloc, FreeBlocks, TypeOK, Locals
<1>7. ASSUME NEW c \in Callers, FrameAllocFails(c) PROVE TypeOK'
  BY <1>7 DEF FrameAllocFails, ReturnError, Return, TypeOK, Locals, Frames
<1>8. ASSUME NEW c \in Callers, Enqueue(c) PROVE TypeOK'
  BY <1>8 DEF Enqueue, Return, TypeOK, Locals
<1>9. ASSUME NEW c \in Callers, EnqueueFails(c) PROVE TypeOK'
  BY <1>9 DEF EnqueueFails, ReturnError, Return, TypeOK, Locals, Frames
<1>10. CASE PhyInit
  BY <1>10 DEF PhyInit, TypeOK
<1>11. CASE TxDequeue
  BY <1>11 DEF TxDequeue, TypeOK
<1>12. CASE TxEmpty
  BY <1>12 DEF TxEmpty, TypeOK
<1>13. CASE TxStamp
  <2>1. slab[tx_frame] \in Frames
    BY <1>13, HeldFrames DEF TxStamp, Locals
  <2>2. slab[tx_frame].type = "COMMAND" => slab[tx_frame].msg_id \in Ids
    BY <2>1 DEF Frames
  <2>3. \A e \in Entries : [e EXCEPT !.timestamp = 0] \in Entries
    BY DEF Entries
  <2>4. inflight_table' \in [Ids -> Entries]
    BY <1>13, <2>2, <2>3 DEF TxStamp, Stamped, TypeOK
  <2> QED
    BY <1>13, <2>4 DEF TxStamp, TypeOK
<1>14. CASE TxSend
  BY <1>14, HeldFrames DEF TxSend, Freed, TypeOK, Locals
<1>15. CASE RxDispatch
  BY <1>15, DispatchContext DEF RxDispatch, TypeOK
<1>16. CASE RxIdle
  BY <1>16 DEF RxIdle, TypeOK
<1>17. CASE DispatchResponse
  <2>1. inflight_table[slab[work_ctx.frame].msg_id].user_data \in Reqs
    BY <1>17, ActivationType DEF DispatchResponse
  <2>2. workq' \in Seq({"dispatch", "timeout"})
    BY <1>17, TailFacts DEF DispatchResponse, Runs, TypeOK
  <2>3. fate' \in [Reqs -> {"unused", "inflight", "answered", "dropped", "misfired"}]
    BY <1>17, <2>1 DEF DispatchResponse, Resolved, TypeOK
  <2> QED
    BY <1>17, <2>2, <2>3, ActivationType DEF DispatchResponse, TypeOK
<1>18. CASE DispatchTarget
  BY <1>18, TailFacts, ActivationType DEF DispatchTarget, Runs, TypeOK
<1>19. CASE DispatchDrop
  <2>1. work_ctx.frame \in Blocks
    BY <1>19, ContextHeld DEF DispatchDrop, Runs
  <2>2. workq' \in Seq({"dispatch", "timeout"})
    BY <1>19, TailFacts DEF DispatchDrop, Runs, TypeOK
  <2> QED
    BY <1>19, <2>1, <2>2 DEF DispatchDrop, ReleaseContext, Freed, TypeOK
<1>20. CASE CallbackReturn
  <2>1. work_ctx.frame \in Blocks
    BY <1>20, ContextHeld DEF CallbackReturn
  <2>2. EmptyEntry \in Entries
    BY DEF EmptyEntry, Entries
  <2>3. inflight_table' \in [Ids -> Entries] /\ inflight_bitmap' \subseteq Ids
    <3>1. CASE running.callback = "response"
      <4> DEFINE ids == {slab[work_ctx.frame].msg_id}
      <4>1. ClearEntries(ids)
        BY <1>20, <3>1 DEF CallbackReturn
      <4> HIDE DEF ids
      <4> QED
        BY <4>1, <2>2 DEF ClearEntries, TypeOK
    <3>2. CASE running.callback # "response"
      BY <1>20, <3>2 DEF CallbackReturn, TypeOK
    <3> QED
      BY <3>1, <3>2
  <2> QED
    BY <1>20, <2>1, <2>3 DEF CallbackReturn, ReleaseContext, Freed, TypeOK
<1>21. CASE Timeout
  <2>1. inflight_table' \in [Ids -> Entries] /\ inflight_bitmap' \subseteq Ids
    BY <1>21 DEF Timeout, ClearEntries, EmptyEntry, TypeOK, Entries
  <2>2. fate' \in [Reqs -> {"unused", "inflight", "answered", "dropped", "misfired"}]
    BY <1>21 DEF Timeout, Resolved, TypeOK
  <2> QED
    BY <1>21, <2>1, <2>2 DEF Timeout, Runs, TypeOK
<1>22. CASE TimeoutSkipped
  BY <1>22 DEF TimeoutSkipped, Runs, TypeOK
<1>23. CASE TimerIsr
  BY <1>23, SubmittedFacts DEF TimerIsr, TypeOK, DispatchSlot
<1>24. ASSUME NEW f \in Frames, UartIsr(f) PROVE TypeOK'
  <2>1. CASE Receive(f)
    <3>1. PICK b \in Blocks : /\ slab' = [slab EXCEPT ![b] = f]
                              /\ rx_queue' = Append(rx_queue, b)
      BY <2>1 DEF Receive, FreeBlocks
    <3>2. rx_queue' \in Seq(Blocks)
      BY <3>1 DEF TypeOK
    <3> QED
      BY <2>1, <3>1, <3>2 DEF Receive, TypeOK
  <2>2. CASE ReceiveFull(f)
    BY <2>2 DEF ReceiveFull, FreeBlocks, TypeOK
  <2> QED
    BY <1>24, <2>1, <2>2 DEF UartIsr
<1>25. CASE Tick
  <2>1. \A e \in Entries :
          e.timestamp # -1 /\ ~(e.timestamp > MAX_AGE)
            => [e EXCEPT !.timestamp = e.timestamp + 1] \in Entries
    BY DEF Entries
  <2>2. inflight_table' \in [Ids -> Entries]
    BY <1>25, <2>1 DEF Tick, TypeOK, Entries
  <2> QED
    BY <1>25, <2>2 DEF Tick, TypeOK
<1>26. CASE UNCHANGED vars
  BY <1>26 DEF vars, TypeOK
<1>27. \A f \in PeerFrames : f \in Frames
  BY FramesAssumption
<1>28. \A p \in peer, t \in Targets : Answer(p, t) \in Frames
  BY AnswerFrame DEF TypeOK
<1> QED
  BY <1>1, <1>2, <1>3, <1>4, <1>5, <1>6, <1>7, <1>8, <1>9, <1>10, <1>11, <1>12,
     <1>13, <1>14, <1>15, <1>16, <1>17, <1>18, <1>19, <1>20, <1>21, <1>22, <1>23,
     <1>24, <1>25, <1>26, <1>27, <1>28
     DEF Next, CallerStep, ThreadStep, WorkqueueStep

LEMMA LocalsStep == IInv /\ [Next]_vars => Locals'
<1> SUFFICES ASSUME IInv, [Next]_vars PROVE Locals'
  OBVIOUS
<1> USE NullAssumption DEF IInv, TypeOK, Locals, thread, callers
<1>1. ASSUME NEW c \in Callers, NEW r \in Reqs, NEW t \in Targets, CommandLock(c, r, t)
      PROVE  Locals'
  <2>1. PICK id \in Ids : out' = [out EXCEPT ![c] = [type |-> "COMMAND", target |-> t,
                                                     msg_id |-> id, body |-> r]]
    BY <1>1 DEF CommandLock, FreeMsgIds
  <2>2. out'[c] \in Frames /\ out'[c].type = "COMMAND" /\ out'[c].body = r
    BY <2>1 DEF Frames
  <2> QED
    BY <1>1, <2>1, <2>2 DEF CommandLock
<1>2. ASSUME NEW c \in Callers, NEW f \in AppFrames, Send(c, f) PROVE Locals'
  BY <1>2, FramesAssumption DEF Send
<1>3. ASSUME NEW c \in Callers, CommandStore(c) PROVE Locals'
  BY <1>3 DEF CommandStore
<1>4. ASSUME NEW c \in Callers, FrameAlloc(c) PROVE Locals'
  BY <1>4 DEF FrameAlloc, FreeBlocks
<1>5. ASSUME NEW c \in Callers, Return(c), UNCHANGED thread PROVE Locals'
  BY <1>5 DEF Return
<1>6. CASE IcmpInit \/ PhyInit \/ TxEmpty \/ TxStamp \/ RxIdle \/ RxDispatch
  BY <1>6 DEF IcmpInit, PhyInit, TxEmpty, TxStamp, RxIdle, RxDispatch
<1>7. CASE TxDequeue
  BY <1>7, TailFacts DEF TxDequeue
<1>8. CASE TxSend
  BY <1>8 DEF TxSend
<1>9. CASE UNCHANGED <<thread, callers>>
  BY <1>9
<1>10. ASSUME NEW t \in Targets, RegisterTarget(t) PROVE UNCHANGED <<thread, callers>>
  BY <1>10 DEF RegisterTarget
<1>11. WorkqueueStep => UNCHANGED <<thread, callers>>
  BY DEF WorkqueueStep, DispatchResponse, DispatchTarget, DispatchDrop, CallbackReturn,
         Timeout, TimeoutSkipped
<1>12. ASSUME NEW f, UartIsr(f) PROVE UNCHANGED <<thread, callers>>
  BY <1>12 DEF UartIsr, Receive, ReceiveFull
<1>13. TimerIsr \/ Tick \/ UNCHANGED vars => UNCHANGED <<thread, callers>>
  BY DEF TimerIsr, Tick, vars
<1>14. ASSUME NEW c \in Callers, FrameAllocFails(c) \/ Enqueue(c) \/ EnqueueFails(c)
       PROVE  Return(c) /\ UNCHANGED thread
  BY <1>14 DEF FrameAllocFails, Enqueue, EnqueueFails, ReturnError
<1> QED
  BY <1>1, <1>2, <1>3, <1>4, <1>5, <1>6, <1>7, <1>8, <1>9, <1>10, <1>11, <1>12,
     <1>13, <1>14 DEF Next, CallerStep, ThreadStep

LEMMA CallbacksStep == IInv /\ [Next]_vars => CallbacksHaveOwner'
<1> SUFFICES ASSUME IInv, [Next]_vars PROVE CallbacksHaveOwner'
  OBVIOUS
<1> USE DEF IInv, TypeOK, CallbacksHaveOwner, inflight
<1>1. ASSUME NEW c \in Callers, CommandStore(c) PROVE CallbacksHaveOwner'
  <2>1. out[c].body \in Reqs
    BY <1>1 DEF CommandStore, Locals
  <2> QED
    BY <1>1, <2>1 DEF CommandStore
<1>2. CASE TxStamp
  BY <1>2 DEF TxStamp, Stamped, Entries
<1>3. CASE CallbackReturn
  <2>1. \A id \in Ids : inflight_table'[id] \in {EmptyEntry, inflight_table[id]}
    BY <1>3 DEF CallbackReturn, ClearEntries
  <2> QED
    BY <2>1 DEF EmptyEntry
<1>4. CASE Timeout
  <2>1. \A id \in Ids : inflight_table'[id] \in {EmptyEntry, inflight_table[id]}
    BY <1>4 DEF Timeout, ClearEntries
  <2> QED
    BY <2>1 DEF EmptyEntry
<1>5. CASE Tick
  BY <1>5 DEF Tick, Entries
<1>6. CASE UNCHANGED inflight_table
  BY <1>6
<1>7. ASSUME NEW t \in Targets, RegisterTarget(t) PROVE UNCHANGED inflight_table
  BY <1>7 DEF RegisterTarget
<1>8. ASSUME NEW c \in Callers, NEW r \in Reqs, NEW t \in Targets, CommandLock(c, r, t)
      PROVE  UNCHANGED inflight_table
  BY <1>8 DEF CommandLock
<1>9. ASSUME NEW c \in Callers, NEW f, Send(c, f) PROVE UNCHANGED inflight_table
  BY <1>9 DEF Send
<1>10. ASSUME NEW c \in Callers, CallerStep(c), ~CommandStore(c)
       PROVE  UNCHANGED inflight_table
  BY <1>10 DEF CallerStep, FrameAlloc, FrameAllocFails, Enqueue, EnqueueFails
<1>11. ASSUME NEW f, UartIsr(f) PROVE UNCHANGED inflight_table
  BY <1>11 DEF UartIsr, Receive, ReceiveFull
<1>12. IcmpInit \/ PhyInit \/ TxDequeue \/ TxEmpty \/ TxSend \/ RxDispatch \/ RxIdle
        => UNCHANGED inflight_table
  BY DEF IcmpInit, PhyInit, TxDequeue, TxEmpty, TxSend, RxDispatch, RxIdle
<1>13. DispatchResponse \/ DispatchTarget \/ DispatchDrop \/ TimeoutSkipped \/ TimerIsr
        \/ UNCHANGED vars
        => UNCHANGED inflight_table
  BY DEF DispatchResponse, DispatchTarget, DispatchDrop, TimeoutSkipped, TimerIsr, vars
<1> QED
  BY <1>1, <1>2, <1>3, <1>4, <1>5, <1>6, <1>7, <1>8, <1>9, <1>10, <1>11, <1>12,
     <1>13 DEF Next, ThreadStep, WorkqueueStep

LEMMA DispatchSlotStep == IInv /\ [Next]_vars => DispatchSlot'
<1> SUFFICES ASSUME IInv, [Next]_vars PROVE DispatchSlot'
  OBVIOUS
<1> USE NullAssumption DEF IInv, TypeOK, work
<1>1. CASE RxDispatch
  <2>1. work_sem = 1 /\ work_sem' = 0 /\ work_ctx' # NULL /\ running' = running
    BY <1>1, DispatchContext DEF RxDispatch, CanDispatch
  <2>2. "dispatch" \in Elements(workq)' /\ NoDuplicates(workq)'
    BY <1>1, SubmittedFacts DEF RxDispatch, DispatchSlot
  <2> QED
    BY <2>1, <2>2 DEF DispatchSlot
<1>2. ASSUME NEW item \in {"dispatch", "timeout"}, Runs(item)
      PROVE  /\ running = NULL /\ NoDuplicates(workq)' /\ item \in Elements(workq)
             /\ Elements(workq)' = Elements(workq) \ {item}
  BY <1>2, TailFacts DEF Runs, DispatchSlot
<1>3. CASE DispatchResponse \/ DispatchTarget
  <2>1. Runs("dispatch") /\ running' # NULL /\ UNCHANGED <<work_sem, work_ctx>>
    BY <1>3, ActivationType DEF DispatchResponse, DispatchTarget
  <2> QED
    BY <1>2, <2>1 DEF DispatchSlot
<1>4. CASE DispatchDrop
  <2>1. Runs("dispatch") /\ running' = running /\ work_sem' = 1 /\ work_ctx' = NULL
    BY <1>4 DEF DispatchDrop, ReleaseContext
  <2> QED
    BY <1>2, <2>1 DEF DispatchSlot
<1>5. CASE CallbackReturn
  <2>1. /\ running # NULL /\ running' = NULL /\ workq' = workq
        /\ work_sem' = 1 /\ work_ctx' = NULL
    BY <1>5 DEF CallbackReturn, ReleaseContext
  <2> QED
    BY <2>1 DEF DispatchSlot
<1>6. CASE Timeout \/ TimeoutSkipped
  <2>1. Runs("timeout") /\ UNCHANGED <<running, work_sem, work_ctx>>
    BY <1>6 DEF Timeout, TimeoutSkipped
  <2> QED
    BY <1>2, <2>1 DEF DispatchSlot
<1>7. CASE TimerIsr
  <2>1. UNCHANGED <<running, work_sem, work_ctx>>
    BY <1>7 DEF TimerIsr
  <2>2. Elements(workq)' = Elements(workq) \cup {"timeout"} /\ NoDuplicates(workq)'
    BY <1>7, SubmittedFacts DEF TimerIsr, DispatchSlot
  <2> QED
    BY <2>1, <2>2 DEF DispatchSlot
<1>8. CASE UNCHANGED work
  BY <1>8 DEF DispatchSlot
<1>9. ASSUME NEW t \in Targets, RegisterTarget(t) PROVE UNCHANGED work
  BY <1>9 DEF RegisterTarget
<1>10. ASSUME NEW c \in Callers, NEW r \in Reqs, NEW t \in Targets, CommandLock(c, r, t)
       PROVE  UNCHANGED work
  BY <1>10 DEF CommandLock
<1>11. ASSUME NEW c \in Callers, NEW f, Send(c, f) PROVE UNCHANGED work
  BY <1>11 DEF Send
<1>12. ASSUME NEW c \in Callers, CallerStep(c) PROVE UNCHANGED work
  BY <1>12 DEF CallerStep, CommandStore, FrameAlloc, FrameAllocFails, Enqueue, EnqueueFails
<1>13. ASSUME NEW f, UartIsr(f) PROVE UNCHANGED work
  BY <1>13 DEF UartIsr, Receive, ReceiveFull
<1>14. IcmpInit \/ PhyInit \/ TxDequeue \/ TxEmpty \/ TxStamp \/ TxSend \/ RxIdle
        \/ Tick \/ UNCHANGED vars
        => UNCHANGED work
  BY DEF IcmpInit, PhyInit, TxDequeue, TxEmpty, TxStamp, TxSend, RxIdle, Tick, vars
<1> QED
  BY <1>1, <1>3, <1>4, <1>5, <1>6, <1>7, <1>8, <1>9, <1>10, <1>11, <1>12, <1>13,
     <1>14 DEF Next, ThreadStep, WorkqueueStep

\* Holds and slab after a step: what each owner gains and loses.
LEMMA SlabAllocated ==
    ASSUME TypeOK, NEW b \in Blocks
    PROVE  /\ \A f \in Frames : slab' = [slab EXCEPT ![b] = f]
                => Allocated' = Allocated \cup {b}
           /\ slab' = Freed(b) => Allocated' = Allocated \ {b}
           /\ slab' = slab => Allocated' = Allocated
BY NullAssumption DEF TypeOK, Allocated, Freed

\* No step makes two owners of a block, frees a block that still has an owner, or
\* queues a block twice; and when the queues have room for every block, none
\* loses the last pointer to an allocated block.
Ownership ==
    /\ Separate(Held, Allocated)
    /\ NoDuplicates(tx_queue) /\ NoDuplicates(rx_queue)

SlabFitsQueues == Cardinality(Blocks) <= QUEUE_MAX_ITEMS

Kept == SlabFitsQueues /\ Covered(Held, Allocated) => Covered(Held, Allocated)'

\* Held, one owner at a time, in this state and in the next.
LEMMA HeldFacts ==
    /\ Held["tx_queue"] = Elements(tx_queue)
    /\ Held["icmp_thread"] = {tx_frame} \ {NULL}
    /\ Held["rx_queue"] = Elements(rx_queue)
    /\ Held["workqueue"] = IF work_ctx = NULL THEN {} ELSE {work_ctx.frame}
    /\ \A c \in Callers : Held[c] = {buf[c]} \ {NULL}
    /\ Held'["tx_queue"] = Elements(tx_queue)'
    /\ Held'["icmp_thread"] = {tx_frame'} \ {NULL}
    /\ Held'["rx_queue"] = Elements(rx_queue)'
    /\ Held'["workqueue"] = IF work_ctx' = NULL THEN {} ELSE {work_ctx'.frame}
    /\ \A c \in Callers : Held'[c] = {buf'[c]} \ {NULL}
<1>1. \A o \in Owners : Held[o] = Holds(o) /\ Held'[o] = Holds(o)'
  BY DEF Held
<1> QED
  BY <1>1, HoldsFacts DEF Owners

\* The owners are the callers and four others.
LEMMA OwnersFacts ==
    /\ Callers \subseteq Owners
    /\ {"tx_queue", "icmp_thread", "rx_queue", "workqueue"} \subseteq Owners
    /\ \A o \in Owners : o \notin {"tx_queue", "icmp_thread", "rx_queue", "workqueue"}
        <=> o \in Callers
BY NullAssumption DEF Owners

LEMMA FrameAllocOwnership ==
    ASSUME IInv, NEW c \in Callers, FrameAlloc(c)
    PROVE  Ownership' /\ Kept
<1>1. PICK b \in Blocks : /\ slab[b] = NULL /\ slab' = [slab EXCEPT ![b] = out[c]]
                          /\ buf' = [buf EXCEPT ![c] = b]
  BY DEF FrameAlloc, FreeBlocks
<1>2. out[c] \in Frames /\ buf[c] = NULL
  BY DEF FrameAlloc, IInv, Locals
<1>3. Allocated' = Allocated \cup {b} /\ b \notin Allocated
  BY <1>1, <1>2, SlabAllocated DEF Allocated, IInv
<1>4. UNCHANGED <<tx_queue, rx_queue, tx_frame, work_ctx>>
  BY DEF FrameAlloc, queues, thread, work
<1>5. buf' \in [Callers -> Blocks \cup {NULL}] /\ buf \in [Callers -> Blocks \cup {NULL}]
  BY <1>1 DEF IInv, TypeOK
<1>6. Held'[c] = Held[c] \cup {b}
  BY <1>1, <1>2, <1>5, HeldFacts, NullAssumption
<1>7. \A p \in Owners \ {c} : Held'[p] = Held[p]
  BY <1>1, <1>4, <1>5, HeldFacts, OwnersFacts
<1>8. Separate(Held', Allocated') /\ (Covered(Held, Allocated) => Covered(Held', Allocated'))
  BY <1>3, <1>6, <1>7, AllocateSeparate, OwnersFacts DEF IInv
<1> QED
  BY <1>4, <1>8 DEF Ownership, Kept, Separate, Covered, IInv, NoDuplicates

LEMMA EnqueueOwnership ==
    ASSUME IInv, NEW c \in Callers, Enqueue(c)
    PROVE  Ownership' /\ Kept
<1>1. /\ buf[c] \in Blocks /\ buf' = [buf EXCEPT ![c] = NULL]
      /\ buf \in [Callers -> Blocks \cup {NULL}]
      /\ tx_queue \in Seq(Blocks) /\ tx_queue' = Append(tx_queue, buf[c])
  BY DEF Enqueue, Return, IInv, TypeOK, Locals
<1>2. UNCHANGED <<slab, rx_queue, tx_frame, work_ctx>>
  BY DEF Enqueue, queues, thread, work
<1>3. buf[c] \in Held[c] /\ c # "tx_queue" /\ c \in Owners
  BY <1>1, HeldFacts, NullAssumption, OwnersFacts
<1>4. buf[c] \notin Elements(tx_queue)
  BY <1>3, HeldFacts, OwnersFacts DEF IInv, Separate
<1>5. /\ Elements(tx_queue)' = Elements(tx_queue) \cup {buf[c]}
      /\ NoDuplicates(tx_queue)'
  BY <1>1, <1>4, AppendFacts DEF IInv
<1>6. Held'[c] = Held[c] \ {buf[c]} /\ Held'["tx_queue"] = Held["tx_queue"] \cup {buf[c]}
  BY <1>1, <1>5, HeldFacts
<1>7. \A p \in Owners \ {c, "tx_queue"} : Held'[p] = Held[p]
  BY <1>1, <1>2, HeldFacts, OwnersFacts
<1>8. Separate(Held', Allocated) /\ (Covered(Held, Allocated) => Covered(Held', Allocated))
  BY <1>3, <1>6, <1>7, PassSeparate, OwnersFacts DEF IInv
<1>9. Allocated' = Allocated
  BY <1>2 DEF Allocated
<1> QED
  BY <1>2, <1>5, <1>8, <1>9 DEF Ownership, Kept, Separate, Covered, IInv, NoDuplicates

LEMMA TxDequeueOwnership ==
    ASSUME IInv, TxDequeue
    PROVE  Ownership' /\ Kept
<1> DEFINE b == Head(tx_queue)
<1>1. /\ b \in Blocks /\ b \in Elements(tx_queue)
      /\ Elements(tx_queue) = {b} \cup Elements(tx_queue)'
      /\ b \notin Elements(tx_queue)' /\ NoDuplicates(tx_queue)'
  BY TailFacts DEF TxDequeue, IInv, TypeOK
<1>2. UNCHANGED <<slab, rx_queue, buf, work_ctx>> /\ tx_frame = NULL /\ tx_frame' = b
  BY DEF TxDequeue, callers, work, IInv, Locals
<1> HIDE DEF b
<1>3. /\ b \in Held["tx_queue"] /\ Held'["tx_queue"] = Held["tx_queue"] \ {b}
      /\ Held'["icmp_thread"] = Held["icmp_thread"] \cup {b}
  BY <1>1, <1>2, HeldFacts, NullAssumption
<1>4. \A p \in Owners \ {"tx_queue", "icmp_thread"} : Held'[p] = Held[p]
  BY <1>2, HeldFacts, OwnersFacts
<1>5. Separate(Held', Allocated) /\ (Covered(Held, Allocated) => Covered(Held', Allocated))
  BY <1>3, <1>4, PassSeparate, OwnersFacts DEF IInv
<1>6. Allocated' = Allocated
  BY <1>2 DEF Allocated
<1> QED
  BY <1>1, <1>2, <1>5, <1>6 DEF Ownership, Kept, Separate, Covered, IInv, NoDuplicates

LEMMA TxSendOwnership ==
    ASSUME IInv, TxSend
    PROVE  Ownership' /\ Kept
<1>1. /\ tx_frame \in Blocks /\ tx_frame' = NULL /\ slab' = Freed(tx_frame)
      /\ UNCHANGED <<tx_queue, rx_queue, buf, work_ctx>>
  BY DEF TxSend, queues, callers, work, IInv, TypeOK, Locals
<1>2. Allocated' = Allocated \ {tx_frame}
  BY <1>1, SlabAllocated DEF IInv
<1>3. /\ tx_frame \in Held["icmp_thread"]
      /\ Held'["icmp_thread"] = Held["icmp_thread"] \ {tx_frame}
  BY <1>1, HeldFacts, NullAssumption
<1>4. \A p \in Owners \ {"icmp_thread"} : Held'[p] = Held[p]
  BY <1>1, HeldFacts, OwnersFacts
<1>5. Separate(Held', Allocated') /\ (Covered(Held, Allocated) => Covered(Held', Allocated'))
  BY <1>2, <1>3, <1>4, FreeSeparate, OwnersFacts DEF IInv
<1> QED
  BY <1>1, <1>5 DEF Ownership, Kept, Separate, Covered, IInv, NoDuplicates

LEMMA RxDispatchOwnership ==
    ASSUME IInv, RxDispatch
    PROVE  Ownership' /\ Kept
<1> DEFINE b == Head(rx_queue)
<1>1. /\ b \in Blocks /\ b \in Elements(rx_queue)
      /\ Elements(rx_queue) = {b} \cup Elements(rx_queue)'
      /\ b \notin Elements(rx_queue)' /\ NoDuplicates(rx_queue)'
  BY TailFacts DEF RxDispatch, IInv, TypeOK
<1>2. /\ UNCHANGED <<slab, tx_queue, buf, tx_frame>>
      /\ work_ctx = NULL /\ work_ctx' # NULL /\ work_ctx'.frame = b
  BY DispatchContext, NullAssumption
     DEF RxDispatch, CanDispatch, callers, IInv, DispatchSlot
<1> HIDE DEF b
<1>3. /\ b \in Held["rx_queue"] /\ Held'["rx_queue"] = Held["rx_queue"] \ {b}
      /\ Held'["workqueue"] = Held["workqueue"] \cup {b}
  BY <1>1, <1>2, HeldFacts, NullAssumption
<1>4. \A p \in Owners \ {"rx_queue", "workqueue"} : Held'[p] = Held[p]
  BY <1>2, HeldFacts, OwnersFacts
<1>5. Separate(Held', Allocated) /\ (Covered(Held, Allocated) => Covered(Held', Allocated))
  BY <1>3, <1>4, PassSeparate, OwnersFacts DEF IInv
<1>6. Allocated' = Allocated
  BY <1>2 DEF Allocated
<1> QED
  BY <1>1, <1>2, <1>5, <1>6 DEF Ownership, Kept, Separate, Covered, IInv, NoDuplicates

LEMMA ReleaseOwnership ==
    ASSUME IInv, DispatchDrop \/ CallbackReturn
    PROVE  Ownership' /\ Kept
<1> DEFINE b == work_ctx.frame
<1>1. /\ work_ctx # NULL /\ b \in Blocks /\ work_ctx' = NULL /\ slab' = Freed(b)
      /\ UNCHANGED <<tx_queue, rx_queue, buf, tx_frame>>
  BY ContextHeld DEF DispatchDrop, CallbackReturn, Runs, ReleaseContext, queues, callers, thread
<1>2. Allocated' = Allocated \ {b}
  BY <1>1, SlabAllocated DEF IInv
<1>3. /\ b \in Held["workqueue"]
      /\ Held'["workqueue"] = Held["workqueue"] \ {b}
  BY <1>1, HeldFacts
<1> HIDE DEF b
<1>4. \A p \in Owners \ {"workqueue"} : Held'[p] = Held[p]
  BY <1>1, HeldFacts, OwnersFacts
<1>5. Separate(Held', Allocated') /\ (Covered(Held, Allocated) => Covered(Held', Allocated'))
  BY <1>2, <1>3, <1>4, FreeSeparate, OwnersFacts DEF IInv
<1> QED
  BY <1>1, <1>5 DEF Ownership, Kept, Separate, Covered, IInv, NoDuplicates

LEMMA ReceiveOwnership ==
    ASSUME IInv, NEW f \in Frames, Receive(f)
    PROVE  Ownership' /\ Kept
<1>1. PICK b \in Blocks : /\ slab[b] = NULL /\ slab' = [slab EXCEPT ![b] = f]
                          /\ rx_queue' = Append(rx_queue, b)
  BY DEF Receive, FreeBlocks
<1>2. Allocated' = Allocated \cup {b} /\ b \notin Allocated
  BY <1>1, SlabAllocated DEF Allocated, IInv
<1>3. UNCHANGED <<tx_queue, buf, tx_frame, work_ctx>>
  BY DEF Receive, callers, thread, work
<1>4. b \notin Elements(rx_queue)
  BY <1>2, HeldFacts, OwnersFacts DEF IInv, Separate
<1>5. Elements(rx_queue)' = Elements(rx_queue) \cup {b} /\ NoDuplicates(rx_queue)'
  BY <1>1, <1>4, AppendFacts DEF IInv, TypeOK
<1>6. Held'["rx_queue"] = Held["rx_queue"] \cup {b}
  BY <1>5, HeldFacts
<1>7. \A p \in Owners \ {"rx_queue"} : Held'[p] = Held[p]
  BY <1>3, HeldFacts, OwnersFacts
<1>8. Separate(Held', Allocated') /\ (Covered(Held, Allocated) => Covered(Held', Allocated'))
  BY <1>2, <1>6, <1>7, AllocateSeparate, OwnersFacts DEF IInv
<1> QED
  BY <1>3, <1>5, <1>8 DEF Ownership, Kept, Separate, Covered, IInv, NoDuplicates

\* A full queue without duplicates holds every block, if there are no more blocks
\* than slots.
LEMMA FullQueue ==
    ASSUME SlabFitsQueues, NEW q \in Seq(Blocks), NoDuplicates(q),
           Len(q) = QUEUE_MAX_ITEMS
    PROVE  Elements(q) = Blocks
<1> DEFINE n == QUEUE_MAX_ITEMS
           f == [i \in 1 .. n |-> q[i]]
<1>1. n \in Nat \ {0} /\ IsFiniteSet(Blocks)
  BY ConstantsAssumption
<1>2. IsFiniteSet(1 .. n) /\ Cardinality(1 .. n) = n
  BY <1>1, FS_Interval
<1>3. Elements(q) \subseteq Blocks
  BY ElementsType
<1>4. IsFiniteSet(Elements(q)) /\ Cardinality(Elements(q)) <= Cardinality(Blocks)
  BY <1>1, <1>3, FS_Subset
<1>5. f \in Injection(1 .. n, Elements(q))
  BY <1>1 DEF Injection, IsInjective, Elements, NoDuplicates
<1>6. Cardinality(1 .. n) <= Cardinality(Elements(q))
  BY <1>2, <1>4, <1>5, FS_Injection
<1>7. Cardinality(Elements(q)) \in Nat /\ Cardinality(Blocks) \in Nat
  BY <1>1, <1>4, FS_CardinalityType
<1>8. Cardinality(Elements(q)) = Cardinality(Blocks)
  BY <1>1, <1>2, <1>4, <1>6, <1>7 DEF SlabFitsQueues
<1> QED
  BY <1>1, <1>3, <1>8, FS_Subset

LEMMA EnqueueFailsOwnership ==
    ASSUME IInv, NEW c \in Callers, EnqueueFails(c)
    PROVE  Ownership' /\ Kept
<1>1. /\ buf[c] \in Blocks /\ buf' = [buf EXCEPT ![c] = NULL]
      /\ buf \in [Callers -> Blocks \cup {NULL}]
      /\ tx_queue \in Seq(Blocks) /\ Len(tx_queue) = QUEUE_MAX_ITEMS
  BY DEF EnqueueFails, ReturnError, Return, IInv, TypeOK, Locals
<1>2. UNCHANGED <<slab, tx_queue, rx_queue, tx_frame, work_ctx>>
  BY DEF EnqueueFails, queues, thread, work
<1>3. buf[c] \in Held[c] /\ Held'[c] = Held[c] \ {buf[c]} /\ c \in Owners
  BY <1>1, HeldFacts, NullAssumption, OwnersFacts
<1>4. \A p \in Owners \ {c} : Held'[p] = Held[p]
  BY <1>1, <1>2, HeldFacts, OwnersFacts
<1>5. Separate(Held', Allocated)
  BY <1>3, <1>4, ForgetSeparate DEF IInv
<1>6. Allocated' = Allocated
  BY <1>2 DEF Allocated
<1>7. ~SlabFitsQueues
  <2>1. buf[c] \notin Elements(tx_queue)
    BY <1>3, HeldFacts, OwnersFacts, NullAssumption DEF IInv, Separate
  <2> QED
    BY <1>1, <2>1, FullQueue DEF IInv
<1> QED
  BY <1>2, <1>5, <1>6, <1>7 DEF Ownership, Kept, Separate, IInv, NoDuplicates

LEMMA ReceiveFullOwnership ==
    ASSUME IInv, NEW f \in Frames, ReceiveFull(f)
    PROVE  Ownership' /\ Kept
<1>1. PICK b \in Blocks : slab[b] = NULL /\ slab' = [slab EXCEPT ![b] = f]
  BY DEF ReceiveFull, FreeBlocks
<1>2. Allocated' = Allocated \cup {b} /\ b \notin Allocated
  BY <1>1, SlabAllocated DEF Allocated, IInv
<1>3. UNCHANGED <<tx_queue, rx_queue, buf, tx_frame, work_ctx>>
  BY DEF ReceiveFull, queues, callers, thread, work
<1>4. \A p \in Owners : Held'[p] = Held[p]
  BY <1>3, HeldFacts, OwnersFacts
<1>5. Separate(Held', Allocated')
  BY <1>2, <1>4 DEF Separate, IInv
<1>6. ~SlabFitsQueues
  <2>1. b \notin Elements(rx_queue)
    BY <1>2, HeldFacts, OwnersFacts DEF IInv, Separate
  <2> QED
    BY <2>1, FullQueue DEF IInv, TypeOK, ReceiveFull
<1> QED
  BY <1>3, <1>5, <1>6 DEF Ownership, Kept, Separate, IInv, NoDuplicates

LEMMA OwnershipStep == IInv /\ [Next]_vars => Ownership' /\ Kept
<1> SUFFICES ASSUME IInv, [Next]_vars PROVE Ownership' /\ Kept
  OBVIOUS
<1> DEFINE own == <<slab, tx_queue, rx_queue, tx_frame, work_ctx, buf>>
<1>1. ASSUME UNCHANGED own PROVE Ownership' /\ Kept
  <2>1. Allocated' = Allocated
    BY <1>1 DEF Allocated
  <2>2. \A o \in Owners : Held'[o] = Held[o]
    BY <1>1, HeldFacts, OwnersFacts
  <2> QED
    BY <1>1, <2>1, <2>2 DEF Ownership, Kept, Separate, Covered, IInv, NoDuplicates
<1>2. ASSUME NEW t \in Targets, RegisterTarget(t) PROVE UNCHANGED own
  BY <1>2 DEF RegisterTarget, queues, thread, work, callers
<1>3. ASSUME NEW c \in Callers, NEW r \in Reqs, NEW t \in Targets, CommandLock(c, r, t)
      PROVE  UNCHANGED own
  BY <1>3 DEF CommandLock, queues, thread, work
<1>4. ASSUME NEW c \in Callers, NEW f, Send(c, f) PROVE UNCHANGED own
  BY <1>4 DEF Send, queues, thread, work
<1>5. ASSUME NEW c \in Callers, CommandStore(c) PROVE UNCHANGED own
  BY <1>5 DEF CommandStore, queues, thread, work
<1>6. ASSUME NEW c \in Callers, FrameAllocFails(c) PROVE UNCHANGED own
  <2>1. buf[c] = NULL /\ buf' = [buf EXCEPT ![c] = NULL]
        /\ buf \in [Callers -> Blocks \cup {NULL}]
    BY <1>6 DEF FrameAllocFails, ReturnError, Return, IInv, Locals, TypeOK
  <2>2. buf' = buf
    BY <2>1
  <2> QED
    BY <1>6, <2>2 DEF FrameAllocFails, queues, thread, work
<1>7. IcmpInit \/ PhyInit \/ TxEmpty \/ TxStamp \/ RxIdle => UNCHANGED own
  BY DEF IcmpInit, PhyInit, TxEmpty, TxStamp, RxIdle, queues, thread, work, callers
<1>8. DispatchResponse \/ DispatchTarget \/ Timeout \/ TimeoutSkipped => UNCHANGED own
  BY DEF DispatchResponse, DispatchTarget, Timeout, TimeoutSkipped, queues, thread, callers
<1>9. TimerIsr \/ Tick \/ UNCHANGED vars => UNCHANGED own
  BY DEF TimerIsr, Tick, vars, queues, thread, work, callers
<1> HIDE DEF own
<1>10. ASSUME NEW c \in Callers, CallerStep(c) PROVE Ownership' /\ Kept
  BY <1>1, <1>5, <1>6, <1>10, FrameAllocOwnership, EnqueueOwnership,
     EnqueueFailsOwnership DEF CallerStep
<1>11. ASSUME NEW f \in Frames, UartIsr(f) PROVE Ownership' /\ Kept
  BY <1>11, ReceiveOwnership, ReceiveFullOwnership DEF UartIsr
<1>12. ASSUME NEW f \in PeerFrames, UartIsr(f) PROVE Ownership' /\ Kept
  BY <1>11, <1>12, FramesAssumption
<1>13. ASSUME NEW p \in peer, NEW t \in Targets, UartIsr(Answer(p, t))
       PROVE  Ownership' /\ Kept
  BY <1>11, <1>13, AnswerFrame DEF IInv, TypeOK
<1>14. CASE ThreadStep
  BY <1>1, <1>7, <1>14, TxDequeueOwnership, TxSendOwnership, RxDispatchOwnership
     DEF ThreadStep
<1>15. CASE WorkqueueStep
  BY <1>1, <1>8, <1>15, ReleaseOwnership DEF WorkqueueStep
<1> QED
  BY <1>1, <1>2, <1>3, <1>4, <1>7, <1>9, <1>10, <1>12, <1>13, <1>14, <1>15 DEF Next

LEMMA IInvStep == IInv /\ [Next]_vars => IInv'
<1> SUFFICES ASSUME IInv, [Next]_vars PROVE IInv'
  OBVIOUS
<1>1. TypeOK' /\ Locals' /\ CallbacksHaveOwner' /\ DispatchSlot'
  BY TypeStep, LocalsStep, CallbacksStep, DispatchSlotStep
<1>2. Ownership'
  BY OwnershipStep
<1> QED
  BY <1>1, <1>2 DEF IInv, Ownership

LEMMA InductiveInvariant == Spec => []IInv
<1> QED
  BY InitIInv, IInvStep, PTL DEF Spec

----------------------------------------------------------------------------
\* The theorems.

\* Every variable keeps its type, whatever the peer sends and however callers,
\* interrupts and the workqueue interleave: icmp_command never allocates an id
\* past the end of icmp_inflight_table.
THEOREM TypeCorrect == Spec => []TypeOK
<1>1. IInv => TypeOK
  BY DEF IInv
<1> QED
  BY <1>1, InductiveInvariant, PTL

\* icmp_work_ctx is never overwritten while a dispatch that uses it is queued or
\* in its callback.
THEOREM SingleDispatch == Spec => []DispatchSlot
<1>1. IInv => DispatchSlot
  BY DEF IInv
<1> QED
  BY <1>1, InductiveInvariant, PTL

\* No frame is used after it was freed, freed twice or queued twice, for every
\* number of blocks, queue slots and callers.
THEOREM FramesAreOwned == Spec => []FrameOwnership
<1>1. IInv => FrameOwnership
  BY DEF IInv, FrameOwnership, Separate, Held
<1> QED
  BY <1>1, InductiveInvariant, PTL

\* When icmp_slab has no more blocks than a queue has slots, as the code
\* configures it, no frame is ever lost: neither by a call that finds the queue
\* full nor by the receive interrupt, both of which would forget it.
THEOREM SlabDoesNotShrink ==
    ASSUME SlabFitsQueues
    PROVE  Spec => []NoFrameLeaked
<1> DEFINE cov == Covered(Held, Allocated)
<1>1. Init => cov
  BY NullAssumption DEF Init, Covered, Allocated
<1>2. IInv /\ cov /\ [Next]_vars => cov'
  BY OwnershipStep DEF Kept, SlabFitsQueues
<1>3. cov => NoFrameLeaked
  BY DEF Covered, NoFrameLeaked, Held
<1> HIDE DEF cov
<1> QED
  BY <1>1, <1>2, <1>3, InductiveInvariant, PTL DEF Spec
=============================================================================
