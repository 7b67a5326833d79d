------------------------- MODULE IcmpLifecycleProofs -------------------------
(***************************************************************************)
(* Theorems about the table of commands in flight, for every number of     *)
(* callers, commands, blocks, ids and queue slots: Icmp implements         *)
(* CommandLifecycle, whether or not callbacks sleep; and if they do not,   *)
(* bitmap and table agree, and only commands that failed are never sent.   *)
(***************************************************************************)
EXTENDS IcmpProofs

Owner(id) == inflight_table[id].user_data

\* The response callback that runs is for the command in this entry.
InCallback == running # NULL /\ running.callback = "response"
Answering(id) == InCallback /\ slab[work_ctx.frame].msg_id = id

\* Every command in flight has one entry, whose bit is set; an entry is that of a
\* command in flight, or of the one whose callback runs.
Entered ==
    /\ \A id \in Ids : Owner(id) # NULL => id \in inflight_bitmap
    /\ \A i, j \in Ids : Owner(i) # NULL /\ Owner(i) = Owner(j) => i = j
    /\ \A r \in Reqs : fate[r] = "inflight" => \E id \in Ids : Owner(id) = r
    /\ \A id \in Ids :
        Owner(id) # NULL /\ ~Answering(id) => fate[Owner(id)] = "inflight"
    /\ InCallback =>
        LET id == slab[work_ctx.frame].msg_id IN
        id \in Ids /\ Owner(id) \in Reqs /\ fate[Owner(id)] = "answered"

\* The caller in the critical section of icmp_command: bits may have been unset since it
\* has read the bitmap, but none was set.
Critical ==
    \A c \in Callers : pc[c] = "locked" =>
        /\ mutex = c /\ inflight_bitmap \subseteq seen
        /\ out[c].msg_id \in Ids \ seen
        /\ fate[out[c].body] = "unused"

TableInv == Entered /\ Critical

LEMMA InitTable == Init => TableInv
BY NullAssumption
DEF Init, TableInv, Entered, Critical, Owner, Answering, InCallback, EmptyEntry

----------------------------------------------------------------------------
\* Steps that leave table and commands alone.

\* Only the return of the callback touches the frame it was called with.
LEMMA ContextStays ==
    ASSUME IInv, [Next]_vars, running # NULL, ~CallbackReturn
    PROVE  running' = running /\ slab'[work_ctx'.frame] = slab[work_ctx.frame]
<1> USE DEF IInv, TypeOK
<1> DEFINE b == work_ctx.frame
<1>1. b \in Blocks /\ slab[b] \in Frames /\ work_ctx # NULL /\ work_sem = 0
  BY ContextHeld DEF DispatchSlot
<1>2. \A f, x : x \in FreeBlocks /\ slab' = [slab EXCEPT ![x] = f] => slab'[b] = slab[b]
  BY <1>1, NullAssumption DEF FreeBlocks
<1>3. ASSUME NEW c \in Callers, CallerStep(c)
      PROVE  running' = running /\ slab'[b] = slab[b] /\ work_ctx' = work_ctx
  BY <1>2, <1>3
  DEF CallerStep, CommandStore, FrameAlloc, FrameAllocFails, Enqueue, EnqueueFails, work
<1>4. CASE TxSend
  <2>1. tx_frame \in Blocks /\ tx_frame \in Held["icmp_thread"] /\ b \in Held["workqueue"]
    BY <1>1, <1>4, HeldFacts, NullAssumption DEF TxSend, Locals
  <2>2. tx_frame # b
    BY <2>1, OwnersFacts DEF Separate
  <2> QED
    BY <1>1, <1>4, <2>2 DEF TxSend, Freed, work
<1>5. ~RxDispatch
  BY <1>1 DEF RxDispatch, CanDispatch
<1>6. ASSUME ThreadStep, ~TxSend
      PROVE  running' = running /\ slab' = slab /\ work_ctx' = work_ctx
  BY <1>5, <1>6 DEF ThreadStep, TxDequeue, TxEmpty, TxStamp, RxIdle, work
<1>7. ~WorkqueueStep
  BY DEF WorkqueueStep, DispatchResponse, DispatchTarget, DispatchDrop, Timeout,
         TimeoutSkipped, Runs
<1>8. ASSUME NEW f, UartIsr(f)
      PROVE  running' = running /\ slab'[b] = slab[b] /\ work_ctx' = work_ctx
  BY <1>2, <1>8 DEF UartIsr, Receive, ReceiveFull, work
<1>9. ASSUME NEW t \in Targets, RegisterTarget(t)
      PROVE  running' = running /\ slab' = slab /\ work_ctx' = work_ctx
  BY <1>9 DEF RegisterTarget, work
<1>10. ASSUME NEW c \in Callers, NEW r \in Reqs, NEW t \in Targets, CommandLock(c, r, t)
       PROVE  running' = running /\ slab' = slab /\ work_ctx' = work_ctx
  BY <1>10 DEF CommandLock, work
<1>11. ASSUME NEW c \in Callers, NEW f, Send(c, f)
       PROVE  running' = running /\ slab' = slab /\ work_ctx' = work_ctx
  BY <1>11 DEF Send, work
<1>12. IcmpInit \/ PhyInit \/ TimerIsr \/ Tick \/ UNCHANGED vars
       => running' = running /\ slab' = slab /\ work_ctx' = work_ctx
  BY DEF IcmpInit, PhyInit, TimerIsr, Tick, vars, work
<1> QED
  BY <1>3, <1>4, <1>6, <1>7, <1>8, <1>9, <1>10, <1>11, <1>12 DEF Next

\* Who enters a command, answers one, or drops some, and who locks.
Resolves ==
    \/ \E c \in Callers : CommandStore(c)
    \/ \E c \in Callers, r \in Reqs, t \in Targets : CommandLock(c, r, t)
    \/ DispatchResponse \/ DispatchTarget \/ CallbackReturn \/ Timeout

\* What the others do to the variables of the invariant.
Apart ==
    /\ UNCHANGED <<inflight_bitmap, fate, mutex, seen, running>>
    /\ \A id \in Ids : Owner(id)' = Owner(id)
    /\ \A c \in Callers : pc'[c] = "locked" => pc[c] = "locked" /\ out'[c] = out[c]

LEMMA OthersApart ==
    ASSUME IInv, [Next]_vars, ~Resolves
    PROVE  Apart
<1> USE DEF IInv, TypeOK, Owner
<1> DEFINE same == UNCHANGED <<inflight, fate, running, pc, out>>
<1>1. same => Apart
  BY DEF Apart, inflight
<1>2. ASSUME NEW t \in Targets, RegisterTarget(t) PROVE same
  BY <1>2 DEF RegisterTarget, work, callers
<1>3. ASSUME NEW c \in Callers, NEW f, Send(c, f) PROVE Apart
  BY <1>3 DEF Send, Apart, inflight, work
<1>4. ASSUME NEW c \in Callers, CallerStep(c), ~CommandStore(c) PROVE Apart
  <2>1. CASE FrameAlloc(c)
    BY <2>1 DEF FrameAlloc, Apart, inflight, work
  <2>2. CASE FrameAllocFails(c) \/ Enqueue(c) \/ EnqueueFails(c)
    BY <2>2
    DEF FrameAllocFails, Enqueue, EnqueueFails, ReturnError, Return, Apart, inflight, work
  <2> QED
    BY <1>4, <2>1, <2>2 DEF CallerStep
<1>5. CASE TxStamp
  <2>1. \A id \in Ids : Owner(id)' = Owner(id)
    BY <1>5 DEF TxStamp, Stamped, Entries
  <2> QED
    BY <1>5, <2>1 DEF TxStamp, Apart, callers, work
<1>6. ThreadStep /\ ~TxStamp => same
  BY DEF ThreadStep, TxDequeue, TxEmpty, TxSend, RxDispatch, RxIdle, work, callers
<1>7. WorkqueueStep /\ ~Resolves => same
  BY DEF WorkqueueStep, Resolves, DispatchDrop, TimeoutSkipped, callers
<1>8. ASSUME NEW f, UartIsr(f) PROVE same
  BY <1>8 DEF UartIsr, Receive, ReceiveFull, work, callers
<1>9. CASE Tick
  <2>1. \A id \in Ids : Owner(id)' = Owner(id)
    BY <1>9 DEF Tick, Entries
  <2> QED
    BY <1>9, <2>1 DEF Tick, Apart, callers, work
<1>10. IcmpInit \/ PhyInit \/ TimerIsr \/ UNCHANGED vars => same
  BY DEF IcmpInit, PhyInit, TimerIsr, vars, work, callers
<1> HIDE DEF same
<1> QED
  BY <1>1, <1>2, <1>3, <1>4, <1>5, <1>6, <1>7, <1>8, <1>9, <1>10 DEF Next, Resolves

LEMMA ApartTable ==
    ASSUME IInv, TableInv, [Next]_vars, ~Resolves
    PROVE  TableInv' /\ fate' = fate
<1>1. Apart
  BY OthersApart
<1>2. InCallback' = InCallback
  BY <1>1 DEF Apart, InCallback
<1>3. InCallback => slab'[work_ctx'.frame] = slab[work_ctx.frame]
  BY ContextStays DEF InCallback, Resolves
<1>4. \A id : Answering(id)' = Answering(id)
  BY <1>2, <1>3 DEF Answering
<1>5. Entered'
  BY <1>1, <1>2, <1>3, <1>4 DEF TableInv, Entered, Apart
<1>6. Critical'
  BY <1>1 DEF TableInv, Critical, Apart
<1> QED
  BY <1>1, <1>5, <1>6 DEF TableInv, Apart

----------------------------------------------------------------------------
\* Steps that do not.

LEMMA LockTable ==
    ASSUME IInv, TableInv, [Next]_vars,
           NEW c \in Callers, NEW r \in Reqs, NEW t \in Targets, CommandLock(c, r, t)
    PROVE  TableInv' /\ fate' = fate
<1> USE DEF IInv, TypeOK, TableInv
<1>1. UNCHANGED <<inflight_bitmap, inflight_table, fate, slab, running, work_ctx>>
  BY DEF CommandLock, work
<1>2. Entered'
  BY <1>1 DEF Entered, Owner, Answering, InCallback
<1>3. mutex' = c /\ seen' = inflight_bitmap /\ fate[r] = "unused"
      /\ \A d \in Callers : d # c => pc'[d] = pc[d] /\ pc[d] # "locked"
  BY NullAssumption DEF CommandLock, Critical
<1>4. out'[c].msg_id \in Ids \ inflight_bitmap /\ out'[c].body = r
  BY DEF CommandLock, FreeMsgIds
<1> QED
  BY <1>1, <1>2, <1>3, <1>4 DEF Critical

LEMMA StoreFacts ==
    ASSUME IInv, TableInv, NEW c \in Callers, CommandStore(c),
           NEW id, id = out[c].msg_id, NEW r, r = out[c].body
    PROVE  /\ id \in Ids \ seen /\ inflight_bitmap \subseteq seen
           /\ r \in Reqs /\ r # NULL /\ fate[r] = "unused"
           /\ inflight_bitmap \cup {id} \subseteq inflight_bitmap'
           /\ Owner(id) = NULL /\ Owner(id)' = r
           /\ \A j \in Ids : j # id => Owner(j)' = Owner(j)
           /\ \A j \in Ids : Owner(j) # r
           /\ fate' = [fate EXCEPT ![r] = "inflight"]
<1> USE DEF IInv, TypeOK, TableInv
<1>1. /\ pc[c] = "locked" /\ id \in Ids \ seen /\ inflight_bitmap \subseteq seen
      /\ r \in Reqs /\ fate[r] = "unused"
  BY DEF CommandStore, Critical, Locals
<1>2. r # NULL
  BY <1>1, NullAssumption
<1>3. Owner(id) = NULL
  BY <1>1 DEF Entered
<1>4. \A j \in Ids : Owner(j) # r
  <2> SUFFICES ASSUME NEW j \in Ids, Owner(j) = r PROVE FALSE
    OBVIOUS
  <2>1. Answering(j)
    BY <1>1, <1>2 DEF Entered
  <2> QED
    BY <1>1, <2>1 DEF Entered, Answering
<1>5. Owner(id)' = r /\ \A j \in Ids : j # id => Owner(j)' = Owner(j)
  BY <1>1 DEF CommandStore, Owner
<1>6. inflight_bitmap \cup {id} \subseteq inflight_bitmap'
  BY <1>1 DEF CommandStore
<1> QED
  BY <1>1, <1>2, <1>3, <1>4, <1>5, <1>6 DEF CommandStore

LEMMA StoreTable ==
    ASSUME IInv, TableInv, [Next]_vars, NEW c \in Callers, CommandStore(c)
    PROVE  TableInv'
<1> USE DEF IInv, TypeOK, TableInv
<1> PICK id, r : id = out[c].msg_id /\ r = out[c].body
  OBVIOUS
<1>1. /\ id \in Ids \ seen /\ inflight_bitmap \subseteq seen
      /\ r \in Reqs /\ r # NULL /\ fate[r] = "unused"
      /\ inflight_bitmap \cup {id} \subseteq inflight_bitmap'
      /\ Owner(id) = NULL /\ Owner(id)' = r
      /\ \A j \in Ids : j # id => Owner(j)' = Owner(j)
      /\ \A j \in Ids : Owner(j) # r
      /\ fate' = [fate EXCEPT ![r] = "inflight"]
  BY StoreFacts
<1>2. UNCHANGED <<slab, running, work_ctx>>
      /\ \A d \in Callers : pc'[d] # "locked"
  <2>1. \A d \in Callers : d # c => pc[d] # "locked"
    BY DEF CommandStore, Critical
  <2> QED
    BY <2>1 DEF CommandStore, work
<1>3. fate'[r] = "inflight" /\ \A q \in Reqs : q # r => fate'[q] = fate[q]
  BY <1>1
<1>4. InCallback' = InCallback /\ \A j : Answering(j)' = Answering(j)
  BY <1>2 DEF InCallback, Answering
<1>5. ~Answering(id)
  BY <1>1, NullAssumption DEF Entered, Answering
<1>6. \A j \in Ids : Owner(j) # NULL => Owner(j) \in Reqs /\ Owner(j) # r
  BY <1>1 DEF Owner, Entries
<1>7. Entered'
  <2>1. \A j \in Ids : Owner(j)' # NULL => j \in inflight_bitmap'
    BY <1>1 DEF Entered
  <2>2. \A i, j \in Ids : Owner(i)' # NULL /\ Owner(i)' = Owner(j)' => i = j
    <3> SUFFICES ASSUME NEW i \in Ids, NEW j \in Ids, Owner(i)' # NULL, Owner(i)' = Owner(j)'
                 PROVE  i = j
      OBVIOUS
    <3>1. CASE i # id /\ j # id
      BY <1>1, <3>1 DEF Entered
    <3>2. CASE i = id \/ j = id
      BY <1>1, <3>2
    <3> QED
      BY <3>1, <3>2
  <2>3. ASSUME NEW q \in Reqs, fate'[q] = "inflight" PROVE \E j \in Ids : Owner(j)' = q
    <3>1. CASE q = r
      BY <1>1, <3>1
    <3>2. CASE q # r
      <4>1. PICK j \in Ids : Owner(j) = q
        BY <1>3, <2>3, <3>2 DEF Entered
      <4>2. j # id
        BY <1>1, <4>1, NullAssumption
      <4> QED
        BY <1>1, <4>1, <4>2
    <3> QED
      BY <3>1, <3>2
  <2>4. ASSUME NEW j \in Ids, Owner(j)' # NULL, ~Answering(j)'
        PROVE  fate'[Owner(j)'] = "inflight"
    <3>1. CASE j = id
      BY <1>1, <1>3, <3>1
    <3>2. CASE j # id
      <4>1. Owner(j)' = Owner(j) /\ ~Answering(j)
        BY <1>1, <1>4, <2>4, <3>2
      <4>2. fate[Owner(j)] = "inflight"
        BY <2>4, <4>1 DEF Entered
      <4> QED
        BY <1>3, <1>6, <2>4, <4>1, <4>2
    <3> QED
      BY <3>1, <3>2
  <2>5. InCallback' =>
            LET j == slab[work_ctx.frame].msg_id IN
            j \in Ids /\ Owner(j)' \in Reqs /\ fate'[Owner(j)'] = "answered"
    <3> SUFFICES ASSUME InCallback
                 PROVE  LET j == slab[work_ctx.frame].msg_id IN
                        j \in Ids /\ Owner(j)' \in Reqs /\ fate'[Owner(j)'] = "answered"
      BY <1>4
    <3> PICK j : j = slab[work_ctx.frame].msg_id
      OBVIOUS
    <3>1. j \in Ids /\ Owner(j) \in Reqs /\ fate[Owner(j)] = "answered" /\ Answering(j)
      BY DEF Entered, Answering
    <3>2. j # id /\ Owner(j) # r
      BY <1>1, <1>5, <3>1
    <3> QED
      BY <1>1, <1>2, <1>3, <3>1, <3>2 DEF Owner
  <2> QED
    BY <1>2, <2>1, <2>2, <2>3, <2>4, <2>5 DEF Entered
<1> QED
  BY <1>2, <1>7 DEF Critical

\* The response callback is called for a command in flight.
LEMMA DispatchResponseFacts ==
    ASSUME IInv, TableInv, DispatchResponse,
           NEW id, id = slab[work_ctx.frame].msg_id
    PROVE  /\ id \in Ids /\ Owner(id) \in Reqs /\ fate[Owner(id)] = "inflight"
           /\ fate' = [fate EXCEPT ![Owner(id)] = "answered"]
<1> USE DEF IInv, TypeOK, TableInv
<1>1. id \in Ids /\ inflight_table[id].callback /\ running = NULL
  BY DEF DispatchResponse, HasResponseCallback, Runs
<1>2. Owner(id) \in Reqs
  BY <1>1 DEF CallbacksHaveOwner, Owner
<1>3. fate[Owner(id)] = "inflight"
  BY <1>1, <1>2, NullAssumption DEF Entered, Answering, InCallback
<1> QED
  BY <1>1, <1>2, <1>3 DEF DispatchResponse, Resolved, Owner

LEMMA DispatchTable ==
    ASSUME IInv, TableInv, [Next]_vars, DispatchResponse \/ DispatchTarget
    PROVE  TableInv'
<1> USE DEF IInv, TypeOK, TableInv
<1>1. UNCHANGED <<inflight_bitmap, inflight_table, slab, work_ctx, pc, out, seen, mutex>>
      /\ mutex = NULL /\ running = NULL
  BY DEF DispatchResponse, DispatchTarget, inflight, callers, Runs
<1>2. Critical'
  BY <1>1, NullAssumption DEF Critical
<1>3. CASE DispatchTarget
  <2>1. ~InCallback /\ ~InCallback' /\ fate' = fate
    BY <1>1, <1>3 DEF DispatchTarget, InCallback
  <2> QED
    BY <1>1, <1>2, <2>1 DEF Entered, Answering, Owner
<1>4. CASE DispatchResponse
  <2> PICK id : id = slab[work_ctx.frame].msg_id
    OBVIOUS
  <2>1. /\ id \in Ids /\ Owner(id) \in Reqs /\ fate[Owner(id)] = "inflight"
        /\ fate' = [fate EXCEPT ![Owner(id)] = "answered"]
    BY <1>4, DispatchResponseFacts
  <2>2. ~InCallback /\ \A j : Answering(j)' => j = id
    BY <1>1 DEF InCallback, Answering
  <2>3. Answering(id)'
    BY <1>1, <1>4, ActivationType DEF DispatchResponse, Answering, InCallback
  <2>4. \A j \in Ids : Owner(j)' = Owner(j)
    BY <1>1 DEF Owner
  <2>5. \A j \in Ids : Owner(j) # NULL => Owner(j) \in Reqs /\ fate[Owner(j)] = "inflight"
    BY <2>2 DEF Entered, Answering, Owner, Entries
  <2>6. \A j \in Ids : Owner(j) # NULL /\ j # id => fate'[Owner(j)] = "inflight"
    BY <2>1, <2>5, NullAssumption DEF Entered
  <2>7. Entered'
    <3>1. \A j \in Ids : Owner(j)' # NULL => j \in inflight_bitmap'
      BY <1>1, <2>4 DEF Entered
    <3>2. \A i, j \in Ids : Owner(i)' # NULL /\ Owner(i)' = Owner(j)' => i = j
      BY <2>4 DEF Entered
    <3>3. \A q \in Reqs : fate'[q] = "inflight" => \E j \in Ids : Owner(j)' = q
      BY <2>1, <2>4 DEF Entered
    <3>4. ASSUME NEW j \in Ids, Owner(j)' # NULL, ~Answering(j)'
          PROVE  fate'[Owner(j)'] = "inflight"
      <4>1. j # id
        BY <2>3, <3>4
      <4> QED
        BY <2>4, <2>6, <3>4, <4>1
    <3>5. (slab[work_ctx.frame].msg_id)' = id /\ fate'[Owner(id)] = "answered"
      BY <1>1, <2>1
    <3> QED
      BY <2>1, <2>4, <3>1, <3>2, <3>3, <3>4, <3>5 DEF Entered
  <2> QED
    BY <1>2, <2>7
<1> QED
  BY <1>3, <1>4

\* Entries are removed whose commands are no longer in flight.
LEMMA ClearTable ==
    ASSUME IInv, TableInv, NEW ids, ClearEntries(ids), ~InCallback',
           \A r \in Reqs : fate'[r] = "inflight" => fate[r] = "inflight",
           \A id \in Ids : Owner(id) # NULL =>
               (id \notin ids <=> fate'[Owner(id)] = "inflight"),
           \A r \in Reqs : fate[r] = "unused" => fate'[r] = "unused",
           UNCHANGED <<pc, out, mutex, seen>>
    PROVE  TableInv'
<1> USE DEF IInv, TypeOK, TableInv
<1>1. \A id \in Ids : Owner(id)' = IF id \in ids THEN NULL ELSE Owner(id)
  BY DEF ClearEntries, EmptyEntry, Owner
<1>2. inflight_bitmap' = inflight_bitmap \ ids
  BY DEF ClearEntries
<1>3. Entered'
  <2>1. \A id \in Ids : Owner(id)' # NULL => id \in inflight_bitmap'
    BY <1>1, <1>2 DEF Entered
  <2>2. \A i, j \in Ids : Owner(i)' # NULL /\ Owner(i)' = Owner(j)' => i = j
    BY <1>1 DEF Entered
  <2>3. ASSUME NEW r \in Reqs, fate'[r] = "inflight" PROVE \E id \in Ids : Owner(id)' = r
    <3>1. PICK id \in Ids : Owner(id) = r
      BY <2>3 DEF Entered
    <3> QED
      BY <1>1, <2>3, <3>1, NullAssumption
  <2>4. \A id \in Ids : Owner(id)' # NULL => fate'[Owner(id)'] = "inflight"
    BY <1>1
  <2> QED
    BY <2>1, <2>2, <2>3, <2>4 DEF Entered
<1>4. Critical'
  <2>1. \A c \in Callers : pc[c] = "locked" => out[c].body \in Reqs
    BY DEF Locals
  <2> QED
    BY <1>2, <2>1 DEF Critical
<1> QED
  BY <1>3, <1>4

LEMMA ReturnTable ==
    ASSUME IInv, TableInv, [Next]_vars, CallbackReturn
    PROVE  TableInv' /\ fate' = fate
<1> USE DEF IInv, TypeOK, TableInv
<1> DEFINE id == slab[work_ctx.frame].msg_id
<1>1. fate' = fate /\ running # NULL /\ ~InCallback' /\ UNCHANGED <<pc, out, mutex, seen>>
  BY DEF CallbackReturn, InCallback, callers
<1>2. CASE running.callback = "response"
  <2>1. ClearEntries({id}) /\ InCallback
    BY <1>1, <1>2 DEF CallbackReturn, InCallback
  <2>2. id \in Ids /\ fate[Owner(id)] = "answered"
    BY <2>1 DEF Entered
  <2>3. \A j \in Ids : Owner(j) # NULL => (j \notin {id} <=> fate[Owner(j)] = "inflight")
    BY <2>1, <2>2 DEF Entered, Answering
  <2> HIDE DEF id
  <2> QED
    BY <1>1, <2>1, <2>3, ClearTable
<1>3. CASE running.callback # "response"
  <2>1. UNCHANGED <<inflight_bitmap, inflight_table>> /\ ~InCallback
    BY <1>3 DEF CallbackReturn, InCallback
  <2> QED
    BY <1>1, <2>1 DEF Entered, Critical, Owner, Answering
<1> QED
  BY <1>2, <1>3

\* The scan drops commands in flight, and no other.
Expired == {id \in inflight_bitmap : TimedOut(inflight_table[id])}
Dropped == {r \in Reqs : \E id \in Expired : Owner(id) = r}

LEMMA TimeoutFacts ==
    ASSUME IInv, TableInv, Timeout
    PROVE  /\ \A r \in Dropped : fate[r] = "inflight"
           /\ fate' = [r \in Reqs |-> IF r \in Dropped THEN "dropped" ELSE fate[r]]
<1> USE DEF IInv, TypeOK, TableInv
<1>1. running = NULL
  BY DEF Timeout, Runs
<1>2. ASSUME NEW r \in Dropped PROVE fate[r] = "inflight"
  <2>1. PICK id \in Expired : Owner(id) = r
    BY DEF Dropped
  <2> QED
    BY <1>1, <2>1, NullAssumption DEF Dropped, Expired, Entered, Answering, InCallback
<1>3. \A r \in Reqs :
        r \in {inflight_table[id].user_data : id \in Expired} <=> r \in Dropped
  BY DEF Dropped, Owner
<1>4. fate' = [r \in Reqs |->
                IF r \in {inflight_table[id].user_data : id \in Expired}
                THEN Resolved(r, "dropped") ELSE fate[r]]
  BY DEF Timeout, Expired
<1> QED
  BY <1>2, <1>3, <1>4 DEF Resolved

LEMMA TimeoutTable ==
    ASSUME IInv, TableInv, [Next]_vars, Timeout
    PROVE  TableInv'
<1> USE DEF IInv, TypeOK, TableInv
<1>1. /\ \A r \in Dropped : fate[r] = "inflight"
      /\ fate' = [r \in Reqs |-> IF r \in Dropped THEN "dropped" ELSE fate[r]]
  BY TimeoutFacts
<1>2. running = NULL /\ running' = NULL /\ UNCHANGED <<pc, out, mutex, seen>>
      /\ ClearEntries(Expired)
  BY DEF Timeout, Runs, callers, Expired
<1>3. \A id \in Ids : Owner(id) # NULL => Owner(id) \in Reqs /\ fate[Owner(id)] = "inflight"
  BY <1>2 DEF Entered, Answering, InCallback, Owner, Entries
<1>4. \A id \in Ids : Owner(id) # NULL => (id \in Expired <=> Owner(id) \in Dropped)
  BY <1>3 DEF Dropped, Entered, Expired
<1>5. \A id \in Ids : Owner(id) # NULL =>
        (id \notin Expired <=> fate'[Owner(id)] = "inflight")
  BY <1>1, <1>3, <1>4
<1>6. ~InCallback'
  BY <1>2 DEF InCallback
<1> QED
  BY <1>1, <1>2, <1>5, <1>6, ClearTable

LEMMA TableStep == IInv /\ TableInv /\ [Next]_vars => TableInv'
BY ApartTable, LockTable, StoreTable, DispatchTable, ReturnTable, TimeoutTable
DEF Resolves

LEMMA TableInvariant == Spec => [](IInv /\ TableInv)
BY InitTable, TableStep, InductiveInvariant, PTL DEF Spec

----------------------------------------------------------------------------
\* Bitmap and table, when callbacks do not sleep.

\* Nothing then happens between the two reads of the bitmap in icmp_command.
InStep ==
    /\ \A c \in Callers : pc[c] = "locked" => running = NULL /\ seen = inflight_bitmap
    /\ \A id \in inflight_bitmap : Owner(id) # NULL

LEMMA StoreInStep ==
    ASSUME IInv, TableInv, InStep, NEW c \in Callers, CommandStore(c)
    PROVE  InStep'
<1> USE DEF IInv, TypeOK, TableInv
<1> PICK id, r : id = out[c].msg_id /\ r = out[c].body
  OBVIOUS
<1>1. /\ r # NULL /\ Owner(id)' = r
      /\ \A j \in Ids : j # id => Owner(j)' = Owner(j)
  BY StoreFacts
<1>2. inflight_bitmap' = inflight_bitmap \cup {id}
  BY DEF CommandStore, InStep
<1>3. \A d \in Callers : pc'[d] # "locked"
  <2>1. \A d \in Callers : d # c => pc[d] # "locked"
    BY DEF CommandStore, Critical
  <2> QED
    BY <2>1 DEF CommandStore
<1> QED
  BY <1>1, <1>2, <1>3 DEF InStep

LEMMA ClearInStep ==
    ASSUME IInv, InStep, NEW ids, ClearEntries(ids),
           \A c \in Callers : pc'[c] # "locked"
    PROVE  InStep'
<1>1. \A id \in inflight_bitmap' :
        id \in Ids /\ id \in inflight_bitmap /\ Owner(id)' = Owner(id)
  BY DEF ClearEntries, Owner, IInv, TypeOK
<1> QED
  BY <1>1 DEF InStep

LEMMA StepInStep ==
    ASSUME ~BlockingCallbacks, IInv, TableInv, InStep, [Next]_vars
    PROVE  InStep'
<1> USE DEF IInv, TypeOK, TableInv
<1>1. CASE ~Resolves
  <2>1. Apart /\ inflight_bitmap \subseteq Ids
    BY <1>1, OthersApart
  <2> QED
    BY <2>1 DEF InStep, Apart
<1>2. ASSUME NEW c \in Callers, NEW r \in Reqs, NEW t \in Targets, CommandLock(c, r, t)
      PROVE  InStep'
  <2>1. /\ UNCHANGED <<inflight_bitmap, inflight_table, running>>
        /\ running = NULL /\ seen' = inflight_bitmap
    BY <1>2 DEF CommandLock, work, ThreadsMayRun
  <2> QED
    BY <2>1 DEF InStep, Owner
<1>3. ASSUME mutex = NULL \/ running # NULL PROVE \A c \in Callers : pc[c] # "locked"
  BY <1>3, NullAssumption DEF InStep, Critical
<1>4. CASE DispatchResponse \/ DispatchTarget
  <2>1. UNCHANGED <<inflight_bitmap, inflight_table, pc>> /\ mutex = NULL
    BY <1>4 DEF DispatchResponse, DispatchTarget, inflight, callers
  <2> QED
    BY <1>3, <2>1 DEF InStep, Owner
<1>5. CASE CallbackReturn
  <2>1. UNCHANGED pc /\ running # NULL
    BY <1>5 DEF CallbackReturn, callers
  <2>2. CASE running.callback = "response"
    BY <1>3, <1>5, <2>1, <2>2, ClearInStep DEF CallbackReturn
  <2>3. CASE running.callback # "response"
    <3>1. UNCHANGED <<inflight_bitmap, inflight_table>>
      BY <1>5, <2>3 DEF CallbackReturn
    <3> QED
      BY <1>3, <2>1, <3>1 DEF InStep, Owner
  <2> QED
    BY <2>2, <2>3
<1>6. CASE Timeout
  <2>1. UNCHANGED pc /\ mutex = NULL /\ ClearEntries(Expired)
    BY <1>6 DEF Timeout, callers, Expired
  <2> QED
    BY <1>3, <2>1, ClearInStep
<1> QED
  BY <1>1, <1>2, <1>4, <1>5, <1>6, StoreInStep DEF Resolves

LEMMA InStepInvariant ==
    ASSUME ~BlockingCallbacks
    PROVE  Spec => []InStep
<1>1. Init => InStep
  BY NullAssumption DEF Init, InStep
<1>2. IInv /\ TableInv /\ InStep /\ [Next]_vars => InStep'
  BY StepInStep
<1> QED
  BY <1>1, <1>2, TableInvariant, PTL DEF Spec

\* A bit of inflight_bitmap is set exactly when its entry in inflight_table belongs to a
\* command, and every command in flight keeps one entry, if no callback sleeps: while
\* one sleeps, icmp_dispatch_handler clears the entry without holding the mutex.
THEOREM TableAgrees ==
    ASSUME ~BlockingCallbacks
    PROVE  Spec => []InflightTable
<1>1. IInv /\ TableInv /\ InStep => InflightTable
  <2> SUFFICES ASSUME IInv, TableInv, InStep PROVE InflightTable
    OBVIOUS
  <2> USE DEF IInv, TypeOK, TableInv, Entered, InStep, Owner
  <2>1. \A id \in Ids : id \in inflight_bitmap <=> inflight_table[id].user_data # NULL
    OBVIOUS
  <2>2. \A i, j \in inflight_bitmap :
            inflight_table[i].user_data = inflight_table[j].user_data => i = j
    OBVIOUS
  <2>3. \A r \in Reqs : fate[r] = "inflight" =>
            \E id \in inflight_bitmap : inflight_table[id].user_data = r
    BY NullAssumption
  <2> QED
    BY <2>1, <2>2, <2>3 DEF InflightTable
<1> QED
  BY <1>1, TableInvariant, InStepInvariant, PTL

----------------------------------------------------------------------------
\* The way of a command's frame to the PHY.

Carries(f, id, r) == f.type = "COMMAND" /\ f.msg_id = id /\ f.body = r

\* The three places OnItsWay looks at.
AtCaller(id, r) ==
    \E c \in Callers : pc[c] \in {"alloc", "enqueue"} /\ Carries(out[c], id, r)
InQueue(id, r) == \E b \in Elements(tx_queue) : Carries(slab[b], id, r)
AtThread(id, r) == icmp_thread = "stamp" /\ Carries(slab[tx_frame], id, r)
Travels(id, r) == AtCaller(id, r) \/ InQueue(id, r) \/ AtThread(id, r)

LEMMA TravelsOnItsWay == \A id, r : Travels(id, r) => OnItsWay(id, r)
BY DEF Travels, AtCaller, InQueue, AtThread, OnItsWay, Carries, Elements

\* A caller's frame is what it was given; what the scan would skip travels.
Pending(id) == Owner(id) # NULL /\ inflight_table[id].timestamp = SEND_PENDING

WayInv ==
    /\ \A c \in Callers : pc[c] = "enqueue" => slab[buf[c]] = out[c]
    /\ \A id \in Ids : Pending(id) => Owner(id) \in failed \/ Travels(id, Owner(id))

\* Only TxSend and the end of a dispatch free a frame.
LEMMA SlabStays ==
    ASSUME IInv, [Next]_vars, NEW o \in Owners \ {"workqueue"}, NEW b \in Held[o],
           o = "icmp_thread" => icmp_thread = "stamp"
    PROVE  b \in Blocks /\ slab'[b] = slab[b]
<1> USE DEF IInv, TypeOK
<1>1. b \in Blocks /\ slab[b] # NULL
  BY DEF Separate, Allocated
<1>2. \A f, x : x \in FreeBlocks /\ slab' = [slab EXCEPT ![x] = f] => slab'[b] = slab[b]
  BY <1>1 DEF FreeBlocks
<1>3. \A p \in Owners, x \in Blocks : p # o /\ x \in Held[p] => x # b
  BY DEF Separate
<1>4. \A x \in Blocks : x # b /\ slab' = Freed(x) => slab'[b] = slab[b]
  BY <1>1 DEF Freed
<1>5. CASE TxSend
  <2>1. tx_frame \in Blocks /\ tx_frame \in Held["icmp_thread"] /\ o # "icmp_thread"
    BY <1>5, HeldFacts, NullAssumption DEF TxSend, Locals
  <2>2. tx_frame # b
    BY <1>3, <2>1, OwnersFacts
  <2> QED
    BY <1>1, <1>4, <1>5, <2>1, <2>2 DEF TxSend
<1>6. ASSUME DispatchDrop \/ CallbackReturn PROVE slab'[b] = slab[b]
  <2>1. work_ctx # NULL /\ work_ctx.frame \in Blocks
    BY <1>6, ContextHeld DEF DispatchDrop, CallbackReturn, Runs
  <2>2. work_ctx.frame \in Held["workqueue"]
    BY <2>1, HeldFacts
  <2> QED
    BY <1>3, <1>4, <1>6, <2>1, <2>2, OwnersFacts
    DEF DispatchDrop, CallbackReturn, ReleaseContext
<1>7. ASSUME NEW c \in Callers, CallerStep(c) PROVE slab'[b] = slab[b]
  BY <1>2, <1>7
  DEF CallerStep, CommandStore, FrameAlloc, FrameAllocFails, Enqueue, EnqueueFails
<1>8. ASSUME NEW f, UartIsr(f) PROVE slab'[b] = slab[b]
  BY <1>2, <1>8 DEF UartIsr, Receive, ReceiveFull
<1>9. ThreadStep /\ ~TxSend => slab' = slab
  BY DEF ThreadStep, TxDequeue, TxEmpty, TxStamp, RxDispatch, RxIdle
<1>10. DispatchResponse \/ DispatchTarget \/ Timeout \/ TimeoutSkipped => slab' = slab
  BY DEF DispatchResponse, DispatchTarget, Timeout, TimeoutSkipped
<1>11. \A c, r, t, f : CommandLock(c, r, t) \/ Send(c, f) => slab' = slab
  BY DEF CommandLock, Send
<1>12. \A t : RegisterTarget(t) => slab' = slab
  BY DEF RegisterTarget
<1>13. IcmpInit \/ PhyInit \/ TimerIsr \/ Tick \/ UNCHANGED vars => slab' = slab
  BY DEF IcmpInit, PhyInit, TimerIsr, Tick, vars
<1> QED
  BY <1>1, <1>5, <1>6, <1>7, <1>8, <1>9, <1>10, <1>11, <1>12, <1>13
  DEF Next, WorkqueueStep

\* The steps that move frames towards the PHY, and the calls that start and end.
Moves ==
    \/ \E c \in Callers : CallerStep(c)
    \/ \E c \in Callers, r \in Reqs, t \in Targets : CommandLock(c, r, t)
    \/ \E c \in Callers, f \in AppFrames : Send(c, f)
    \/ TxDequeue \/ TxStamp

Still == UNCHANGED <<pc, out, buf, tx_queue, failed>>
         /\ (icmp_thread = "stamp" => UNCHANGED <<icmp_thread, tx_frame>>)

LEMMA OthersStill ==
    ASSUME IInv, [Next]_vars, ~Moves
    PROVE  Still
<1> USE DEF Still, callers, queues, thread
<1>1. ASSUME NEW t \in Targets, RegisterTarget(t) PROVE Still
  BY <1>1 DEF RegisterTarget
<1>2. IcmpInit \/ PhyInit \/ TimerIsr \/ Tick \/ UNCHANGED vars => Still
  BY DEF IcmpInit, PhyInit, TimerIsr, Tick, vars
<1>3. TxEmpty \/ TxSend \/ RxDispatch \/ RxIdle => Still
  BY DEF TxEmpty, TxSend, RxDispatch, RxIdle
<1>4. WorkqueueStep => Still
  BY DEF WorkqueueStep, DispatchResponse, DispatchTarget, DispatchDrop, CallbackReturn,
         Timeout, TimeoutSkipped
<1>5. ASSUME NEW f, UartIsr(f) PROVE Still
  BY <1>5 DEF UartIsr, Receive, ReceiveFull
<1> QED
  BY <1>1, <1>2, <1>3, <1>4, <1>5 DEF Next, Moves, ThreadStep

LEMMA TravelStep ==
    ASSUME IInv, WayInv, [Next]_vars, NEW id \in Ids, NEW r \in Reqs, Travels(id, r)
    PROVE  \/ Travels(id, r)' \/ r \in failed'
           \/ inflight_table'[id].timestamp # SEND_PENDING
<1> USE DEF IInv, TypeOK
<1>1. \A b \in Elements(tx_queue) : slab'[b] = slab[b]
  BY SlabStays, HeldFacts, OwnersFacts, NullAssumption
<1>2. icmp_thread = "stamp" => slab'[tx_frame] = slab[tx_frame]
  <2> HAVE icmp_thread = "stamp"
  <2>1. tx_frame \in Held["icmp_thread"]
    BY HeldFacts DEF Locals
  <2>2. "icmp_thread" \in Owners \ {"workqueue"}
    BY OwnersFacts
  <2> QED
    BY <2>1, <2>2, SlabStays
\* Each of the three places keeps the frame if nothing moves it.
<1>3. ASSUME Elements(tx_queue) \subseteq Elements(tx_queue)', InQueue(id, r)
      PROVE  InQueue(id, r)'
  BY <1>1, <1>3 DEF InQueue, Carries
<1>4. ASSUME icmp_thread' = icmp_thread, tx_frame' = tx_frame, AtThread(id, r)
      PROVE  AtThread(id, r)'
  BY <1>2, <1>4 DEF AtThread, Carries
<1>5. ASSUME NEW c \in Callers, pc[c] \in {"alloc", "enqueue"}, Carries(out[c], id, r),
             pc'[c] \in {"alloc", "enqueue"}, out'[c] = out[c]
      PROVE  AtCaller(id, r)'
  BY <1>5 DEF AtCaller, Carries
<1>6. tx_queue' = tx_queue => Elements(tx_queue) \subseteq Elements(tx_queue)'
  BY DEF Elements
<1>7. CASE ~Moves
  <2>1. Still
    BY <1>7, OthersStill
  <2>2. AtCaller(id, r) => AtCaller(id, r)'
    BY <1>5, <2>1 DEF AtCaller, Still
  <2>3. InQueue(id, r) => InQueue(id, r)'
    BY <1>3, <1>6, <2>1 DEF Still
  <2>4. AtThread(id, r) => AtThread(id, r)'
    BY <1>4, <2>1 DEF Still, AtThread
  <2> QED
    BY <2>2, <2>3, <2>4 DEF Travels
\* A step of a caller that leaves its frame, if it has one, with it.
<1>8. ASSUME NEW c \in Callers, UNCHANGED <<tx_queue, icmp_thread, tx_frame>>,
             \A d \in Callers : pc[d] \in {"alloc", "enqueue"} =>
                pc'[d] \in {"alloc", "enqueue"} /\ out'[d] = out[d]
      PROVE  Travels(id, r)'
  <2>1. AtCaller(id, r) => AtCaller(id, r)'
    BY <1>5, <1>8 DEF AtCaller
  <2> QED
    BY <1>3, <1>4, <1>6, <1>8, <2>1 DEF Travels
<1>9. ASSUME NEW c \in Callers, NEW t, NEW q, NEW f,
             CommandLock(c, q, t) \/ Send(c, f) \/ CommandStore(c) \/ FrameAlloc(c)
      PROVE  Travels(id, r)'
  BY <1>8, <1>9 DEF CommandLock, Send, CommandStore, FrameAlloc, queues, thread
<1>10. ASSUME NEW c \in Callers, FrameAllocFails(c) \/ EnqueueFails(c)
       PROVE  Travels(id, r)' \/ r \in failed'
  <2>1. /\ failed' = failed \cup ({out[c].body} \ {NULL})
        /\ UNCHANGED <<tx_queue, icmp_thread, tx_frame>>
        /\ \A d \in Callers : d # c => pc'[d] = pc[d] /\ out'[d] = out[d]
    BY <1>10 DEF FrameAllocFails, EnqueueFails, ReturnError, Return, queues, thread
  <2>2. AtCaller(id, r) => AtCaller(id, r)' \/ r \in failed'
    BY <1>5, <2>1, NullAssumption DEF AtCaller, Carries
  <2> QED
    BY <1>3, <1>4, <1>6, <2>1, <2>2 DEF Travels
<1>11. ASSUME NEW c \in Callers, Enqueue(c) PROVE Travels(id, r)'
  <2>1. /\ buf[c] \in Blocks /\ slab[buf[c]] = out[c] /\ slab' = slab
        /\ UNCHANGED <<icmp_thread, tx_frame>>
        /\ \A d \in Callers : d # c => pc'[d] = pc[d] /\ out'[d] = out[d]
    BY <1>11 DEF Enqueue, Return, thread, Locals, WayInv
  <2>2. Elements(tx_queue)' = Elements(tx_queue) \cup {buf[c]}
    BY <1>11, <2>1, AppendFacts DEF Enqueue
  <2>3. AtCaller(id, r) => AtCaller(id, r)' \/ InQueue(id, r)'
    <3> SUFFICES ASSUME NEW d \in Callers, pc[d] \in {"alloc", "enqueue"},
                        Carries(out[d], id, r)
                 PROVE  AtCaller(id, r)' \/ InQueue(id, r)'
      BY DEF AtCaller
    <3>1. CASE d = c
      <4>1. buf[c] \in Elements(tx_queue)' /\ slab'[buf[c]] = out[c]
        BY <2>1, <2>2
      <4> QED
        BY <3>1, <4>1 DEF InQueue, Carries
    <3>2. CASE d # c
      BY <1>5, <2>1, <3>2
    <3> QED
      BY <3>1, <3>2
  <2> QED
    BY <1>3, <1>4, <2>1, <2>2, <2>3 DEF Travels
<1>12. CASE TxDequeue
  <2>1. /\ Elements(tx_queue) = {Head(tx_queue)} \cup Elements(tx_queue)'
        /\ tx_frame' = Head(tx_queue) /\ icmp_thread' = "stamp" /\ icmp_thread = "tx"
        /\ UNCHANGED <<pc, out, slab>>
    BY <1>12, TailFacts DEF TxDequeue, callers
  <2>2. InQueue(id, r) => InQueue(id, r)' \/ AtThread(id, r)'
    BY <2>1 DEF InQueue, AtThread, Carries
  <2>3. AtCaller(id, r) => AtCaller(id, r)'
    BY <1>5, <2>1 DEF AtCaller
  <2> QED
    BY <2>1, <2>2, <2>3 DEF Travels, AtThread
<1>13. CASE TxStamp
  <2>1. UNCHANGED <<pc, out, tx_queue>>
    BY <1>13 DEF TxStamp, callers, queues
  <2>2. AtThread(id, r) => inflight_table'[id].timestamp = 0
    BY <1>13 DEF TxStamp, Stamped, AtThread, Carries, Entries
  <2>3. AtCaller(id, r) => AtCaller(id, r)'
    BY <1>5, <2>1 DEF AtCaller
  <2>4. InQueue(id, r) => InQueue(id, r)'
    BY <1>3, <1>6, <2>1
  <2> QED
    BY <2>2, <2>3, <2>4 DEF Travels, SEND_PENDING
<1> QED
  BY <1>7, <1>9, <1>10, <1>11, <1>12, <1>13 DEF Moves, CallerStep

LEMMA PendingStep ==
    ASSUME IInv, [Next]_vars, NEW id \in Ids, Pending(id)'
    PROVE  \/ Pending(id) /\ Owner(id)' = Owner(id)
           \/ \E c \in Callers : CommandStore(c) /\ out[c].msg_id = id
                                 /\ Owner(id)' = out[c].body
<1> USE DEF IInv, TypeOK, Pending, Owner
<1>1. UNCHANGED inflight_table => Pending(id) /\ Owner(id)' = Owner(id)
  OBVIOUS
<1>2. ASSUME NEW ids, ClearEntries(ids)
      PROVE  Pending(id) /\ Owner(id)' = Owner(id)
  BY <1>2 DEF ClearEntries, EmptyEntry
<1>3. ASSUME NEW c \in Callers, CommandStore(c), ~Pending(id) \/ Owner(id)' # Owner(id)
      PROVE  out[c].msg_id = id /\ Owner(id)' = out[c].body
  BY <1>3 DEF CommandStore
<1>4. CASE TxStamp
  <2>1. inflight_table'[id].user_data = inflight_table[id].user_data
    BY <1>4 DEF TxStamp, Stamped, Entries
  <2>2. inflight_table'[id].timestamp \in {inflight_table[id].timestamp, 0}
    BY <1>4 DEF TxStamp, Stamped, Entries
  <2> QED
    BY <2>1, <2>2 DEF SEND_PENDING
<1>5. CASE Tick
  <2>1. inflight_table'[id].user_data = inflight_table[id].user_data
    BY <1>5 DEF Tick, Entries
  <2>2. inflight_table[id].timestamp # -1 => inflight_table'[id].timestamp # -1
    BY <1>5 DEF Tick, Entries
  <2> QED
    BY <2>1, <2>2 DEF SEND_PENDING
<1>6. CASE WorkqueueStep
  BY <1>1, <1>2, <1>6
  DEF WorkqueueStep, DispatchResponse, DispatchTarget, DispatchDrop, CallbackReturn,
      Timeout, TimeoutSkipped, inflight
<1>7. ASSUME NEW c \in Callers, CallerStep(c), ~CommandStore(c)
      PROVE  UNCHANGED inflight_table
  BY <1>7 DEF CallerStep, FrameAlloc, FrameAllocFails, Enqueue, EnqueueFails, inflight
<1>8. ThreadStep /\ ~TxStamp => UNCHANGED inflight_table
  BY DEF ThreadStep, TxDequeue, TxEmpty, TxSend, RxDispatch, RxIdle, inflight
<1>9. ASSUME NEW c \in Callers, NEW q, NEW t, NEW f,
             CommandLock(c, q, t) \/ Send(c, f) \/ RegisterTarget(t) \/ UartIsr(f)
      PROVE  UNCHANGED inflight_table
  BY <1>9 DEF CommandLock, Send, RegisterTarget, UartIsr, Receive, ReceiveFull, inflight
<1>10. ASSUME NEW t, NEW f, RegisterTarget(t) \/ UartIsr(f) PROVE UNCHANGED inflight_table
  BY <1>10 DEF RegisterTarget, UartIsr, Receive, ReceiveFull, inflight
<1>11. IcmpInit \/ PhyInit \/ TimerIsr \/ UNCHANGED vars => UNCHANGED inflight_table
  BY DEF IcmpInit, PhyInit, TimerIsr, vars, inflight
<1> QED
  BY <1>1, <1>3, <1>4, <1>5, <1>6, <1>7, <1>8, <1>9, <1>10, <1>11 DEF Next

LEMMA CopyStep ==
    ASSUME IInv, WayInv, [Next]_vars, NEW c \in Callers, pc'[c] = "enqueue"
    PROVE  slab'[buf'[c]] = out'[c]
<1> USE DEF IInv, TypeOK
<1>1. CASE FrameAlloc(c)
  BY <1>1 DEF FrameAlloc, FreeBlocks
<1>2. CASE ~FrameAlloc(c)
  <2>1. pc[c] = "enqueue" /\ buf'[c] = buf[c] /\ out'[c] = out[c]
    <3>1. CASE ~Moves
      BY <3>1, OthersStill DEF Still
    <3>2. ASSUME NEW d \in Callers, NEW q, NEW t, NEW f,
                 CommandLock(d, q, t) \/ Send(d, f) \/ CallerStep(d)
          PROVE  pc[c] = "enqueue" /\ buf'[c] = buf[c] /\ out'[c] = out[c]
      BY <1>2, <3>2
      DEF CommandLock, Send, CallerStep, CommandStore, FrameAlloc, FrameAllocFails,
          Enqueue, EnqueueFails, ReturnError, Return
    <3>3. CASE TxDequeue \/ TxStamp
      BY <3>3 DEF TxDequeue, TxStamp, callers
    <3> QED
      BY <3>1, <3>2, <3>3 DEF Moves
  <2>2. buf[c] \in Held[c] /\ c \in Owners \ {"workqueue"} /\ c # "icmp_thread"
    BY <2>1, HeldFacts, OwnersFacts, NullAssumption DEF Locals
  <2> QED
    BY <2>1, <2>2, SlabStays DEF WayInv
<1> QED
  BY <1>1, <1>2

LEMMA WayStep ==
    ASSUME IInv, TableInv, WayInv, [Next]_vars
    PROVE  WayInv'
<1> SUFFICES ASSUME NEW id \in Ids, Pending(id)'
             PROVE  Owner(id)' \in failed' \/ Travels(id, Owner(id))'
  BY CopyStep DEF WayInv
<1>1. failed \subseteq failed'
  <2>1. Still => failed' = failed
    BY DEF Still
  <2>2. ASSUME NEW c \in Callers, NEW q, NEW t, NEW f,
               CommandLock(c, q, t) \/ Send(c, f) \/ CallerStep(c)
        PROVE  failed \subseteq failed'
    BY <2>2 DEF CommandLock, Send, CallerStep, CommandStore, FrameAlloc,
                FrameAllocFails, Enqueue, EnqueueFails, ReturnError
  <2>3. TxDequeue \/ TxStamp => failed' = failed
    BY DEF TxDequeue, TxStamp
  <2> QED
    BY <2>1, <2>2, <2>3, OthersStill DEF Moves
<1> PICK r : r = Owner(id)'
  OBVIOUS
<1>2. ASSUME Travels(id, r)' PROVE Travels(id, Owner(id))'
  BY <1>2 DEF Travels, AtCaller, InQueue, AtThread, Carries
<1>3. CASE Pending(id) /\ Owner(id)' = Owner(id)
  <2>1. r \in Reqs /\ r = Owner(id)
    BY <1>3 DEF Pending, Owner, IInv, TypeOK, Entries
  <2>2. Owner(id) \in failed \/ Travels(id, Owner(id))
    BY <1>3 DEF WayInv
  <2>3. CASE Owner(id) \in failed
    BY <1>1, <1>3, <2>3
  <2>4. CASE Travels(id, Owner(id))
    <3>1. Travels(id, r)
      BY <2>1, <2>4
    <3>2. inflight_table'[id].timestamp = SEND_PENDING
      BY DEF Pending
    <3> QED
      BY <1>2, <2>1, <3>1, <3>2, TravelStep
  <2> QED
    BY <2>2, <2>3, <2>4
<1>4. ASSUME NEW c \in Callers, CommandStore(c), out[c].msg_id = id, r = out[c].body
      PROVE  Travels(id, r)'
  <2>1. pc'[c] = "alloc" /\ out' = out /\ Carries(out[c], id, r)
    BY <1>4 DEF CommandStore, IInv, TypeOK, Locals, Carries
  <2> QED
    BY <2>1 DEF Travels, AtCaller, Carries
<1> QED
  BY <1>2, <1>3, <1>4, PendingStep

\* An entry that icmp_inflight_timeout_handler skips as "pending send" is that of a
\* command whose frame is still queued or on its way to the PHY, or of a command that
\* icmp_command reported as failed after it had entered it in the table.
THEOREM PendingIsQueued ==
    ASSUME ~BlockingCallbacks
    PROVE  Spec => []PendingUnlessFailed
<1>1. Init => WayInv
  BY DEF Init, WayInv, Pending, Owner, EmptyEntry
<1>2. IInv /\ TableInv /\ WayInv /\ [Next]_vars => WayInv'
  BY WayStep
<1>3. IInv /\ InStep /\ WayInv => PendingUnlessFailed
  BY TravelsOnItsWay
  DEF IInv, TypeOK, InStep, WayInv, PendingUnlessFailed, PendingEntries, Pending, Owner
<1> QED
  BY <1>1, <1>2, <1>3, TableInvariant, InStepInvariant, PTL DEF Spec

----------------------------------------------------------------------------
\* Refinement.

LEMMA CountIds ==
    /\ IsFiniteSet(Ids) /\ Cardinality(Ids) = MAX_INFLIGHT
    /\ MAX_INFLIGHT \in Nat
<1>1. MAX_INFLIGHT \in Nat \ {0} /\ 0 \in Int /\ MAX_INFLIGHT - 1 \in Int
  BY ConstantsAssumption
<1>2. IsFiniteSet(0 .. MAX_INFLIGHT - 1)
      /\ Cardinality(0 .. MAX_INFLIGHT - 1) = MAX_INFLIGHT - 1 - 0 + 1
  BY <1>1, FS_Interval
<1> QED
  BY <1>1, <1>2 DEF Ids

\* There is an entry for each command in flight, and one more: the id that is stored.
LEMMA RoomInTable ==
    ASSUME IInv, TableInv, NEW id \in Ids \ seen, inflight_bitmap \subseteq seen
    PROVE  Cardinality(Lifecycle!InFlight) < MAX_INFLIGHT
<1> USE DEF IInv, TypeOK, TableInv
<1> DEFINE F == Lifecycle!InFlight
           S == {j \in Ids : Owner(j) \in F}
           owner == [j \in S |-> Owner(j)]
<1>1. F = {r \in Reqs : fate[r] = "inflight"}
  BY DEF Lifecycle!InFlight
<1>2. IsFiniteSet(Ids) /\ Cardinality(Ids) = MAX_INFLIGHT /\ MAX_INFLIGHT \in Nat
  BY CountIds
<1>3. S \subseteq Ids \ {id}
  BY <1>1, NullAssumption DEF Entered
<1>4. IsFiniteSet(Ids \ {id}) /\ Cardinality(Ids \ {id}) = MAX_INFLIGHT - 1
  BY <1>2, FS_RemoveElement
<1>5. IsFiniteSet(S) /\ Cardinality(S) <= MAX_INFLIGHT - 1
  BY <1>3, <1>4, FS_Subset
<1>6. owner \in Surjection(S, F)
  BY <1>1 DEF Entered, Surjection
<1>7. IsFiniteSet(F) /\ Cardinality(F) <= Cardinality(S)
  BY <1>5, <1>6, FS_Surjection
<1>8. Cardinality(F) \in Nat /\ Cardinality(S) \in Nat
  BY <1>5, <1>7, FS_CardinalityType
<1> QED
  BY <1>2, <1>5, <1>7, <1>8

LEMMA StepLifecycle == IInv /\ TableInv /\ [Next]_vars => [Lifecycle!Next]_fate
<1> SUFFICES ASSUME IInv, TableInv, [Next]_vars PROVE [Lifecycle!Next]_fate
  OBVIOUS
<1>1. CASE ~Resolves
  BY <1>1, ApartTable
<1>2. ASSUME NEW c \in Callers, CommandStore(c) PROVE [Lifecycle!Next]_fate
  <2> PICK id, r : id = out[c].msg_id /\ r = out[c].body
    OBVIOUS
  <2>1. /\ id \in Ids \ seen /\ inflight_bitmap \subseteq seen
        /\ r \in Reqs /\ fate[r] = "unused"
        /\ fate' = [fate EXCEPT ![r] = "inflight"]
    BY <1>2, StoreFacts
  <2>2. Cardinality(Lifecycle!InFlight) < MAX_INFLIGHT
    BY <2>1, RoomInTable DEF Lifecycle!InFlight
  <2>3. Lifecycle!Cardinality(Lifecycle!InFlight) < MAX_INFLIGHT
    BY <2>2 DEF Cardinality, IsFiniteSet, Lifecycle!Cardinality, Lifecycle!IsFiniteSet
  <2>4. Lifecycle!Accept(r)
    BY <2>1, <2>3 DEF Lifecycle!Accept, Lifecycle!InFlight
  <2> QED
    BY <2>1, <2>4 DEF Lifecycle!Next
<1>3. CASE DispatchResponse
  <2> DEFINE r == Owner(slab[work_ctx.frame].msg_id)
  <2>1. r \in Reqs /\ fate[r] = "inflight" /\ fate' = [fate EXCEPT ![r] = "answered"]
    BY <1>3, DispatchResponseFacts
  <2> HIDE DEF r
  <2> QED
    BY <2>1 DEF Lifecycle!Next, Lifecycle!Answer
<1>4. CASE DispatchTarget
  BY <1>4 DEF DispatchTarget
<1>5. CASE Timeout
  <2>1. Dropped \in SUBSET Reqs
    BY DEF Dropped
  <2>2. Lifecycle!Expire(Dropped)
    BY <1>5, <2>1, TimeoutFacts DEF Lifecycle!Expire, Lifecycle!InFlight
  <2> QED
    BY <2>1, <2>2 DEF Lifecycle!Next
<1> QED
  BY <1>1, <1>2, <1>3, <1>4, <1>5, LockTable, ReturnTable DEF Resolves

\* icmp_command, response callbacks and the scan of the table give every command the
\* life that CommandLifecycle promises its issuer, sleeping callbacks included: it is
\* answered or dropped at most once, never both, and at most ICMP_MAX_INFLIGHT_MSGS are
\* in flight.
THEOREM ImplementsLifecycle == Spec => CommandLifecycle
<1>1. Init => Lifecycle!Init
  BY DEF Init, Lifecycle!Init
<1> QED
  BY <1>1, StepLifecycle, TableInvariant, PTL DEF Spec, CommandLifecycle, Lifecycle!Spec

\* What the lifecycle comes to.
Bounded ==
    /\ IsFiniteSet(Lifecycle!InFlight)
    /\ Cardinality(Lifecycle!InFlight) <= MAX_INFLIGHT

\* However many commands are issued, dropped and answered late, no more are in flight
\* than the table has entries, although a sleeping callback may change the bitmap while
\* icmp_command is between its reading and its store.
THEOREM InflightIsBounded == Spec => []Bounded
<1>1. ASSUME IInv, TableInv PROVE Bounded
  <2> USE <1>1 DEF IInv, TypeOK, TableInv
  <2> DEFINE F == Lifecycle!InFlight
             S == {j \in Ids : Owner(j) \in F}
             owner == [j \in S |-> Owner(j)]
  <2>1. F = {r \in Reqs : fate[r] = "inflight"}
    BY DEF Lifecycle!InFlight
  <2>2. IsFiniteSet(S) /\ Cardinality(S) <= MAX_INFLIGHT
    BY CountIds, FS_Subset, S \subseteq Ids
  <2>3. owner \in Surjection(S, F)
    BY <2>1 DEF Entered, Surjection
  <2>4. IsFiniteSet(F) /\ Cardinality(F) <= Cardinality(S)
    BY <2>2, <2>3, FS_Surjection
  <2>5. Cardinality(F) \in Nat /\ Cardinality(S) \in Nat /\ MAX_INFLIGHT \in Nat
    BY <2>2, <2>4, FS_CardinalityType, CountIds
  <2> QED
    BY <2>2, <2>4, <2>5 DEF Bounded
<1> QED
  BY <1>1, TableInvariant, PTL

\* What has become of a command stays so.
OutcomesStay ==
    [][\A r \in Reqs : fate[r] \in {"answered", "dropped"} => fate'[r] = fate[r]]_vars

LEMMA FinalStep ==
    ASSUME IInv, TableInv, [Next]_vars, NEW r \in Reqs, fate[r] \in {"answered", "dropped"}
    PROVE  fate'[r] = fate[r]
<1>1. CASE UNCHANGED fate
  BY <1>1
<1>2. ASSUME NEW q \in Reqs, Lifecycle!Accept(q) \/ Lifecycle!Answer(q)
      PROVE  fate'[r] = fate[r]
  BY <1>2 DEF Lifecycle!Accept, Lifecycle!Answer, IInv, TypeOK
<1>3. ASSUME NEW S \in SUBSET Reqs, Lifecycle!Expire(S)
      PROVE  fate'[r] = fate[r]
  BY <1>3 DEF Lifecycle!Expire, Lifecycle!InFlight
<1> QED
  BY StepLifecycle, <1>1, <1>2, <1>3 DEF Lifecycle!Next

\* A command that was answered is not dropped or answered again, and no response brings
\* back one that was dropped, whatever the peer repeats or sends late.
THEOREM OutcomesAreFinal == Spec => OutcomesStay
<1>1. IInv /\ TableInv /\ [Next]_vars =>
        [\A r \in Reqs : fate[r] \in {"answered", "dropped"} => fate'[r] = fate[r]]_vars
  BY FinalStep
<1> QED
  BY <1>1, TableInvariant, PTL DEF Spec, OutcomesStay

----------------------------------------------------------------------------
\* Which responses reach which callbacks.

\* A frame of a command that is in flight bears the id of the command's entry.
Bound(f) ==
    f.body # NULL =>
        /\ f.msg_id \in Ids
        /\ fate[f.body] # "unused"
        /\ fate[f.body] = "inflight" => Owner(f.msg_id) = f.body

BoundInv ==
    /\ \A c \in Callers : pc[c] \in {"alloc", "enqueue"} => Bound(out[c])
    /\ \A b \in Blocks : slab[b] # NULL => Bound(slab[b])
    /\ \A p \in peer : Bound(p)
    /\ \A r \in Reqs : fate[r] # "misfired"

\* The blocks on their way to the PHY, and those that came from it.
Outbound == ({buf[c] : c \in Callers} \cup {tx_frame} \cup Elements(tx_queue)) \ {NULL}
Inbound == Elements(rx_queue) \cup (IF work_ctx = NULL THEN {} ELSE {work_ctx.frame})

\* Commands that go out and responses that come in belong to a command of this core.
OriginInv ==
    /\ \A c \in Callers :
        pc[c] \in {"alloc", "enqueue"} /\ out[c].type = "COMMAND" => out[c].body # NULL
    /\ \A b \in Outbound : slab[b].type = "COMMAND" => slab[b].body # NULL
    /\ \A b \in Inbound : slab[b].type = "RESPONSE" => slab[b].body # NULL
    /\ \A p \in peer : p.body # NULL

\* What the UART may bring.
Incoming == PeerFrames \cup {Answer(p, t) : p \in peer, t \in Targets}

\* No step that resolves a command parts its frames from its entry.
LEMMA BoundStays ==
    ASSUME IInv, TableInv, [Next]_vars, NEW f \in Frames, Bound(f)
    PROVE  Bound(f)'
<1> USE DEF IInv, TypeOK, TableInv
<1> SUFFICES ASSUME NEW r, r = f.body, r # NULL, NEW id, id = f.msg_id
             PROVE  fate'[r] # "unused" /\ (fate'[r] = "inflight" => Owner(id)' = r)
  BY DEF Bound
<1>1. /\ r \in Reqs /\ id \in Ids
      /\ fate[r] # "unused" /\ (fate[r] = "inflight" => Owner(id) = r)
  BY DEF Bound, Frames
<1>2. CASE ~Resolves
  BY <1>1, <1>2, OthersApart DEF Apart
<1>3. ASSUME NEW c \in Callers, NEW q \in Reqs, NEW t \in Targets, CommandLock(c, q, t)
      PROVE  fate'[r] # "unused" /\ (fate'[r] = "inflight" => Owner(id)' = r)
  BY <1>1, <1>3 DEF CommandLock, Owner
<1>4. ASSUME NEW c \in Callers, CommandStore(c)
      PROVE  fate'[r] # "unused" /\ (fate'[r] = "inflight" => Owner(id)' = r)
  <2> PICK j, q : j = out[c].msg_id /\ q = out[c].body
    OBVIOUS
  <2>1. /\ q \in Reqs /\ fate[q] = "unused" /\ fate' = [fate EXCEPT ![q] = "inflight"]
        /\ Owner(j) = NULL /\ \A i \in Ids : i # j => Owner(i)' = Owner(i)
    BY <1>4, StoreFacts
  <2> QED
    BY <1>1, <2>1
<1>5. CASE DispatchResponse
  <2> PICK j : j = slab[work_ctx.frame].msg_id
    OBVIOUS
  <2>1. Owner(j) \in Reqs /\ fate' = [fate EXCEPT ![Owner(j)] = "answered"]
    BY <1>5, DispatchResponseFacts
  <2>2. Owner(id)' = Owner(id)
    BY <1>5 DEF DispatchResponse, inflight, Owner
  <2> QED
    BY <1>1, <2>1, <2>2
<1>6. CASE DispatchTarget
  BY <1>1, <1>6 DEF DispatchTarget, inflight, Owner
<1>7. CASE CallbackReturn
  <2> PICK j : j = slab[work_ctx.frame].msg_id
    OBVIOUS
  <2>1. fate' = fate
    BY <1>7 DEF CallbackReturn
  <2>2. CASE InCallback
    <3>1. ClearEntries({j}) /\ fate[Owner(j)] = "answered"
      BY <1>7, <2>2 DEF CallbackReturn, InCallback, Entered
    <3>2. id # j => Owner(id)' = Owner(id)
      BY <1>1, <3>1 DEF ClearEntries, Owner
    <3> QED
      BY <1>1, <2>1, <3>1, <3>2
  <2>3. CASE ~InCallback
    BY <1>1, <1>7, <2>1, <2>3 DEF CallbackReturn, InCallback, Owner
  <2> QED
    BY <2>2, <2>3
<1>8. CASE Timeout
  <2>1. fate' = [q \in Reqs |-> IF q \in Dropped THEN "dropped" ELSE fate[q]]
    BY <1>8, TimeoutFacts
  <2>2. \A i \in Ids : i \notin Expired => Owner(i)' = Owner(i)
    BY <1>8 DEF Timeout, Expired, ClearEntries, Owner
  <2>3. \A q \in Reqs, i \in Expired : Owner(i) = q => q \in Dropped
    BY DEF Dropped
  <2> QED
    BY <1>1, <2>1, <2>2, <2>3
<1> QED
  BY <1>2, <1>3, <1>4, <1>5, <1>6, <1>7, <1>8 DEF Resolves

\* What a caller holds is what it was given, or the command it has just stored.
LEMMA CallerFrames ==
    ASSUME IInv, [Next]_vars, NEW c \in Callers, pc'[c] \in {"alloc", "enqueue"}
    PROVE  \/ pc[c] \in {"alloc", "enqueue"} /\ out'[c] = out[c]
           \/ CommandStore(c) /\ out' = out
           \/ out'[c] \in AppFrames
<1> USE DEF IInv, TypeOK
<1>1. ASSUME NEW d \in Callers, NEW r \in Reqs, NEW t \in Targets, CommandLock(d, r, t)
      PROVE  pc[c] \in {"alloc", "enqueue"} /\ out'[c] = out[c]
  BY <1>1 DEF CommandLock
<1>2. ASSUME NEW d \in Callers, NEW f \in AppFrames, Send(d, f)
      PROVE  \/ pc[c] \in {"alloc", "enqueue"} /\ out'[c] = out[c]
             \/ out'[c] \in AppFrames
  BY <1>2 DEF Send
<1>3. ASSUME NEW d \in Callers, CommandStore(d)
      PROVE  \/ pc[c] \in {"alloc", "enqueue"} /\ out'[c] = out[c]
             \/ CommandStore(c) /\ out' = out
  BY <1>3 DEF CommandStore
<1>4. ASSUME NEW d \in Callers, FrameAlloc(d)
      PROVE  pc[c] \in {"alloc", "enqueue"} /\ out'[c] = out[c]
  BY <1>4 DEF FrameAlloc
<1>5. ASSUME NEW d \in Callers, FrameAllocFails(d) \/ Enqueue(d) \/ EnqueueFails(d)
      PROVE  pc[c] \in {"alloc", "enqueue"} /\ out'[c] = out[c]
  BY <1>5 DEF FrameAllocFails, Enqueue, EnqueueFails, ReturnError, Return
<1>6. \/ \E t \in Targets : RegisterTarget(t)
      \/ IcmpInit \/ PhyInit \/ ThreadStep \/ WorkqueueStep \/ TimerIsr \/ Tick
      \/ \E f : UartIsr(f)
      \/ UNCHANGED vars
      => UNCHANGED <<pc, out>>
  BY DEF RegisterTarget, IcmpInit, PhyInit, ThreadStep, TxDequeue, TxEmpty, TxStamp, TxSend,
         RxDispatch, RxIdle, WorkqueueStep, DispatchResponse, DispatchTarget, DispatchDrop,
         CallbackReturn, Timeout, TimeoutSkipped, TimerIsr, Tick, UartIsr, Receive,
         ReceiveFull, vars, callers
<1> QED
  BY <1>1, <1>2, <1>3, <1>4, <1>5, <1>6 DEF Next, CallerStep

\* What a block newly holds.
LEMMA SlabOrigin ==
    ASSUME IInv, [Next]_vars, NEW b \in Blocks, slab'[b] # slab[b], slab'[b] # NULL
    PROVE  /\ slab[b] = NULL
           /\ \/ \E c \in Callers : FrameAlloc(c) /\ slab'[b] = out[c]
              \/ \E f \in Incoming : UartIsr(f) /\ slab'[b] = f
<1> USE DEF IInv, TypeOK
<1>1. \A f, x : x \in FreeBlocks /\ slab' = [slab EXCEPT ![x] = f]
        => slab[b] = NULL /\ slab'[b] = f
  BY DEF FreeBlocks
<1>2. \A x : slab' # Freed(x)
  BY DEF Freed
<1>3. ASSUME NEW c \in Callers, CallerStep(c)
      PROVE  FrameAlloc(c) /\ slab[b] = NULL /\ slab'[b] = out[c]
  BY <1>1, <1>3
  DEF CallerStep, CommandStore, FrameAlloc, FrameAllocFails, Enqueue, EnqueueFails
<1>4. ASSUME NEW f, UartIsr(f) PROVE slab[b] = NULL /\ slab'[b] = f
  BY <1>1, <1>4 DEF UartIsr, Receive, ReceiveFull
<1>5. ~WorkqueueStep
  BY <1>2
  DEF WorkqueueStep, DispatchResponse, DispatchTarget, DispatchDrop, CallbackReturn,
      ReleaseContext, Timeout, TimeoutSkipped
<1>6. ~ThreadStep
  BY <1>2 DEF ThreadStep, TxDequeue, TxEmpty, TxStamp, TxSend, RxDispatch, RxIdle
<1>7. \A c, r, t, f : ~CommandLock(c, r, t) /\ ~Send(c, f)
  BY DEF CommandLock, Send
<1>8. \A t : ~RegisterTarget(t)
  BY DEF RegisterTarget
<1>9. ~(IcmpInit \/ PhyInit \/ TimerIsr \/ Tick \/ UNCHANGED vars)
  BY DEF IcmpInit, PhyInit, TimerIsr, Tick, vars
<1>10. PeerFrames \subseteq Incoming /\ \A p \in peer, t \in Targets : Answer(p, t) \in Incoming
  BY DEF Incoming
<1> HIDE DEF IInv, TypeOK
<1>11. (\E c \in Callers : CallerStep(c)) \/ (\E f \in Incoming : UartIsr(f))
  BY <1>5, <1>6, <1>7, <1>8, <1>9, <1>10, Zenon DEF Next
<1> QED
  BY <1>3, <1>4, <1>11
LEMMA PeerGrows ==
    ASSUME IInv, [Next]_vars, NEW p \in peer', p \notin peer
    PROVE  /\ tx_frame \in Outbound /\ p = slab[tx_frame] /\ p.type = "COMMAND"
           /\ p \in Frames
<1>1. TxSend /\ p = slab[tx_frame] /\ p.type = "COMMAND"
  BY DEF Next, RegisterTarget, IcmpInit, CommandLock, Send, CallerStep, CommandStore,
         FrameAlloc, FrameAllocFails, Enqueue, EnqueueFails, PhyInit, ThreadStep, TxDequeue,
         TxEmpty, TxStamp, TxSend, RxDispatch, RxIdle, WorkqueueStep, DispatchResponse,
         DispatchTarget, DispatchDrop, CallbackReturn, Timeout, TimeoutSkipped, TimerIsr,
         Tick, UartIsr, Receive, ReceiveFull, vars
<1>2. tx_frame # NULL
  BY <1>1 DEF TxSend, IInv, Locals
<1> QED
  BY <1>1, <1>2, HeldFrames DEF Outbound

LEMMA BoundStep ==
    ASSUME IInv, TableInv, BoundInv, [Next]_vars
    PROVE  BoundInv'
<1> USE DEF IInv, TypeOK, BoundInv
<1>1. \A f \in Frames : Bound(f) => Bound(f)'
  BY BoundStays
<1>2. \A f \in AppFrames \cup PeerFrames : Bound(f)'
  BY FramesAssumption DEF Bound
<1>3. ASSUME NEW c \in Callers, pc'[c] \in {"alloc", "enqueue"}
      PROVE  Bound(out[c])'
  <2>1. CASE pc[c] \in {"alloc", "enqueue"} /\ out'[c] = out[c]
    <3> PICK f : f = out[c]
      OBVIOUS
    <3>1. f \in Frames /\ Bound(f) /\ out'[c] = f
      BY <2>1 DEF Locals
    <3>2. Bound(f)'
      BY <1>1, <3>1
    <3> QED
      BY <3>1, <3>2 DEF Bound
  <2>2. CASE CommandStore(c) /\ out' = out
    <3> PICK id, r : id = out[c].msg_id /\ r = out[c].body
      OBVIOUS
    <3>1. id \in Ids /\ r \in Reqs /\ Owner(id)' = r
          /\ fate' = [fate EXCEPT ![r] = "inflight"]
      BY <2>2, StoreFacts
    <3> QED
      BY <2>2, <3>1 DEF Bound
  <2>3. CASE out'[c] \in AppFrames
    BY <1>2, <2>3 DEF Bound
  <2> QED
    BY <1>3, <2>1, <2>2, <2>3, CallerFrames
<1>4. ASSUME NEW b \in Blocks, slab'[b] # NULL PROVE Bound(slab[b])'
  <2> PICK f : f = slab'[b]
    OBVIOUS
  <2>1. CASE slab'[b] = slab[b]
    <3>1. f \in Frames /\ Bound(f)
      BY <1>4, <2>1
    <3>2. Bound(f)'
      BY <1>1, <3>1
    <3> QED
      BY <3>2 DEF Bound
  <2>2. ASSUME NEW c \in Callers, FrameAlloc(c), slab'[b] = out[c]
        PROVE  Bound(slab[b])'
    <3>1. f \in Frames /\ Bound(f)
      BY <2>2 DEF FrameAlloc, Locals
    <3>2. Bound(f)'
      BY <1>1, <3>1
    <3> QED
      BY <3>2 DEF Bound
  <2>3. ASSUME f \in Incoming PROVE Bound(slab[b])'
    <3>1. CASE f \in PeerFrames
      BY <1>2, <3>1 DEF Bound
    <3>2. ASSUME NEW p \in peer, NEW t \in Targets, f = Answer(p, t)
          PROVE  Bound(slab[b])'
      <4>1. p \in Frames /\ Bound(p) /\ f.body = p.body /\ f.msg_id = p.msg_id
        BY <3>2 DEF Answer, Frames
      <4>2. Bound(p)'
        BY <1>1, <4>1
      <4> QED
        BY <4>1, <4>2 DEF Bound
    <3> QED
      BY <2>3, <3>1, <3>2 DEF Incoming
  <2> QED
    BY <1>4, <2>1, <2>2, <2>3, SlabOrigin
<1>5. ASSUME NEW p \in peer' PROVE Bound(p)'
  <2>1. CASE p \notin peer
    <3>1. tx_frame \in Outbound /\ p = slab[tx_frame] /\ p \in Frames
      BY <2>1, PeerGrows
    <3>2. tx_frame \in Blocks
      BY <3>1, NullAssumption DEF Outbound
    <3> QED
      BY <1>1, <3>1, <3>2, NullAssumption
  <2> QED
    BY <1>1, <2>1
<1>6. ASSUME NEW r \in Reqs PROVE fate'[r] # "misfired"
  <2>1. CASE UNCHANGED fate
    BY <2>1
  <2>2. ASSUME NEW q \in Reqs, Lifecycle!Accept(q) \/ Lifecycle!Answer(q)
        PROVE  fate'[r] # "misfired"
    BY <2>2 DEF Lifecycle!Accept, Lifecycle!Answer
  <2>3. ASSUME NEW S \in SUBSET Reqs, Lifecycle!Expire(S)
        PROVE  fate'[r] # "misfired"
    BY <2>3 DEF Lifecycle!Expire, Lifecycle!InFlight
  <2> QED
    BY StepLifecycle, <2>1, <2>2, <2>3 DEF Lifecycle!Next
<1> QED
  BY <1>3, <1>4, <1>5, <1>6

----------------------------------------------------------------------------
\* Where frames come from.

LEMMA PathsHeld ==
    IInv => \A b \in Outbound \cup Inbound : b \in Blocks /\ slab[b] \in Frames
<1> SUFFICES ASSUME IInv, NEW b \in Outbound \cup Inbound
             PROVE  b \in Blocks /\ slab[b] \in Frames
  OBVIOUS
<1>1. slab[b] \in Frames
  BY HeldFrames DEF Outbound, Inbound
<1>2. Elements(tx_queue) \subseteq Blocks /\ Elements(rx_queue) \subseteq Blocks
  BY ElementsType DEF IInv, TypeOK
<1>3. b \in Blocks
  BY <1>2 DEF Outbound, Inbound, IInv, TypeOK, Contexts
<1> QED
  BY <1>1, <1>3

\* The same of the next state.
LEMMA PathsStayHeld ==
    (IInv => \A b \in Outbound \cup Inbound : b \in Blocks /\ slab[b] \in Frames)'
BY PathsHeld, PTL

\* A block of either path keeps its frame.
LEMMA PathKeepsFrame ==
    ASSUME IInv, [Next]_vars, NEW b \in Outbound \cup Inbound, b \in (Outbound \cup Inbound)'
    PROVE  slab'[b] = slab[b]
<1>1. IInv'
  BY IInvStep
<1>2. b \in Blocks /\ slab[b] # NULL /\ slab'[b] # NULL
  BY <1>1, PathsHeld, PathsStayHeld, NullAssumption
<1> QED
  BY <1>2, SlabOrigin

LEMMA OutboundGrows ==
    ASSUME IInv, [Next]_vars, NEW b \in Outbound'
    PROVE  b \in Outbound \/ \E c \in Callers : FrameAlloc(c) /\ slab'[b] = out[c]
<1> USE DEF IInv, TypeOK
<1>1. ASSUME NEW c \in Callers, FrameAlloc(c), b \notin Outbound
      PROVE  slab'[b] = out[c]
  BY <1>1 DEF FrameAlloc, FreeBlocks, Outbound, queues, thread
<1>2. ASSUME NEW c \in Callers, FrameAllocFails(c) PROVE b \in Outbound
  BY <1>2 DEF FrameAllocFails, ReturnError, Return, Outbound, queues, thread
<1>3. ASSUME NEW c \in Callers, Enqueue(c) PROVE b \in Outbound
  <2>1. buf[c] \in Blocks
    BY <1>3 DEF Enqueue, Locals
  <2>2. Elements(tx_queue)' = Elements(tx_queue) \cup {buf[c]}
    BY <1>3, <2>1, AppendFacts DEF Enqueue
  <2> QED
    BY <1>3, <2>1, <2>2, NullAssumption DEF Enqueue, Return, Outbound, thread
<1>4. ASSUME NEW c \in Callers, EnqueueFails(c) PROVE b \in Outbound
  BY <1>4 DEF EnqueueFails, ReturnError, Return, Outbound, queues, thread
<1>5. CASE TxDequeue
  <2>1. Elements(tx_queue) = {Head(tx_queue)} \cup Elements(tx_queue)'
    BY <1>5, TailFacts DEF TxDequeue
  <2> QED
    BY <1>5, <2>1 DEF TxDequeue, Outbound, callers
<1>6. CASE TxSend
  BY <1>6 DEF TxSend, Outbound, callers, queues
<1>7. UNCHANGED <<buf, tx_queue, tx_frame>> => b \in Outbound
  BY DEF Outbound
<1>8. \/ \E t \in Targets : RegisterTarget(t)
      \/ IcmpInit \/ PhyInit \/ TimerIsr \/ Tick \/ UNCHANGED vars
      \/ \E c \in Callers, r \in Reqs, t \in Targets : CommandLock(c, r, t)
      \/ \E c \in Callers, f \in AppFrames : Send(c, f)
      \/ \E c \in Callers : CommandStore(c)
      => UNCHANGED <<buf, tx_queue, tx_frame>>
  BY DEF RegisterTarget, IcmpInit, PhyInit, TimerIsr, Tick, vars, CommandLock, Send,
         CommandStore, callers, queues, thread
<1>9. \/ TxEmpty \/ TxStamp \/ RxDispatch \/ RxIdle \/ WorkqueueStep
      \/ \E f : UartIsr(f)
      => UNCHANGED <<buf, tx_queue, tx_frame>>
  BY DEF TxEmpty, TxStamp, RxDispatch, RxIdle, WorkqueueStep, DispatchResponse,
         DispatchTarget, DispatchDrop, CallbackReturn, Timeout, TimeoutSkipped, UartIsr,
         Receive, ReceiveFull, callers, queues, thread
<1> QED
  BY <1>1, <1>2, <1>3, <1>4, <1>5, <1>6, <1>7, <1>8, <1>9 DEF Next, CallerStep, ThreadStep

LEMMA InboundGrows ==
    ASSUME IInv, [Next]_vars, NEW b \in Inbound'
    PROVE  b \in Inbound \/ slab'[b] \in Incoming
<1> USE DEF IInv, TypeOK
<1>1. PeerFrames \subseteq Incoming /\ \A p \in peer, t \in Targets : Answer(p, t) \in Incoming
  BY DEF Incoming
<1>2. ASSUME NEW f, Receive(f) PROVE b \in Inbound \/ slab'[b] = f
  <2>1. PICK x \in Blocks : /\ slab[x] = NULL /\ slab' = [slab EXCEPT ![x] = f]
                            /\ rx_queue' = Append(rx_queue, x)
    BY <1>2 DEF Receive, FreeBlocks
  <2>2. Elements(rx_queue)' = Elements(rx_queue) \cup {x}
    BY <2>1, AppendFacts
  <2> QED
    BY <1>2, <2>1, <2>2 DEF Receive, Inbound, work
<1>3. CASE RxDispatch
  <2>1. Elements(rx_queue) = {Head(rx_queue)} \cup Elements(rx_queue)'
    BY <1>3, TailFacts DEF RxDispatch
  <2>2. work_ctx'.frame = Head(rx_queue)
    BY <1>3, DispatchContext
  <2> QED
    BY <2>1, <2>2 DEF Inbound
<1>4. ASSUME DispatchDrop \/ CallbackReturn PROVE b \in Inbound
  BY <1>4 DEF DispatchDrop, CallbackReturn, ReleaseContext, Inbound, queues
<1>5. UNCHANGED <<rx_queue, work_ctx>> => b \in Inbound
  BY DEF Inbound
<1>6. \A f : ReceiveFull(f) => UNCHANGED <<rx_queue, work_ctx>>
  BY DEF ReceiveFull, queues, work
<1>7. \/ \E t \in Targets : RegisterTarget(t)
      \/ IcmpInit \/ PhyInit \/ TimerIsr \/ Tick \/ UNCHANGED vars
      \/ \E c \in Callers, r \in Reqs, t \in Targets : CommandLock(c, r, t)
      \/ \E c \in Callers, f \in AppFrames : Send(c, f)
      \/ \E c \in Callers : CallerStep(c)
      => UNCHANGED <<rx_queue, work_ctx>>
  BY DEF RegisterTarget, IcmpInit, PhyInit, TimerIsr, Tick, vars, CommandLock, Send,
         CallerStep, CommandStore, FrameAlloc, FrameAllocFails, Enqueue, EnqueueFails,
         queues, work
<1>8. \/ TxDequeue \/ TxEmpty \/ TxStamp \/ TxSend \/ RxIdle
      \/ DispatchResponse \/ DispatchTarget \/ Timeout \/ TimeoutSkipped
      => UNCHANGED <<rx_queue, work_ctx>>
  BY DEF TxDequeue, TxEmpty, TxStamp, TxSend, RxIdle, DispatchResponse,
         DispatchTarget, Timeout, TimeoutSkipped, queues, work
<1> HIDE DEF IInv, TypeOK
<1>9. \/ UNCHANGED <<rx_queue, work_ctx>>
      \/ \E f \in Incoming : Receive(f)
      \/ RxDispatch \/ DispatchDrop \/ CallbackReturn
  BY <1>1, <1>6, <1>7, <1>8, Zenon DEF Next, ThreadStep, WorkqueueStep, UartIsr
<1> QED
  BY <1>2, <1>3, <1>4, <1>5, <1>9

LEMMA OriginStep ==
    ASSUME IInv, OriginInv, [Next]_vars
    PROVE  OriginInv'
<1> USE DEF OriginInv
<1>1. ASSUME NEW c \in Callers, pc'[c] \in {"alloc", "enqueue"}, out'[c].type = "COMMAND"
      PROVE  out'[c].body # NULL
  <2>1. CASE CommandStore(c) /\ out' = out
    BY <2>1, NullAssumption DEF CommandStore, IInv, Locals
  <2>2. out'[c] \notin AppFrames
    BY <1>1, FramesAssumption
  <2> QED
    BY <1>1, <2>1, <2>2, CallerFrames
<1>2. ASSUME NEW b \in Outbound', slab'[b].type = "COMMAND" PROVE slab'[b].body # NULL
  <2>1. CASE b \in Outbound
    BY <1>2, <2>1, PathKeepsFrame
  <2>2. ASSUME NEW c \in Callers, FrameAlloc(c), slab'[b] = out[c]
        PROVE  slab'[b].body # NULL
    BY <1>2, <2>2 DEF FrameAlloc
  <2> QED
    BY <2>1, <2>2, OutboundGrows
<1>3. ASSUME NEW b \in Inbound', slab'[b].type = "RESPONSE" PROVE slab'[b].body # NULL
  <2>1. CASE b \in Inbound
    BY <1>3, <2>1, PathKeepsFrame
  <2>2. slab'[b] \notin PeerFrames
    BY <1>3, FramesAssumption
  <2>3. \A p \in peer, t \in Targets : slab'[b] = Answer(p, t) => slab'[b].body # NULL
    BY DEF Answer, IInv, TypeOK, Frames
  <2> QED
    BY <2>1, <2>2, <2>3, InboundGrows DEF Incoming
<1>4. ASSUME NEW p \in peer' PROVE p.body # NULL
  BY PeerGrows
<1> QED
  BY <1>1, <1>2, <1>3, <1>4

LEMMA MismatchStep ==
    ASSUME IInv, TableInv, BoundInv, OriginInv, MismatchIsLate, [Next]_vars
    PROVE  MismatchIsLate'
<1> SUFFICES ASSUME running' # NULL, running'.callback = "response",
                    NEW q, q = (slab[work_ctx.frame].body)'
             PROVE  q = running'.user_data
                    \/ (q \in Reqs /\ fate'[q] \in {"answered", "dropped"})
  BY DEF MismatchIsLate
<1>1. CASE running # NULL
  <2>1. /\ running' = running /\ slab'[work_ctx'.frame] = slab[work_ctx.frame]
    BY <1>1, ContextStays DEF CallbackReturn
  <2>2. q = running.user_data \/ (q \in Reqs /\ fate[q] \in {"answered", "dropped"})
    BY <1>1, <2>1 DEF MismatchIsLate
  <2> QED
    BY <2>1, <2>2, FinalStep
<1>2. CASE running = NULL
  <2> PICK f : f = slab[work_ctx.frame]
    OBVIOUS
  <2>1. DispatchResponse
    <3>1. ~DispatchTarget /\ ~CallbackReturn
      BY DEF DispatchTarget, CallbackReturn
    <3>2. \/ \E t \in Targets : RegisterTarget(t)
          \/ IcmpInit \/ PhyInit \/ TimerIsr \/ Tick \/ UNCHANGED vars
          \/ \E c \in Callers, r \in Reqs, t \in Targets : CommandLock(c, r, t)
          \/ \E c \in Callers, h \in AppFrames : Send(c, h)
          \/ \E c \in Callers : CallerStep(c)
          => UNCHANGED running
      BY DEF RegisterTarget, IcmpInit, PhyInit, TimerIsr, Tick, vars, CommandLock, Send,
             CallerStep, CommandStore, FrameAlloc, FrameAllocFails, Enqueue, EnqueueFails,
             work
    <3>3. \/ ThreadStep \/ DispatchDrop \/ Timeout \/ TimeoutSkipped
          \/ \E h : UartIsr(h)
          => UNCHANGED running
      BY DEF ThreadStep, TxDequeue, TxEmpty, TxStamp, TxSend, RxDispatch, RxIdle,
             DispatchDrop, Timeout, TimeoutSkipped, UartIsr, Receive, ReceiveFull, work
    <3> QED
      BY <1>2, <3>1, <3>2, <3>3 DEF Next, WorkqueueStep
  <2>2. /\ work_ctx # NULL /\ work_ctx.frame \in Blocks /\ f \in Frames
    BY <2>1, ContextHeld DEF DispatchResponse, Runs
  <2>3. f.type = "RESPONSE" /\ running'.user_data = Owner(f.msg_id) /\ q = f.body
    BY <2>1 DEF DispatchResponse, HasResponseCallback, Owner
  <2>4. q # NULL
    BY <2>2, <2>3 DEF OriginInv, Inbound
  <2>5. Bound(f)
    BY <2>2, NullAssumption DEF BoundInv
  <2>6. q \in Reqs /\ fate[q] # "unused" /\ fate[q] # "misfired"
        /\ (fate[q] = "inflight" => q = running'.user_data)
    BY <2>2, <2>3, <2>4, <2>5 DEF Bound, BoundInv, Frames
  <2>7. fate[q] \in {"inflight", "answered", "dropped"}
    BY <2>6 DEF IInv, TypeOK
  <2> QED
    BY <2>6, <2>7, FinalStep
<1> QED
  BY <1>1, <1>2

\* A response callback is called with the response to its own command or with one to a
\* command that was answered or dropped before: as long as a command is in flight, no
\* other command is given its response, whatever the peer repeats or delays and although
\* callbacks that sleep spoil the bitmap from which ids are allocated.
THEOREM MismatchesAreLate == Spec => []MismatchIsLate
<1>1. Init => BoundInv /\ OriginInv /\ MismatchIsLate
  <2> SUFFICES ASSUME Init PROVE BoundInv /\ OriginInv /\ MismatchIsLate
    OBVIOUS
  <2>1. BoundInv /\ MismatchIsLate
    BY DEF Init, BoundInv, MismatchIsLate
  <2>2. Outbound = {} /\ Inbound = {}
    BY DEF Init, Outbound, Inbound, Elements
  <2> QED
    BY <2>1, <2>2 DEF Init, OriginInv
<1>2. IInv /\ TableInv /\ BoundInv /\ OriginInv /\ MismatchIsLate /\ [Next]_vars
        => BoundInv' /\ OriginInv' /\ MismatchIsLate'
  BY BoundStep, OriginStep, MismatchStep
<1> QED
  BY <1>1, <1>2, TableInvariant, PTL DEF Spec
=============================================================================
