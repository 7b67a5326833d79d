--------------------------- MODULE CellularProofs ---------------------------
(***************************************************************************)
(* Theorems about Cellular, for any starters, senders and packets: type    *)
(* correctness and the room in the uplink queue; for one starter that      *)
(* waits for the end of the thread before it starts it again, the          *)
(* ownership of packets, the exclusive use of the thread object and the    *)
(* refinement of Uplink; and, if the thread cannot preempt that starter,   *)
(* the agreement of the state with the thread.                             *)
(***************************************************************************)
EXTENDS Cellular, FiniteSetTheorems, SequenceTheorems, TLAPS

NoDuplicates(q) == \A i, j \in 1 .. Len(q) : q[i] = q[j] => i = j

\* The two halves of PacketOwnership: no packet has two owners, and none has no owner.
NoneShared ==
    /\ \A c \in Senders : packet[c] # NULL =>
        packet[c] \in used \ (Queued \cup {uplink_packet})
    /\ \A c, d \in Senders : packet[c] = packet[d] /\ c # d => packet[c] = NULL
    /\ uplink_packet # NULL => uplink_packet \in used \ Queued
    /\ Queued \subseteq used /\ Cardinality(Queued) = Len(uplink_queue)
NoneLost == used \subseteq Queued \cup {uplink_packet} \cup {packet[c] : c \in Senders}

IInv == TypeOK /\ NoneShared /\ NoDuplicates(uplink_queue)

----------------------------------------------------------------------------
\* The queue.

Elements(q) == {q[i] : i \in 1 .. Len(q)}

LEMMA QueuedElements == Queued = Elements(uplink_queue) /\ Queued' = Elements(uplink_queue')
BY DEF Queued, Elements

LEMMA ElementsFinite ==
    ASSUME NEW q \in Seq(Packets)
    PROVE  Elements(q) \subseteq Packets /\ IsFiniteSet(Elements(q))
<1>1. Elements(q) \subseteq Packets
  BY DEF Elements
<1> QED
  BY <1>1, FS_Subset, CellularAssumption

LEMMA AppendElements ==
    ASSUME NEW q \in Seq(Packets), NEW p \in Packets
    PROVE  Elements(Append(q, p)) = Elements(q) \cup {p}
<1> DEFINE r == Append(q, p)
           n == Len(q)
<1>1. n \in Nat /\ Len(r) = n + 1 /\ r[n + 1] = p /\ \A i \in 1 .. n : r[i] = q[i]
  OBVIOUS
<1>2. 1 .. Len(r) = 1 .. n \cup {n + 1}
  BY <1>1
<1> HIDE DEF r
<1>3. Elements(r) = Elements(q) \cup {p}
  BY <1>1, <1>2 DEF Elements
<1> QED
  BY <1>3 DEF r

\* A new packet at the end of the queue.
LEMMA AppendFacts ==
    ASSUME NEW q \in Seq(Packets), NEW p \in Packets, p \notin Elements(q),
           NoDuplicates(q), Cardinality(Elements(q)) = Len(q)
    PROVE  /\ Append(q, p) \in Seq(Packets)
           /\ Elements(Append(q, p)) = Elements(q) \cup {p}
           /\ NoDuplicates(Append(q, p))
           /\ Cardinality(Elements(Append(q, p))) = Len(Append(q, p))
<1> DEFINE r == Append(q, p)
           n == Len(q)
<1>1. r \in Seq(Packets) /\ n \in Nat /\ Len(r) = n + 1
      /\ r[n + 1] = p /\ \A i \in 1 .. n : r[i] = q[i]
  OBVIOUS
<1> HIDE DEF r
<1>2. Elements(r) = Elements(q) \cup {p}
  BY AppendElements DEF r
<1>3. NoDuplicates(r)
  <2>1. \A i \in 1 .. n : r[i] # p
    BY <1>1 DEF Elements
  <2> QED
    BY <1>1, <2>1 DEF NoDuplicates
<1>4. Cardinality(Elements(q) \cup {p}) = Cardinality(Elements(q)) + 1
  BY ElementsFinite, FS_AddElement
<1> QED
  BY <1>1, <1>2, <1>3, <1>4 DEF r

\* The queue without its head.
LEMMA TailFacts ==
    ASSUME NEW q \in Seq(Packets), q # <<>>,
           NoDuplicates(q), Cardinality(Elements(q)) = Len(q)
    PROVE  /\ Head(q) \in Elements(q) /\ Tail(q) \in Seq(Packets)
           /\ Elements(Tail(q)) = Elements(q) \ {Head(q)}
           /\ NoDuplicates(Tail(q))
           /\ Cardinality(Elements(Tail(q))) = Len(Tail(q))
<1>1. /\ Len(q) \in Nat \ {0} /\ Len(Tail(q)) = Len(q) - 1
      /\ Head(q) = q[1] /\ Tail(q) \in Seq(Packets)
  OBVIOUS
<1>2. \A i \in 1 .. Len(Tail(q)) : Tail(q)[i] = q[i + 1]
  OBVIOUS
<1>3. \A i \in 2 .. Len(q) : i - 1 \in 1 .. Len(Tail(q)) /\ q[i] = Tail(q)[i - 1]
  BY <1>1, <1>2
<1>4. Head(q) \in Elements(q)
  <2>1. 1 \in 1 .. Len(q)
    BY <1>1
  <2> QED
    BY <1>1, <2>1 DEF Elements
<1>5. Elements(Tail(q)) = Elements(q) \ {Head(q)}
  <2>1. ASSUME NEW x \in Elements(Tail(q)) PROVE x \in Elements(q) \ {Head(q)}
    <3>1. PICK i \in 1 .. Len(Tail(q)) : x = Tail(q)[i]
      BY DEF Elements
    <3>2. i + 1 \in 1 .. Len(q) /\ i + 1 # 1 /\ 1 \in 1 .. Len(q)
      BY <1>1
    <3>3. x = q[i + 1] /\ q[i + 1] # q[1]
      BY <1>2, <3>1, <3>2 DEF NoDuplicates
    <3> QED
      BY <1>1, <3>2, <3>3 DEF Elements
  <2>2. ASSUME NEW x \in Elements(q), x # Head(q) PROVE x \in Elements(Tail(q))
    <3>1. PICK i \in 1 .. Len(q) : x = q[i]
      BY DEF Elements
    <3>2. i \in 2 .. Len(q)
      BY <1>1, <2>2, <3>1
    <3> QED
      BY <1>3, <3>1, <3>2 DEF Elements
  <2> QED
    BY <2>1, <2>2
<1>6. NoDuplicates(Tail(q))
  BY <1>1, <1>2 DEF NoDuplicates
<1>7. Cardinality(Elements(q) \ {Head(q)}) = Cardinality(Elements(q)) - 1
  BY <1>4, ElementsFinite, FS_RemoveElement
<1> QED
  BY <1>1, <1>4, <1>5, <1>6, <1>7

----------------------------------------------------------------------------
\* Packets.

LEMMA InitIInv == Init => IInv
<1> SUFFICES ASSUME Init PROVE IInv
  OBVIOUS
<1>1. uplink_queue \in Seq(Packets) /\ Len(uplink_queue) = 0
  BY DEF Init
<1>2. Elements(uplink_queue) = {}
  BY <1>1 DEF Elements
<1>3. TypeOK
  BY <1>1 DEF Init, TypeOK, Stages
<1>4. NoneShared
  BY <1>1, <1>2, QueuedElements, FS_EmptySet, CellularAssumption
  DEF Init, NoneShared
<1>5. NoDuplicates(uplink_queue)
  BY <1>1 DEF NoDuplicates
<1> QED
  BY <1>3, <1>4, <1>5 DEF IInv

LEMMA UplinkUnchanged ==
    ASSUME UNCHANGED uplink
    PROVE  /\ NoneShared => NoneShared'
           /\ NoneLost => NoneLost'
           /\ NoDuplicates(uplink_queue) => NoDuplicates(uplink_queue')
<1>1. /\ used' = used /\ uplink_queue' = uplink_queue
      /\ uplink_packet' = uplink_packet /\ packet' = packet
  BY DEF uplink
<1>2. Queued' = Queued
  BY <1>1 DEF Queued
<1> QED
  BY <1>1, <1>2 DEF NoneShared, NoneLost, NoDuplicates

\* What cellular_init, the start-up and the network leave alone.
LEMMA StartupIInv ==
    ASSUME IInv, (\E s \in Starters : CellularInit(s)) \/ StartupStep \/ Registered
    PROVE  IInv'
<1> USE DEF IInv
<1>1. UNCHANGED uplink
  BY DEF CellularInit, InitCheck, InitInvalid, InitCreate, InitStarting, StartupStep,
         ModemUp, ConnectFails, Connected, Resolve, InitialiseSocket, SetRunning,
         ThreadEnds, Registered, Fail, Proceed
<1>2. NoneShared' /\ NoDuplicates(uplink_queue)'
  BY <1>1, UplinkUnchanged
<1>3. ASSUME NEW s \in Starters, CellularInit(s) PROVE TypeOK'
  BY <1>1, <1>3
  DEF CellularInit, InitCheck, InitInvalid, InitCreate, InitStarting, uplink, modem,
      TypeOK, Stages, Starting
<1>4. CASE ModemUp \/ ConnectFails \/ Connected
  BY <1>1, <1>2, <1>4
  DEF ModemUp, ConnectFails, Connected, Fail, Proceed, uplink, modem, TypeOK, Stages,
      Starting, ErrorStates
<1>5. CASE Resolve \/ InitialiseSocket
  BY <1>1, <1>2, <1>5
  DEF Resolve, InitialiseSocket, Fail, Proceed, uplink, modem, TypeOK, Stages,
      Starting, ErrorStates
<1>6. CASE SetRunning \/ ThreadEnds \/ Registered
  BY <1>1, <1>2, <1>6
  DEF SetRunning, ThreadEnds, Registered, uplink, modem, startup, TypeOK, Stages, Loop
<1> QED
  BY <1>2, <1>3, <1>4, <1>5, <1>6 DEF StartupStep

LEMMA AllocIInv ==
    ASSUME IInv, NEW c \in Senders, PacketAlloc(c)
    PROVE  IInv'
<1> USE DEF IInv
<1>1. PICK p \in Packets \ used :
        /\ used' = used \cup {p}
        /\ packet' = [packet EXCEPT ![c] = p]
  BY DEF PacketAlloc
<1>2. packet[c] = NULL /\ uplink_queue' = uplink_queue /\ uplink_packet' = uplink_packet
      /\ Queued' = Queued
  BY DEF PacketAlloc, Queued
<1>3. TypeOK'
  BY <1>1 DEF PacketAlloc, TypeOK, startup, modem
<1>4. p # NULL /\ packet'[c] = p
      /\ \A d \in Senders : d # c => packet'[d] = packet[d]
  BY <1>1, CellularAssumption DEF TypeOK
<1>5. NoneShared'
  <2>1. \A d \in Senders : packet'[d] # NULL =>
            packet'[d] \in used' \ (Queued' \cup {uplink_packet'})
    BY <1>1, <1>2, <1>4 DEF NoneShared
  <2>2. \A d, e \in Senders : packet'[d] = packet'[e] /\ d # e => packet'[d] = NULL
    BY <1>1, <1>2, <1>4 DEF NoneShared
  <2>3. uplink_packet' # NULL => uplink_packet' \in used' \ Queued'
    BY <1>1, <1>2 DEF NoneShared
  <2>4. Queued' \subseteq used' /\ Cardinality(Queued') = Len(uplink_queue')
    BY <1>1, <1>2 DEF NoneShared
  <2> QED
    BY <2>1, <2>2, <2>3, <2>4 DEF NoneShared
<1> QED
  BY <1>2, <1>3, <1>5

LEMMA EnqueueIInv ==
    ASSUME IInv, NEW c \in Senders, UplinkEnqueue(c)
    PROVE  IInv'
<1> USE DEF IInv
<1>1. /\ packet[c] \in Packets /\ packet[c] \in used \ (Queued \cup {uplink_packet})
      /\ uplink_queue \in Seq(Packets) /\ uplink_queue' = Append(uplink_queue, packet[c])
      /\ used' = used /\ uplink_packet' = uplink_packet
  BY DEF UplinkEnqueue, TypeOK, NoneShared
<1>2. packet' \in [Senders -> Packets \cup {NULL}] /\ packet'[c] = NULL
      /\ \A d \in Senders : d # c => packet'[d] = packet[d]
  BY DEF UplinkEnqueue, TypeOK
<1>3. /\ uplink_queue' \in Seq(Packets) /\ Queued' = Queued \cup {packet[c]}
      /\ NoDuplicates(uplink_queue') /\ Cardinality(Queued') = Len(uplink_queue')
  BY <1>1, AppendFacts, QueuedElements DEF NoneShared
<1>4. TypeOK'
  BY <1>1, <1>2, <1>3 DEF UplinkEnqueue, TypeOK, startup, modem
<1>5. NoneShared'
  <2>1. \A d \in Senders : packet'[d] # NULL =>
            packet'[d] \in used' \ (Queued' \cup {uplink_packet'})
    BY <1>1, <1>2, <1>3 DEF NoneShared
  <2>2. \A d, e \in Senders : packet'[d] = packet'[e] /\ d # e => packet'[d] = NULL
    BY <1>2 DEF NoneShared
  <2>3. uplink_packet' # NULL => uplink_packet' \in used' \ Queued'
    BY <1>1, <1>3 DEF NoneShared
  <2>4. Queued' \subseteq used'
    BY <1>1, <1>3 DEF NoneShared
  <2> QED
    BY <1>3, <2>1, <2>2, <2>3, <2>4 DEF NoneShared
<1> QED
  BY <1>3, <1>4, <1>5

LEMMA DequeueIInv ==
    ASSUME IInv, UplinkDequeue
    PROVE  IInv'
<1> USE DEF IInv
<1> DEFINE p == Head(uplink_queue)
<1>1. /\ uplink_queue' = Tail(uplink_queue) /\ uplink_packet' = p
      /\ used' = used /\ packet' = packet
      /\ uplink_queue \in Seq(Packets) /\ uplink_queue # <<>>
  BY DEF UplinkDequeue, TypeOK
<1>2. /\ p \in Queued /\ uplink_queue' \in Seq(Packets) /\ Queued' = Queued \ {p}
      /\ NoDuplicates(uplink_queue') /\ Cardinality(Queued') = Len(uplink_queue')
  BY <1>1, TailFacts, QueuedElements DEF NoneShared
<1>3. p \in Packets
  BY <1>1
<1>4. TypeOK'
  BY <1>1, <1>2, <1>3 DEF UplinkDequeue, Go, TypeOK, Stages, Loop, modem
<1>5. NoneShared'
  <2>1. \A c \in Senders : packet[c] # NULL =>
            packet[c] \in used \ (Queued' \cup {p})
    BY <1>2 DEF NoneShared
  <2>2. p \in used \ Queued' /\ Queued' \subseteq used
    BY <1>2 DEF NoneShared
  <2> QED
    BY <1>1, <1>2, <2>1, <2>2 DEF NoneShared
<1> QED
  BY <1>2, <1>4, <1>5

LEMMA TransmitIInv ==
    ASSUME IInv, Transmit
    PROVE  IInv'
<1> USE DEF IInv
<1>1. TypeOK'
  BY DEF Transmit, Go, TypeOK, Stages, Loop, modem
<1>2. used' = used \ {uplink_packet} /\ uplink_packet' = NULL
      /\ uplink_queue' = uplink_queue /\ packet' = packet /\ Queued' = Queued
  BY DEF Transmit, Queued
<1>3. NoneShared'
  <2>1. NULL \notin used
    BY CellularAssumption DEF TypeOK
  <2>2. Queued \subseteq used \ {uplink_packet}
    BY <2>1 DEF NoneShared
  <2> QED
    BY <1>2, <2>1, <2>2 DEF NoneShared
<1> QED
  BY <1>1, <1>2, <1>3

LEMMA NextIInv == IInv /\ [Next]_vars => IInv'
<1> SUFFICES ASSUME IInv, [Next]_vars PROVE IInv'
  OBVIOUS
<1>1. CASE UNCHANGED vars
  BY <1>1, UplinkUnchanged DEF vars, startup, modem, uplink, IInv, TypeOK
<1>2. CASE UplinkEmpty \/ Receive \/ CallbackReturns
  <2>1. UNCHANGED uplink
    BY <1>2 DEF UplinkEmpty, Receive, CallbackReturns
  <2>2. TypeOK'
    BY <1>2, <2>1
    DEF UplinkEmpty, Receive, CallbackReturns, Go, uplink, modem, IInv, TypeOK,
        Stages, Loop
  <2> QED
    BY <2>1, <2>2, UplinkUnchanged DEF IInv
<1> QED
  BY <1>1, <1>2, StartupIInv, AllocIInv, EnqueueIInv, DequeueIInv, TransmitIInv
  DEF Next, LoopStep

LEMMA Invariant == Spec => []IInv
BY InitIInv, NextIInv, PTL DEF Spec

\* Every variable holds a value of its type; in particular lte_connected_sem never
\* counts more than one registration.
THEOREM TypeCorrect == Spec => []TypeOK
<1>1. IInv => TypeOK
  BY DEF IInv
<1> QED
  BY <1>1, Invariant, PTL

\* cellular_uplink_enqueue does not fail: a sender that has a packet finds room in the
\* queue, because queue and slab are of one size.
THEOREM RoomInQueue == Spec => []RoomForEveryPacket
<1>1. IInv => RoomForEveryPacket
  <2> SUFFICES ASSUME IInv, NEW c \in Senders, packet[c] # NULL
               PROVE  Len(uplink_queue) < Cardinality(Packets)
    BY DEF RoomForEveryPacket, UplinkQueueMaxItems
  <2> USE DEF IInv
  <2>1. packet[c] \in Packets /\ packet[c] \notin Queued /\ Queued \subseteq Packets
    BY DEF TypeOK, NoneShared
  <2>2. IsFiniteSet(Packets \ {packet[c]})
        /\ Cardinality(Packets \ {packet[c]}) = Cardinality(Packets) - 1
    BY <2>1, FS_RemoveElement, CellularAssumption
  <2>3. Cardinality(Queued) <= Cardinality(Packets \ {packet[c]})
    BY <2>1, <2>2, FS_Subset
  <2>4. Cardinality(Queued) = Len(uplink_queue) /\ Len(uplink_queue) \in Nat
        /\ Cardinality(Packets) \in Nat
    BY FS_CardinalityType, CellularAssumption DEF TypeOK, NoneShared
  <2> QED
    BY <2>2, <2>3, <2>4
<1> QED
  BY <1>1, Invariant, PTL

----------------------------------------------------------------------------
\* One starter, which starts the thread again only after its end.  The thread may preempt
\* it inside cellular_init.

OneStarter == (\E s : Starters = {s}) /\ RestartWaits

\* Whenever the state permits a start, and until the thread is created, there is no
\* thread or one that has stored its error and is about to end.
Away ==
    \A s \in Starters :
        /\ starter[s] = "checked" =>
            thread = "none" /\ cellular_state \notin {"STARTING", "RUNNING"}
        /\ starter[s] = "idle" /\ cellular_state = "UNINITIALISED" => thread = "none"
        /\ starter[s] = "idle" /\ cellular_state \in ErrorStates =>
            thread \in {"none", "ending"}

\* So the thread frees the packet it has taken before anything happens to it.
Transmitting == uplink_packet # NULL => thread = "transmit"

StartInv == StackNotReused /\ Away /\ Transmitting /\ NoneLost

LEMMA InitStart == Init => StartInv
BY DEF Init, StartInv, StackNotReused, Away, Transmitting, NoneLost, ErrorStates

\* cellular_init.
LEMMA StarterStart ==
    ASSUME OneStarter, NEW s, Starters = {s}, TypeOK, StartInv, CellularInit(s)
    PROVE  StartInv'
<1> USE DEF StartInv
<1>1. Transmitting' /\ NoneLost'
  <2>1. UNCHANGED uplink
    BY DEF CellularInit, InitCheck, InitInvalid, InitCreate, InitStarting
  <2>2. thread' = thread \/ thread = "none"
    BY DEF CellularInit, InitCheck, InitInvalid, InitCreate, InitStarting, Away
  <2> QED
    BY <2>1, <2>2, UplinkUnchanged DEF Transmitting, uplink
<1>2. CASE InitCheck(s)
  BY <1>1, <1>2
  DEF InitCheck, MayStart, OneStarter, TypeOK, StackNotReused, Away
<1>3. CASE InitInvalid(s)
  BY <1>1, <1>3 DEF InitInvalid, TypeOK, StackNotReused, Away, ErrorStates
<1>4. CASE InitCreate(s)
  BY <1>1, <1>4 DEF InitCreate, TypeOK, StackNotReused, Away
<1>5. CASE InitStarting(s)
  BY <1>1, <1>5 DEF InitStarting, TypeOK, StackNotReused, Away, ErrorStates
<1> QED
  BY <1>2, <1>3, <1>4, <1>5 DEF CellularInit

\* A step of the thread.
LEMMA ThreadStart ==
    ASSUME NEW s, Starters = {s}, IInv, StartInv, StartupStep \/ LoopStep
    PROVE  StartInv'
<1> USE DEF IInv, StartInv
<1>1. /\ UNCHANGED <<starter, reused>>
      /\ thread # "none"
      /\ \/ cellular_state' = cellular_state /\ (thread = "ending" => thread' = "none")
         \/ cellular_state' \in ErrorStates /\ thread' = "ending"
         \/ cellular_state' = "RUNNING"
  BY DEF StartupStep, LoopStep, ModemUp, ConnectFails, Connected, Resolve,
         InitialiseSocket, SetRunning, ThreadEnds, UplinkDequeue, UplinkEmpty, Transmit,
         Receive, CallbackReturns, Fail, Proceed, Go, At, ErrorStates
<1>2. StackNotReused' /\ Away'
  BY <1>1 DEF StackNotReused, Away, ErrorStates
<1>3. Transmitting' /\ NoneLost'
  <2>1. CASE UplinkDequeue
    <3>1. uplink_packet = NULL /\ NULL \notin used
      BY <2>1, CellularAssumption DEF UplinkDequeue, At, Transmitting, TypeOK
    <3>2. Queued = Queued' \cup {uplink_packet'}
      BY <2>1, TailFacts, QueuedElements DEF UplinkDequeue, TypeOK, NoneShared
    <3> QED
      BY <2>1, <3>1, <3>2 DEF UplinkDequeue, Go, Transmitting, NoneLost
  <2>2. CASE Transmit
    <3>1. Queued' = Queued /\ used' = used \ {uplink_packet} /\ packet' = packet
          /\ uplink_packet' = NULL
      BY <2>2 DEF Transmit, Queued
    <3> QED
      BY <3>1 DEF Transmitting, NoneLost
  <2>3. CASE StartupStep \/ UplinkEmpty \/ Receive \/ CallbackReturns
    <3>1. UNCHANGED uplink /\ thread # "transmit"
      BY <2>3
      DEF StartupStep, ModemUp, ConnectFails, Connected, Resolve, InitialiseSocket,
          SetRunning, ThreadEnds, UplinkEmpty, Receive, CallbackReturns, Fail, Proceed, At
    <3> QED
      BY <3>1, UplinkUnchanged DEF Transmitting, uplink
  <2> QED
    BY <2>1, <2>2, <2>3 DEF LoopStep
<1> QED
  BY <1>2, <1>3

LEMMA NextStart ==
    ASSUME OneStarter, NEW s, Starters = {s}, IInv, StartInv, [Next]_vars
    PROVE  StartInv'
<1> USE DEF IInv
<1>1. CASE UNCHANGED startup /\ UNCHANGED uplink
  <2>1. UNCHANGED <<cellular_state, thread, reused, starter, uplink_packet>>
    BY <1>1 DEF startup, uplink
  <2>2. NoneLost'
    BY <1>1, UplinkUnchanged DEF StartInv
  <2> QED
    BY <2>1, <2>2 DEF StartInv, StackNotReused, Away, Transmitting
<1>2. ASSUME NEW c \in Senders, PacketAlloc(c) \/ UplinkEnqueue(c) PROVE StartInv'
  <2>1. UNCHANGED <<cellular_state, thread, reused, starter, uplink_packet>>
    BY <1>2 DEF PacketAlloc, UplinkEnqueue, startup
  <2>2. CASE PacketAlloc(c)
    <3>1. PICK p \in Packets \ used :
            /\ used' = used \cup {p}
            /\ packet' = [packet EXCEPT ![c] = p]
      BY <2>2 DEF PacketAlloc
    <3>2. packet[c] = NULL /\ Queued' = Queued /\ NULL \notin used
      BY <2>2, CellularAssumption DEF PacketAlloc, Queued, TypeOK
    <3>3. packet'[c] = p /\ \A d \in Senders : d # c => packet'[d] = packet[d]
      BY <3>1 DEF TypeOK
    <3>4. NoneLost'
      BY <2>1, <3>1, <3>2, <3>3 DEF StartInv, NoneLost
    <3> QED
      BY <2>1, <3>4 DEF StartInv, StackNotReused, Away, Transmitting
  <2>3. CASE UplinkEnqueue(c)
    <3>1. Queued' = Queued \cup {packet[c]}
      BY <2>3, AppendElements, QueuedElements DEF UplinkEnqueue, TypeOK
    <3>2. \A d \in Senders : d # c => packet'[d] = packet[d]
      BY <2>3 DEF UplinkEnqueue, TypeOK
    <3>3. NoneLost'
      BY <2>1, <2>3, <3>1, <3>2 DEF UplinkEnqueue, StartInv, NoneLost
    <3> QED
      BY <2>1, <3>3 DEF StartInv, StackNotReused, Away, Transmitting
  <2> QED
    BY <1>2, <2>2, <2>3
<1> QED
  BY <1>1, <1>2, StarterStart, ThreadStart DEF Next, Registered, vars

LEMMA OneStarterInvariant == OneStarter => (Spec => [](IInv /\ StartInv))
<1> SUFFICES ASSUME OneStarter PROVE Spec => [](IInv /\ StartInv)
  OBVIOUS
<1>1. PICK s : Starters = {s}
  BY DEF OneStarter
<1>2. IInv /\ StartInv /\ [Next]_vars => StartInv'
  BY <1>1, NextStart
<1> QED
  BY <1>2, InitStart, Invariant, PTL DEF Spec

\* No packet of cellular_packet_slab is freed twice, sent after it was given to another
\* sender, or lost, in any interleaving of senders, thread, receive callback and
\* restarts of the thread.
THEOREM PacketsAreOwned == OneStarter => (Spec => []PacketOwnership)
<1>1. IInv /\ StartInv => PacketOwnership
  BY DEF IInv, StartInv, NoneShared, NoneLost, PacketOwnership
<1> QED
  BY <1>1, OneStarterInvariant, PTL

\* cellular_init never creates the thread in an object whose thread still runs.
THEOREM ThreadIsExclusive == OneStarter => (Spec => []StackNotReused)
<1>1. StartInv => StackNotReused
  BY DEF StartInv
<1> QED
  BY <1>1, OneStarterInvariant, PTL

----------------------------------------------------------------------------
\* If the thread does not run while the starter is in cellular_init, there is none, or
\* one that has not run yet, until STARTING is stored.

StateInv ==
    \A s \in Starters :
        /\ starter[s] = "created" => thread = "modem"
        /\ starter[s] = "idle" => StateMatchesThread

LEMMA NextState ==
    ASSUME ~StarterYields, NEW s, Starters = {s}, IInv, StartInv, StateInv, [Next]_vars
    PROVE  StateInv'
<1> USE DEF IInv, StartInv
<1>1. CASE UNCHANGED startup
  BY <1>1 DEF startup, StateInv, StateMatchesThread
<1>2. CASE InitCheck(s) \/ InitCreate(s)
  BY <1>2 DEF InitCheck, InitCreate, TypeOK, StateInv
<1>3. CASE InitInvalid(s)
  BY <1>3
  DEF InitInvalid, TypeOK, StateInv, Away, StateMatchesThread, Loop, Starting, ErrorStates
<1>4. CASE InitStarting(s)
  BY <1>4 DEF InitStarting, TypeOK, StateInv, StateMatchesThread, Loop, Starting, ErrorStates
<1>5. CASE StartupStep \/ LoopStep
  <2>1. starter[s] = "idle" /\ UNCHANGED starter
    BY <1>5
    DEF StartupStep, LoopStep, ModemUp, ConnectFails, Connected, Resolve,
        InitialiseSocket, SetRunning, ThreadEnds, UplinkDequeue, UplinkEmpty, Transmit,
        Receive, CallbackReturns, Fail, Proceed, Go, At, ThreadMayRun
  <2>2. /\ cellular_state = "RUNNING" <=> thread \in Loop
        /\ cellular_state = "STARTING" <=> thread \in Starting
        /\ cellular_state \in ErrorStates => thread \in {"ending", "none"}
    BY <2>1 DEF StateInv, StateMatchesThread
  <2>3. /\ cellular_state' = "RUNNING" <=> thread' \in Loop
        /\ cellular_state' = "STARTING" <=> thread' \in Starting
        /\ cellular_state' \in ErrorStates => thread' \in {"ending", "none"}
    <3> USE <2>2 DEF Loop, Starting, ErrorStates, At
    <3>1. CASE ModemUp \/ ConnectFails \/ Connected
      BY <3>1 DEF ModemUp, ConnectFails, Connected, Fail, Proceed
    <3>2. CASE Resolve \/ InitialiseSocket
      BY <3>2 DEF Resolve, InitialiseSocket, Fail, Proceed
    <3>3. CASE SetRunning \/ ThreadEnds
      BY <3>3 DEF SetRunning, ThreadEnds
    <3>4. CASE LoopStep
      BY <3>4 DEF LoopStep, UplinkDequeue, UplinkEmpty, Transmit, Receive, CallbackReturns,
                  Go
    <3> QED
      BY <1>5, <3>1, <3>2, <3>3, <3>4 DEF StartupStep
  <2> QED
    BY <2>1, <2>3 DEF StateInv, StateMatchesThread
<1>6. CASE Registered \/ \E c \in Senders : PacketAlloc(c) \/ UplinkEnqueue(c)
  BY <1>1, <1>6 DEF Registered, PacketAlloc, UplinkEnqueue
<1> QED
  BY <1>1, <1>2, <1>3, <1>4, <1>5, <1>6 DEF Next, CellularInit, vars

\* What cellular_state_get returns agrees with the thread.
THEOREM StateIsTrue ==
    ASSUME OneStarter, ~StarterYields
    PROVE  Spec => []StateMatchesThread
<1>1. PICK s : Starters = {s}
  BY DEF OneStarter
<1>2. Init => StateInv
  BY DEF Init, StateInv, StateMatchesThread, Loop, Starting, ErrorStates
<1>3. IInv /\ StartInv /\ StateInv /\ [Next]_vars => StateInv'
  BY <1>1, NextState
<1>4. StateInv => StateMatchesThread
  BY <1>1 DEF StateInv, StateMatchesThread
<1> QED
  BY <1>2, <1>3, <1>4, OneStarterInvariant, PTL DEF Spec

----------------------------------------------------------------------------
\* The uplink is a bounded queue.

Sending == IF uplink_packet = NULL THEN <<>> ELSE <<uplink_packet>>

LEMMA ConcatHead ==
    ASSUME NEW S, NEW s \in Seq(S), NEW t \in Seq(S), s # <<>>
    PROVE  /\ s \o t # <<>>
           /\ Head(s \o t) = Head(s)
           /\ Tail(s \o t) = Tail(s) \o t
<1> DEFINE st == s \o t
<1>1. /\ st \in Seq(S) /\ Len(st) = Len(s) + Len(t)
      /\ \A i \in 1 .. Len(s) + Len(t) : st[i] = IF i <= Len(s) THEN s[i] ELSE t[i - Len(s)]
  BY ConcatProperties
<1>2. Len(s) \in Nat \ {0} /\ Len(t) \in Nat
  OBVIOUS
<1>3. /\ Tail(s) \in Seq(S) /\ Len(Tail(s)) = Len(s) - 1
      /\ \A i \in 1 .. Len(Tail(s)) : Tail(s)[i] = s[i + 1]
  BY HeadTailProperties
<1> DEFINE tt == Tail(s) \o t
<1>4. /\ tt \in Seq(S) /\ Len(tt) = Len(Tail(s)) + Len(t)
      /\ \A i \in 1 .. Len(Tail(s)) + Len(t) :
            tt[i] = IF i <= Len(Tail(s)) THEN Tail(s)[i] ELSE t[i - Len(Tail(s))]
  BY <1>3, ConcatProperties
<1> HIDE DEF st, tt
<1>5. st # <<>>
  BY <1>1, <1>2
<1>6. /\ Tail(st) \in Seq(S) /\ Len(Tail(st)) = Len(st) - 1
      /\ \A i \in 1 .. Len(Tail(st)) : Tail(st)[i] = st[i + 1]
  BY <1>1, <1>5, HeadTailProperties
<1>7. Len(Tail(st)) = Len(tt)
  BY <1>1, <1>2, <1>3, <1>4, <1>6
<1>8. \A i \in 1 .. Len(Tail(st)) : Tail(st)[i] = tt[i]
  <2> SUFFICES ASSUME NEW i \in 1 .. Len(Tail(st)) PROVE Tail(st)[i] = tt[i]
    OBVIOUS
  <2>1. i \in 1 .. (Len(s) - 1) + Len(t) /\ Len(Tail(st)) = (Len(s) - 1) + Len(t)
    BY <1>1, <1>2, <1>6
  <2>2. Tail(st)[i] = IF i + 1 <= Len(s) THEN s[i + 1] ELSE t[(i + 1) - Len(s)]
    BY <1>1, <1>2, <1>6, <2>1
  <2>3. tt[i] = IF i <= Len(s) - 1 THEN Tail(s)[i] ELSE t[i - (Len(s) - 1)]
    BY <1>2, <1>3, <1>4, <2>1
  <2>4. (i + 1) - Len(s) = i - (Len(s) - 1)
    BY <1>2, <2>1
  <2> QED
    BY <1>2, <1>3, <2>1, <2>2, <2>3, <2>4
<1>9. Tail(st) = tt
  BY <1>4, <1>6, <1>7, <1>8, SeqEqual
<1>10. Head(st) = Head(s)
  BY <1>1, <1>2, <1>5
<1> QED
  BY <1>5, <1>9, <1>10 DEF st, tt

LEMMA OutgoingFacts ==
    ASSUME TypeOK
    PROVE  /\ Sending \in Seq(Packets) /\ uplink_queue \in Seq(Packets)
           /\ Outgoing = Sending \o uplink_queue /\ Outgoing \in Seq(Packets)
           /\ Len(Outgoing) = Len(uplink_queue) + IF uplink_packet = NULL THEN 0 ELSE 1
<1>1. Sending \in Seq(Packets) /\ uplink_queue \in Seq(Packets)
      /\ Len(Sending) = IF uplink_packet = NULL THEN 0 ELSE 1
  BY DEF Sending, TypeOK
<1>2. Outgoing = Sending \o uplink_queue
  BY DEF Outgoing, Sending
<1>3. Sending \o uplink_queue \in Seq(Packets)
      /\ Len(Sending \o uplink_queue) = Len(Sending) + Len(uplink_queue)
  BY <1>1, ConcatProperties
<1> QED
  BY <1>1, <1>2, <1>3

\* The packets in the queue, the one that is being sent and the one that a sender
\* enqueues are all different, and all of the slab.
LEMMA RoomForOutgoing ==
    ASSUME IInv, NEW c \in Senders, packet[c] # NULL
    PROVE  Len(Outgoing) < Cardinality(Packets)
<1> USE DEF IInv
<1> DEFINE queued == IF uplink_packet = NULL THEN Queued ELSE Queued \cup {uplink_packet}
<1>1. packet[c] \in Packets /\ packet[c] \notin queued /\ queued \subseteq Packets
  BY DEF TypeOK, NoneShared
<1>2. IsFiniteSet(Queued) /\ Cardinality(Queued) = Len(uplink_queue)
  BY ElementsFinite, QueuedElements DEF TypeOK, NoneShared
<1>3. Cardinality(queued) = Len(Outgoing)
  <2>1. CASE uplink_packet = NULL
    BY <1>2, <2>1, OutgoingFacts DEF TypeOK
  <2>2. CASE uplink_packet # NULL
    <3>1. uplink_packet \notin Queued
      BY <2>2 DEF NoneShared
    <3>2. Cardinality(Queued \cup {uplink_packet}) = Cardinality(Queued) + 1
      BY <1>2, <3>1, FS_AddElement
    <3> QED
      BY <1>2, <2>2, <3>2, OutgoingFacts
  <2> QED
    BY <2>1, <2>2
<1> HIDE DEF queued
<1>4. IsFiniteSet(Packets \ {packet[c]})
      /\ Cardinality(Packets \ {packet[c]}) = Cardinality(Packets) - 1
  BY <1>1, FS_RemoveElement, CellularAssumption
<1>5. Cardinality(queued) <= Cardinality(Packets \ {packet[c]})
  BY <1>1, <1>4, FS_Subset
<1>6. Cardinality(Packets) \in Nat /\ Len(Outgoing) \in Nat
  BY OutgoingFacts, FS_CardinalityType, CellularAssumption
<1> QED
  BY <1>3, <1>4, <1>5, <1>6

LEMMA UplinkStep ==
    ASSUME IInv, StartInv, [Next]_vars
    PROVE  [Queue!Next]_Outgoing
<1> USE DEF IInv
<1>1. CASE UNCHANGED <<uplink_packet, uplink_queue>>
  BY <1>1 DEF Outgoing
<1>2. ASSUME NEW c \in Senders, UplinkEnqueue(c) PROVE [Queue!Next]_Outgoing
  <2>1. /\ packet[c] # NULL /\ packet[c] \in Packets /\ UNCHANGED uplink_packet
        /\ uplink_queue' = Append(uplink_queue, packet[c])
    BY <1>2 DEF UplinkEnqueue, TypeOK
  <2>2. Outgoing' = Sending \o Append(uplink_queue, packet[c])
    BY <2>1 DEF Outgoing, Sending
  <2>3. Sending \o Append(uplink_queue, packet[c]) = Append(Outgoing, packet[c])
    <3>1. Append(uplink_queue, packet[c]) = uplink_queue \o <<packet[c]>>
      BY <2>1, OutgoingFacts, AppendIsConcat
    <3>2. Append(Outgoing, packet[c]) = Outgoing \o <<packet[c]>>
      BY <2>1, OutgoingFacts, AppendIsConcat
    <3>3. <<packet[c]>> \in Seq(Packets)
      BY <2>1
    <3>4. (Sending \o uplink_queue) \o <<packet[c]>> = Sending \o (uplink_queue \o <<packet[c]>>)
      <4>1. Sending \in Seq(Packets) /\ uplink_queue \in Seq(Packets)
        BY OutgoingFacts
      <4> QED
        BY <3>3, <4>1, ConcatAssociative
    <3> QED
      BY <3>1, <3>2, <3>4, OutgoingFacts
  <2>4. Queue!Accept(packet[c])
    BY <2>1, <2>2, <2>3, RoomForOutgoing DEF Queue!Accept
  <2> QED
    BY <2>1, <2>4 DEF Queue!Next
<1>3. CASE UplinkDequeue
  <2>1. /\ uplink_packet = NULL /\ uplink_queue # <<>> /\ uplink_queue \in Seq(Packets)
        /\ uplink_packet' = Head(uplink_queue) /\ uplink_queue' = Tail(uplink_queue)
    BY <1>3 DEF UplinkDequeue, StartInv, Transmitting, At, TypeOK
  <2>2. Outgoing = uplink_queue
    <3>1. Sending = <<>>
      BY <2>1 DEF Sending
    <3> QED
      BY <2>1, <3>1, OutgoingFacts, ConcatEmptySeq
  <2>3. Head(uplink_queue) # NULL
    BY <2>1, CellularAssumption
  <2>4. Outgoing' = <<Head(uplink_queue)>> \o Tail(uplink_queue)
    BY <2>1, <2>3 DEF Outgoing
  <2>5. <<Head(uplink_queue)>> \o Tail(uplink_queue) = uplink_queue
    <3> DEFINE q == uplink_queue
               h == <<Head(q)>>
               t == Tail(q)
    <3>1. /\ t \in Seq(Packets) /\ Len(t) = Len(q) - 1 /\ Len(q) \in Nat \ {0}
          /\ \A i \in 1 .. Len(t) : t[i] = q[i + 1]
      BY <2>1, HeadTailProperties
    <3>2. h \in Seq(Packets) /\ Len(h) = 1 /\ h[1] = q[1]
      BY <2>1
    <3> HIDE DEF h, t
    <3>3. /\ h \o t \in Seq(Packets) /\ Len(h \o t) = Len(h) + Len(t)
          /\ \A i \in 1 .. Len(h) + Len(t) :
                (h \o t)[i] = IF i <= Len(h) THEN h[i] ELSE t[i - Len(h)]
      BY <3>1, <3>2, ConcatProperties
    <3>4. Len(h \o t) = Len(q)
      BY <3>1, <3>2, <3>3
    <3>5. ASSUME NEW i \in 1 .. Len(h \o t) PROVE (h \o t)[i] = q[i]
      <4>1. CASE i = 1
        BY <3>1, <3>2, <3>3, <3>4, <4>1
      <4>2. CASE i # 1
        <5>1. i - 1 \in 1 .. Len(t) /\ (i - 1) + 1 = i /\ ~(i <= 1)
          BY <3>1, <3>4, <4>2
        <5> QED
          BY <3>1, <3>2, <3>3, <3>4, <5>1
      <4> QED
        BY <4>1, <4>2
    <3>6. h \o t = q
      BY <2>1, <3>3, <3>4, <3>5, SeqEqual
    <3> QED
      BY <3>6 DEF h, t
  <2> QED
    BY <2>2, <2>4, <2>5
<1>4. CASE Transmit
  <2>1. uplink_packet' = NULL /\ uplink_queue' = uplink_queue
    BY <1>4 DEF Transmit
  <2>2. CASE uplink_packet = NULL
    BY <2>1, <2>2 DEF Outgoing
  <2>3. CASE uplink_packet # NULL
    <3>1. Sending = <<uplink_packet>> /\ Sending # <<>>
      BY <2>3 DEF Sending
    <3>2. Outgoing' = <<>> \o uplink_queue
      BY <2>1 DEF Outgoing
    <3>3. Outgoing # <<>> /\ Tail(Outgoing) = Tail(Sending) \o uplink_queue
      BY <3>1, OutgoingFacts, ConcatHead
    <3>4. Tail(Sending) = <<>>
      BY <3>1
    <3> QED
      BY <3>2, <3>3, <3>4 DEF Queue!Next, Queue!HandOver
  <2> QED
    BY <2>2, <2>3
<1>5. CASE UNCHANGED vars
  BY <1>1, <1>5 DEF vars, uplink
<1>6. CASE (\E s \in Starters : CellularInit(s)) \/ StartupStep \/ Registered
  BY <1>1, <1>6
  DEF CellularInit, InitCheck, InitInvalid, InitCreate, InitStarting, StartupStep,
      ModemUp, ConnectFails, Connected, Resolve, InitialiseSocket, SetRunning,
      ThreadEnds, Registered, Fail, Proceed, uplink
<1>7. CASE UplinkEmpty \/ Receive \/ CallbackReturns
  BY <1>1, <1>7 DEF UplinkEmpty, Receive, CallbackReturns, uplink
<1>8. ASSUME NEW c \in Senders, PacketAlloc(c) PROVE [Queue!Next]_Outgoing
  BY <1>1, <1>8 DEF PacketAlloc
<1> QED
  BY <1>2, <1>3, <1>4, <1>5, <1>6, <1>7, <1>8 DEF Next, LoopStep

\* The cellular module implements the bounded queue that its clients take it for.
THEOREM ImplementsUplink ==
    ASSUME OneStarter
    PROVE  Spec => Uplink
<1>1. Init => Queue!Init
  <2> SUFFICES ASSUME Init PROVE Outgoing = <<>>
    BY DEF Queue!Init
  <2>1. uplink_packet = NULL /\ uplink_queue = <<>>
    BY DEF Init
  <2>2. <<>> \o <<>> = <<>>
    BY EmptySeq, ConcatEmptySeq
  <2> QED
    BY <2>1, <2>2 DEF Outgoing
<1> QED
  BY <1>1, UplinkStep, OneStarterInvariant, PTL DEF Spec, Uplink, Queue!Spec
=============================================================================
