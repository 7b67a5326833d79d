------------------------ MODULE RemoteCommandsProofs ------------------------
(***************************************************************************)
(* Theorems about RemoteCommands, for any number of commands and packets   *)
(* and any uplink: if every message of a poll has come to rest before the  *)
(* next one, it implements AtLeastOnce; a command leaves the server only   *)
(* executed, and commands are executed in order.                           *)
(***************************************************************************)
EXTENDS RemoteCommands, TLAPS

\* The server holds the commands after the first Gone, in order.
Gone == issued - Len(server)
ServerInOrder == \A i \in 1 .. Len(server) : server[i] = Gone + i

\* One message of the poll is on its way at a time, in the uplink or in the network.
OneMessage ==
    /\ \A m, n \in network : m = n
    /\ \A i, j \in 1 .. Len(uplink) :
        uplink[i] \in Requests /\ uplink[j] \in Requests => i = j
    /\ network # {} => \A i \in 1 .. Len(uplink) : uplink[i] \notin Requests

DeletePending ==
    \/ [request |-> "DELETE"] \in network
    \/ \E i \in 1 .. Len(uplink) : uplink[i] = "DELETE"

\* It speaks of the command at the head of the server, which a DELETE has seen executed.
HeadOfServer ==
    /\ \A c \in Commands : [response |-> c] \in network =>
        Len(server) > 0 /\ c = Gone + 1
    /\ DeletePending => Len(server) > 0 /\ last = Gone + 1 /\ last \in executed
    /\ 1 .. Gone \subseteq executed
    /\ last \in {Gone, Gone + 1}

IInv == TypeOK /\ ServerInOrder /\ OneMessage /\ HeadOfServer

----------------------------------------------------------------------------
LEMMA RequestsAreNotResponses ==
    \A r, c : [request |-> r] # [response |-> c]
<1> TAKE r, c
<1>1. "request" \in DOMAIN [request |-> r] /\ "request" \notin DOMAIN [response |-> c]
  OBVIOUS
<1> QED
  BY <1>1, Zenon

LEMMA RequestsDiffer == [request |-> "GET"] # [request |-> "DELETE"]
<1>1. [request |-> "GET"].request # [request |-> "DELETE"].request
  OBVIOUS
<1> QED
  BY <1>1

\* Gone in a state where the types are right.
LEMMA GoneType == TypeOK => Gone \in Int /\ Len(server) \in Nat /\ issued = Gone + Len(server)
BY DEF TypeOK, Gone

LEMMA InitIInv == Init => IInv
<1> SUFFICES ASSUME Init PROVE IInv
  OBVIOUS
<1>1. uplink \in Seq(Requests \cup {"POST"}) /\ server \in Seq(Commands)
  BY DEF Init
<1>2. Len(uplink) = 0 /\ Len(server) = 0
  BY DEF Init
<1>3. /\ ready \in BOOLEAN /\ posts = 0 /\ network = {} /\ issued = 0
      /\ executed = {} /\ last = 0
  BY DEF Init
<1>4. TypeOK
  <2>1. last \in Responses
    BY <1>3 DEF Responses, NoneAvailable
  <2> QED
    BY <1>1, <1>2, <1>3, <2>1, RemoteCommandsAssumption DEF TypeOK
<1>5. Gone = 0 /\ ServerInOrder /\ OneMessage
  BY <1>2, <1>3 DEF ServerInOrder, OneMessage, Gone
<1>6. HeadOfServer
  BY <1>2, <1>3, <1>5 DEF HeadOfServer, DeletePending
<1> QED
  BY <1>4, <1>5, <1>6 DEF IInv

\* A packet is put in the uplink if there is room.
LEMMA SentFacts ==
    ASSUME TypeOK, NEW r \in Requests \cup {"POST"}
    PROVE  /\ Sent(r) \in Seq(Requests \cup {"POST"}) /\ Len(Sent(r)) <= UplinkSize
           /\ \/ Sent(r) = uplink
              \/ /\ Len(Sent(r)) = Len(uplink) + 1 /\ Sent(r)[Len(uplink) + 1] = r
                 /\ \A i \in 1 .. Len(uplink) : Sent(r)[i] = uplink[i]
<1>1. /\ Append(uplink, r) \in Seq(Requests \cup {"POST"})
      /\ Len(Append(uplink, r)) = Len(uplink) + 1
      /\ Append(uplink, r)[Len(uplink) + 1] = r
      /\ \A i \in 1 .. Len(uplink) : Append(uplink, r)[i] = uplink[i]
      /\ Len(uplink) \in Nat
  BY DEF TypeOK
<1> QED
  BY <1>1, RemoteCommandsAssumption DEF Sent, TypeOK

----------------------------------------------------------------------------
\* The handlers.

LEMMA PollIInv ==
    ASSUME Promptly, IInv, PollExpires
    PROVE  IInv'
<1> USE DEF IInv
<1>1. /\ network = {} /\ network' = {}
      /\ \A i \in 1 .. Len(uplink) : uplink[i] \notin Requests
  BY DEF PollExpires, Poll, Quiet
<1>2. /\ uplink' \in Seq(Requests \cup {"POST"}) /\ Len(uplink') <= UplinkSize
      /\ \/ uplink' = uplink
         \/ /\ Len(uplink') = Len(uplink) + 1 /\ uplink'[Len(uplink) + 1] = "GET"
            /\ \A i \in 1 .. Len(uplink) : uplink'[i] = uplink[i]
  BY SentFacts DEF PollExpires, Poll, Requests, TypeOK
<1>3. Len(uplink) \in Nat
  BY DEF TypeOK
<1>4. TypeOK'
  BY <1>2 DEF PollExpires, Poll, TypeOK
<1>5. OneMessage'
  BY <1>1, <1>2, <1>3 DEF OneMessage
<1>6. ~DeletePending'
  BY <1>1, <1>2, <1>3 DEF DeletePending, Requests
<1>7. ServerInOrder' /\ HeadOfServer'
  BY <1>1, <1>6 DEF PollExpires, Poll, ServerInOrder, HeadOfServer, Gone
<1> QED
  BY <1>4, <1>5, <1>7

\* The response to a GET, the only message there is: it is executed, and a DELETE sent.
LEMMA HandlePacketIInv ==
    ASSUME IInv, NEW c \in Responses, HandlePacket(c)
    PROVE  IInv'
<1> USE DEF IInv
<1>1. /\ [response |-> c] \in network /\ network' = {}
      /\ \A i \in 1 .. Len(uplink) : uplink[i] \notin Requests
  BY DEF HandlePacket, OneMessage
<1>2. Len(uplink) \in Nat
  BY DEF TypeOK
<1>3. Gone' = Gone /\ Gone \in Int /\ server' = server /\ issued' = issued
  BY GoneType DEF HandlePacket, Gone
<1>4. CASE ~Executes(c)
  <2>1. UNCHANGED <<uplink, executed, last, ready, posts>>
    BY <1>4 DEF HandlePacket, Deletes
  <2>2. ~DeletePending'
    BY <1>1, <2>1 DEF DeletePending, Requests
  <2> QED
    BY <1>1, <1>3, <2>1, <2>2 DEF TypeOK, ServerInOrder, OneMessage, HeadOfServer
<1>5. CASE Executes(c)
  <2>1. c \in Commands /\ c = Gone + 1 /\ Len(server) > 0
    BY <1>1, <1>5 DEF Executes, HeadOfServer
  <2>2. executed' = executed \cup {c} /\ last' = c /\ UNCHANGED <<ready, posts>>
    BY <1>5 DEF HandlePacket
  <2>3. /\ uplink' \in Seq(Requests \cup {"POST"}) /\ Len(uplink') <= UplinkSize
        /\ \/ uplink' = uplink
           \/ /\ Len(uplink') = Len(uplink) + 1 /\ uplink'[Len(uplink) + 1] = "DELETE"
              /\ \A i \in 1 .. Len(uplink) : uplink'[i] = uplink[i]
    BY <1>5, SentFacts DEF HandlePacket, Deletes, Requests
  <2>4. TypeOK'
    BY <1>1, <1>3, <2>1, <2>2, <2>3 DEF TypeOK, Responses
  <2>5. OneMessage'
    BY <1>1, <1>2, <2>3 DEF OneMessage
  <2>6. ServerInOrder' /\ HeadOfServer'
    BY <1>1, <1>3, <2>1, <2>2 DEF ServerInOrder, HeadOfServer
  <2> QED
    BY <2>4, <2>5, <2>6
<1> QED
  BY <1>4, <1>5

\* The datapoint thread's packets are not requests of the poll.
LEMMA DatapointIInv ==
    ASSUME IInv, Datapoint
    PROVE  IInv'
<1> USE DEF IInv
<1>1. /\ Len(uplink) \in Nat /\ uplink' \in Seq(Requests \cup {"POST"})
      /\ Len(uplink') = Len(uplink) + 1 /\ uplink'[Len(uplink) + 1] = "POST"
      /\ \A i \in 1 .. Len(uplink) : uplink'[i] = uplink[i]
      /\ Len(uplink) < UplinkSize
  BY DEF Datapoint, TypeOK
<1>2. UNCHANGED <<ready, network, server, issued, executed, last>>
  BY DEF Datapoint
<1>3. "POST" \notin Requests /\ "POST" # "DELETE"
  BY DEF Requests
<1>4. TypeOK'
  BY <1>1, <1>2, RemoteCommandsAssumption DEF Datapoint, TypeOK
<1>5. OneMessage'
  BY <1>1, <1>2, <1>3 DEF OneMessage
<1>6. DeletePending' => DeletePending
  BY <1>1, <1>2, <1>3 DEF DeletePending
<1>7. ServerInOrder' /\ HeadOfServer'
  BY <1>2, <1>6 DEF ServerInOrder, HeadOfServer, Gone
<1> QED
  BY <1>4, <1>5, <1>7

\* The head of the uplink goes into the network.
LEMMA TransmitIInv ==
    ASSUME IInv, Transmit
    PROVE  IInv'
<1> USE DEF IInv
<1> DEFINE h == Head(uplink)
<1>1. /\ Len(uplink) \in Nat \ {0} /\ uplink' = Tail(uplink) /\ h = uplink[1]
      /\ h \in Requests \cup {"POST"}
      /\ uplink' \in Seq(Requests \cup {"POST"}) /\ Len(uplink') = Len(uplink) - 1
      /\ \A i \in 1 .. Len(uplink') : uplink'[i] = uplink[i + 1]
  BY DEF Transmit, TypeOK
<1>2. UNCHANGED <<ready, posts, server, issued, executed, last>>
  BY DEF Transmit
<1>3. CASE h \in Requests
  <2>1. [request |-> h] \in Messages
    BY <1>3 DEF Messages
  <2>2. network' = {[request |-> h]} /\ network = {}
    BY <1>1, <1>3, <2>1 DEF Transmit, OneMessage
  <2>3. \A i \in 1 .. Len(uplink') : uplink'[i] \notin Requests
    BY <1>1, <1>3 DEF OneMessage
  <2>4. DeletePending' => h = "DELETE"
    BY <2>2, <2>3, RequestsDiffer DEF DeletePending, Requests
  <2>5. DeletePending' => DeletePending
    BY <1>1, <2>4 DEF DeletePending
  <2>6. TypeOK'
    BY <1>1, <1>2, <2>1, <2>2, RemoteCommandsAssumption DEF TypeOK
  <2>7. OneMessage'
    BY <2>2, <2>3 DEF OneMessage
  <2>8. \A c \in Commands : [response |-> c] \notin network'
    BY <2>2, RequestsAreNotResponses
  <2>9. ServerInOrder' /\ HeadOfServer'
    BY <1>2, <2>5, <2>8 DEF ServerInOrder, HeadOfServer, Gone
  <2> QED
    BY <2>6, <2>7, <2>9
<1>4. CASE h = "POST"
  <2>1. [request |-> h] \notin Messages
    <3>1. [request |-> h] \notin [request : Requests]
      BY <1>4 DEF Requests
    <3>2. [request |-> h] \notin [response : Responses]
      BY RequestsAreNotResponses
    <3> QED
      BY <3>1, <3>2 DEF Messages
  <2>2. network' = network
    BY <2>1 DEF Transmit
  <2>3. DeletePending' => DeletePending
    BY <1>1, <2>2 DEF DeletePending
  <2>4. TypeOK'
    BY <1>1, <1>2, <2>2, RemoteCommandsAssumption DEF TypeOK
  <2>5. OneMessage'
    BY <1>1, <2>2 DEF OneMessage
  <2>6. ServerInOrder' /\ HeadOfServer'
    BY <1>2, <2>2, <2>3 DEF ServerInOrder, HeadOfServer, Gone
  <2> QED
    BY <2>4, <2>5, <2>6
<1> QED
  BY <1>1, <1>3, <1>4

----------------------------------------------------------------------------
\* The network and the server.

LEMMA LoseIInv ==
    ASSUME IInv, NEW m, Lose(m)
    PROVE  IInv'
<1>1. network' \subseteq network
      /\ UNCHANGED <<ready, uplink, posts, server, issued, executed, last>>
  BY DEF Lose
<1>2. DeletePending' => DeletePending
  BY <1>1 DEF DeletePending
<1> QED
  BY <1>1, <1>2 DEF IInv, TypeOK, ServerInOrder, OneMessage, HeadOfServer, Gone

LEMMA ServerGetIInv ==
    ASSUME IInv, ServerGet
    PROVE  IInv'
<1> USE DEF IInv
<1> DEFINE c == IF server = <<>> THEN NoneAvailable ELSE Head(server)
<1>1. /\ network' = {[response |-> c]} /\ network # {}
      /\ UNCHANGED <<ready, uplink, posts, server, issued, executed, last>>
  BY DEF ServerGet, OneMessage
<1>2. c = NoneAvailable \/ (Len(server) > 0 /\ c \in Commands /\ c = Gone + 1)
  BY DEF TypeOK, ServerInOrder
<1>3. TypeOK'
  <2>1. [response |-> c] \in Messages
    BY <1>2 DEF Messages, Responses
  <2> QED
    BY <1>1, <2>1 DEF TypeOK
<1>4. OneMessage'
  BY <1>1 DEF OneMessage
<1>5. DeletePending' => DeletePending
  BY <1>1, RequestsAreNotResponses DEF DeletePending
<1>6. \A d \in Commands : [response |-> d] \in network' => d = c
  <2> SUFFICES ASSUME NEW d \in Commands, [response |-> d] = [response |-> c]
               PROVE  d = c
    BY <1>1
  <2>1. [response |-> d].response = [response |-> c].response
    OBVIOUS
  <2> QED
    BY <2>1
<1>7. ServerInOrder' /\ HeadOfServer'
  BY <1>1, <1>2, <1>5, <1>6
  DEF ServerInOrder, HeadOfServer, Gone, NoneAvailable, Commands
<1> QED
  BY <1>3, <1>4, <1>7

\* What is removed is the command that was executed last.
LEMMA ServerDeleteIInv ==
    ASSUME IInv, ServerDelete
    PROVE  IInv'
<1> USE DEF IInv
<1>1. /\ [request |-> "DELETE"] \in network /\ network' = {}
      /\ \A i \in 1 .. Len(uplink) : uplink[i] \notin Requests
      /\ UNCHANGED <<ready, uplink, posts, issued, executed, last>>
  BY DEF ServerDelete, OneMessage
<1>2. Len(server) > 0 /\ last = Gone + 1 /\ last \in executed
  BY <1>1 DEF HeadOfServer, DeletePending
<1>3. server # <<>> /\ server' = Tail(server)
  BY <1>2 DEF ServerDelete
<1>4. /\ server' \in Seq(Commands) /\ Len(server') = Len(server) - 1
      /\ Len(server) \in Nat \ {0}
      /\ \A i \in 1 .. Len(server') : server'[i] = server[i + 1]
  BY <1>3 DEF TypeOK
<1>5. Gone' = Gone + 1 /\ Gone \in Int
  BY <1>1, <1>4, GoneType DEF Gone, TypeOK
<1>6. TypeOK'
  BY <1>1, <1>4 DEF TypeOK
<1>7. ServerInOrder' /\ OneMessage'
  BY <1>1, <1>4, <1>5 DEF ServerInOrder, OneMessage
<1>8. ~DeletePending'
  BY <1>1 DEF DeletePending, Requests
<1>9. HeadOfServer'
  BY <1>1, <1>2, <1>5, <1>8 DEF HeadOfServer
<1> QED
  BY <1>6, <1>7, <1>9

LEMMA IssueIInv ==
    ASSUME IInv, Issue
    PROVE  IInv'
<1> USE DEF IInv
<1>1. /\ issued' = issued + 1 /\ issued \in Nat /\ issued' \in Commands
      /\ server' = Append(server, issued')
      /\ UNCHANGED <<ready, uplink, posts, network, executed, last>>
  BY RemoteCommandsAssumption DEF Issue, TypeOK, Commands
<1>2. /\ server' \in Seq(Commands) /\ Len(server) \in Nat
      /\ Len(server') = Len(server) + 1 /\ server'[Len(server) + 1] = issued + 1
      /\ \A i \in 1 .. Len(server) : server'[i] = server[i]
  BY <1>1 DEF TypeOK
<1>3. Gone' = Gone /\ Gone \in Int /\ issued = Gone + Len(server)
  BY <1>1, <1>2 DEF Gone
<1>4. TypeOK'
  BY <1>1, <1>2, RemoteCommandsAssumption DEF TypeOK, Commands
<1>5. ServerInOrder'
  BY <1>2, <1>3 DEF ServerInOrder
<1>6. OneMessage' /\ HeadOfServer'
  BY <1>1, <1>2, <1>3 DEF OneMessage, HeadOfServer, DeletePending
<1> QED
  BY <1>4, <1>5, <1>6

LEMMA NextIInv == Promptly /\ IInv /\ [Next]_vars => IInv'
<1> SUFFICES ASSUME Promptly, IInv, [Next]_vars PROVE IInv'
  OBVIOUS
<1>1. CASE UNCHANGED vars
  BY <1>1
  DEF vars, IInv, TypeOK, ServerInOrder, OneMessage, HeadOfServer, DeletePending, Gone
<1>2. CASE CellularUp
  BY <1>2
  DEF CellularUp, IInv, TypeOK, ServerInOrder, OneMessage, HeadOfServer, DeletePending,
      Gone
<1> QED
  BY <1>1, <1>2, PollIInv, HandlePacketIInv, DatapointIInv, TransmitIInv, LoseIInv,
     ServerGetIInv, ServerDeleteIInv, IssueIInv
  DEF Next

LEMMA Invariant == Promptly => (Spec => []IInv)
<1> SUFFICES ASSUME Promptly PROVE Spec => []IInv
  OBVIOUS
<1>1. IInv /\ [Next]_vars => IInv'
  BY NextIInv
<1> QED
  BY <1>1, InitIInv, PTL DEF Spec

----------------------------------------------------------------------------
\* Types do not depend on when messages arrive.

LEMMA InitTypes == Init => TypeOK
BY InitIInv DEF IInv

LEMMA PollTypes ==
    ASSUME TypeOK, \/ Poll \/ \E c \in Responses : HandlePacket(c)
    PROVE  TypeOK'
<1>1. ASSUME Poll PROVE TypeOK'
  BY <1>1, SentFacts DEF Poll, Requests, TypeOK
<1>2. ASSUME NEW c \in Responses, HandlePacket(c) PROVE TypeOK'
  <2>1. uplink' \in Seq(Requests \cup {"POST"}) /\ Len(uplink') <= UplinkSize
    BY <1>2, SentFacts DEF HandlePacket, Requests, TypeOK
  <2>2. executed' \subseteq Commands /\ last' \in Responses
    BY <1>2 DEF HandlePacket, Executes, Responses, TypeOK
  <2> QED
    BY <1>2, <2>1, <2>2 DEF HandlePacket, TypeOK
<1> QED
  BY <1>1, <1>2

LEMMA UplinkTypes ==
    ASSUME TypeOK, CellularUp \/ Datapoint \/ Transmit
    PROVE  TypeOK'
<1>1. CASE CellularUp
  BY <1>1 DEF CellularUp, TypeOK
<1>2. CASE Datapoint
  <2>1. uplink' \in Seq(Requests \cup {"POST"}) /\ Len(uplink') <= UplinkSize
    BY <1>2, RemoteCommandsAssumption DEF Datapoint, TypeOK
  <2>2. posts' \in 0 .. MaxPosts
    BY <1>2, RemoteCommandsAssumption DEF Datapoint, TypeOK
  <2> QED
    BY <1>2, <2>1, <2>2 DEF Datapoint, TypeOK
<1>3. CASE Transmit
  <2>1. uplink' \in Seq(Requests \cup {"POST"}) /\ Len(uplink') <= UplinkSize
    BY <1>3, RemoteCommandsAssumption DEF Transmit, TypeOK
  <2>2. network' \subseteq Messages
    BY <1>3 DEF Transmit, TypeOK
  <2> QED
    BY <1>3, <2>1, <2>2 DEF Transmit, TypeOK
<1> QED
  BY <1>1, <1>2, <1>3

LEMMA ServerTypes ==
    ASSUME TypeOK, \/ \E m \in Messages : Lose(m)
                   \/ ServerGet \/ ServerDelete \/ Issue
    PROVE  TypeOK'
<1>1. CASE \E m \in Messages : Lose(m)
  BY <1>1 DEF Lose, TypeOK
<1>2. CASE ServerGet
  <2> DEFINE c == IF server = <<>> THEN NoneAvailable ELSE Head(server)
  <2>1. c \in Responses
    BY DEF Responses, TypeOK
  <2>2. [response |-> c] \in Messages
    BY <2>1 DEF Messages
  <2>3. network' \subseteq Messages
    BY <1>2, <2>2 DEF ServerGet, TypeOK
  <2> QED
    BY <1>2, <2>3 DEF ServerGet, TypeOK
<1>3. CASE ServerDelete
  <2>1. server' \in Seq(Commands)
    BY <1>3 DEF ServerDelete, TypeOK
  <2> QED
    BY <1>3, <2>1 DEF ServerDelete, TypeOK
<1>4. CASE Issue
  <2>1. issued' \in Commands /\ issued' \in 0 .. MaxCommands
    BY <1>4, RemoteCommandsAssumption DEF Issue, TypeOK, Commands
  <2>2. server' \in Seq(Commands)
    BY <1>4, <2>1 DEF Issue, TypeOK
  <2> QED
    BY <1>4, <2>1, <2>2 DEF Issue, TypeOK
<1> QED
  BY <1>1, <1>2, <1>3, <1>4

\* Every variable holds a value of its type, whatever the network does; in particular
\* the uplink is never longer than the slab.
THEOREM TypeCorrect == Spec => []TypeOK
<1>1. TypeOK /\ [Next]_vars => TypeOK'
  <2>1. TypeOK /\ UNCHANGED vars => TypeOK'
    BY DEF vars, TypeOK
  <2> QED
    BY <2>1, PollTypes, UplinkTypes, ServerTypes DEF Next, PollExpires
<1> QED
  BY <1>1, InitTypes, PTL DEF Spec

----------------------------------------------------------------------------
\* Nothing of a command is lost, and they take effect in order.

\* A DELETE, which does not say what it removes, removes only commands that were
\* executed, whatever the network loses.
THEOREM RemovesExecuted == Promptly => (Spec => []RemovedWasExecuted)
<1>1. IInv => RemovedWasExecuted
  <2> SUFFICES ASSUME IInv, NEW c \in 1 .. issued, c \notin OnServer
               PROVE  c \in executed
    BY DEF RemovedWasExecuted, Removed
  <2>1. issued = Gone + Len(server) /\ Gone \in Int /\ Len(server) \in Nat
    BY GoneType DEF IInv
  <2>2. c > Gone => c - Gone \in 1 .. Len(server)
    BY <2>1
  <2>3. c > Gone => server[c - Gone] = c
    BY <2>1, <2>2 DEF IInv, ServerInOrder
  <2>4. ~(c > Gone)
    BY <2>2, <2>3 DEF OnServer
  <2> QED
    BY <2>1, <2>4 DEF IInv, HeadOfServer
<1> QED
  BY <1>1, Invariant, PTL

\* The steps of the poll that the issuer of commands sees.

LEMMA HandlePacketDelivery ==
    ASSUME IInv, NEW c \in Responses, HandlePacket(c)
    PROVE  Delivery!Execute \/ UNCHANGED <<issued, server, last>>
<1>1. CASE Executes(c)
  <2>1. c \in Commands \ Invalid /\ c = Gone + 1 /\ Len(server) > 0
    BY <1>1 DEF HandlePacket, Executes, IInv, HeadOfServer
  <2>2. last' = c /\ server' = server /\ issued' = issued
    BY <1>1 DEF HandlePacket
  <2>3. issued - Len(server) < issued
    BY <2>1, GoneType DEF IInv, Gone
  <2> QED
    BY <2>1, <2>2, <2>3 DEF Delivery!Execute, Gone
<1>2. CASE ~Executes(c)
  BY <1>2 DEF HandlePacket
<1> QED
  BY <1>1, <1>2

\* A DELETE takes off the command that was executed last.
LEMMA ServerDeleteDelivery ==
    ASSUME IInv, ServerDelete
    PROVE  Delivery!Remove
<1>1. Len(server) > 0 /\ last = Gone + 1
  BY DEF ServerDelete, IInv, HeadOfServer, DeletePending
<1>2. issued' = issued /\ last' = last /\ server' = Tail(server)
  BY <1>1 DEF ServerDelete
<1>3. Len(server') = Len(server) - 1 /\ Len(server) \in Nat
  BY <1>1, <1>2 DEF IInv, TypeOK
<1>4. issued' - Len(server') = Gone + 1
  BY <1>2, <1>3, GoneType DEF IInv, Gone
<1> QED
  BY <1>1, <1>2, <1>4 DEF Delivery!Remove, Gone

LEMMA IssueDelivery ==
    ASSUME IInv, Issue
    PROVE  Delivery!Issue
<1>1. issued' = issued + 1 /\ issued' \in Commands /\ last' = last
  BY RemoteCommandsAssumption DEF Issue, IInv, TypeOK, Commands
<1>2. Len(server') = Len(server) + 1 /\ Len(server) \in Nat
  BY <1>1 DEF Issue, IInv, TypeOK
<1>3. issued' - Len(server') = issued - Len(server)
  BY <1>1, <1>2, GoneType DEF IInv, Gone
<1> QED
  BY <1>1, <1>3 DEF Delivery!Issue

\* The poll delivers every command at least once and in order: it is executed before it
\* leaves the server, although the DELETE that takes it off does not say what it
\* removes; it may be repeated before the next one, if a DELETE is lost, but not later.
THEOREM DeliversInOrder == Promptly => (Spec => ExecutedInOrder)
<1>1. ASSUME Init PROVE Delivery!Init
  <2>1. Len(server) = 0 /\ issued = 0 /\ last = 0
    BY <1>1 DEF Init
  <2> QED
    BY <2>1 DEF Delivery!Init
<1>2. ASSUME IInv, [Next]_vars
      PROVE  [Delivery!Next]_<<issued, issued - Len(server), last>>
  <2>1. ASSUME NEW c \in Responses, HandlePacket(c)
        PROVE  Delivery!Execute \/ UNCHANGED <<issued, server, last>>
    BY <1>2, <2>1, HandlePacketDelivery
  <2>2. \/ UNCHANGED <<issued, server, last>>
        \/ Delivery!Execute \/ Delivery!Remove \/ Delivery!Issue
    BY <1>2, <2>1, ServerDeleteDelivery, IssueDelivery
    DEF Next, vars, PollExpires, Poll, CellularUp, Datapoint, Transmit, Lose, ServerGet
  <2> QED
    BY <2>2 DEF Delivery!Next
<1> QED
  BY <1>1, <1>2, Invariant, PTL DEF Spec, ExecutedInOrder, Delivery!Spec

----------------------------------------------------------------------------
\* The uplink.

LEMMA SentUplink ==
    ASSUME NEW r \in Requests, uplink' = Sent(r)
    PROVE  [Queue!Next]_uplink
BY DEF Sent, Queue!Next, Queue!Accept

\* Remote commands and the datapoint thread see of the cellular module what Cellular is
\* proved to implement (CellularProofs, ImplementsUplink): a queue of the slab's size
\* that hands over in order what it accepted.
THEOREM UsesUplink == Spec => Uplink
<1>1. Init => Queue!Init
  BY DEF Init, Queue!Init
<1>2. ASSUME [Next]_vars PROVE [Queue!Next]_uplink
  <2>1. CASE Poll
    BY <2>1, SentUplink DEF Poll, Requests
  <2>2. ASSUME NEW c \in Responses, HandlePacket(c) PROVE [Queue!Next]_uplink
    BY <2>2, SentUplink DEF HandlePacket, Requests
  <2>3. CASE Datapoint
    BY <2>3 DEF Datapoint, Queue!Next, Queue!Accept
  <2>4. CASE Transmit
    BY <2>4 DEF Transmit, Queue!Next, Queue!HandOver
  <2> QED
    BY <1>2, <2>1, <2>2, <2>3, <2>4
    DEF Next, vars, PollExpires, CellularUp, Lose, ServerGet, ServerDelete, Issue
<1> QED
  BY <1>1, <1>2, PTL DEF Spec, Uplink, Queue!Spec
=============================================================================
