--------------------------- MODULE RemoteCommands ---------------------------
(***************************************************************************)
(* Remote commands of the control core, remote_commands.c: a work item     *)
(* polls the server with a CoAP GET; the response, handled in the cellular *)
(* thread, is executed and then removed from the server with a DELETE.     *)
(* Requests are non-confirmable: nothing is repeated or acknowledged, and  *)
(* DELETE does not say what it removes.                                    *)
(*                                                                         *)
(* External are the server, a queue of commands that GET reads and DELETE  *)
(* takes the head of, and the network, which delivers in any order or      *)
(* loses.  With Promptly, a message is delivered or lost before the next   *)
(* poll is due, ten seconds later, and it is not delivered twice.          *)
(* Cellular is the bounded queue of Uplink, as long as its slab, which the *)
(* datapoint thread shares.  A command is its number.                      *)
(***************************************************************************)
EXTENDS Integers, Sequences

CONSTANTS
    MaxCommands,    \* bound: the commands the server is given
    Invalid,        \* those that process_remote_command rejects
    MaxPosts,       \* bound: the packets the datapoint thread sends
    UplinkSize,     \* CONFIG_CELLULAR_UPLINK_QUEUE_MAX_ITEMS
    Promptly

Commands == 1 .. MaxCommands
NoneAvailable == 0

ASSUME RemoteCommandsAssumption ==
    /\ MaxCommands \in Nat /\ MaxPosts \in Nat /\ Invalid \subseteq Commands
    /\ UplinkSize \in Nat \ {0} /\ Promptly \in BOOLEAN

VARIABLES
    ready,          \* cellular_state_get() = CELLULAR_STATE_RUNNING
    uplink,
    posts,          \* how many packets the datapoint thread has sent
    network,        \* the messages in flight, of either direction
    server,         \* the commands on the server
    issued,         \* how many it was given
    executed,       \* history: the commands that were executed
    last            \* history: the last of them

vars == <<ready, uplink, posts, network, server, issued, executed, last>>

Requests == {"GET", "DELETE"}
Responses == Commands \cup {NoneAvailable}
Messages == [request : Requests] \cup [response : Responses]

Init ==
    /\ ready = FALSE
    /\ uplink = <<>> /\ posts = 0 /\ network = {}
    /\ server = <<>> /\ issued = 0
    /\ executed = {} /\ last = 0

\* cellular_send_packet, which fails without a free packet.
SentAnyway(r) == Append(uplink, r)
Sent(r) == IF Len(uplink) < UplinkSize THEN Append(uplink, r) ELSE uplink

----------------------------------------------------------------------------
\* remote_command_poll_work_handler.  It schedules its item again in any case, so the
\* next poll is a matter of time, and knows nothing of the one before.
Poll ==
    /\ uplink' = IF ready THEN Sent("GET") ELSE uplink
    /\ UNCHANGED <<ready, posts, network, server, issued, executed, last>>

\* The environment, not the code: when the time-out of the work item expires.  With
\* Promptly the network and the cellular thread are by then through with the poll
\* before.
Quiet ==
    /\ network = {}
    /\ \A i \in 1 .. Len(uplink) : uplink[i] \notin Requests
PollExpires == (Promptly => Quiet) /\ Poll

\* The commands process_remote_command executes, and those it acknowledges with a
\* DELETE.
Executes(c) == c \in Commands \ Invalid
DeletesUnlessNone(c) == c \in Commands
DeletesOnce(c) == Executes(c) /\ c # last
Deletes(c) == Executes(c)

\* remote_commands_handle_packet, called with the response to a GET.
HandlePacket(c) ==
    /\ [response |-> c] \in network
    /\ network' = network \ {[response |-> c]}
    /\ executed' = IF Executes(c) THEN executed \cup {c} ELSE executed
    /\ last' = IF Executes(c) THEN c ELSE last
    /\ uplink' = IF Deletes(c) THEN Sent("DELETE") ELSE uplink
    /\ UNCHANGED <<ready, posts, server, issued>>

----------------------------------------------------------------------------
\* The cellular module and its other client.

CellularUp ==
    /\ ~ready /\ ready' = TRUE
    /\ UNCHANGED <<uplink, posts, network, server, issued, executed, last>>

Datapoint ==
    /\ ready /\ posts < MaxPosts
    /\ Len(uplink) < UplinkSize
    /\ posts' = posts + 1
    /\ uplink' = Append(uplink, "POST")
    /\ UNCHANGED <<ready, network, server, issued, executed, last>>

Transmit ==
    /\ ready /\ uplink # <<>>
    /\ uplink' = Tail(uplink)
    /\ network' = network \cup {m \in Messages : m = [request |-> Head(uplink)]}
    /\ UNCHANGED <<ready, posts, server, issued, executed, last>>

\* The network and the server.

Lose(m) ==
    /\ m \in network /\ network' = network \ {m}
    /\ UNCHANGED <<ready, uplink, posts, server, issued, executed, last>>

ServerGet ==
    LET c == IF server = <<>> THEN NoneAvailable ELSE Head(server) IN
    /\ [request |-> "GET"] \in network
    /\ network' = (network \ {[request |-> "GET"]}) \cup {[response |-> c]}
    /\ UNCHANGED <<ready, uplink, posts, server, issued, executed, last>>

ServerDelete ==
    /\ [request |-> "DELETE"] \in network
    /\ network' = network \ {[request |-> "DELETE"]}
    /\ server' = IF server = <<>> THEN server ELSE Tail(server)
    /\ UNCHANGED <<ready, uplink, posts, issued, executed, last>>

Issue ==
    /\ issued < MaxCommands
    /\ issued' = issued + 1
    /\ server' = Append(server, issued')
    /\ UNCHANGED <<ready, uplink, posts, network, executed, last>>

----------------------------------------------------------------------------
Next ==
    \/ PollExpires
    \/ \E c \in Responses : HandlePacket(c)
    \/ CellularUp \/ Datapoint \/ Transmit
    \/ \E m \in Messages : Lose(m)
    \/ ServerGet \/ ServerDelete \/ Issue

Spec == Init /\ [][Next]_vars

\* Work items and the cellular thread run and time passes; the network does not lose
\* every message.  Nothing is assumed of the modem or of who issues commands.
FairSpec ==
    /\ Spec
    /\ WF_vars(PollExpires) /\ WF_vars(Transmit)
    /\ SF_vars(ServerGet) /\ SF_vars(ServerDelete)
    /\ \A c \in Responses : SF_vars(HandlePacket(c))

----------------------------------------------------------------------------
\* Properties.

OnServer == {server[i] : i \in 1 .. Len(server)}
Removed == (1 .. issued) \ OnServer

\* Every variable holds a value of its type, and no more packets are queued than
\* the slab has.
TypeOK ==
    /\ ready \in BOOLEAN
    /\ uplink \in Seq(Requests \cup {"POST"}) /\ Len(uplink) <= UplinkSize
    /\ network \subseteq Messages
    /\ server \in Seq(Commands) /\ issued \in 0 .. MaxCommands /\ posts \in 0 .. MaxPosts
    /\ executed \subseteq Commands /\ last \in Responses

\* What this module takes for the cellular module is what Cellular implements, the
\* bounded queue of Uplink.
Queue == INSTANCE Uplink WITH outgoing <- uplink, Items <- Requests \cup {"POST"},
                              Size <- UplinkSize
Uplink == Queue!Spec

\* A DELETE, which names no command, removes only a command that was executed:
\* whatever is lost, no command disappears from the server without its effect.
RemovedWasExecuted == Removed \subseteq executed

\* Each command is executed before it leaves the server and after those given before
\* it.  One may be executed again, when its DELETE is lost, but not after a later one,
\* and none behind an invalid one.
Delivery == INSTANCE AtLeastOnce WITH removed <- issued - Len(server)
ExecutedInOrder == Delivery!Spec

\* When the modem has come up, and the datapoint thread does not keep the slab
\* exhausted, every command is executed and removed, as long as it
\* and those before it are valid: an invalid one stays at the head for good.
CommandsComplete ==
    \A c \in Commands :
        ready /\ c <= issued ~> c \in Removed \/ 1 .. c \cap Invalid # {}
=============================================================================
