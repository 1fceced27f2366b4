------------------------------ MODULE Incoming ------------------------------
(***************************************************************************)
(* Receiving: connect() as far as the broker's session depends on it, the  *)
(* part of poll() that reads and acknowledges PUBLISH and PUBREL           *)
(* (MqttProtocolEngine::receive_packet, protocol/mod.rs), the receive      *)
(* queue (state.rs) and next_message (client.rs), with either protocol     *)
(* handler, the network connection, and a broker that sends each message   *)
(* once per connection until it is acknowledged (external).                *)
(*                                                                         *)
(* An acknowledgement ends "sent"; "lost", an error or a dropped future    *)
(* before it left; or "written", the same after it left.  The message      *)
(* enters the queue after the send, only if that ended "sent".             *)
(***************************************************************************)
EXTENDS Handler, FiniteSets, Functions, SequencesExt

CONSTANTS
    Msgs,           \* what is published for this client
    QosOf,          \* the QoS it may reach the client with
    Capacity,       \* msg_capacity, which is max_inflight_messages
    Configs,        \* the client's configurations, see ConfigFields
    Window,         \* unacknowledged messages the broker allows by itself
    NoTopic,        \* the empty topic of a PUBLISH that names an alias instead
    \* Bounds of the checked instance.
    MaxFaults,      \* acknowledgements that do not end "sent" on a working link
    MaxReconnects,  \* connections after the first
    MaxStray,       \* packets that are neither PUBLISH nor PUBREL
    MaxChannel      \* packets in flight to the client before the broker waits

\* What CONNECT is made from: the protocol version, ClientConfig::clean_session
\* and will_message, and the fields of V5ConnectConfig the broker acts upon.
ConfigFields == [version: {3, 5}, clean: BOOLEAN, will: {{}, {"will"}},
                 session_expiry: {{}, {"long"}}, receive_maximum: {{}, {1}},
                 alias_maximum: {{}, {1}}]

ASSUME ConfigAssumption ==
    /\ IsFiniteSet(Msgs) /\ QosOf \in [Msgs -> SUBSET (0..2)]
    /\ Capacity \in Nat \ {0} /\ Configs \subseteq ConfigFields
    /\ Window \in Nat \ {0} /\ NoTopic \notin Msgs
    /\ MaxFaults \in Nat /\ MaxReconnects \in Nat /\ MaxStray \in Nat
    /\ MaxChannel \in Nat \ {0}

VARIABLES
    config,               \* of the present client
    state,                \* connection_state()
    engine,               \* MqttProtocolEngine::connected
    queue,                \* received_messages
    link,                 \* "up"; "closed" by the client; "down"
    toClient, toBroker,
    terms,                \* the CONNECT the broker accepted last
    unsent,               \* messages the broker has not sent yet
    outgoing,             \* those it has, unacknowledged: message, identifier, phase
    \* Ghosts: all receipts in order; messages that left the queue or whose
    \* acknowledgement was cut; messages settled at the broker; the PUBACKs and
    \* PUBRECs of each message that got lost on the way; messages for which the
    \* broker waits in vain on this connection.
    receipts, gone, settled, lostAcks, stuck,
    faults, reconnects, strays

client  == <<config, state, engine, queue>>
network == <<link, toClient, toBroker>>
broker  == <<terms, unsent, outgoing>>
ghosts  == <<receipts, gone, settled, lostAcks, stuck>>
bounds  == <<faults, reconnects, strays>>
vars    == <<client, network, broker, ghosts, bounds>>

Pids == 1..Cardinality(Msgs)

\* The type parameter H of the client.
HandlePacket(packet) ==
    IF config.version = 3 THEN HandlePacketV3(packet) ELSE HandlePacketV5(packet)
CreateAck(type, pid) ==
    IF config.version = 3 THEN CreateAckV3(type, pid) ELSE CreateAckV5(type, pid)
CreateDisconnect == IF config.version = 3 THEN CreateDisconnectV3 ELSE CreateDisconnectV5

-----------------------------------------------------------------------------
(* connect() and disconnect(), each one step: Connection has their parts *)

Login == "login"

Properties(c) ==
    [session_expiry |-> c.session_expiry, receive_maximum |-> c.receive_maximum,
     alias_maximum |-> c.alias_maximum]

\* connect_with_will: only a configured will makes the other packet.
ConnectPacket(c) ==
    IF c.version = 3
    THEN IF c.will = {} THEN CreateConnectV3(Login, c.clean)
         ELSE CreateConnectWithWillV3(Login, c.clean, "will")
    ELSE LET handler == NewV5Handler(Properties(c))
         IN  IF c.will = {} THEN CreateConnectV5(handler, Login, c.clean)
             ELSE CreateConnectWithWillV5(handler, Login, c.clean, "will")

\* A session ends with its connection, unless CONNECT asked for more: by not
\* being clean in version 3, by an expiry interval in version 5.
Persists(connect) ==
    IF connect.protocol = 3 THEN ~connect.clean
    ELSE connect.properties.session_expiry # None
MayAlias(connect) == connect.protocol = 5 /\ connect.properties.alias_maximum # None
SendWindow(connect) ==
    IF connect.protocol = 5 /\ connect.properties.receive_maximum # None
    THEN CHOOSE n \in connect.properties.receive_maximum : TRUE
    ELSE Window

\* What the broker sends again on a new connection, in the original order.
Topics(connect, m) == IF MayAlias(connect) THEN {m, NoTopic} ELSE {m}
PublishPacket(m, topic, qos, pid, dup) ==
    Published([topic |-> topic, qos |-> qos, retain |-> FALSE, payload |-> m], pid, dup, NoConfig)
Resent(entry) ==
    IF entry.phase = "publish" THEN PublishPacket(entry.msg, entry.msg, entry.qos, entry.pid, TRUE)
    ELSE Acknowledgement("PUBREL", entry.pid)

Connected(c, kept) ==
    /\ config' = c /\ state' = "Connected" /\ engine' = TRUE
    /\ link' = "up" /\ toBroker' = <<>>
    /\ terms' = ConnectPacket(c)
    /\ outgoing' = kept
    /\ toClient' = [i \in DOMAIN kept |-> Resent(kept[i])]

Init ==
    /\ \E c \in Configs :
           /\ config = c /\ terms = ConnectPacket(c)
    /\ state = "Connected" /\ engine = TRUE /\ queue = <<>>
    /\ link = "up" /\ toClient = <<>> /\ toBroker = <<>>
    /\ unsent = Msgs /\ outgoing = <<>>
    /\ receipts = <<>> /\ gone = {} /\ settled = {}
    /\ lostAcks = [m \in Msgs |-> 0] /\ stuck = {}
    /\ faults = 0 /\ reconnects = 0 /\ strays = 0

\* The same client, once disconnect() has reset the engine, or a new one with
\* its own empty queue.  The broker ends the session if either side of the gap
\* asks for it.
Connect(c) ==
    /\ link # "up" /\ toBroker = <<>> /\ c.version = config.version
    /\ reconnects < MaxReconnects /\ reconnects' = reconnects + 1
    /\ Connected(c, IF Persists(terms) /\ ~c.clean THEN outgoing ELSE <<>>)
    /\ \/ ~engine /\ c = config /\ UNCHANGED <<queue, gone>>
       \/ queue' = <<>> /\ gone' = gone \cup {queue[i].payload : i \in DOMAIN queue}
    /\ stuck' = {}
    /\ UNCHANGED <<unsent, receipts, settled, lostAcks, faults, strays>>

\* disconnect(): whatever becomes of DISCONNECT the client is Disconnected; the
\* engine and the transport follow only if it was sent.
Disconnect ==
    /\ state # "Disconnected" /\ engine
    /\ state' = "Disconnected"
    /\ \/ /\ engine' = FALSE
          /\ IF link = "up"
             THEN link' = "closed" /\ toBroker' = Append(toBroker, CreateDisconnect)
             ELSE UNCHANGED <<link, toBroker>>
          /\ toClient' = <<>>
          /\ UNCHANGED faults
       \/ /\ link = "up" => faults < MaxFaults
          /\ faults' = IF link = "up" THEN faults + 1 ELSE faults
          /\ UNCHANGED <<engine, network>>
    /\ UNCHANGED <<config, queue, broker, ghosts, reconnects, strays>>

-----------------------------------------------------------------------------
(* poll(): the packet *)

Outcomes == {"sent", "lost", "written"}

\* send_packet; a link that is gone swallows what is written to it.
SendAck(packet, outcome) ==
    /\ IF link = "up" /\ outcome # "lost"
       THEN toBroker' = Append(toBroker, packet) ELSE UNCHANGED toBroker
    /\ IF link = "up" /\ outcome # "sent"
       THEN faults < MaxFaults /\ faults' = faults + 1 ELSE UNCHANGED faults
    /\ state' \in IF outcome = "sent" THEN {state} ELSE {state, "Error"}

\* What poll() reads, while the engine counts itself connected, and what the
\* handler makes of it.
Action == HandlePacket(Head(toClient))
Reads(types) ==
    /\ engine /\ toClient # <<>> /\ Action.type \in types
    /\ toClient' = Tail(toClient)

Message(action) == [topic |-> action.topic, payload |-> action.payload]

\* Mutant: a full queue loses the newest of the messages that wait in it.
AddReceivedMessage_DropsLast(message) ==
    /\ queue' = Append(IF Len(queue) >= Capacity THEN Front(queue) ELSE queue, message)
    /\ gone' = IF Len(queue) >= Capacity THEN gone \cup {Last(queue).payload} ELSE gone
    /\ receipts' = Append(receipts, message.payload)

\* add_received_message: a full queue loses its oldest message.
AddReceivedMessage(message) ==
    /\ queue' = Append(IF Len(queue) >= Capacity THEN Tail(queue) ELSE queue, message)
    /\ gone' = IF Len(queue) >= Capacity THEN gone \cup {Head(queue).payload} ELSE gone
    /\ receipts' = Append(receipts, message.payload)

AckType(qos) == IF qos = 1 THEN "PUBACK" ELSE "PUBREC"

\* Mutants: the message is queued before it is acknowledged; a message with the
\* DUP flag counts as a duplicate.
ReceivePublish_Early ==
    /\ Reads({"PublishReceived"})
    /\ AddReceivedMessage(Message(Action))
    /\ IF Action.qos = 0 THEN UNCHANGED <<state, toBroker, lostAcks, stuck, faults>>
       ELSE \E outcome \in Outcomes :
           /\ SendAck(CreateAck(AckType(Action.qos), Action.pid), outcome)
           /\ lostAcks' = IF outcome = "sent" /\ link # "up"
                          THEN [lostAcks EXCEPT ![Action.payload] = @ + 1] ELSE lostAcks
           /\ stuck' = IF outcome = "lost" THEN stuck \cup {Action.payload} ELSE stuck
    /\ UNCHANGED <<config, engine, link, broker, settled, reconnects, strays>>
ReceivePublish_NoDup ==
    /\ Reads({"PublishReceived"})
    /\ IF Head(toClient).dup THEN UNCHANGED <<queue, gone, receipts>>
       ELSE AddReceivedMessage(Message(Action))
    /\ IF Action.qos = 0 THEN UNCHANGED <<state, toBroker, faults>>
       ELSE SendAck(CreateAck(AckType(Action.qos), Action.pid), "sent")
    /\ UNCHANGED <<config, engine, link, broker, settled, lostAcks, stuck, reconnects, strays>>

\* receive_packet acknowledges, then handle_packet_action queues the message
\* and reports it; nothing remembers a QoS 2 identifier.
ReceivePublish ==
    /\ Reads({"PublishReceived"})
    /\ IF Action.qos = 0
       THEN /\ AddReceivedMessage(Message(Action))
            /\ UNCHANGED <<state, toBroker, lostAcks, stuck, faults>>
       ELSE \E outcome \in Outcomes :
           /\ SendAck(CreateAck(AckType(Action.qos), Action.pid), outcome)
           /\ IF outcome = "sent" THEN AddReceivedMessage(Message(Action))
              ELSE /\ UNCHANGED <<queue, receipts>>
                   /\ gone' = IF outcome = "written" THEN gone \cup {Action.payload} ELSE gone
           /\ lostAcks' = IF outcome = "sent" /\ link # "up"
                          THEN [lostAcks EXCEPT ![Action.payload] = @ + 1] ELSE lostAcks
           /\ stuck' = IF outcome = "lost" THEN stuck \cup {Action.payload} ELSE stuck
    /\ UNCHANGED <<config, engine, link, broker, settled, reconnects, strays>>

Entry(pid) == {i \in DOMAIN outgoing : outgoing[i].pid = pid}
MsgsOf(pid) == {outgoing[i].msg : i \in Entry(pid)}

\* Mutant: PUBREL is not answered.
ReceivePubrel_Silent ==
    /\ Reads({"PublishRelease"})
    /\ UNCHANGED <<config, state, engine, queue, link, toBroker, broker, ghosts, bounds>>

ReceivePubrel ==
    /\ Reads({"PublishRelease"})
    /\ \E outcome \in Outcomes :
           /\ SendAck(CreateAck("PUBCOMP", Action.pid), outcome)
           /\ stuck' = IF outcome = "lost" THEN stuck \cup MsgsOf(Action.pid) ELSE stuck
    /\ UNCHANGED <<config, engine, queue, link, broker, receipts, gone, settled, lostAcks,
                   reconnects, strays>>

\* A PINGRESP, or a DISCONNECT of the server in version 5, changes nothing; a
\* packet the handler rejects is an error, after which the next poll() reads on.
ReceiveOther ==
    /\ Reads({"PingResponse", "None", "Error"})
    /\ state' = IF Action.type = "Error" THEN "Error" ELSE state
    /\ UNCHANGED <<config, engine, queue, link, toBroker, broker, ghosts, bounds>>

\* Mutant: the end of the stream is taken for the absence of a packet.
ReceiveFails_Quiet == FALSE

ReceiveFails ==
    /\ engine /\ link # "up" /\ toClient = <<>>
    /\ state' = "Error"
    /\ UNCHANGED <<config, engine, queue, network, broker, ghosts, bounds>>

\* poll() may end before it reads.  The connection timeout makes it enter Error;
\* KeepAlive says when.  A ping that fails, or that is refused in Error, changes
\* nothing.
PollTimesOut ==
    /\ engine /\ state' = "Error"
    /\ UNCHANGED <<config, engine, queue, network, broker, ghosts, bounds>>

NextMessage ==
    /\ queue # <<>> /\ queue' = Tail(queue)
    /\ gone' = gone \cup {Head(queue).payload}
    /\ UNCHANGED <<config, state, engine, network, broker, receipts, settled, lostAcks, stuck, bounds>>

-----------------------------------------------------------------------------
(* The network and the broker (external) *)

\* The acknowledgements on the way are lost; what the broker sent still arrives,
\* among it the DISCONNECT with which a broker of version 5 may end.
BreakLink ==
    /\ link # "down" /\ link' = "down" /\ toBroker' = <<>>
    /\ lostAcks' = [m \in Msgs |-> lostAcks[m] +
           Cardinality({i \in DOMAIN toBroker :
               toBroker[i].type \in {"PUBACK", "PUBREC"} /\ m \in MsgsOf(toBroker[i].pid)})]
    /\ \/ UNCHANGED toClient
       \/ config.version = 5 /\ link = "up" /\ toClient' = Append(toClient, [type |-> "DISCONNECT"])
    /\ UNCHANGED <<client, broker, receipts, gone, settled, stuck, bounds>>

FreePid == CHOOSE p \in Pids : Entry(p) = {}

BrokerSends(m) ==
    /\ link = "up" /\ m \in unsent /\ unsent' = unsent \ {m} /\ Len(toClient) < MaxChannel
    /\ \E topic \in Topics(terms, m), qos \in QosOf[m] :
           IF qos = 0
           THEN /\ toClient' = Append(toClient, PublishPacket(m, topic, 0, NoPid, FALSE))
                /\ UNCHANGED outgoing
           ELSE /\ Len(outgoing) < SendWindow(terms)
                /\ toClient' = Append(toClient, PublishPacket(m, topic, qos, FreePid, FALSE))
                /\ outgoing' = Append(outgoing,
                       [msg |-> m, qos |-> qos, pid |-> FreePid, phase |-> "publish"])
    /\ UNCHANGED <<client, link, toBroker, terms, ghosts, bounds>>

BrokerStray ==
    /\ link = "up" /\ strays < MaxStray /\ strays' = strays + 1 /\ Len(toClient) < MaxChannel
    /\ \E type \in {"PINGRESP"} \cup (IF config.version = 5 THEN {"AUTH"} ELSE {}) :
           toClient' = Append(toClient, [type |-> type])
    /\ UNCHANGED <<client, link, toBroker, broker, ghosts, faults, reconnects>>

Without(pid) ==
    IF Entry(pid) = {} THEN outgoing ELSE RemoveAt(outgoing, CHOOSE i \in Entry(pid) : TRUE)

BrokerReads ==
    /\ link # "down" /\ toBroker # <<>> /\ toBroker' = Tail(toBroker)
    /\ LET packet == Head(toBroker) IN
       CASE packet.type = "PUBACK" ->
                /\ outgoing' = Without(packet.pid) /\ settled' = settled \cup MsgsOf(packet.pid)
                /\ UNCHANGED toClient
         [] packet.type = "PUBREC" ->
                /\ outgoing' = [i \in DOMAIN outgoing |->
                       IF i \in Entry(packet.pid) THEN [outgoing[i] EXCEPT !.phase = "pubrel"]
                       ELSE outgoing[i]]
                /\ settled' = settled \cup MsgsOf(packet.pid)
                /\ toClient' = IF link = "up"
                       THEN Append(toClient, Acknowledgement("PUBREL", packet.pid)) ELSE toClient
         [] packet.type = "PUBCOMP" ->
                outgoing' = Without(packet.pid) /\ UNCHANGED <<settled, toClient>>
         [] packet.type = "DISCONNECT" -> UNCHANGED <<outgoing, settled, toClient>>
    /\ UNCHANGED <<client, link, terms, unsent, receipts, gone, lostAcks, stuck, bounds>>

-----------------------------------------------------------------------------

Receive == ReceivePublish \/ ReceivePubrel \/ ReceiveOther \/ ReceiveFails

Next ==
    \/ \E c \in Configs : Connect(c)
    \/ Disconnect \/ Receive \/ PollTimesOut \/ NextMessage
    \/ BreakLink \/ BrokerStray \/ BrokerReads
    \/ \E m \in Msgs : BrokerSends(m)

Spec == Init /\ [][Next]_vars

\* The application polls while it is connected, and the broker reads what
\* arrives.  A poll() in state Error may end before the read every time.
FairSpec == Spec /\ WF_vars(state = "Connected" /\ Receive) /\ WF_vars(BrokerReads)

-----------------------------------------------------------------------------
(* Properties *)

\* A message the broker regards as delivered is in the queue or has left it
\* in a way the application can know of: by next_message, displaced from a full
\* queue, with a discarded client, or in a call that failed after the
\* acknowledgement had left.
NoSilentLoss == settled \subseteq {queue[i].payload : i \in DOMAIN queue} \cup gone

\* The queue is the newest receipts in the order they arrived, as many as fit,
\* through overflow, reconnects and next_message.
QueueIsNewest ==
    LET old == Len(receipts) - Len(queue)
    IN  Len(queue) <= Capacity /\ \A i \in DOMAIN queue : queue[i].payload = receipts[old + i]

Copies(m) == Cardinality({i \in DOMAIN receipts : receipts[i] = m})

\* A message arrives twice only if an acknowledgement of it got lost on the way:
\* no cut call and no error on the client's side makes a duplicate, of QoS 2
\* least of all.
DuplicatesNeedLostAck == \A m \in Msgs : Copies(m) <= 1 + lostAcks[m]

Outstanding(m) == \E i \in DOMAIN outgoing : outgoing[i].msg = m
Lasting == <>[](state = "Connected" /\ engine /\ link = "up")

\* While the client stays connected every message the broker has outstanding is
\* acknowledged to the end, except those whose acknowledgement was cut: the
\* broker waits for these until a new connection.
OutstandingResolves ==
    Lasting => \A m \in Msgs : Outstanding(m) ~> (~Outstanding(m) \/ m \in stuck)

\* A lost connection does not stay unnoticed, though the DISCONNECT of a server
\* is ignored.
LossNoticed == (state = "Connected" /\ link = "down") ~> (state # "Connected" \/ link # "down")
=============================================================================
