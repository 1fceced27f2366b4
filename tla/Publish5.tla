------------------------------ MODULE Publish5 ------------------------------
(***************************************************************************)
(* Publishing with version 5: publish_v5, publish_request,                 *)
(* publish_response and publish (client.rs) with the packets V5Handler     *)
(* makes, what retries and resends make of them (protocol/mod.rs), and a   *)
(* broker with topic aliases and reason codes (external).                  *)
(*                                                                         *)
(* Messages have QoS 0 or 1; Delivery has the exchanges of QoS 2, the      *)
(* times of retries and identifiers that wrap around.  A send is either    *)
(* made or lost, by an error or a dropped future: nothing here depends on  *)
(* what the application was told.                                          *)
(***************************************************************************)
EXTENDS Handler, FiniteSets, Functions

CONSTANTS
    TopicOf,        \* the topics of the application's messages, in their order
    Qos1,           \* the messages with QoS 1; the others have QoS 0
    MaxInflight,    \* ClientConfig::max_inflight_messages
    MaxRetry,       \* MAX_RETRY_COUNT
    AppAliases,     \* the aliases the application may give itself
    AliasMax,       \* the broker's topic alias maximum, 0 if its CONNACK has none
    \* Bounds of the checked instance.
    MaxFaults,      \* sends lost on a working link
    MaxReconnects

NoTopic == "none"
Msgs == DOMAIN TopicOf
Topics == Range(TopicOf)

ASSUME ConfigAssumption ==
    /\ TopicOf \in Seq(Topics) /\ NoTopic \notin Topics /\ Qos1 \subseteq Msgs
    /\ MaxInflight \in Nat \ {0} /\ MaxRetry \in Nat
    /\ AppAliases \subseteq Nat /\ AliasMax \in Nat
    /\ MaxFaults \in Nat /\ MaxReconnects \in Nat

VARIABLES
    handler,             \* the V5Handler of the client
    publishes,           \* pending publishes: identifier -> message, retries
    connected,           \* connection_state() = Connected
    link, toBroker, toClient,
    table,               \* the broker's aliases: topics by alias, per connection
    \* Ghosts: identifiers handed out; the properties the messages published so
    \* far were given; what the broker routed: to which topic, and whether with
    \* these properties; messages reported as acknowledged; those
    \* the broker answered with a failure; the aliases that made the broker
    \* close the connection.
    allocated, given, routed, acked, denied, refused,
    faults, reconnects   \* bounded counters

network == <<link, toBroker, toClient>>
ghosts  == <<allocated, given, routed, acked, denied, refused>>
vars    == <<handler, publishes, connected, network, table, ghosts, faults, reconnects>>

Nothing == [k \in {} |-> k]
Put(f, key, value) == [k \in DOMAIN f \cup {key} |-> IF k = key THEN value ELSE f[k]]
Without(f, keys) == Restrict(f, DOMAIN f \ keys)

Message(m) == [topic |-> TopicOf[m], qos |-> IF m \in Qos1 THEN 1 ELSE 0,
               retain |-> FALSE, payload |-> m]

\* Everything but the alias is passed on as it is.
RequestConfig == [NoConfig EXCEPT !.response_topic = {"replies"}, !.correlation_data = {"request"}]
ResponseConfig == [NoConfig EXCEPT !.correlation_data = {"request"}]

Init ==
    /\ handler = NewV5Handler(None)
    /\ publishes = Nothing /\ connected = TRUE
    /\ link = TRUE /\ toBroker = <<>> /\ toClient = <<>> /\ table = Nothing
    /\ allocated = 0 /\ given = <<>> /\ routed = {}
    /\ acked = {} /\ denied = {} /\ refused = {}
    /\ faults = 0 /\ reconnects = 0

-----------------------------------------------------------------------------
(* publish_v5() and publish() *)

Send(packet) ==
    \/ /\ toBroker' = IF link THEN Append(toBroker, packet) ELSE toBroker
       /\ UNCHANGED faults
    \/ link /\ faults < MaxFaults /\ faults' = faults + 1 /\ UNCHANGED toBroker

\* The checks of publish and publish_v5, and the identifier.
Accepted(m) ==
    /\ connected /\ m = Len(given) + 1 /\ Cardinality(DOMAIN publishes) < MaxInflight
    /\ allocated' = IF m \in Qos1 THEN allocated + 1 ELSE allocated

\* Mutant: the number of pending publishes for an identifier.
Pid_Count(m) == IF m \in Qos1 THEN Cardinality(DOMAIN publishes) + 1 ELSE NoPid

Pid(m) == IF m \in Qos1 THEN allocated + 1 ELSE NoPid

\* What the session keeps of a message does not include its properties.
Stored(m) == IF m \in Qos1 THEN Put(publishes, Pid(m), [msg |-> m, retries |-> 0]) ELSE publishes

\* The alias is assigned before anything is sent, and stays assigned.
PublishV5(m, config) ==
    /\ Accepted(m)
    /\ handler' = NextHandler(handler, TopicOf[m], config)
    /\ publishes' = Stored(m)
    /\ Send(CreatePublishWithConfig(handler, Message(m), Pid(m), FALSE, config))
    /\ given' = Append(given, config)
    /\ UNCHANGED <<connected, link, toClient, table, routed, acked, denied, refused,
                   reconnects>>

PublishWithAlias(m) == \E alias \in AppAliases : PublishV5(m, [NoConfig EXCEPT !.topic_alias = {alias}])
PublishRequest(m) == PublishV5(m, RequestConfig)
PublishResponse(m) == PublishV5(m, ResponseConfig)

Publish(m) ==
    /\ Accepted(m)
    /\ publishes' = Stored(m)
    /\ Send(CreatePublishV5(Message(m), Pid(m), FALSE))
    /\ given' = Append(given, NoConfig)
    /\ UNCHANGED <<handler, connected, link, toClient, table, routed, acked, denied, refused, reconnects>>

-----------------------------------------------------------------------------
(* poll() and connect() *)

\* Mutant: a retry is made like the first copy, with its alias alone for a topic.
Again_Short(p) ==
    Published([Message(publishes[p].msg) EXCEPT !.topic = NoTopic], p, TRUE,
              [NoConfig EXCEPT !.topic_alias = AliasFor(handler, TopicOf[publishes[p].msg], NoConfig)])

\* A retransmission is made from what the session kept.
Again(p) == CreatePublishV5(Message(publishes[p].msg), p, TRUE)

\* Mutant: one retry too many.
Retry_OneMore(p) ==
    /\ connected /\ p \in DOMAIN publishes
    /\ IF publishes[p].retries <= MaxRetry
       THEN /\ publishes' = [publishes EXCEPT ![p].retries = @ + 1]
            /\ Send(Again(p))
       ELSE /\ publishes' = Without(publishes, {p})
            /\ UNCHANGED <<toBroker, faults>>
    /\ UNCHANGED <<handler, connected, link, toClient, table, allocated, given, routed, acked,
                   denied, refused, reconnects>>

Retry(p) ==
    /\ connected /\ p \in DOMAIN publishes
    /\ IF publishes[p].retries < MaxRetry
       THEN /\ publishes' = [publishes EXCEPT ![p].retries = @ + 1]
            /\ Send(Again(p))
       ELSE /\ publishes' = Without(publishes, {p})
            /\ UNCHANGED <<toBroker, faults>>
    /\ UNCHANGED <<handler, connected, link, toClient, table, allocated, given, routed, acked,
                   denied, refused, reconnects>>

\* The handler looks at no reason code: each PUBACK is a success.
ReceivePuback ==
    /\ toClient # <<>> /\ toClient' = Tail(toClient)
    /\ LET action == HandlePacketV5(Head(toClient)) IN
       /\ publishes' = Without(publishes, {action.pid})
       /\ acked' = acked \cup {publishes[p].msg : p \in {action.pid} \cap DOMAIN publishes}
    /\ UNCHANGED <<handler, connected, link, toBroker, table, allocated, given, routed, denied,
                   refused, faults, reconnects>>

ReceiveFails ==
    /\ connected /\ ~link /\ toClient = <<>> /\ connected' = FALSE
    /\ UNCHANGED <<handler, publishes, network, table, ghosts, faults, reconnects>>

\* A new connection of the same client, or of a new one with the session and a
\* handler of its own, to a broker that kept its session: all pending publishes
\* are sent again, the broker knows no aliases.
Reconnect ==
    /\ ~connected /\ reconnects < MaxReconnects /\ reconnects' = reconnects + 1
    /\ connected' = TRUE /\ link' = TRUE /\ table' = Nothing /\ toClient' = <<>>
    /\ \E order \in [1..Cardinality(DOMAIN publishes) -> DOMAIN publishes] :
           /\ Range(order) = DOMAIN publishes
           /\ toBroker' = [i \in DOMAIN order |-> Again(order[i])]
    /\ handler' \in {handler, NewV5Handler(None)}
    /\ UNCHANGED <<publishes, ghosts, faults>>

-----------------------------------------------------------------------------
(* The network and the broker (external) *)

\* The instance lets the link break only if it lets the client connect again.
BreakLink ==
    /\ link /\ reconnects < MaxReconnects /\ link' = FALSE /\ toBroker' = <<>>
    /\ UNCHANGED <<handler, publishes, connected, toClient, table, ghosts, faults, reconnects>>

AliasOf(packet) == packet.properties.topic_alias
Valid(packet) == \A alias \in AliasOf(packet) :
    /\ alias \in 1..AliasMax
    /\ packet.topic = NoTopic => alias \in DOMAIN table

\* All that V5PublishConfig carries besides the alias.
Intact(packet) ==
    [packet.properties EXCEPT !.topic_alias = None] = [given[packet.payload] EXCEPT !.topic_alias = None]

\* A valid packet sets its alias and is routed, or is denied with a reason code.
BrokerRoutes ==
    /\ link /\ toBroker # <<>> /\ Valid(Head(toBroker)) /\ toBroker' = Tail(toBroker)
    /\ LET packet == Head(toBroker)
           topic == IF packet.topic = NoTopic THEN table[CHOOSE a \in AliasOf(packet) : TRUE]
                    ELSE packet.topic
       IN  /\ table' = [a \in DOMAIN table \cup AliasOf(packet) |->
                            IF a \in AliasOf(packet) THEN topic ELSE table[a]]
           /\ \/ /\ routed' = routed \cup {[msg |-> packet.payload, topic |-> topic,
                                           intact |-> Intact(packet)]}
                 /\ UNCHANGED denied
              \/ /\ packet.qos = 1 /\ denied' = denied \cup {packet.payload}
                 /\ UNCHANGED routed
           /\ toClient' = IF packet.qos = 1
                          THEN Append(toClient, Acknowledgement("PUBACK", packet.pid)) ELSE toClient
    /\ UNCHANGED <<handler, publishes, connected, link, allocated, given, acked, refused,
                   faults, reconnects>>

\* An alias out of range, or unknown where the topic is missing, is a protocol
\* error: the broker closes the connection.
BrokerRefuses ==
    /\ link /\ toBroker # <<>> /\ ~Valid(Head(toBroker))
    /\ refused' = refused \cup {AliasOf(Head(toBroker))}
    /\ link' = FALSE /\ toBroker' = <<>>
    /\ UNCHANGED <<handler, publishes, connected, toClient, table, allocated, given, routed, acked,
                   denied, faults, reconnects>>

-----------------------------------------------------------------------------

Application == \E m \in Msgs :
    PublishWithAlias(m) \/ PublishRequest(m) \/ PublishResponse(m) \/ Publish(m)
Retries == \E p \in DOMAIN publishes : Retry(p)
Receive == ReceivePuback \/ ReceiveFails
Broker == BrokerRoutes \/ BrokerRefuses
Next == Application \/ Retries \/ Receive \/ Reconnect \/ BreakLink \/ Broker

Spec == Init /\ [][Next]_vars

-----------------------------------------------------------------------------
(* Properties *)

\* Entries, aliases and messages are ones the code can make.
TypeOK ==
    /\ DOMAIN handler.topic_aliases \subseteq Topics
    /\ handler.next_topic_alias \in 1..(1 + Cardinality(Topics))
    /\ DOMAIN publishes \subseteq 1..Cardinality(Msgs)
    /\ \A p \in DOMAIN publishes : publishes[p].msg \in Qos1 /\ publishes[p].retries \in 0..MaxRetry
    /\ connected \in BOOLEAN /\ link \in BOOLEAN
    /\ DOMAIN table \subseteq 1..AliasMax /\ \A a \in DOMAIN table : table[a] \in Topics
    /\ allocated \in 0..Cardinality(Msgs) /\ Len(given) \in 0..Len(TopicOf)
    /\ acked \subseteq Msgs /\ denied \subseteq Msgs
    /\ faults \in 0..MaxFaults /\ reconnects \in 0..MaxReconnects

\* A message is routed to its own topic, although aliases survive the
\* connection they were announced on, one of the application may be in use for
\* another topic, and a send that announced one may have failed.
RoutedAsIntended == \A r \in routed : r.topic = TopicOf[r.msg]

\* No two topics share an alias, and the next one is new.
AliasesDistinct ==
    /\ IsInjective(handler.topic_aliases)
    /\ \A t \in DOMAIN handler.topic_aliases : handler.topic_aliases[t] < handler.next_topic_alias

\* The broker closes the connection over an alias beyond its maximum, which the
\* handler does not know, and over nothing else: not over an alias the
\* connection has not seen, or a packet made from what the session kept.
RefusedForAReason == \A aliases \in refused : \E alias \in aliases : alias \notin 1..AliasMax

\* A message reported as acknowledged was routed, or denied by a reason code
\* the client does not look at.
AckedWasAnswered == acked \subseteq {r.msg : r \in routed} \cup denied

\* "Publishes a message with full MQTT v5.0 properties support." (client.rs):
\* whichever copy a subscriber gets, a request or a response has the topic and
\* the data it is answered or matched by.
EveryCopyIntact == \A r \in routed : r.intact
=============================================================================
