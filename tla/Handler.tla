------------------------------ MODULE Handler ------------------------------
(***************************************************************************)
(* The two protocol handlers, V3Handler (protocol/v3.rs) and V5Handler     *)
(* (protocol/v5.rs): which packet a request becomes, and which action a    *)
(* received packet becomes.  The modules of the components extend this     *)
(* one.                                                                    *)
(*                                                                         *)
(* A packet and an action are records with a type.  An Option is a set of  *)
(* at most one element, except that pid 0 stands for none: an identifier   *)
(* is never 0.  A packet of version 3 has the properties None, as one of   *)
(* version 5 that carries none; those of a PUBLISH are always a record.  A *)
(* login is the client identifier, the credentials and the keep-alive      *)
(* interval; a message is topic, QoS, retain flag and payload.             *)
(***************************************************************************)
EXTENDS Integers, Sequences

None == {}
NoPid == 0
Error(kind) == [type |-> "Error", kind |-> kind]

Acknowledgement(type, pid) == [type |-> type, pid |-> pid]

Published(message, pid, dup, properties) ==
    [type |-> "PUBLISH", topic |-> message.topic, qos |-> message.qos,
     retain |-> message.retain, payload |-> message.payload,
     pid |-> pid, dup |-> dup, properties |-> properties]

-----------------------------------------------------------------------------
(* V3Handler *)

CreateConnectV3(login, clean) ==
    [type |-> "CONNECT", protocol |-> 3, login |-> login, clean |-> clean,
     will |-> None, properties |-> None]

CreateConnectWithWillV3(login, clean, will) ==
    [type |-> "CONNECT", protocol |-> 3, login |-> login, clean |-> clean,
     will |-> {will}, properties |-> None]

CreateSubscribeV3(filters, pid) ==
    IF filters = <<>> THEN Error("EmptySubscription")
    ELSE [type |-> "SUBSCRIBE", pid |-> pid, filters |-> filters, properties |-> None]

CreateUnsubscribeV3(filters, pid) ==
    IF filters = <<>> THEN Error("EmptySubscription")
    ELSE [type |-> "UNSUBSCRIBE", pid |-> pid, filters |-> filters, properties |-> None]

CreateAckV3(type, pid) == Acknowledgement(type, pid)

CreateDisconnectV3 == [type |-> "DISCONNECT"]

\* The action each acknowledgement becomes, in both versions.
AckActions == [PUBACK |-> "PublishAck", PUBREC |-> "PublishRec", PUBREL |-> "PublishRelease",
               PUBCOMP |-> "PublishComplete", UNSUBACK |-> "UnsubscribeAck"]

ConnectAck(packet) ==
    [type |-> "ConnectAck", session_present |-> packet.session_present,
     return_code |-> packet.code]

PublishReceived(packet) ==
    [type |-> "PublishReceived", topic |-> packet.topic, qos |-> packet.qos,
     retain |-> packet.retain, payload |-> packet.payload, pid |-> packet.pid]

\* What a broker may not send is an error.
HandlePacketV3(packet) ==
    CASE packet.type = "CONNACK" -> ConnectAck(packet)
      [] packet.type = "PUBLISH" -> PublishReceived(packet)
      [] packet.type \in DOMAIN AckActions -> Acknowledgement(AckActions[packet.type], packet.pid)
      [] packet.type = "SUBACK" ->
             [type |-> "SubscribeAck", pid |-> packet.pid, return_codes |-> packet.codes]
      [] packet.type = "PINGRESP" -> [type |-> "PingResponse"]
      [] OTHER -> Error("InvalidHeader")

-----------------------------------------------------------------------------
(* V5Handler: connect_config, topic_aliases and next_topic_alias *)

NewV5Handler(config) ==
    [connect_config |-> config, topic_aliases |-> [t \in {} |-> 0], next_topic_alias |-> 1]

\* The CONNECT properties are the fields of the connect configuration.
CreateConnectV5(handler, login, clean) ==
    [type |-> "CONNECT", protocol |-> 5, login |-> login, clean |-> clean,
     will |-> None, properties |-> handler.connect_config]

CreateConnectWithWillV5(handler, login, clean, will) ==
    [type |-> "CONNECT", protocol |-> 5, login |-> login, clean |-> clean,
     will |-> {will}, properties |-> handler.connect_config]

\* An identifier goes with QoS 1 and 2, and with those only.
PidFits(qos, pid) == (qos = 0) = (pid = NoPid)

\* The fields of a V5PublishConfig; the properties of a PUBLISH are the same.
NoConfig == [topic_alias |-> None, response_topic |-> None, correlation_data |-> None]

\* publish(), the retries and the resends use this one: no properties.
CreatePublishV5(message, pid, dup) ==
    IF PidFits(message.qos, pid) THEN Published(message, pid, dup, NoConfig) ELSE Error("ZeroPid")

\* The alias of a topic that has one, else the one the application gave, which
\* is not remembered, else a new one.  The topic is always there as well.
AliasFor(handler, topic, config) ==
    IF topic \in DOMAIN handler.topic_aliases THEN {handler.topic_aliases[topic]}
    ELSE IF config.topic_alias # None THEN config.topic_alias
    ELSE {handler.next_topic_alias}

\* Mutant: a topic that has an alias is left out.
CreatePublishWithConfig_Short(handler, message, pid, dup, config) ==
    IF PidFits(message.qos, pid)
    THEN Published(IF message.topic \in DOMAIN handler.topic_aliases
                   THEN [message EXCEPT !.topic = "none"] ELSE message,
                   pid, dup, [config EXCEPT !.topic_alias = AliasFor(handler, message.topic, config)])
    ELSE Error("ZeroPid")

CreatePublishWithConfig(handler, message, pid, dup, config) ==
    IF PidFits(message.qos, pid)
    THEN Published(message, pid, dup,
                   [config EXCEPT !.topic_alias = AliasFor(handler, message.topic, config)])
    ELSE Error("ZeroPid")

\* What the call above remembers: next_topic_alias is a u16; 65536
\* topics would make it overflow, which the models stay away from.
NextHandler(handler, topic, config) ==
    IF topic \in DOMAIN handler.topic_aliases \/ config.topic_alias # None THEN handler
    ELSE [handler EXCEPT
             !.topic_aliases = [t \in DOMAIN @ \cup {topic} |->
                 IF t = topic THEN handler.next_topic_alias ELSE @[t]],
             !.next_topic_alias = @ + 1]

CreateSubscribeWithConfig(filters, pid, config) ==
    IF filters = <<>> THEN Error("EmptySubscription")
    ELSE [type |-> "SUBSCRIBE", pid |-> pid, filters |-> filters, properties |-> config]

CreateSubscribeV5(filters, pid) ==
    IF filters = <<>> THEN Error("EmptySubscription")
    ELSE [type |-> "SUBSCRIBE", pid |-> pid, filters |-> filters, properties |-> None]

CreateUnsubscribeV5(filters, pid) ==
    IF filters = <<>> THEN Error("EmptySubscription")
    ELSE [type |-> "UNSUBSCRIBE", pid |-> pid, filters |-> filters, properties |-> None]

\* The reason is always success.
CreateAckV5(type, pid) == Acknowledgement(type, pid)

CreateDisconnectV5 == [type |-> "DISCONNECT"]

\* Reason codes, except the CONNACK's, and all properties are logged and
\* dropped; a DISCONNECT of the server is no error and asks for nothing.
HandlePacketV5(packet) ==
    CASE packet.type = "CONNACK" -> ConnectAck(packet)
      [] packet.type = "PUBLISH" -> PublishReceived(packet)
      [] packet.type \in DOMAIN AckActions -> Acknowledgement(AckActions[packet.type], packet.pid)
      [] packet.type = "SUBACK" ->
             [type |-> "SubscribeAck", pid |-> packet.pid, return_codes |-> packet.codes]
      [] packet.type = "PINGRESP" -> [type |-> "PingResponse"]
      [] packet.type = "DISCONNECT" -> [type |-> "None"]
      [] OTHER -> Error("InvalidHeader")
=============================================================================
