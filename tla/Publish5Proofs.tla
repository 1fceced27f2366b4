--------------------------- MODULE Publish5Proofs ---------------------------
(***************************************************************************)
(* Theorems of Publish5, for all messages and topics, all aliases the      *)
(* application gives and all limits of the broker.                         *)
(***************************************************************************)
EXTENDS Publish5, FiniteSetTheorems, TLAPS

\* What travels: a PUBLISH always names the topic of its message.
Props == [topic_alias: SUBSET Nat, response_topic: SUBSET {"replies"},
          correlation_data: SUBSET {"request"}]
Packets == {packet \in [type: {"PUBLISH"}, topic: Topics, qos: {0, 1}, retain: {FALSE},
                        payload: Msgs, pid: Nat, dup: BOOLEAN, properties: Props] :
               packet.topic = TopicOf[packet.payload]}
Pubacks == [type: {"PUBACK"}, pid: Nat]

\* The aliases of the handler are the numbers below the next one.
Handlers == [connect_config: {None}, topic_aliases: UNION {[T -> Nat] : T \in SUBSET Topics},
             next_topic_alias: Nat]
HandlerOK ==
    /\ handler \in Handlers
    /\ handler.next_topic_alias = Cardinality(DOMAIN handler.topic_aliases) + 1
    /\ AliasesDistinct

Numbered == DOMAIN publishes \subseteq 1..allocated /\ allocated <= Len(given)

Inv ==
    /\ TypeOK /\ HandlerOK /\ Numbered
    /\ toBroker \in Seq(Packets) /\ toClient \in Seq(Pubacks) /\ given \in Seq(Props)
    /\ RoutedAsIntended /\ RefusedForAReason

LEMMA Constants ==
    /\ Len(TopicOf) \in Nat /\ Msgs = 1..Len(TopicOf) /\ Cardinality(Msgs) = Len(TopicOf)
    /\ IsFiniteSet(Topics)
    /\ \A m \in Msgs : TopicOf[m] \in Topics
    /\ Qos1 \subseteq Msgs /\ AppAliases \subseteq Nat /\ AliasMax \in Nat
    /\ MaxRetry \in Nat /\ MaxFaults \in Nat /\ MaxReconnects \in Nat
<1>1. TopicOf \in Seq(Topics)
  BY ConfigAssumption
<1>2. Len(TopicOf) \in Nat /\ Msgs = 1..Len(TopicOf)
  BY <1>1 DEF Msgs
<1>3. IsFiniteSet(Msgs) /\ Cardinality(Msgs) = Len(TopicOf)
  <2>1. 1 \in Int /\ Len(TopicOf) \in Int
    BY <1>2
  <2>2. /\ IsFiniteSet(1..Len(TopicOf))
        /\ Cardinality(1..Len(TopicOf)) = IF 1 > Len(TopicOf) THEN 0 ELSE Len(TopicOf) - 1 + 1
    BY <2>1, FS_Interval
  <2> QED BY <1>2, <2>2
<1>4. TopicOf \in Surjection(Msgs, Topics)
  BY <1>1 DEF Topics, Msgs, Range, Surjection
<1>5. IsFiniteSet(Topics)
  BY <1>3, <1>4, FS_Surjection
<1> QED BY <1>2, <1>3, <1>4, <1>5, ConfigAssumption

LEMMA EmptySeq == ASSUME NEW T PROVE <<>> \in Seq(T)
  OBVIOUS

LEMMA AppendType ==
    ASSUME NEW T, NEW s \in Seq(T), NEW e \in T
    PROVE  Append(s, e) \in Seq(T) /\ Len(Append(s, e)) = Len(s) + 1
  OBVIOUS

LEMMA TailType == ASSUME NEW T, NEW s \in Seq(T), s # <<>> PROVE Head(s) \in T /\ Tail(s) \in Seq(T)
  OBVIOUS

-----------------------------------------------------------------------------
(* The packets *)

LEMMA FirstCopy ==
    ASSUME NEW h \in Handlers, NEW m \in Msgs, NEW n \in Nat, NEW config \in Props
    PROVE  LET pid == IF m \in Qos1 THEN n + 1 ELSE NoPid IN
           /\ CreatePublishWithConfig(h, Message(m), pid, FALSE, config) \in Packets
           /\ CreatePublishV5(Message(m), pid, FALSE) \in Packets
<1> DEFINE pid == IF m \in Qos1 THEN n + 1 ELSE NoPid
<1>1. Message(m) = [topic |-> TopicOf[m], qos |-> IF m \in Qos1 THEN 1 ELSE 0,
                    retain |-> FALSE, payload |-> m]
  BY DEF Message
<1>2. PidFits(Message(m).qos, pid) /\ pid \in Nat
  BY <1>1 DEF PidFits, NoPid
<1>3. AliasFor(h, TopicOf[m], config) \in SUBSET Nat
  BY Constants DEF AliasFor, Handlers, Props
<1>4. [config EXCEPT !.topic_alias = AliasFor(h, TopicOf[m], config)] \in Props
  BY <1>3 DEF Props
<1>5. ASSUME NEW properties \in Props PROVE Published(Message(m), pid, FALSE, properties) \in Packets
  BY <1>1, <1>2, Constants DEF Published, Packets
<1>6. NoConfig \in Props
  BY DEF NoConfig, Props, None
<1>7. Message(m).topic = TopicOf[m]
  BY <1>1
<1>8. CreatePublishV5(Message(m), pid, FALSE) = Published(Message(m), pid, FALSE, NoConfig)
  BY <1>2 DEF CreatePublishV5
<1>9. CreatePublishWithConfig(h, Message(m), pid, FALSE, config) =
          Published(Message(m), pid, FALSE,
                    [config EXCEPT !.topic_alias = AliasFor(h, TopicOf[m], config)])
  BY <1>2, <1>7 DEF CreatePublishWithConfig
<1> HIDE DEF pid
<1>10. /\ CreatePublishWithConfig(h, Message(m), pid, FALSE, config) \in Packets
       /\ CreatePublishV5(Message(m), pid, FALSE) \in Packets
  BY <1>4, <1>5, <1>6, <1>8, <1>9
<1> QED BY <1>10 DEF pid

LEMMA LaterCopy ==
    ASSUME Inv, NEW p \in DOMAIN publishes
    PROVE  Again(p) \in Packets
<1>1. publishes[p].msg \in Qos1 /\ publishes[p].msg \in Msgs /\ p \in Nat /\ p # 0
  <2>1. DOMAIN publishes \subseteq 1..Cardinality(Msgs) /\ publishes[p].msg \in Qos1
    BY DEF Inv, TypeOK
  <2>2. p \in 1..Cardinality(Msgs)
    BY <2>1
  <2>3. Cardinality(Msgs) \in Nat /\ Qos1 \subseteq Msgs
    BY Constants
  <2>4. p \in Nat /\ p # 0
    BY <2>2, <2>3
  <2>5. publishes[p].msg \in Msgs
    BY <2>1, <2>3
  <2> QED BY <2>1, <2>4, <2>5
<1>2. Message(publishes[p].msg) = [topic |-> TopicOf[publishes[p].msg], qos |-> 1, retain |-> FALSE,
                                   payload |-> publishes[p].msg]
  BY <1>1 DEF Message
<1>3. NoConfig \in Props
  BY DEF NoConfig, Props, None
<1>4. PidFits(Message(publishes[p].msg).qos, p)
  BY <1>1, <1>2 DEF PidFits, NoPid
<1>5. Again(p) = Published(Message(publishes[p].msg), p, TRUE, NoConfig)
  BY <1>4 DEF Again, CreatePublishV5
<1> QED BY <1>1, <1>2, <1>3, <1>5, Constants DEF Published, Packets

LEMMA SendType ==
    ASSUME Inv, NEW packet \in Packets, Send(packet)
    PROVE  toBroker' \in Seq(Packets) /\ faults' \in 0..MaxFaults
<1>1. toBroker' = toBroker \/ toBroker' = Append(toBroker, packet)
  BY DEF Send
<1>2. faults' = faults \/ (faults < MaxFaults /\ faults' = faults + 1)
  BY DEF Send
<1>3. toBroker' \in Seq(Packets)
  BY <1>1, AppendType DEF Inv
<1> QED BY <1>2, <1>3, Constants DEF Inv, TypeOK

\* An alias that is new to the table of the handler.
LEMMA NextHandlerOK ==
    ASSUME Inv, NEW topic \in Topics, NEW config, handler' = NextHandler(handler, topic, config)
    PROVE  HandlerOK'
<1>1. CASE handler' = handler
  BY <1>1 DEF Inv, HandlerOK, AliasesDistinct
<1>2. CASE handler' # handler
  <2> DEFINE old == handler.topic_aliases
             n == handler.next_topic_alias
  <2>1. topic \notin DOMAIN old
    BY <1>2 DEF NextHandler
  <2>2. handler \in Handlers /\ n \in Nat /\ DOMAIN old \subseteq Topics
        /\ \A t \in DOMAIN old : old[t] \in Nat /\ old[t] < n
    BY DEF Inv, HandlerOK, Handlers, AliasesDistinct
  <2>3. handler' = [handler EXCEPT
            !.topic_aliases = [t \in DOMAIN old \cup {topic} |-> IF t = topic THEN n ELSE old[t]],
            !.next_topic_alias = n + 1]
    BY <1>2 DEF NextHandler
  <2>4. /\ handler'.topic_aliases = [t \in DOMAIN old \cup {topic} |-> IF t = topic THEN n ELSE old[t]]
        /\ handler'.next_topic_alias = n + 1 /\ handler'.connect_config = None
        /\ handler' = [connect_config |-> None, topic_aliases |-> handler'.topic_aliases,
                       next_topic_alias |-> n + 1]
    BY <2>2, <2>3 DEF Handlers
  <2>5. handler'.topic_aliases \in [DOMAIN old \cup {topic} -> Nat]
    BY <2>2, <2>4
  <2>6. handler' \in Handlers
    BY <2>2, <2>4, <2>5 DEF Handlers
  <2>7. IsFiniteSet(DOMAIN old)
    BY <2>2, Constants, FS_Subset
  <2>8. Cardinality(DOMAIN old \cup {topic}) = Cardinality(DOMAIN old) + 1
    BY <2>1, <2>7, FS_AddElement
  <2>9. AliasesDistinct'
    <3>1. \A t \in DOMAIN handler'.topic_aliases :
              handler'.topic_aliases[t] < handler'.next_topic_alias
      BY <2>2, <2>4
    <3>2. IsInjective(old)
      BY DEF Inv, HandlerOK, AliasesDistinct
    <3>3. IsInjective(handler'.topic_aliases)
      BY <2>1, <2>2, <2>4, <3>2 DEF IsInjective
    <3> QED BY <3>1, <3>3 DEF AliasesDistinct
  <2>10. n = Cardinality(DOMAIN old) + 1
    BY DEF Inv, HandlerOK
  <2>11. DOMAIN handler'.topic_aliases = DOMAIN old \cup {topic}
    BY <2>4
  <2> QED BY <2>4, <2>6, <2>8, <2>9, <2>10, <2>11 DEF HandlerOK
<1> QED BY <1>1, <1>2

LEMMA HandlerBounds ==
    ASSUME NEW h \in Handlers, h.next_topic_alias = Cardinality(DOMAIN h.topic_aliases) + 1
    PROVE  /\ DOMAIN h.topic_aliases \subseteq Topics
           /\ h.next_topic_alias \in 1..(1 + Cardinality(Topics))
<1>1. DOMAIN h.topic_aliases \subseteq Topics
  BY DEF Handlers
<1>2. /\ Cardinality(DOMAIN h.topic_aliases) \in Nat /\ Cardinality(Topics) \in Nat
      /\ Cardinality(DOMAIN h.topic_aliases) <= Cardinality(Topics)
  BY <1>1, Constants, FS_Subset, FS_CardinalityType
<1> QED BY <1>1, <1>2

LEMMA NewHandlerType ==
    LET h == NewV5Handler(None) IN
    /\ h \in Handlers /\ DOMAIN h.topic_aliases = {}
    /\ h.next_topic_alias = Cardinality(DOMAIN h.topic_aliases) + 1
<1> DEFINE aliases == [t \in {} |-> 0]
<1>1. aliases \in [{} -> Nat] /\ {} \in SUBSET Topics /\ DOMAIN aliases = {}
  OBVIOUS
<1> HIDE DEF aliases
<1>2. aliases \in UNION {[T -> Nat] : T \in SUBSET Topics}
  BY <1>1
<1>3. [connect_config |-> None, topic_aliases |-> aliases, next_topic_alias |-> 1] \in Handlers
  BY <1>2 DEF Handlers
<1>4. NewV5Handler(None) = [connect_config |-> None, topic_aliases |-> aliases, next_topic_alias |-> 1]
  BY DEF NewV5Handler, aliases
<1> QED BY <1>1, <1>3, <1>4, FS_EmptySet

LEMMA NewHandlerOK == ASSUME handler' = NewV5Handler(None) PROVE HandlerOK'
  BY NewHandlerType DEF HandlerOK, AliasesDistinct, IsInjective

-----------------------------------------------------------------------------
(* The steps *)

LEMMA InitInv == Init => Inv
<1> SUFFICES ASSUME Init PROVE Inv
  OBVIOUS
<1>1. handler \in Handlers /\ handler.next_topic_alias = Cardinality(DOMAIN handler.topic_aliases) + 1
  BY NewHandlerType DEF Init
<1>2. HandlerOK
  BY NewHandlerType DEF Init, HandlerOK, AliasesDistinct, IsInjective
<1>3. Numbered /\ RoutedAsIntended /\ RefusedForAReason
  BY EmptySeq DEF Init, Numbered, RoutedAsIntended, RefusedForAReason, Nothing
<1>4. toBroker \in Seq(Packets) /\ toClient \in Seq(Pubacks) /\ given \in Seq(Props)
  BY EmptySeq DEF Init
<1>5. TypeOK
  BY <1>1, HandlerBounds, Constants DEF Init, TypeOK, Nothing
<1> QED BY <1>2, <1>3, <1>4, <1>5 DEF Inv

\* What both ways to publish have in common.
LEMMA AcceptedOK ==
    ASSUME Inv, NEW m \in Msgs, Accepted(m), publishes' = Stored(m),
           NEW config \in Props, given' = Append(given, config)
    PROVE  /\ Numbered' /\ given' \in Seq(Props) /\ Len(given)' \in 0..Len(TopicOf)
           /\ allocated' \in 0..Cardinality(Msgs) /\ allocated \in Nat
           /\ DOMAIN publishes' \subseteq 1..Cardinality(Msgs)
           /\ \A p \in DOMAIN publishes' :
                  publishes'[p].msg \in Qos1 /\ publishes'[p].retries \in 0..MaxRetry
<1>1. given' \in Seq(Props) /\ Len(given') = Len(given) + 1 /\ Len(given) \in Nat
  BY AppendType DEF Inv
<1>2. /\ m = Len(given) + 1 /\ m \in 1..Len(TopicOf) /\ Cardinality(Msgs) = Len(TopicOf)
      /\ Len(TopicOf) \in Nat /\ allocated \in Nat /\ allocated <= Len(given)
      /\ allocated' = IF m \in Qos1 THEN allocated + 1 ELSE allocated
  BY Constants DEF Accepted, Inv, TypeOK, Numbered
<1>3. allocated' \in 0..Cardinality(Msgs) /\ allocated' <= Len(given')
      /\ Len(given') \in 0..Len(TopicOf)
  BY <1>1, <1>2
<1>4. /\ DOMAIN publishes' \subseteq 1..allocated'
      /\ \A p \in DOMAIN publishes' :
             publishes'[p].msg \in Qos1 /\ publishes'[p].retries \in 0..MaxRetry
  <2>1. CASE m \in Qos1
    <3>1. publishes' = [k \in DOMAIN publishes \cup {allocated + 1} |->
              IF k = allocated + 1 THEN [msg |-> m, retries |-> 0] ELSE publishes[k]]
      BY <2>1 DEF Stored, Put, Pid
    <3>2. DOMAIN publishes \subseteq 1..allocated /\ allocated' = allocated + 1
      BY <1>2, <2>1 DEF Inv, Numbered
    <3>3. DOMAIN publishes' \subseteq 1..allocated'
      BY <1>2, <3>1, <3>2
    <3>4. ASSUME NEW p \in DOMAIN publishes'
          PROVE  publishes'[p].msg \in Qos1 /\ publishes'[p].retries \in 0..MaxRetry
      <4>1. CASE p = allocated + 1
        <5>1. publishes'[p] = [msg |-> m, retries |-> 0]
          BY <3>1, <4>1
        <5> QED BY <2>1, <5>1, Constants
      <4>2. CASE p # allocated + 1
        BY <3>1, <4>2 DEF Inv, TypeOK
      <4> QED BY <4>1, <4>2
    <3> QED BY <3>3, <3>4
  <2>2. CASE m \notin Qos1
    BY <1>2, <2>2 DEF Stored, Inv, TypeOK, Numbered
  <2> QED BY <2>1, <2>2
<1>5. DOMAIN publishes' \subseteq 1..Cardinality(Msgs)
  BY <1>2, <1>3, <1>4
<1> QED BY <1>1, <1>2, <1>3, <1>4, <1>5 DEF Numbered

LEMMA PublishV5Inv ==
    ASSUME Inv, NEW m \in Msgs, NEW config \in Props, PublishV5(m, config)
    PROVE  Inv'
<1>1. /\ Accepted(m) /\ publishes' = Stored(m) /\ given' = Append(given, config)
      /\ handler' = NextHandler(handler, TopicOf[m], config)
      /\ Send(CreatePublishWithConfig(handler, Message(m), Pid(m), FALSE, config))
      /\ UNCHANGED <<connected, link, toClient, table, routed, acked, denied, refused, reconnects>>
  BY DEF PublishV5
<1>2. /\ Numbered' /\ given' \in Seq(Props) /\ Len(given)' \in 0..Len(TopicOf)
      /\ allocated' \in 0..Cardinality(Msgs) /\ allocated \in Nat
      /\ DOMAIN publishes' \subseteq 1..Cardinality(Msgs)
      /\ \A p \in DOMAIN publishes' :
             publishes'[p].msg \in Qos1 /\ publishes'[p].retries \in 0..MaxRetry
  BY <1>1, AcceptedOK
<1>3. HandlerOK'
  BY <1>1, NextHandlerOK, Constants
<1>4. handler \in Handlers
  BY DEF Inv, HandlerOK
<1>5. CreatePublishWithConfig(handler, Message(m), Pid(m), FALSE, config) \in Packets
  BY <1>2, <1>4, FirstCopy DEF Pid
<1>6. toBroker' \in Seq(Packets) /\ faults' \in 0..MaxFaults
  BY <1>1, <1>5, SendType
<1>7. TypeOK'
  BY <1>1, <1>2, <1>3, <1>6, HandlerBounds DEF Inv, TypeOK, HandlerOK
<1> QED BY <1>1, <1>2, <1>3, <1>6, <1>7 DEF Inv, RoutedAsIntended, RefusedForAReason

LEMMA PublishInv == ASSUME Inv, NEW m \in Msgs, Publish(m) PROVE Inv'
<1>1. /\ Accepted(m) /\ publishes' = Stored(m) /\ given' = Append(given, NoConfig)
      /\ Send(CreatePublishV5(Message(m), Pid(m), FALSE))
      /\ UNCHANGED <<handler, connected, link, toClient, table, routed, acked, denied, refused,
                     reconnects>>
  BY DEF Publish
<1>2. NoConfig \in Props
  BY DEF NoConfig, Props, None
<1>3. /\ Numbered' /\ given' \in Seq(Props) /\ Len(given)' \in 0..Len(TopicOf)
      /\ allocated' \in 0..Cardinality(Msgs) /\ allocated \in Nat
      /\ DOMAIN publishes' \subseteq 1..Cardinality(Msgs)
      /\ \A p \in DOMAIN publishes' :
             publishes'[p].msg \in Qos1 /\ publishes'[p].retries \in 0..MaxRetry
  BY <1>1, <1>2, AcceptedOK
<1>4. handler \in Handlers
  BY DEF Inv, HandlerOK
<1>5. CreatePublishV5(Message(m), Pid(m), FALSE) \in Packets
  BY <1>2, <1>3, <1>4, FirstCopy DEF Pid
<1>6. toBroker' \in Seq(Packets) /\ faults' \in 0..MaxFaults
  BY <1>1, <1>5, SendType
<1>7. TypeOK'
  BY <1>1, <1>3, <1>6 DEF Inv, TypeOK
<1> QED BY <1>1, <1>3, <1>6, <1>7
        DEF Inv, RoutedAsIntended, RefusedForAReason, HandlerOK, AliasesDistinct

LEMMA RetryInv == ASSUME Inv, NEW p \in DOMAIN publishes, Retry(p) PROVE Inv'
<1>1. UNCHANGED <<handler, connected, link, toClient, table, allocated, given, routed, acked,
                  denied, refused, reconnects>>
  BY DEF Retry
<1>2. toBroker' \in Seq(Packets) /\ faults' \in 0..MaxFaults
  BY LaterCopy, SendType DEF Retry, Inv, TypeOK
<1>3. /\ DOMAIN publishes' \subseteq DOMAIN publishes
      /\ \A q \in DOMAIN publishes' :
             publishes'[q].msg \in Qos1 /\ publishes'[q].retries \in 0..MaxRetry
  <2>1. \A q \in DOMAIN publishes : publishes[q].msg \in Qos1 /\ publishes[q].retries \in 0..MaxRetry
    BY DEF Inv, TypeOK
  <2>2. CASE publishes[p].retries < MaxRetry
    <3>1. publishes' = [publishes EXCEPT ![p] = [publishes[p] EXCEPT !.retries = @ + 1]]
      BY <2>2 DEF Retry
    <3>2. publishes[p].retries + 1 \in 0..MaxRetry
      BY <2>1, <2>2, Constants
    <3> QED BY <2>1, <3>1, <3>2
  <2>3. CASE ~(publishes[p].retries < MaxRetry)
    <3>1. publishes' = [q \in DOMAIN publishes \ {p} |-> publishes[q]]
      BY <2>3 DEF Retry, Without, Restrict
    <3> QED BY <2>1, <3>1
  <2> QED BY <2>2, <2>3
<1>4. Numbered' /\ TypeOK'
  BY <1>1, <1>2, <1>3 DEF Inv, TypeOK, Numbered
<1> QED BY <1>1, <1>2, <1>4
        DEF Inv, RoutedAsIntended, RefusedForAReason, HandlerOK, AliasesDistinct

LEMMA ReceivePubackInv == ASSUME Inv, ReceivePuback PROVE Inv'
<1>1. /\ UNCHANGED <<handler, connected, link, toBroker, table, allocated, given, routed, denied,
                     refused, faults, reconnects>>
      /\ toClient # <<>> /\ toClient' = Tail(toClient)
  BY DEF ReceivePuback
<1>2. toClient' \in Seq(Pubacks)
  BY <1>1, TailType DEF Inv
<1>3. PICK action : /\ publishes' = Without(publishes, {action.pid})
                    /\ acked' = acked \cup {publishes[p].msg : p \in {action.pid} \cap DOMAIN publishes}
  BY DEF ReceivePuback
<1>4. /\ DOMAIN publishes' \subseteq DOMAIN publishes
      /\ \A q \in DOMAIN publishes' : publishes'[q] = publishes[q]
  BY <1>3 DEF Without, Restrict
<1>5. acked' \subseteq Msgs
  BY <1>3, Constants DEF Inv, TypeOK
<1>6. Numbered' /\ TypeOK'
  BY <1>1, <1>4, <1>5 DEF Inv, TypeOK, Numbered
<1> QED BY <1>1, <1>2, <1>6
        DEF Inv, RoutedAsIntended, RefusedForAReason, HandlerOK, AliasesDistinct

LEMMA ReconnectInv == ASSUME Inv, Reconnect PROVE Inv'
<1>1. /\ reconnects < MaxReconnects /\ reconnects' = reconnects + 1
      /\ connected' = TRUE /\ link' = TRUE /\ table' = Nothing /\ toClient' = <<>>
      /\ UNCHANGED <<publishes, ghosts, faults>>
  BY DEF Reconnect
<1>2. PICK order \in [1..Cardinality(DOMAIN publishes) -> DOMAIN publishes] :
          toBroker' = [i \in DOMAIN order |-> Again(order[i])]
  BY DEF Reconnect
<1>3. IsFiniteSet(1..Cardinality(Msgs))
  BY Constants, FS_Interval
<1>4. Cardinality(DOMAIN publishes) \in Nat
  BY <1>3, FS_Subset, FS_CardinalityType DEF Inv, TypeOK
<1>5. toBroker' \in Seq(Packets)
  <2>1. \A i \in 1..Cardinality(DOMAIN publishes) : Again(order[i]) \in Packets
    BY LaterCopy
  <2>2. toBroker' = [i \in 1..Cardinality(DOMAIN publishes) |-> Again(order[i])]
    BY <1>2
  <2>3. toBroker' \in [1..Cardinality(DOMAIN publishes) -> Packets]
    BY <2>1, <2>2
  <2> QED BY <1>4, <2>3
<1>6. HandlerOK'
  <2>1. handler' = handler \/ handler' = NewV5Handler(None)
    BY DEF Reconnect
  <2> QED BY <2>1, NewHandlerOK DEF Inv, HandlerOK, AliasesDistinct
<1>7. DOMAIN table' = {}
  BY <1>1 DEF Nothing
<1>8. TypeOK'
  BY <1>1, <1>6, <1>7, HandlerBounds, Constants DEF Inv, TypeOK, HandlerOK, ghosts
<1>9. toClient' \in Seq(Pubacks)
  BY <1>1, EmptySeq
<1> QED BY <1>1, <1>5, <1>6, <1>8, <1>9
        DEF Inv, Numbered, RoutedAsIntended, RefusedForAReason, ghosts

\* The link breaks, and the client notices.
LEMMA LinkInv == ASSUME Inv, BreakLink \/ ReceiveFails PROVE Inv'
<1>1. /\ UNCHANGED <<handler, publishes, toClient, table, ghosts, faults, reconnects>>
      /\ connected' \in BOOLEAN /\ link' \in BOOLEAN
      /\ toBroker' = toBroker \/ toBroker' = <<>>
  BY DEF BreakLink, ReceiveFails, network, Inv, TypeOK
<1>2. toBroker' \in Seq(Packets)
  BY <1>1, EmptySeq DEF Inv
<1> QED BY <1>1, <1>2
        DEF Inv, TypeOK, Numbered, RoutedAsIntended, RefusedForAReason, HandlerOK,
            AliasesDistinct, ghosts

-----------------------------------------------------------------------------
(* The broker *)

LEMMA HeadPacket ==
    ASSUME Inv, toBroker # <<>>
    PROVE  LET packet == Head(toBroker) IN
           /\ Tail(toBroker) \in Seq(Packets) /\ packet \in Packets
           /\ packet.payload \in Msgs /\ packet.topic = TopicOf[packet.payload]
           /\ packet.topic \in Topics /\ packet.topic # NoTopic /\ packet.pid \in Nat
<1>1. Head(toBroker) \in Packets /\ Tail(toBroker) \in Seq(Packets)
  BY TailType DEF Inv
<1> QED BY <1>1, ConfigAssumption DEF Packets

LEMMA BrokerRoutesInv == ASSUME Inv, BrokerRoutes PROVE Inv'
<1> DEFINE packet == Head(toBroker)
<1>1. /\ UNCHANGED <<handler, publishes, connected, link, allocated, given, acked, refused,
                     faults, reconnects>>
      /\ toBroker # <<>> /\ Valid(packet) /\ toBroker' = Tail(toBroker)
      /\ toClient' = IF packet.qos = 1
                     THEN Append(toClient, Acknowledgement("PUBACK", packet.pid)) ELSE toClient
  BY DEF BrokerRoutes
<1>2. /\ toBroker' \in Seq(Packets) /\ packet.payload \in Msgs
      /\ packet.topic = TopicOf[packet.payload] /\ packet.topic \in Topics
      /\ packet.topic # NoTopic /\ packet.pid \in Nat
  BY <1>1, HeadPacket
<1>3. table' = [a \in DOMAIN table \cup AliasOf(packet) |->
                   IF a \in AliasOf(packet) THEN packet.topic ELSE table[a]]
  BY <1>2 DEF BrokerRoutes
<1>4. \/ /\ routed' = routed \cup {[msg |-> packet.payload, topic |-> packet.topic,
                                    intact |-> Intact(packet)]}
         /\ UNCHANGED denied
      \/ denied' = denied \cup {packet.payload} /\ UNCHANGED routed
  BY <1>2 DEF BrokerRoutes
<1> HIDE DEF packet
<1>5. toClient' \in Seq(Pubacks)
  <2>1. Acknowledgement("PUBACK", packet.pid) \in Pubacks
    BY <1>2 DEF Acknowledgement, Pubacks
  <2> QED BY <1>1, <2>1, AppendType DEF Inv
<1>6. DOMAIN table' \subseteq 1..AliasMax /\ \A a \in DOMAIN table' : table'[a] \in Topics
  BY <1>1, <1>2, <1>3 DEF Inv, TypeOK, Valid
<1>7. denied' \subseteq Msgs
  BY <1>2, <1>4 DEF Inv, TypeOK
<1>8. RoutedAsIntended'
  BY <1>2, <1>4 DEF Inv, RoutedAsIntended
<1>9. TypeOK'
  BY <1>1, <1>6, <1>7 DEF Inv, TypeOK
<1> QED BY <1>1, <1>2, <1>5, <1>8, <1>9
        DEF Inv, Numbered, RefusedForAReason, HandlerOK, AliasesDistinct

\* A packet that names its topic can only be refused for its alias.
LEMMA BrokerRefusesInv == ASSUME Inv, BrokerRefuses PROVE Inv'
<1> DEFINE packet == Head(toBroker)
<1>1. /\ UNCHANGED <<handler, publishes, connected, toClient, table, allocated, given, routed, acked,
                     denied, faults, reconnects>>
      /\ toBroker # <<>> /\ ~Valid(packet) /\ refused' = refused \cup {AliasOf(packet)}
      /\ link' = FALSE /\ toBroker' = <<>>
  BY DEF BrokerRefuses
<1>2. packet.topic # NoTopic
  BY <1>1, HeadPacket
<1> HIDE DEF packet
<1>3. \E alias \in AliasOf(packet) : alias \notin 1..AliasMax
  BY <1>1, <1>2 DEF Valid
<1>4. RefusedForAReason'
  BY <1>1, <1>3 DEF Inv, RefusedForAReason
<1>5. toBroker' \in Seq(Packets)
  BY <1>1, EmptySeq
<1>6. TypeOK'
  BY <1>1 DEF Inv, TypeOK
<1> QED BY <1>1, <1>4, <1>5, <1>6 DEF Inv, Numbered, RoutedAsIntended, HandlerOK, AliasesDistinct

-----------------------------------------------------------------------------

LEMMA NextInv == Inv /\ [Next]_vars => Inv'
<1> SUFFICES ASSUME Inv, [Next]_vars PROVE Inv'
  OBVIOUS
<1>1. ASSUME NEW m \in Msgs, PublishWithAlias(m) PROVE Inv'
  <2>1. PICK alias \in AppAliases : PublishV5(m, [NoConfig EXCEPT !.topic_alias = {alias}])
    BY <1>1 DEF PublishWithAlias
  <2>2. [NoConfig EXCEPT !.topic_alias = {alias}] \in Props
    BY Constants DEF NoConfig, Props, None
  <2> QED BY <2>1, <2>2, PublishV5Inv
<1>2. ASSUME NEW m \in Msgs, PublishRequest(m) PROVE Inv'
  <2>1. RequestConfig \in Props
    BY DEF RequestConfig, NoConfig, Props, None
  <2> QED BY <1>2, <2>1, PublishV5Inv DEF PublishRequest
<1>3. ASSUME NEW m \in Msgs, PublishResponse(m) PROVE Inv'
  <2>1. ResponseConfig \in Props
    BY DEF ResponseConfig, NoConfig, Props, None
  <2> QED BY <1>3, <2>1, PublishV5Inv DEF PublishResponse
<1>4. CASE Application
  BY <1>1, <1>2, <1>3, <1>4, PublishInv DEF Application
<1>5. CASE Retries
  BY <1>5, RetryInv DEF Retries
<1>6. CASE Receive
  BY <1>6, ReceivePubackInv, LinkInv DEF Receive
<1>7. CASE Broker
  BY <1>7, BrokerRoutesInv, BrokerRefusesInv DEF Broker
<1>8. CASE UNCHANGED vars
  BY <1>8 DEF vars, network, ghosts, Inv, TypeOK, Numbered, RoutedAsIntended, RefusedForAReason,
              HandlerOK, AliasesDistinct
<1> QED BY <1>4, <1>5, <1>6, <1>7, <1>8, ReconnectInv, LinkInv DEF Next

LEMMA Invariance == Spec => []Inv
  BY InitInv, NextInv, PTL DEF Spec

\* The types, and the bounds: an identifier per message with QoS 1, an alias per
\* topic at most, MAX_RETRY_COUNT retries (create_publish_with_config, publish_v5,
\* handle_retries).
THEOREM TypeCorrect == Spec => []TypeOK
<1>1. Inv => TypeOK
  BY DEF Inv
<1> QED BY <1>1, Invariance, PTL

\* create_publish_with_config never gives two topics the same alias, however
\* connections and calls follow each other.
THEOREM AliasesNeverShared == Spec => []AliasesDistinct
<1>1. Inv => AliasesDistinct
  BY DEF Inv, HandlerOK
<1> QED BY <1>1, Invariance, PTL

\* No copy of a message, the first, a retry or one sent again after a
\* reconnection, is routed to another message's topic.
THEOREM NeverMisrouted == Spec => []RoutedAsIntended
<1>1. Inv => RoutedAsIntended
  BY DEF Inv
<1> QED BY <1>1, Invariance, PTL

\* A broker closes the connection over an alias beyond its maximum, and over
\* nothing else that the handler puts into a PUBLISH.
THEOREM OnlyTheMaximumRefused == Spec => []RefusedForAReason
<1>1. Inv => RefusedForAReason
  BY DEF Inv
<1> QED BY <1>1, Invariance, PTL

-----------------------------------------------------------------------------
(* Acknowledgements.  An identifier is given to one message only, so what is  *)
(* under way with it is about the message that waits under it, if one does.   *)

Answers == {r.msg : r \in routed} \cup denied
Asked == {packet \in Packets : packet.qos = 1 =>
             /\ packet.pid \in 1..allocated
             /\ packet.pid \in DOMAIN publishes => publishes[packet.pid].msg = packet.payload}
AnswerAcks == {ack \in Pubacks :
                  /\ ack.pid \in 1..allocated
                  /\ ack.pid \in DOMAIN publishes => publishes[ack.pid].msg \in Answers}
AnswerInv == toBroker \in Seq(Asked) /\ toClient \in Seq(AnswerAcks) /\ AckedWasAnswered

LEMMA SeqOfMore == ASSUME NEW A, NEW B, A \subseteq B, NEW s \in Seq(A) PROVE s \in Seq(B)
  OBVIOUS

\* A step that adds no entry but under a new identifier, and takes back no answer.
LEMMA StillAsked ==
    ASSUME Inv, Inv', allocated <= allocated', Answers \subseteq Answers',
           \A p \in DOMAIN publishes' : p \in 1..allocated =>
               p \in DOMAIN publishes /\ publishes'[p].msg = publishes[p].msg
    PROVE  /\ Asked \subseteq Asked' /\ AnswerAcks \subseteq AnswerAcks'
           /\ acked' = acked /\ AnswerInv => AckedWasAnswered'
           /\ AnswerInv => toBroker \in Seq(Asked') /\ toClient \in Seq(AnswerAcks')
<1>1. allocated \in Nat /\ allocated' \in Nat
  BY Constants DEF Inv, TypeOK
<1>2. Asked \subseteq Asked'
  <2> SUFFICES ASSUME NEW packet \in Asked PROVE packet \in Asked'
    OBVIOUS
  <2>1. packet \in Packets /\ Packets' = Packets
    BY DEF Asked, Packets, Msgs, Topics, Props
  <2> QED BY <1>1, <2>1 DEF Asked
<1>3. AnswerAcks \subseteq AnswerAcks'
  BY <1>1 DEF AnswerAcks, Pubacks
<1>4. acked' = acked /\ AnswerInv => AckedWasAnswered'
  BY DEF AnswerInv, AckedWasAnswered, Answers
<1> QED BY <1>2, <1>3, <1>4, SeqOfMore DEF AnswerInv

\* The first copy of a message is about the entry made for it.
LEMMA AcceptedAsked ==
    ASSUME Inv, Inv', AnswerInv, NEW m \in Msgs, Accepted(m), publishes' = Stored(m),
           NEW packet \in Packets, packet.payload = m, packet.pid = Pid(m),
           packet.qos = IF m \in Qos1 THEN 1 ELSE 0,
           Send(packet), UNCHANGED <<toClient, routed, acked, denied>>
    PROVE  AnswerInv'
<1>1. allocated \in Nat /\ allocated' = IF m \in Qos1 THEN allocated + 1 ELSE allocated
  BY Constants DEF Accepted, Inv, TypeOK
<1>2. publishes' = IF m \in Qos1
                   THEN [k \in DOMAIN publishes \cup {allocated + 1} |->
                            IF k = allocated + 1 THEN [msg |-> m, retries |-> 0] ELSE publishes[k]]
                   ELSE publishes
  BY DEF Stored, Put, Pid
<1>3. \A p \in DOMAIN publishes' : p \in 1..allocated =>
          p \in DOMAIN publishes /\ publishes'[p].msg = publishes[p].msg
  BY <1>1, <1>2
<1>4. packet \in Asked'
  <2>1. CASE m \in Qos1
    <3>1. packet.pid = allocated + 1 /\ packet.pid \in 1..allocated'
      BY <1>1, <2>1 DEF Pid
    <3>2. publishes'[packet.pid].msg = m
      BY <1>2, <2>1, <3>1
    <3>3. packet \in Packets'
      BY DEF Packets, Msgs, Topics, Props
    <3> QED BY <3>1, <3>2, <3>3 DEF Asked
  <2>2. CASE m \notin Qos1
    <3>1. packet.qos = 0
      BY <2>2
    <3>2. packet \in Packets /\ Packets' = Packets
      BY DEF Packets, Msgs, Topics, Props
    <3> QED BY <3>1, <3>2 DEF Asked
  <2> QED BY <2>1, <2>2
<1>5. Answers \subseteq Answers'
  BY DEF Answers
<1>6. /\ toBroker \in Seq(Asked') /\ toClient' \in Seq(AnswerAcks') /\ AckedWasAnswered'
  BY <1>1, <1>3, <1>5, StillAsked
<1>7. toBroker' = toBroker \/ toBroker' = Append(toBroker, packet)
  BY DEF Send
<1>8. toBroker' \in Seq(Asked')
  BY <1>4, <1>6, <1>7, AppendType
<1> QED BY <1>6, <1>8 DEF AnswerInv

LEMMA PublishAnswered ==
    ASSUME Inv, Inv', AnswerInv, NEW m \in Msgs,
           Publish(m) \/ \E config \in Props : PublishV5(m, config)
    PROVE  AnswerInv'
<1>1. /\ Message(m).payload = m /\ Message(m).qos = IF m \in Qos1 THEN 1 ELSE 0
      /\ Message(m).topic = TopicOf[m]
  BY DEF Message
<1>2. PidFits(Message(m).qos, Pid(m)) /\ allocated \in Nat /\ handler \in Handlers
  BY <1>1, Constants DEF PidFits, Pid, NoPid, Inv, TypeOK, HandlerOK
<1>3. ASSUME Publish(m) PROVE AnswerInv'
  <2> DEFINE packet == CreatePublishV5(Message(m), Pid(m), FALSE)
  <2>1. packet \in Packets
    <3>1. NoConfig \in Props
      BY DEF NoConfig, Props, None
    <3> QED BY <1>2, <3>1, FirstCopy DEF Pid
  <2>2. packet = Published(Message(m), Pid(m), FALSE, NoConfig)
    BY <1>2 DEF CreatePublishV5
  <2>3. packet.payload = m /\ packet.pid = Pid(m) /\ packet.qos = IF m \in Qos1 THEN 1 ELSE 0
    <3> HIDE DEF packet
    <3>1. packet.payload = Message(m).payload /\ packet.pid = Pid(m) /\ packet.qos = Message(m).qos
      BY <2>2 DEF Published
    <3> QED BY <1>1, <3>1
  <2>4. /\ Accepted(m) /\ publishes' = Stored(m) /\ Send(packet)
        /\ UNCHANGED <<toClient, routed, acked, denied>>
    BY <1>3 DEF Publish
  <2> QED BY <2>1, <2>3, <2>4, AcceptedAsked
<1>4. ASSUME NEW config \in Props, PublishV5(m, config) PROVE AnswerInv'
  <2> DEFINE packet == CreatePublishWithConfig(handler, Message(m), Pid(m), FALSE, config)
  <2>1. packet \in Packets
    BY <1>2, FirstCopy DEF Pid
  <2>2. packet = Published(Message(m), Pid(m), FALSE,
                           [config EXCEPT !.topic_alias = AliasFor(handler, TopicOf[m], config)])
    BY <1>1, <1>2 DEF CreatePublishWithConfig
  <2>3. packet.payload = m /\ packet.pid = Pid(m) /\ packet.qos = IF m \in Qos1 THEN 1 ELSE 0
    <3> HIDE DEF packet
    <3>1. packet.payload = Message(m).payload /\ packet.pid = Pid(m) /\ packet.qos = Message(m).qos
      BY <2>2 DEF Published
    <3> QED BY <1>1, <3>1
  <2>4. /\ Accepted(m) /\ publishes' = Stored(m) /\ Send(packet)
        /\ UNCHANGED <<toClient, routed, acked, denied>>
    BY <1>4 DEF PublishV5
  <2> QED BY <2>1, <2>3, <2>4, AcceptedAsked
<1> QED BY <1>3, <1>4

\* A later copy is about the entry it was made from.
LEMMA LaterCopyAsked == ASSUME Inv, NEW p \in DOMAIN publishes PROVE Again(p) \in Asked
<1>1. p \in 1..allocated /\ publishes[p].msg \in Qos1 /\ p \in Nat /\ p # 0
  BY Constants DEF Inv, Numbered, TypeOK
<1>2. PidFits(Message(publishes[p].msg).qos, p) /\ Message(publishes[p].msg).payload = publishes[p].msg
  BY <1>1 DEF Message, PidFits, NoPid
<1>3. Again(p).pid = p /\ Again(p).payload = publishes[p].msg
  BY <1>2 DEF Again, CreatePublishV5, Published
<1> QED BY <1>1, <1>3, LaterCopy DEF Asked

LEMMA RetryAnswered ==
    ASSUME Inv, Inv', AnswerInv, NEW p \in DOMAIN publishes, Retry(p)
    PROVE  AnswerInv'
<1>1. UNCHANGED <<toClient, allocated, routed, acked, denied>>
  BY DEF Retry
<1>2. /\ DOMAIN publishes' \subseteq DOMAIN publishes
      /\ \A q \in DOMAIN publishes' : publishes'[q].msg = publishes[q].msg
  <2>1. CASE publishes[p].retries < MaxRetry
    <3>1. publishes' = [publishes EXCEPT ![p] = [publishes[p] EXCEPT !.retries = @ + 1]]
      BY <2>1 DEF Retry
    <3>2. [publishes[p] EXCEPT !.retries = @ + 1].msg = publishes[p].msg
      OBVIOUS
    <3> QED BY <3>1, <3>2
  <2>2. CASE ~(publishes[p].retries < MaxRetry)
    BY <2>2 DEF Retry, Without, Restrict
  <2> QED BY <2>1, <2>2
<1>3. Answers' = Answers /\ allocated \in Nat
  BY <1>1, Constants DEF Answers, Inv, TypeOK
<1>4. /\ Asked \subseteq Asked' /\ toBroker \in Seq(Asked')
      /\ toClient' \in Seq(AnswerAcks') /\ AckedWasAnswered'
  BY <1>1, <1>2, <1>3, StillAsked
<1>5. toBroker' = toBroker \/ toBroker' = Append(toBroker, Again(p))
  BY DEF Retry, Send
<1>6. toBroker' \in Seq(Asked')
  BY <1>4, <1>5, LaterCopyAsked, AppendType
<1> QED BY <1>4, <1>6 DEF AnswerInv

LEMMA ReceivePubackAnswered == ASSUME Inv, Inv', AnswerInv, ReceivePuback PROVE AnswerInv'
<1> DEFINE ack == Head(toClient)
<1>1. /\ UNCHANGED <<toBroker, allocated, routed, denied>>
      /\ toClient # <<>> /\ toClient' = Tail(toClient)
  BY DEF ReceivePuback
<1>2. ack \in AnswerAcks /\ Tail(toClient) \in Seq(AnswerAcks)
  BY <1>1, TailType DEF AnswerInv
<1>3. HandlePacketV5(ack) = Acknowledgement("PublishAck", ack.pid)
  BY <1>2 DEF HandlePacketV5, AckActions, AnswerAcks, Pubacks
<1>4. HandlePacketV5(ack).pid = ack.pid
  BY <1>3 DEF Acknowledgement
<1>5. /\ publishes' = Without(publishes, {ack.pid})
      /\ acked' = acked \cup {publishes[p].msg : p \in {ack.pid} \cap DOMAIN publishes}
  BY <1>4 DEF ReceivePuback
<1> HIDE DEF ack
<1>6. Answers' = Answers /\ allocated \in Nat
  BY <1>1, Constants DEF Answers, Inv, TypeOK
<1>7. \A q \in DOMAIN publishes' : q \in DOMAIN publishes /\ publishes'[q] = publishes[q]
  BY <1>5 DEF Without, Restrict
<1>8. /\ AnswerAcks \subseteq AnswerAcks' /\ toBroker' \in Seq(Asked')
  BY <1>1, <1>6, <1>7, StillAsked
<1>9. toClient' \in Seq(AnswerAcks')
  BY <1>1, <1>2, <1>8, SeqOfMore
<1>10. AckedWasAnswered'
  <2>1. acked' \subseteq Answers
    BY <1>2, <1>5 DEF AnswerInv, AckedWasAnswered, Answers, AnswerAcks
  <2> QED BY <1>6, <2>1 DEF AckedWasAnswered, Answers
<1> QED BY <1>8, <1>9, <1>10 DEF AnswerInv

LEMMA ReconnectAnswered == ASSUME Inv, Inv', AnswerInv, Reconnect PROVE AnswerInv'
<1>1. toClient' = <<>> /\ UNCHANGED <<publishes, allocated, routed, denied, acked>>
  BY DEF Reconnect, ghosts
<1>2. PICK order \in [1..Cardinality(DOMAIN publishes) -> DOMAIN publishes] :
          toBroker' = [i \in DOMAIN order |-> Again(order[i])]
  BY DEF Reconnect
<1>3. Cardinality(DOMAIN publishes) \in Nat
  <2>1. IsFiniteSet(1..Cardinality(Msgs))
    BY Constants, FS_Interval
  <2> QED BY <2>1, FS_Subset, FS_CardinalityType DEF Inv, TypeOK
<1>4. toBroker' \in Seq(Asked)
  <2>1. \A i \in 1..Cardinality(DOMAIN publishes) : Again(order[i]) \in Asked
    BY LaterCopyAsked
  <2>2. toBroker' = [i \in 1..Cardinality(DOMAIN publishes) |-> Again(order[i])]
    BY <1>2
  <2>3. toBroker' \in [1..Cardinality(DOMAIN publishes) -> Asked]
    BY <2>1, <2>2
  <2> QED BY <1>3, <2>3
<1>5. Answers' = Answers /\ allocated \in Nat
  BY <1>1, Constants DEF Answers, Inv, TypeOK
<1>6. Asked \subseteq Asked' /\ AckedWasAnswered'
  BY <1>1, <1>5, StillAsked
<1>7. toBroker' \in Seq(Asked') /\ toClient' \in Seq(AnswerAcks')
  BY <1>1, <1>4, <1>6, SeqOfMore, EmptySeq
<1> QED BY <1>6, <1>7 DEF AnswerInv

\* Nothing but the network changes.
LEMMA NetworkAnswered ==
    ASSUME Inv, Inv', AnswerInv, BreakLink \/ ReceiveFails \/ BrokerRefuses \/ UNCHANGED vars
    PROVE  AnswerInv'
<1>1. /\ UNCHANGED <<publishes, allocated, toClient, routed, denied, acked>>
      /\ toBroker' = toBroker \/ toBroker' = <<>>
  BY DEF BreakLink, ReceiveFails, BrokerRefuses, vars, network, ghosts
<1>2. Answers' = Answers /\ allocated \in Nat
  BY <1>1, Constants DEF Answers, Inv, TypeOK
<1>3. toBroker \in Seq(Asked') /\ toClient' \in Seq(AnswerAcks') /\ AckedWasAnswered'
  BY <1>1, <1>2, StillAsked
<1> QED BY <1>1, <1>3, EmptySeq DEF AnswerInv

\* The broker answers with the identifier of what it routes or denies.
LEMMA BrokerRoutesAnswered == ASSUME Inv, Inv', AnswerInv, BrokerRoutes PROVE AnswerInv'
<1> DEFINE packet == Head(toBroker)
           ack == Acknowledgement("PUBACK", packet.pid)
<1>1. /\ UNCHANGED <<publishes, allocated, acked>>
      /\ toBroker # <<>> /\ toBroker' = Tail(toBroker)
      /\ toClient' = IF packet.qos = 1 THEN Append(toClient, ack) ELSE toClient
  BY DEF BrokerRoutes
<1>2. packet \in Asked /\ Tail(toBroker) \in Seq(Asked)
  BY <1>1, TailType DEF AnswerInv
<1>3. \/ /\ denied' = denied
         /\ \E topic : routed' = routed \cup {[msg |-> packet.payload, topic |-> topic,
                                               intact |-> Intact(packet)]}
      \/ denied' = denied \cup {packet.payload} /\ routed' = routed
  BY DEF BrokerRoutes
<1> HIDE DEF packet
<1>4. Answers \subseteq Answers' /\ packet.payload \in Answers'
  <2>1. CASE denied' = denied \cup {packet.payload} /\ routed' = routed
    BY <2>1 DEF Answers
  <2>2. ASSUME NEW topic, denied' = denied,
               routed' = routed \cup {[msg |-> packet.payload, topic |-> topic,
                                       intact |-> Intact(packet)]}
        PROVE  Answers \subseteq Answers' /\ packet.payload \in Answers'
    <3> DEFINE r == [msg |-> packet.payload, topic |-> topic, intact |-> Intact(packet)]
    <3>1. r \in routed' /\ r.msg = packet.payload
      BY <2>2
    <3> QED BY <2>2, <3>1 DEF Answers
  <2> QED BY <1>3, <2>1, <2>2
<1>5. allocated \in Nat
  BY Constants DEF Inv, TypeOK
<1>6. /\ Asked \subseteq Asked' /\ toClient \in Seq(AnswerAcks') /\ AckedWasAnswered'
  BY <1>1, <1>4, <1>5, StillAsked
<1>7. packet.qos = 1 => ack \in AnswerAcks'
  <2> SUFFICES ASSUME packet.qos = 1 PROVE ack \in AnswerAcks'
    OBVIOUS
  <2>1. /\ packet.pid \in 1..allocated
        /\ packet.pid \in DOMAIN publishes => publishes[packet.pid].msg = packet.payload
    BY <1>2 DEF Asked
  <2>2. ack \in Pubacks /\ ack.pid = packet.pid
    BY <1>2 DEF Acknowledgement, Pubacks, Asked, Packets
  <2> HIDE DEF ack
  <2> QED BY <1>1, <1>4, <2>1, <2>2 DEF AnswerAcks, Pubacks
<1> HIDE DEF ack
<1>8. toClient' \in Seq(AnswerAcks')
  BY <1>1, <1>6, <1>7, AppendType
<1>9. toBroker' \in Seq(Asked')
  BY <1>1, <1>2, <1>6, SeqOfMore
<1> QED BY <1>6, <1>8, <1>9 DEF AnswerInv

LEMMA NextAnswered == Inv /\ Inv' /\ AnswerInv /\ [Next]_vars => AnswerInv'
<1> SUFFICES ASSUME Inv, Inv', AnswerInv, [Next]_vars PROVE AnswerInv'
  OBVIOUS
<1>1. ASSUME NEW m \in Msgs, PublishWithAlias(m) PROVE AnswerInv'
  <2>1. PICK alias \in AppAliases : PublishV5(m, [NoConfig EXCEPT !.topic_alias = {alias}])
    BY <1>1 DEF PublishWithAlias
  <2>2. [NoConfig EXCEPT !.topic_alias = {alias}] \in Props
    BY Constants DEF NoConfig, Props, None
  <2> QED BY <2>1, <2>2, PublishAnswered
<1>2. ASSUME NEW m \in Msgs, PublishRequest(m) \/ PublishResponse(m) PROVE AnswerInv'
  <2>1. RequestConfig \in Props /\ ResponseConfig \in Props
    BY DEF RequestConfig, ResponseConfig, NoConfig, Props, None
  <2> QED BY <1>2, <2>1, PublishAnswered DEF PublishRequest, PublishResponse
<1>3. CASE Application
  BY <1>1, <1>2, <1>3, PublishAnswered DEF Application
<1>4. CASE Retries
  BY <1>4, RetryAnswered DEF Retries
<1>5. CASE Receive
  BY <1>5, ReceivePubackAnswered, NetworkAnswered DEF Receive
<1>6. CASE Broker
  BY <1>6, BrokerRoutesAnswered, NetworkAnswered DEF Broker
<1> QED BY <1>3, <1>4, <1>5, <1>6, ReconnectAnswered, NetworkAnswered DEF Next

\* What the client reports as acknowledged, the broker has routed or denied:
\* whichever copy a PUBACK answers, however late it arrives, it is about the
\* message that waits under its identifier (handle_publish_ack).
THEOREM AcknowledgedMeansAnswered == Spec => []AckedWasAnswered
<1>1. Init => AnswerInv
  BY EmptySeq DEF Init, AnswerInv, AckedWasAnswered
<1>2. AnswerInv => AckedWasAnswered
  BY DEF AnswerInv
<1> HIDE DEF Inv, AnswerInv
<1> QED BY <1>1, <1>2, Invariance, NextAnswered, PTL DEF Spec
=============================================================================
