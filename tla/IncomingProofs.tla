--------------------------- MODULE IncomingProofs ---------------------------
(***************************************************************************)
(* Theorems about Incoming, with the proofs TLAPS checks: the receive      *)
(* queue, what happens to a message the broker counts as delivered, and    *)
(* when a message arrives twice.                                           *)
(***************************************************************************)
EXTENDS Incoming, FiniteSetTheorems, SequenceTheorems, TLAPS

-----------------------------------------------------------------------------
(* The invariants *)

Payloads == Msgs \cup {NoTopic}
Messages == [topic: Payloads, payload: Msgs]
Receipts == Seq(Msgs)
Entries == [msg: Msgs, qos: 1..2, pid: Pids, phase: {"publish", "pubrel"}]
Stray == {"PINGRESP", "AUTH", "DISCONNECT"}

\* Packets to the client: a PUBLISH carries an identifier if its QoS asks for one.
Once == {PublishPacket(m, topic, qos, NoPid, dup) :
            m \in Msgs, topic \in Payloads, qos \in 0..0, dup \in BOOLEAN}
Safely == {PublishPacket(m, topic, qos, pid, dup) :
              m \in Msgs, topic \in Payloads, qos \in 1..2, pid \in Pids, dup \in BOOLEAN}
Releases == {Acknowledgement("PUBREL", pid) : pid \in Pids}
Others == {[type |-> type] : type \in Stray}
FromBroker == Once \cup Safely \cup Releases \cup Others
AckTypes == {"PUBACK", "PUBREC", "PUBCOMP"}
FromClient ==
    {Acknowledgement(type, pid) : type \in AckTypes, pid \in Pids} \cup {[type |-> "DISCONNECT"]}

Typed ==
    /\ queue \in Seq(Messages) /\ receipts \in Seq(Msgs)
    /\ Len(queue) <= Capacity /\ Len(queue) <= Len(receipts)
    /\ toClient \in Seq(FromBroker) /\ toBroker \in Seq(FromClient)
    /\ outgoing \in Seq(Entries) /\ unsent \subseteq Msgs
    /\ lostAcks \in [Msgs -> Nat]

\* Who may carry an identifier.
IsPublish(p) == p.type = "PUBLISH"
Exchanging(p) == p.type = "PUBREL" \/ (p.type = "PUBLISH" /\ p.qos # 0)
IsAck(p) == p.type \in AckTypes

\* Identifiers and messages of what is outstanding are different, and a message
\* that was not sent is not outstanding.
Distinct ==
    /\ \A i, j \in DOMAIN outgoing :
           i # j => outgoing[i].pid # outgoing[j].pid /\ outgoing[i].msg # outgoing[j].msg
    /\ \A i \in DOMAIN outgoing : outgoing[i].msg \notin unsent

\* A packet on its way belongs to an exchange in its phase; the client holds, or
\* has let go of, what it acknowledged.
Belongs(p) == \E k \in DOMAIN outgoing :
    /\ outgoing[k].pid = p.pid
    /\ outgoing[k].phase = IF p.type \in {"PUBREL", "PUBCOMP"} THEN "pubrel" ELSE "publish"
Held == {queue[i].payload : i \in DOMAIN queue} \cup gone
ToClientBelongs == \A i \in DOMAIN toClient :
    LET p == toClient[i] IN
    /\ Exchanging(p) => Belongs(p)
    /\ IsPublish(p) => /\ p.payload \notin unsent
                       /\ \A k \in DOMAIN outgoing :
                              outgoing[k].msg = p.payload <=> p.qos # 0 /\ outgoing[k].pid = p.pid
ToBrokerBelongs == \A i \in DOMAIN toBroker :
    LET p == toBroker[i] IN
    IsAck(p) => /\ Belongs(p)
                /\ \A k \in DOMAIN outgoing :
                       outgoing[k].pid = p.pid /\ p.type # "PUBCOMP" => outgoing[k].msg \in Held

\* There is one packet of an exchange on its way at most, one way or the other.
Alone ==
    /\ \A i, j \in DOMAIN toClient : i # j =>
           /\ IsPublish(toClient[i]) /\ IsPublish(toClient[j])
                  => toClient[i].payload # toClient[j].payload
           /\ Exchanging(toClient[i]) /\ Exchanging(toClient[j])
                  => toClient[i].pid # toClient[j].pid
    /\ \A i, j \in DOMAIN toBroker : i # j =>
           (IsAck(toBroker[i]) /\ IsAck(toBroker[j]) => toBroker[i].pid # toBroker[j].pid)
    /\ \A i \in DOMAIN toClient, j \in DOMAIN toBroker :
           Exchanging(toClient[i]) /\ IsAck(toBroker[j]) => toClient[i].pid # toBroker[j].pid

Exchanges == Distinct /\ ToClientBelongs /\ ToBrokerBelongs /\ Alone

\* A message may still arrive, although no acknowledgement of it gets lost.
Pending(m) ==
    \/ m \in unsent
    \/ \E i \in DOMAIN toClient : IsPublish(toClient[i]) /\ toClient[i].payload = m
    \/ \E k \in DOMAIN outgoing :
           /\ outgoing[k].msg = m /\ outgoing[k].phase = "publish"
           /\ \A j \in DOMAIN toBroker : IsAck(toBroker[j]) => toBroker[j].pid # outgoing[k].pid
Counted == \A m \in Msgs :
    Copies(m) <= 1 + lostAcks[m] /\ (Pending(m) => Copies(m) <= lostAcks[m])

-----------------------------------------------------------------------------
(* Packets, actions and sequences *)

LEMMA Known ==
    /\ Capacity \in Nat \ {0} /\ IsFiniteSet(Msgs) /\ Cardinality(Msgs) \in Nat
    /\ Pids = 1..Cardinality(Msgs) /\ Pids \subseteq Nat
    /\ Msgs \subseteq Payloads /\ NoTopic \in Payloads /\ NoTopic \notin Msgs
    /\ QosOf \in [Msgs -> SUBSET (0..2)]
<1>1. Cardinality(Msgs) \in Nat
  BY ConfigAssumption, FS_CardinalityType
<1> QED BY <1>1, ConfigAssumption DEF Pids, Payloads

\* The fields of a packet on its way to the client, by its type.
LEMMA BrokerPackets ==
    ASSUME NEW p \in FromBroker
    PROVE  /\ p.type \in {"PUBLISH", "PUBREL"} \cup Stray
           /\ IsPublish(p) => /\ p.payload \in Msgs /\ p.topic \in Payloads /\ p.qos \in 0..2
                              /\ p.qos # 0 => p.pid \in Pids
           /\ p.type = "PUBREL" => p.pid \in Pids
           /\ Exchanging(p) => p.pid \in Pids
<1>1. CASE p \in Once
  BY <1>1 DEF Once, PublishPacket, Published, IsPublish, Exchanging
<1>2. CASE p \in Safely
  BY <1>2 DEF Safely, PublishPacket, Published, IsPublish, Exchanging
<1>3. CASE p \in Releases
  BY <1>3 DEF Releases, Acknowledgement, IsPublish, Exchanging
<1>4. CASE p \in Others
  BY <1>4 DEF Others, Stray, IsPublish, Exchanging
<1> QED BY <1>1, <1>2, <1>3, <1>4 DEF FromBroker

LEMMA ClientPackets ==
    ASSUME NEW p \in FromClient
    PROVE  /\ p.type \in AckTypes \cup {"DISCONNECT"}
           /\ IsAck(p) => p.pid \in Pids
  BY DEF FromClient, Acknowledgement, IsAck, AckTypes

\* What the handler of either version makes of a packet.
LEMMA Handled ==
    ASSUME NEW p, p.type \in {"PUBLISH", "PUBREL"} \cup Stray
    PROVE  /\ IsPublish(p) => HandlePacket(p) = PublishReceived(p)
           /\ p.type = "PUBREL" => HandlePacket(p) = Acknowledgement("PublishRelease", p.pid)
           /\ p.type \in Stray => HandlePacket(p).type \in {"PingResponse", "None", "Error"}
<1>1. CASE IsPublish(p)
  BY <1>1 DEF IsPublish, HandlePacket, HandlePacketV3, HandlePacketV5, Stray, AckActions
<1>2. CASE p.type = "PUBREL"
  BY <1>2 DEF IsPublish, HandlePacket, HandlePacketV3, HandlePacketV5, Stray, AckActions
<1>3. CASE p.type \in Stray
  BY <1>3 DEF IsPublish, HandlePacket, HandlePacketV3, HandlePacketV5, Stray, AckActions, Error
<1> QED BY <1>1, <1>2, <1>3

LEMMA Appending ==
    ASSUME NEW S, NEW s \in Seq(S), NEW x \in S
    PROVE  /\ Append(s, x) \in Seq(S) /\ Len(Append(s, x)) = Len(s) + 1
           /\ DOMAIN Append(s, x) = 1..(Len(s) + 1) /\ DOMAIN s = 1..Len(s) /\ Len(s) \in Nat
           /\ \A i \in DOMAIN s : Append(s, x)[i] = s[i]
           /\ Append(s, x)[Len(s) + 1] = x
  OBVIOUS

LEMMA Taking ==
    ASSUME NEW S, NEW s \in Seq(S), s # <<>>
    PROVE  /\ Head(s) \in S /\ Head(s) = s[1] /\ 1 \in DOMAIN s
           /\ Tail(s) \in Seq(S) /\ Len(Tail(s)) = Len(s) - 1 /\ Len(s) \in Nat \ {0}
           /\ DOMAIN Tail(s) = 1..(Len(s) - 1) /\ DOMAIN s = 1..Len(s)
           /\ \A i \in DOMAIN Tail(s) : Tail(s)[i] = s[i + 1]
  OBVIOUS

LEMMA Removing ==
    ASSUME NEW S, NEW s \in Seq(S), NEW k \in DOMAIN s
    PROVE  /\ RemoveAt(s, k) \in Seq(S) /\ Len(RemoveAt(s, k)) = Len(s) - 1
           /\ DOMAIN RemoveAt(s, k) = 1..(Len(s) - 1) /\ DOMAIN s = 1..Len(s)
           /\ \A i \in DOMAIN RemoveAt(s, k) : RemoveAt(s, k)[i] = s[IF i < k THEN i ELSE i + 1]
<1> DEFINE left == SubSeq(s, 1, k - 1)
           right == SubSeq(s, k + 1, Len(s))
<1>1. k \in 1..Len(s) /\ Len(s) \in Nat /\ DOMAIN s = 1..Len(s)
  OBVIOUS
<1>2. left \in Seq(S) /\ Len(left) = k - 1 /\ \A i \in 1..(k - 1) : left[i] = s[i]
  BY <1>1, SubSeqProperties, Z3
<1>3. right \in Seq(S) /\ Len(right) = Len(s) - k /\ \A i \in 1..(Len(s) - k) : right[i] = s[k + i]
  BY <1>1, SubSeqProperties, Z3
<1>4. left \o right \in Seq(S) /\ Len(left \o right) = Len(s) - 1
      /\ \A i \in 1..(Len(s) - 1) :
             (left \o right)[i] = IF i <= k - 1 THEN left[i] ELSE right[i - (k - 1)]
  <2> HIDE DEF left, right
  <2>1. \A t, u \in Seq(S) : t \o u \in Seq(S) /\ Len(t \o u) = Len(t) + Len(u)
        /\ \A i \in 1..(Len(t) + Len(u)) : (t \o u)[i] = IF i <= Len(t) THEN t[i] ELSE u[i - Len(t)]
    BY ConcatProperties
  <2>2. k - 1 + (Len(s) - k) = Len(s) - 1
    BY <1>1
  <2>3. left \o right \in Seq(S) /\ Len(left \o right) = Len(left) + Len(right)
        /\ \A i \in 1..(Len(left) + Len(right)) :
               (left \o right)[i] = IF i <= Len(left) THEN left[i] ELSE right[i - Len(left)]
    BY <1>2, <1>3, <2>1
  <2>4. Len(left) = k - 1 /\ Len(left) + Len(right) = Len(s) - 1
    BY <1>2, <1>3, <2>2
  <2> QED BY <2>3, <2>4, Zenon
<1>5. RemoveAt(s, k) = left \o right
  BY DEF RemoveAt
<1> HIDE DEF left, right
<1>6. \A i \in 1..(Len(s) - 1) : (left \o right)[i] = s[IF i < k THEN i ELSE i + 1]
  <2> SUFFICES ASSUME NEW i \in 1..(Len(s) - 1)
               PROVE  (left \o right)[i] = s[IF i < k THEN i ELSE i + 1]
    OBVIOUS
  <2>1. CASE i < k
    BY <1>1, <1>2, <1>4, <2>1
  <2>2. CASE ~(i < k)
    <3>1. i - (k - 1) \in 1..(Len(s) - k) /\ k + (i - (k - 1)) = i + 1
      BY <1>1, <2>2
    <3>2. right[i - (k - 1)] = s[i + 1]
      BY <1>3, <3>1
    <3> QED BY <1>1, <1>4, <2>2, <3>2
  <2> QED BY <2>1, <2>2
<1>7. DOMAIN (left \o right) = 1..(Len(s) - 1)
  BY <1>4
<1> QED BY <1>1, <1>4, <1>5, <1>6, <1>7

-----------------------------------------------------------------------------
(* The queue *)

\* add_received_message keeps the queue what it is, and the new message in it.
LEMMA Queueing ==
    ASSUME Typed, NEW action, action.topic \in Payloads, action.payload \in Msgs,
           AddReceivedMessage(Message(action))
    PROVE  /\ queue' \in Seq(Messages) /\ receipts' \in Seq(Msgs)
           /\ Len(queue') <= Capacity /\ Len(queue') <= Len(receipts')
           /\ Held \subseteq Held' /\ action.payload \in Held'
           /\ QueueIsNewest => QueueIsNewest'
<1> DEFINE message == Message(action)
           room == IF Len(queue) >= Capacity THEN Tail(queue) ELSE queue
<1>1. message \in Messages /\ message.payload = action.payload
  BY DEF Message, Messages
<1>2. /\ queue' = Append(room, message) /\ receipts' = Append(receipts, action.payload)
      /\ gone' = IF Len(queue) >= Capacity THEN gone \cup {Head(queue).payload} ELSE gone
  BY <1>1 DEF AddReceivedMessage
<1>3. /\ queue \in Seq(Messages) /\ receipts \in Seq(Msgs) /\ Len(queue) <= Capacity
      /\ Len(queue) <= Len(receipts) /\ Len(queue) \in Nat /\ Len(receipts) \in Nat
      /\ Capacity \in Nat \ {0}
  BY Known DEF Typed
<1>4. /\ receipts' \in Seq(Msgs) /\ Len(receipts') = Len(receipts) + 1
      /\ \A i \in 1..Len(receipts) : receipts'[i] = receipts[i]
      /\ receipts'[Len(receipts) + 1] = action.payload
  BY <1>2, <1>3, Appending
<1> HIDE DEF message
<1>5. CASE Len(queue) >= Capacity
  <2>1. queue # <<>> /\ Len(queue) = Capacity
    BY <1>3, <1>5
  <2>2. /\ room \in Seq(Messages) /\ Len(room) = Len(queue) - 1
        /\ \A i \in 1..(Len(queue) - 1) : room[i] = queue[i + 1]
        /\ Head(queue) = queue[1] /\ DOMAIN queue = 1..Len(queue)
    BY <1>3, <1>5, <2>1, Taking
  <2> HIDE DEF room
  <2>3. /\ queue' \in Seq(Messages) /\ Len(queue') = Len(queue) /\ DOMAIN queue' = 1..Len(queue)
        /\ \A i \in 1..(Len(queue) - 1) : queue'[i] = queue[i + 1]
        /\ queue'[Len(queue)] = message
    <3>1. /\ Append(room, message) \in Seq(Messages) /\ Len(Append(room, message)) = Len(room) + 1
          /\ DOMAIN Append(room, message) = 1..(Len(room) + 1) /\ DOMAIN room = 1..Len(room)
          /\ \A i \in DOMAIN room : Append(room, message)[i] = room[i]
          /\ Append(room, message)[Len(room) + 1] = message
      BY <1>1, <2>2, Appending
    <3> QED BY <1>2, <1>3, <2>2, <3>1
  <2>4. Held \subseteq Held'
    <3> SUFFICES ASSUME NEW i \in 1..Len(queue) PROVE queue[i].payload \in Held'
      BY <1>2, <2>2 DEF Held
    <3>1. CASE i = 1
      BY <1>2, <1>5, <2>2, <3>1 DEF Held
    <3>2. CASE i > 1
      <4>1. i - 1 \in 1..(Len(queue) - 1) /\ i - 1 \in DOMAIN queue' /\ queue[i] = queue'[i - 1]
        BY <1>3, <2>3, <3>2
      <4> QED BY <4>1 DEF Held
    <3> QED BY <1>3, <3>1, <3>2
  <2>5. action.payload \in Held'
    <3>1. Len(queue) \in DOMAIN queue' /\ queue'[Len(queue)].payload = action.payload
      BY <1>1, <1>3, <2>1, <2>3
    <3> QED BY <3>1 DEF Held
  <2>6. ASSUME QueueIsNewest PROVE QueueIsNewest'
    <3>1. Len(receipts') - Len(queue') = Len(receipts) - Len(queue) + 1
      BY <1>3, <1>4, <2>3
    <3>2. ASSUME NEW i \in DOMAIN queue'
          PROVE  queue'[i].payload = receipts'[Len(receipts) - Len(queue) + 1 + i]
      <4>1. CASE i = Len(queue)
        <5>1. Len(receipts) - Len(queue) + 1 + i = Len(receipts) + 1
          BY <1>3, <4>1
        <5>2. queue'[i].payload = action.payload
          BY <1>1, <2>3, <4>1
        <5> QED BY <1>4, <5>1, <5>2
      <4>2. CASE i # Len(queue)
        <5>1. i \in 1..(Len(queue) - 1) /\ i + 1 \in DOMAIN queue
          BY <1>3, <2>2, <2>3, <4>2
        <5>2. queue'[i].payload = receipts[Len(receipts) - Len(queue) + (i + 1)]
          BY <2>3, <2>6, <5>1 DEF QueueIsNewest
        <5>3. /\ Len(receipts) - Len(queue) + (i + 1) = Len(receipts) - Len(queue) + 1 + i
              /\ Len(receipts) - Len(queue) + (i + 1) \in 1..Len(receipts)
          BY <1>3, <5>1
        <5> QED BY <1>4, <5>2, <5>3
      <4> QED BY <4>1, <4>2
    <3> QED BY <1>3, <2>3, <3>1, <3>2 DEF QueueIsNewest
  <2> QED BY <1>3, <1>4, <2>3, <2>4, <2>5, <2>6
<1>6. CASE ~(Len(queue) >= Capacity)
  <2>1. queue' = Append(queue, message) /\ gone' = gone
    BY <1>2, <1>6
  <2>2. /\ queue' \in Seq(Messages) /\ Len(queue') = Len(queue) + 1
        /\ DOMAIN queue' = 1..(Len(queue) + 1) /\ DOMAIN queue = 1..Len(queue)
        /\ \A i \in DOMAIN queue : queue'[i] = queue[i]
        /\ queue'[Len(queue) + 1] = message
    BY <1>1, <1>3, <2>1, Appending
  <2>3. Held \subseteq Held' /\ action.payload \in Held'
    <3>1. Len(queue) + 1 \in DOMAIN queue' /\ \A i \in DOMAIN queue : i \in DOMAIN queue'
      BY <1>3, <2>2
    <3> QED BY <1>1, <2>1, <2>2, <3>1 DEF Held
  <2>4. ASSUME QueueIsNewest PROVE QueueIsNewest'
    <3>1. Len(receipts') - Len(queue') = Len(receipts) - Len(queue)
      BY <1>3, <1>4, <2>2
    <3>2. ASSUME NEW i \in DOMAIN queue'
          PROVE  queue'[i].payload = receipts'[Len(receipts) - Len(queue) + i]
      <4>1. CASE i = Len(queue) + 1
        <5>1. Len(receipts) - Len(queue) + i = Len(receipts) + 1
          BY <1>3, <4>1
        <5>2. queue'[i].payload = action.payload
          BY <1>1, <2>2, <4>1
        <5> QED BY <1>4, <5>1, <5>2
      <4>2. CASE i # Len(queue) + 1
        <5>1. i \in DOMAIN queue /\ Len(receipts) - Len(queue) + i \in 1..Len(receipts)
          BY <1>3, <2>2, <4>2
        <5> QED BY <1>4, <2>2, <2>4, <5>1 DEF QueueIsNewest
      <4> QED BY <4>1, <4>2
    <3> QED BY <1>3, <1>6, <2>2, <3>1, <3>2 DEF QueueIsNewest
  <2> QED BY <1>3, <1>4, <1>6, <2>2, <2>3, <2>4
<1> QED BY <1>5, <1>6

\* next_message takes the oldest message.
LEMMA Dequeueing ==
    ASSUME Typed, NextMessage
    PROVE  /\ queue' \in Seq(Messages) /\ Len(queue') <= Capacity /\ Len(queue') <= Len(receipts)
           /\ Held \subseteq Held'
           /\ QueueIsNewest => QueueIsNewest'
<1>1. queue # <<>> /\ queue' = Tail(queue) /\ gone' = gone \cup {Head(queue).payload}
      /\ receipts' = receipts
  BY DEF NextMessage
<1>2. /\ queue \in Seq(Messages) /\ Len(queue) <= Capacity /\ Len(queue) <= Len(receipts)
      /\ Len(receipts) \in Nat /\ Capacity \in Nat
  BY Known DEF Typed
<1>3. /\ queue' \in Seq(Messages) /\ Len(queue') = Len(queue) - 1 /\ Len(queue) \in Nat \ {0}
      /\ DOMAIN queue' = 1..(Len(queue) - 1) /\ DOMAIN queue = 1..Len(queue)
      /\ \A i \in DOMAIN queue' : queue'[i] = queue[i + 1]
      /\ Head(queue) = queue[1]
  BY <1>1, <1>2, Taking
<1>4. Held \subseteq Held'
  <2> SUFFICES ASSUME NEW i \in 1..Len(queue) PROVE queue[i].payload \in Held'
    BY <1>1, <1>3 DEF Held
  <2>1. CASE i = 1
    BY <1>1, <1>3, <2>1 DEF Held
  <2>2. CASE i > 1
    <3>1. i - 1 \in DOMAIN queue' /\ queue[i] = queue'[i - 1]
      BY <1>3, <2>2
    <3> QED BY <3>1 DEF Held
  <2> QED BY <1>3, <2>1, <2>2
<1>5. ASSUME QueueIsNewest PROVE QueueIsNewest'
  <2>1. Len(receipts') - Len(queue') = Len(receipts) - Len(queue) + 1
    BY <1>1, <1>2, <1>3
  <2>2. ASSUME NEW i \in DOMAIN queue'
        PROVE  queue'[i].payload = receipts'[Len(receipts) - Len(queue) + 1 + i]
    <3>0. i \in 1..(Len(queue) - 1)
      BY <1>3
    <3>a. i \in Int /\ Len(queue) \in Int /\ Len(receipts) \in Int
      BY <1>2, <1>3, <3>0
    <3>b. i + 1 \in 1..Len(queue) /\ DOMAIN queue = 1..Len(queue)
      BY <1>3, <3>0, <3>a
    <3>1. /\ i + 1 \in DOMAIN queue
          /\ Len(receipts) - Len(queue) + (i + 1) = Len(receipts) - Len(queue) + 1 + i
      BY <3>a, <3>b
    <3> QED BY <1>1, <1>3, <1>5, <3>1 DEF QueueIsNewest
  <2> QED BY <1>2, <1>3, <2>1, <2>2 DEF QueueIsNewest
<1> QED BY <1>2, <1>3, <1>4, <1>5

-----------------------------------------------------------------------------
(* Types *)

\* As long as there is a message to send there is an identifier for it.
LEMMA FreePids ==
    ASSUME Typed, Distinct, NEW m \in unsent
    PROVE  FreePid \in Pids /\ Entry(FreePid) = {}
<1> SUFFICES ASSUME \A p \in Pids : Entry(p) # {} PROVE FALSE
  BY DEF FreePid
<1> DEFINE index(p) == CHOOSE i \in Entry(p) : TRUE
           f == [p \in Pids |-> outgoing[index(p)].msg]
<1>1. ASSUME NEW p \in Pids
      PROVE  index(p) \in DOMAIN outgoing /\ outgoing[index(p)].pid = p
  BY <1>1 DEF Entry
<1> HIDE DEF index
<1>2. \A i \in DOMAIN outgoing : outgoing[i].msg \in Msgs \ {m}
  <2>1. \A i \in DOMAIN outgoing : outgoing[i] \in Entries
    BY DEF Typed
  <2> QED BY <2>1 DEF Distinct, Entries
<1>3. f \in [Pids -> Msgs \ {m}]
  BY <1>1, <1>2
<1>4. ASSUME NEW p \in Pids, NEW q \in Pids, p # q PROVE f[p] # f[q]
  BY <1>1, <1>4 DEF Distinct
<1>5. m \in Msgs /\ IsFiniteSet(Msgs \ {m}) /\ Cardinality(Msgs \ {m}) = Cardinality(Msgs) - 1
  BY Known, FS_RemoveElement DEF Typed
<1>6. IsFiniteSet(Pids) /\ Cardinality(Pids) = Cardinality(Msgs)
  BY Known, FS_Interval
<1> HIDE DEF f
<1>7. Cardinality(Msgs \ {m}) < Cardinality(Pids)
  BY Known, <1>5, <1>6
<1> QED BY <1>3, <1>4, <1>5, <1>6, <1>7, FS_PigeonHole

\* What is sent again is a packet of the exchange, in its phase.
LEMMA Resending ==
    ASSUME NEW e \in Entries
    PROVE  /\ Resent(e) \in FromBroker /\ Exchanging(Resent(e)) /\ Resent(e).pid = e.pid
           /\ e.phase = "publish" => /\ IsPublish(Resent(e)) /\ Resent(e).payload = e.msg
                                     /\ Resent(e).qos # 0
           /\ e.phase = "pubrel" => Resent(e).type = "PUBREL" /\ ~IsPublish(Resent(e))
<1>1. e.msg \in Msgs /\ e.qos \in 1..2 /\ e.pid \in Pids /\ e.phase \in {"publish", "pubrel"}
      /\ Msgs \subseteq Payloads
  BY DEF Entries, Payloads
<1>2. CASE e.phase = "publish"
  <2>1. Resent(e) = PublishPacket(e.msg, e.msg, e.qos, e.pid, TRUE)
    BY <1>2 DEF Resent
  <2>2. Resent(e) \in Safely
    <3>1. e.msg \in Payloads /\ TRUE \in BOOLEAN
      BY <1>1
    <3>2. \E m \in Msgs, topic \in Payloads, qos \in 1..2, pid \in Pids, dup \in BOOLEAN :
              Resent(e) = PublishPacket(m, topic, qos, pid, dup)
      BY <1>1, <2>1, <3>1, Zenon
    <3> QED BY <3>2 DEF Safely
  <2> QED BY <1>1, <1>2, <2>1, <2>2
          DEF PublishPacket, Published, IsPublish, Exchanging, FromBroker
<1>3. CASE e.phase = "pubrel"
  <2>1. Resent(e) = Acknowledgement("PUBREL", e.pid)
    BY <1>3 DEF Resent
  <2>2. Resent(e) \in Releases
    BY <1>1, <2>1 DEF Releases
  <2> QED BY <1>1, <1>3, <2>1, <2>2 DEF Acknowledgement, IsPublish, Exchanging, FromBroker
<1> QED BY <1>1, <1>2, <1>3

\* What the client sends.
LEMMA Acknowledging ==
    ASSUME NEW type \in AckTypes, NEW pid \in Pids
    PROVE  CreateAck(type, pid) = Acknowledgement(type, pid) /\ CreateAck(type, pid) \in FromClient
           /\ CreateDisconnect \in FromClient /\ ~IsAck(CreateDisconnect)
  BY DEF CreateAck, CreateAckV3, CreateAckV5, CreateDisconnect, CreateDisconnectV3,
         CreateDisconnectV5, FromClient, IsAck, AckTypes

\* The packet a receive step takes, by the kind of action it becomes.
LEMMA Reading ==
    ASSUME Typed, NEW types, Reads(types)
    PROVE  /\ toClient # <<>> /\ Head(toClient) \in FromBroker /\ toClient' \in Seq(FromBroker)
           /\ types = {"PublishReceived"} => /\ IsPublish(Head(toClient))
                                             /\ Action = PublishReceived(Head(toClient))
           /\ types = {"PublishRelease"} => /\ Head(toClient).type = "PUBREL"
                                            /\ Action = Acknowledgement("PublishRelease", Head(toClient).pid)
           /\ types = {"PingResponse", "None", "Error"} => Head(toClient).type \in Stray
<1>1. toClient # <<>> /\ toClient' = Tail(toClient) /\ Action.type \in types
  BY DEF Reads
<1>2. Head(toClient) \in FromBroker /\ toClient' \in Seq(FromBroker)
  BY <1>1, Taking DEF Typed
<1> DEFINE p == Head(toClient)
<1>3. p.type \in {"PUBLISH", "PUBREL"} \cup Stray
  BY <1>2, BrokerPackets
<1>4. Action = HandlePacket(p)
  BY DEF Action
<1> HIDE DEF p
<1>5. IsPublish(p) => Action = PublishReceived(p) /\ Action.type = "PublishReceived"
  BY <1>3, <1>4, Handled DEF PublishReceived
<1>6. p.type = "PUBREL" => /\ Action = Acknowledgement("PublishRelease", p.pid)
                           /\ Action.type = "PublishRelease"
  BY <1>3, <1>4, Handled DEF Acknowledgement
<1>7. p.type \in Stray => Action.type \in {"PingResponse", "None", "Error"}
  BY <1>3, <1>4, Handled
<1> QED BY <1>1, <1>2, <1>3, <1>5, <1>6, <1>7 DEF p, IsPublish

-----------------------------------------------------------------------------
(* Exchanges *)

Carries(p) == IsPublish(p) \/ Exchanging(p)

\* The packets of exchanges were on their way before, each at another place.
ClientFrom == \E f :
    /\ \A i \in DOMAIN toClient' : Carries(toClient'[i])
           => f[i] \in DOMAIN toClient /\ toClient'[i] = toClient[f[i]]
    /\ \A i, j \in DOMAIN toClient' : i # j => f[i] # f[j]
BrokerFrom == \E g :
    /\ \A i \in DOMAIN toBroker' : IsAck(toBroker'[i])
           => g[i] \in DOMAIN toBroker /\ toBroker'[i] = toBroker[g[i]]
    /\ \A i, j \in DOMAIN toBroker' : i # j => g[i] # g[j]

\* Packets may vanish, and packets of no exchange appear.
LEMMA FewerPackets ==
    ASSUME Exchanges, outgoing' = outgoing, unsent' = unsent, Held \subseteq Held',
           ClientFrom, BrokerFrom
    PROVE  Exchanges'
<1>a. PICK f :
    /\ \A i \in DOMAIN toClient' : Carries(toClient'[i])
           => f[i] \in DOMAIN toClient /\ toClient'[i] = toClient[f[i]]
    /\ \A i, j \in DOMAIN toClient' : i # j => f[i] # f[j]
  BY DEF ClientFrom
<1>b. PICK g :
    /\ \A i \in DOMAIN toBroker' : IsAck(toBroker'[i])
           => g[i] \in DOMAIN toBroker /\ toBroker'[i] = toBroker[g[i]]
    /\ \A i, j \in DOMAIN toBroker' : i # j => g[i] # g[j]
  BY DEF BrokerFrom
<1>1. Distinct'
  BY DEF Exchanges, Distinct
<1>2. ToClientBelongs'
  BY <1>a DEF Exchanges, ToClientBelongs, Belongs, Carries, Exchanging, IsPublish
<1>3. ToBrokerBelongs'
  <2> SUFFICES ASSUME NEW i \in DOMAIN toBroker', IsAck(toBroker'[i])
               PROVE  /\ Belongs(toBroker[i])'
                      /\ \A k \in DOMAIN outgoing' :
                             outgoing'[k].pid = toBroker'[i].pid /\ toBroker'[i].type # "PUBCOMP"
                                 => outgoing'[k].msg \in Held'
    BY DEF ToBrokerBelongs, IsAck
  <2>1. g[i] \in DOMAIN toBroker /\ toBroker'[i] = toBroker[g[i]]
    BY <1>b
  <2>2. IsAck(toBroker[g[i]])
    BY <2>1
  <2>3. /\ Belongs(toBroker[g[i]])
        /\ \A k \in DOMAIN outgoing :
               outgoing[k].pid = toBroker[g[i]].pid /\ toBroker[g[i]].type # "PUBCOMP"
                   => outgoing[k].msg \in Held
    BY <2>1, <2>2 DEF Exchanges, ToBrokerBelongs
  <2> QED BY <2>1, <2>3 DEF Belongs
<1>4. Alone'
  <2>1. \A i, j \in DOMAIN toClient' : i # j =>
           /\ IsPublish(toClient'[i]) /\ IsPublish(toClient'[j])
                  => toClient'[i].payload # toClient'[j].payload
           /\ Exchanging(toClient'[i]) /\ Exchanging(toClient'[j])
                  => toClient'[i].pid # toClient'[j].pid
    BY <1>a DEF Exchanges, Alone, Carries
  <2>2. \A i, j \in DOMAIN toBroker' : i # j =>
           (IsAck(toBroker'[i]) /\ IsAck(toBroker'[j]) => toBroker'[i].pid # toBroker'[j].pid)
    BY <1>b DEF Exchanges, Alone
  <2>3. \A i \in DOMAIN toClient', j \in DOMAIN toBroker' :
           Exchanging(toClient'[i]) /\ IsAck(toBroker'[j]) => toClient'[i].pid # toBroker'[j].pid
    BY <1>a, <1>b DEF Exchanges, Alone, Carries
  <2> QED BY <2>1, <2>2, <2>3 DEF Alone, IsPublish, Exchanging, IsAck
<1> QED BY <1>1, <1>2, <1>3, <1>4 DEF Exchanges

\* A packet of an exchange is read, and answered.
LEMMA Answering ==
    ASSUME Typed, Exchanges, toClient # <<>>, toClient' = Tail(toClient),
           outgoing' = outgoing, unsent' = unsent, Held \subseteq Held',
           Exchanging(Head(toClient)),
           NEW ack \in FromClient, IsAck(ack), ack.pid = Head(toClient).pid,
           toBroker' = Append(toBroker, ack),
           \/ IsPublish(Head(toClient)) /\ ack.type # "PUBCOMP" /\ Head(toClient).payload \in Held'
           \/ Head(toClient).type = "PUBREL" /\ ack.type = "PUBCOMP"
    PROVE  Exchanges'
<1>1. /\ 1 \in DOMAIN toClient /\ Head(toClient) = toClient[1] /\ DOMAIN toClient = 1..Len(toClient)
      /\ DOMAIN toClient' = 1..(Len(toClient) - 1) /\ Len(toClient) \in Nat \ {0}
      /\ \A i \in DOMAIN toClient' : toClient'[i] = toClient[i + 1]
  BY Taking DEF Typed
<1>2. \A i \in DOMAIN toClient' : i + 1 \in DOMAIN toClient /\ i + 1 # 1
  BY <1>1
<1>3. /\ DOMAIN toBroker' = 1..(Len(toBroker) + 1) /\ DOMAIN toBroker = 1..Len(toBroker)
      /\ Len(toBroker) \in Nat
      /\ \A i \in DOMAIN toBroker : toBroker'[i] = toBroker[i]
      /\ toBroker'[Len(toBroker) + 1] = ack
  BY Appending DEF Typed
<1>4. \A i \in DOMAIN toBroker' : i \in DOMAIN toBroker \/ i = Len(toBroker) + 1
  BY <1>3
<1> DEFINE p == toClient[1]
<1>5. /\ Exchanging(p) /\ ack.pid = p.pid
      /\ \/ IsPublish(p) /\ ack.type # "PUBCOMP" /\ p.payload \in Held'
         \/ p.type = "PUBREL" /\ ack.type = "PUBCOMP"
  BY <1>1
<1>6. Distinct'
  BY DEF Exchanges, Distinct
<1>7. ToClientBelongs'
  BY <1>1, <1>2 DEF Exchanges, ToClientBelongs, Belongs, Exchanging, IsPublish
<1>8. /\ Belongs(p)
      /\ IsPublish(p) => \A k \in DOMAIN outgoing :
             outgoing[k].msg = p.payload <=> p.qos # 0 /\ outgoing[k].pid = p.pid
  BY <1>1, <1>5 DEF Exchanges, ToClientBelongs
<1>9. ToBrokerBelongs'
  <2> SUFFICES ASSUME NEW i \in DOMAIN toBroker', IsAck(toBroker'[i])
               PROVE  /\ Belongs(toBroker[i])'
                      /\ \A k \in DOMAIN outgoing' :
                             outgoing'[k].pid = toBroker'[i].pid /\ toBroker'[i].type # "PUBCOMP"
                                 => outgoing'[k].msg \in Held'
    BY DEF ToBrokerBelongs, IsAck
  <2>1. CASE i \in DOMAIN toBroker
    <3>1. toBroker'[i] = toBroker[i] /\ IsAck(toBroker[i])
      BY <1>3, <2>1
    <3>2. /\ Belongs(toBroker[i])
          /\ \A k \in DOMAIN outgoing :
               outgoing[k].pid = toBroker[i].pid /\ toBroker[i].type # "PUBCOMP"
                   => outgoing[k].msg \in Held
      BY <2>1, <3>1 DEF Exchanges, ToBrokerBelongs
    <3> QED BY <3>1, <3>2 DEF Belongs
  <2>2. CASE i = Len(toBroker) + 1
    <3>1. toBroker'[i] = ack /\ ack.type \in AckTypes
      BY <1>3, <2>2 DEF IsAck
    <3>2. Belongs(ack)
      BY <1>5, <1>8, <3>1 DEF Belongs, AckTypes, IsPublish
    <3>3. ASSUME NEW k \in DOMAIN outgoing, outgoing[k].pid = ack.pid, ack.type # "PUBCOMP"
          PROVE  outgoing[k].msg \in Held'
      <4>1. IsPublish(p) /\ p.qos # 0
        BY <1>5, <3>3 DEF Exchanging, IsPublish
      <4> QED BY <1>5, <1>8, <3>3, <4>1
    <3> QED BY <3>1, <3>2, <3>3 DEF Belongs
  <2> QED BY <1>4, <2>1, <2>2
<1>10. Alone'
  <2>1. \A i, j \in DOMAIN toClient' : i # j =>
           /\ IsPublish(toClient'[i]) /\ IsPublish(toClient'[j])
                  => toClient'[i].payload # toClient'[j].payload
           /\ Exchanging(toClient'[i]) /\ Exchanging(toClient'[j])
                  => toClient'[i].pid # toClient'[j].pid
    <3> SUFFICES ASSUME NEW i \in DOMAIN toClient', NEW j \in DOMAIN toClient', i # j
                 PROVE  i + 1 # j + 1
      BY <1>1, <1>2 DEF Exchanges, Alone
    <3> QED BY <1>1
  <2>2. \A i, j \in DOMAIN toBroker' : i # j =>
           (IsAck(toBroker'[i]) /\ IsAck(toBroker'[j]) => toBroker'[i].pid # toBroker'[j].pid)
    BY <1>1, <1>3, <1>4, <1>5 DEF Exchanges, Alone
  <2>3. \A i \in DOMAIN toClient', j \in DOMAIN toBroker' :
           Exchanging(toClient'[i]) /\ IsAck(toBroker'[j]) => toClient'[i].pid # toBroker'[j].pid
    BY <1>1, <1>2, <1>3, <1>4, <1>5 DEF Exchanges, Alone
  <2> QED BY <2>1, <2>2, <2>3 DEF Alone, IsPublish, Exchanging, IsAck
<1> QED BY <1>6, <1>7, <1>9, <1>10 DEF Exchanges

\* The broker sends a message, which is outstanding from then on if its QoS asks
\* for an acknowledgement.
LEMMA SendingType ==
    ASSUME Typed, Exchanges, NEW m \in Msgs, BrokerSends(m)
    PROVE  /\ m \in unsent /\ unsent' = unsent \ {m} /\ toBroker' = toBroker
           /\ \E packet \in FromBroker :
                  /\ toClient' = Append(toClient, packet)
                  /\ IsPublish(packet) /\ packet.payload = m
                  /\ \/ packet.qos = 0 /\ outgoing' = outgoing
                     \/ \E e \in Entries :
                            /\ packet.qos # 0 /\ packet.pid = e.pid /\ e.msg = m
                            /\ e.phase = "publish" /\ e.pid = FreePid
                            /\ outgoing' = Append(outgoing, e)
<1>1. m \in unsent /\ unsent' = unsent \ {m} /\ toBroker' = toBroker
  BY DEF BrokerSends
<1>2. FreePid \in Pids
  BY <1>1, FreePids DEF Exchanges
<1>3. PICK topic \in Topics(terms, m), qos \in QosOf[m] :
          IF qos = 0
          THEN /\ toClient' = Append(toClient, PublishPacket(m, topic, 0, NoPid, FALSE))
               /\ outgoing' = outgoing
          ELSE /\ toClient' = Append(toClient, PublishPacket(m, topic, qos, FreePid, FALSE))
               /\ outgoing' = Append(outgoing,
                      [msg |-> m, qos |-> qos, pid |-> FreePid, phase |-> "publish"])
  BY DEF BrokerSends
<1>4. topic \in Payloads /\ qos \in 0..2
  BY Known DEF Topics
<1>5. CASE qos = 0
  <2> DEFINE packet == PublishPacket(m, topic, qos, NoPid, FALSE)
  <2>0. qos \in 0..0 /\ FALSE \in BOOLEAN
    BY <1>5
  <2>1. \E n \in Msgs, t \in Payloads, q \in 0..0, dup \in BOOLEAN :
            packet = PublishPacket(n, t, q, NoPid, dup)
    BY <1>4, <2>0, Zenon
  <2>2. packet \in FromBroker
    <3> HIDE DEF packet
    <3>1. packet \in Once
      BY <2>1 DEF Once
    <3> QED BY <3>1 DEF FromBroker
  <2>3. IsPublish(packet) /\ packet.payload = m /\ packet.qos = 0
    BY <1>5 DEF PublishPacket, Published, IsPublish
  <2> QED BY <1>1, <1>3, <1>5, <2>2, <2>3
<1>6. CASE qos # 0
  <2> DEFINE packet == PublishPacket(m, topic, qos, FreePid, FALSE)
             e == [msg |-> m, qos |-> qos, pid |-> FreePid, phase |-> "publish"]
  <2>1. qos \in 1..2 /\ FALSE \in BOOLEAN
    BY <1>4, <1>6
  <2>2. \E n \in Msgs, t \in Payloads, q \in 1..2, pid \in Pids, dup \in BOOLEAN :
            packet = PublishPacket(n, t, q, pid, dup)
    BY <1>2, <1>4, <2>1, Zenon
  <2>3. packet \in FromBroker
    <3> HIDE DEF packet
    <3>1. packet \in Safely
      BY <2>2 DEF Safely
    <3> QED BY <3>1 DEF FromBroker
  <2>4. e \in Entries
    BY <1>2, <2>1 DEF Entries
  <2>5. IsPublish(packet) /\ packet.payload = m /\ packet.qos = qos /\ packet.pid = FreePid
    BY DEF PublishPacket, Published, IsPublish
  <2>6. e.pid = FreePid /\ e.msg = m /\ e.phase = "publish"
    OBVIOUS
  <2>7. toClient' = Append(toClient, packet) /\ outgoing' = Append(outgoing, e)
    BY <1>3, <1>6
  <2> HIDE DEF packet, e
  <2> QED BY <1>1, <1>6, <2>3, <2>4, <2>5, <2>6, <2>7
<1> QED BY <1>5, <1>6

LEMMA Sending ==
    ASSUME Typed, Exchanges, NEW m \in Msgs, BrokerSends(m)
    PROVE  Exchanges'
<1>1. /\ m \in unsent /\ unsent' = unsent \ {m} /\ toBroker' = toBroker
      /\ Held' = Held
  BY SendingType DEF BrokerSends, Held, client, ghosts
<1>2. PICK packet \in FromBroker :
          /\ toClient' = Append(toClient, packet)
          /\ IsPublish(packet) /\ packet.payload = m
          /\ \/ packet.qos = 0 /\ outgoing' = outgoing
             \/ \E e \in Entries :
                    /\ packet.qos # 0 /\ packet.pid = e.pid /\ e.msg = m
                    /\ e.phase = "publish" /\ e.pid = FreePid
                    /\ outgoing' = Append(outgoing, e)
  BY SendingType
<1>3. /\ DOMAIN toClient' = 1..(Len(toClient) + 1) /\ DOMAIN toClient = 1..Len(toClient)
      /\ Len(toClient) \in Nat
      /\ \A i \in DOMAIN toClient : toClient'[i] = toClient[i]
      /\ toClient'[Len(toClient) + 1] = packet
  BY <1>2, Appending DEF Typed
<1>4. \A i \in DOMAIN toClient' : i \in DOMAIN toClient \/ i = Len(toClient) + 1
  BY <1>3
<1>5. \A i \in DOMAIN toClient : IsPublish(toClient[i]) => toClient[i].payload # m
  BY <1>1 DEF Exchanges, ToClientBelongs
<1>6. \A i \in DOMAIN outgoing : outgoing[i].msg # m
  BY <1>1 DEF Exchanges, Distinct
<1>7. CASE packet.qos = 0 /\ outgoing' = outgoing
  <2>1. Distinct'
    BY <1>1, <1>7 DEF Exchanges, Distinct
  <2>2. ToClientBelongs'
    BY <1>1, <1>2, <1>3, <1>4, <1>6, <1>7
       DEF Exchanges, ToClientBelongs, Belongs, Exchanging, IsPublish
  <2>3. ToBrokerBelongs'
    BY <1>1, <1>7 DEF Exchanges, ToBrokerBelongs, Belongs, IsAck
  <2>4. Alone'
    BY <1>1, <1>2, <1>3, <1>4, <1>5, <1>7 DEF Exchanges, Alone, Exchanging, IsPublish, IsAck
  <2> QED BY <2>1, <2>2, <2>3, <2>4 DEF Exchanges
<1>8. ASSUME NEW e \in Entries, packet.qos # 0, packet.pid = e.pid, e.msg = m,
             e.phase = "publish", e.pid = FreePid, outgoing' = Append(outgoing, e)
      PROVE  Exchanges'
  <2>1. /\ DOMAIN outgoing' = 1..(Len(outgoing) + 1) /\ DOMAIN outgoing = 1..Len(outgoing)
        /\ Len(outgoing) \in Nat
        /\ \A i \in DOMAIN outgoing : outgoing'[i] = outgoing[i]
        /\ outgoing'[Len(outgoing) + 1] = e
    BY <1>8, Appending DEF Typed
  <2>2. \A i \in DOMAIN outgoing' : i \in DOMAIN outgoing \/ i = Len(outgoing) + 1
    BY <2>1
  <2>3. \A i \in DOMAIN outgoing : outgoing[i].pid # e.pid
    BY <1>1, <1>8, FreePids DEF Entry, Exchanges
  <2>4. \A i \in DOMAIN outgoing : i \in DOMAIN outgoing'
    BY <2>1
  <2>5. Len(outgoing) + 1 \in DOMAIN outgoing'
    BY <2>1
  <2>6. Distinct'
    BY <1>1, <1>6, <1>8, <2>1, <2>2, <2>3 DEF Exchanges, Distinct
  <2>7. \A i \in DOMAIN toClient : Exchanging(toClient[i]) => toClient[i].pid # e.pid
    BY <2>3 DEF Exchanges, ToClientBelongs, Belongs
  <2>8. \A i \in DOMAIN toBroker : IsAck(toBroker[i]) => toBroker[i].pid # e.pid
    BY <2>3 DEF Exchanges, ToBrokerBelongs, Belongs
  <2>9. \A p : Belongs(p) => \E k \in DOMAIN outgoing' :
            /\ outgoing'[k].pid = p.pid
            /\ outgoing'[k].phase = IF p.type \in {"PUBREL", "PUBCOMP"} THEN "pubrel" ELSE "publish"
    BY <2>1, <2>4 DEF Belongs
  <2>10. ToClientBelongs'
    <3>1. ASSUME NEW i \in DOMAIN toClient' PROVE
              LET p == toClient'[i] IN
              /\ Exchanging(p) => \E k \in DOMAIN outgoing' :
                     /\ outgoing'[k].pid = p.pid
                     /\ outgoing'[k].phase = IF p.type \in {"PUBREL", "PUBCOMP"} THEN "pubrel"
                                             ELSE "publish"
              /\ IsPublish(p) => /\ p.payload \notin unsent'
                                 /\ \A k \in DOMAIN outgoing' :
                                        outgoing'[k].msg = p.payload
                                            <=> p.qos # 0 /\ outgoing'[k].pid = p.pid
      <4>1. CASE i \in DOMAIN toClient
        <5>1. toClient'[i] = toClient[i]
          BY <1>3, <4>1
        <5>2. /\ Exchanging(toClient[i]) => Belongs(toClient[i])
              /\ IsPublish(toClient[i]) => /\ toClient[i].payload \notin unsent
                     /\ \A k \in DOMAIN outgoing : outgoing[k].msg = toClient[i].payload
                            <=> toClient[i].qos # 0 /\ outgoing[k].pid = toClient[i].pid
          BY <4>1 DEF Exchanges, ToClientBelongs
        <5>3. ASSUME IsPublish(toClient[i]), NEW k \in DOMAIN outgoing'
              PROVE  outgoing'[k].msg = toClient[i].payload
                         <=> toClient[i].qos # 0 /\ outgoing'[k].pid = toClient[i].pid
          <6>1. CASE k \in DOMAIN outgoing
            BY <2>1, <5>2, <5>3, <6>1
          <6>2. CASE k = Len(outgoing) + 1
            <7>1. outgoing'[k] = e /\ toClient[i].payload # e.msg
              BY <1>5, <1>8, <2>1, <4>1, <5>3, <6>2
            <7>2. toClient[i].qos # 0 => toClient[i].pid # e.pid
              BY <2>7, <4>1, <5>3 DEF Exchanging, IsPublish
            <7> QED BY <7>1, <7>2
          <6> QED BY <2>2, <6>1, <6>2
        <5> QED BY <1>1, <2>9, <5>1, <5>2, <5>3
      <4>2. CASE i = Len(toClient) + 1
        <5>1. toClient'[i] = packet
          BY <1>3, <4>2
        <5>2. \A k \in DOMAIN outgoing' : outgoing'[k].msg = packet.payload
                            <=> packet.qos # 0 /\ outgoing'[k].pid = packet.pid
          BY <1>2, <1>6, <1>8, <2>1, <2>2, <2>3
        <5> QED BY <1>1, <1>2, <1>8, <2>1, <2>5, <5>1, <5>2 DEF IsPublish
      <4> QED BY <1>4, <4>1, <4>2
    <3> QED BY <3>1 DEF ToClientBelongs, Belongs, Exchanging, IsPublish
  <2>11. ToBrokerBelongs'
    <3>1. ASSUME NEW i \in DOMAIN toBroker, IsAck(toBroker[i]) PROVE
              /\ \E k \in DOMAIN outgoing' :
                     /\ outgoing'[k].pid = toBroker[i].pid
                     /\ outgoing'[k].phase = IF toBroker[i].type \in {"PUBREL", "PUBCOMP"}
                                             THEN "pubrel" ELSE "publish"
              /\ \A k \in DOMAIN outgoing' :
                     outgoing'[k].pid = toBroker[i].pid /\ toBroker[i].type # "PUBCOMP"
                         => outgoing'[k].msg \in Held
      <4>1. /\ Belongs(toBroker[i])
            /\ \A k \in DOMAIN outgoing :
                   outgoing[k].pid = toBroker[i].pid /\ toBroker[i].type # "PUBCOMP"
                       => outgoing[k].msg \in Held
        BY <3>1 DEF Exchanges, ToBrokerBelongs
      <4>2. \A k \in DOMAIN outgoing' : outgoing'[k].pid = toBroker[i].pid
                => k \in DOMAIN outgoing /\ outgoing'[k] = outgoing[k]
        BY <2>1, <2>2, <2>8, <3>1
      <4> QED BY <2>9, <4>1, <4>2
    <3> QED BY <1>1, <3>1 DEF ToBrokerBelongs, Belongs, IsAck
  <2>12. Alone'
    BY <1>1, <1>2, <1>3, <1>4, <1>5, <1>8, <2>7, <2>8
       DEF Exchanges, Alone, Exchanging, IsPublish, IsAck
  <2> QED BY <2>6, <2>10, <2>11, <2>12 DEF Exchanges
<1> QED BY <1>2, <1>7, <1>8

\* The broker starts an exchange's second half: PUBREC is answered by PUBREL.
LEMMA Releasing ==
    ASSUME Typed, Exchanges, toBroker # <<>>, toBroker' = Tail(toBroker), unsent' = unsent,
           Held' = Held, NEW p \in FromClient, p = Head(toBroker), p.type = "PUBREC",
           outgoing' = [i \in DOMAIN outgoing |->
               IF i \in Entry(p.pid) THEN [outgoing[i] EXCEPT !.phase = "pubrel"] ELSE outgoing[i]],
           \/ toClient' = Append(toClient, Acknowledgement("PUBREL", p.pid))
           \/ toClient' = toClient
    PROVE  /\ Exchanges'
           /\ outgoing' \in Seq(Entries) /\ toClient' \in Seq(FromBroker)
           /\ \A m \in Msgs : Pending(m)' => Pending(m)
<1>1. /\ 1 \in DOMAIN toBroker /\ p = toBroker[1] /\ DOMAIN toBroker = 1..Len(toBroker)
      /\ DOMAIN toBroker' = 1..(Len(toBroker) - 1) /\ Len(toBroker) \in Nat \ {0}
      /\ \A i \in DOMAIN toBroker' : toBroker'[i] = toBroker[i + 1]
  BY Taking DEF Typed
<1>2. \A i \in DOMAIN toBroker' : i + 1 \in DOMAIN toBroker /\ i + 1 # 1
  BY <1>1
<1>3. IsAck(p) /\ Belongs(p) /\ p.pid \in Pids
  BY <1>1, ClientPackets DEF Exchanges, ToBrokerBelongs, IsAck, AckTypes
<1>4. PICK k0 \in DOMAIN outgoing : outgoing[k0].pid = p.pid
  BY <1>3 DEF Belongs
<1>5. Entry(p.pid) = {k0}
  BY <1>4 DEF Entry, Exchanges, Distinct
<1>6. /\ DOMAIN outgoing' = DOMAIN outgoing
      /\ \A i \in DOMAIN outgoing : i # k0 => outgoing'[i] = outgoing[i]
      /\ outgoing'[k0] = [outgoing[k0] EXCEPT !.phase = "pubrel"]
  BY <1>5
<1>7. outgoing \in Seq(Entries) /\ \A i \in DOMAIN outgoing : outgoing[i] \in Entries
  BY DEF Typed
<1>8. /\ outgoing'[k0] \in Entries /\ outgoing'[k0].phase = "pubrel"
      /\ outgoing'[k0].pid = p.pid /\ outgoing'[k0].msg = outgoing[k0].msg
  BY <1>4, <1>6, <1>7 DEF Entries
<1>9. outgoing' \in Seq(Entries)
  <2>1. Len(outgoing) \in Nat /\ DOMAIN outgoing = 1..Len(outgoing)
    BY <1>7
  <2>2. \A i \in 1..Len(outgoing) : outgoing'[i] \in Entries
    BY <1>6, <1>7, <1>8, <2>1
  <2>3. outgoing' = [i \in 1..Len(outgoing) |-> outgoing'[i]]
    BY <2>1
  <2>4. outgoing' \in [1..Len(outgoing) -> Entries]
    BY <2>2, <2>3
  <2> QED BY <2>1, <2>4
<1>10. \A i \in DOMAIN outgoing : outgoing'[i].pid = outgoing[i].pid /\ outgoing'[i].msg = outgoing[i].msg
  BY <1>4, <1>6, <1>8
<1>11. Distinct'
  BY <1>6, <1>10 DEF Exchanges, Distinct
<1> DEFINE release == Acknowledgement("PUBREL", p.pid)
<1>12. release \in FromBroker /\ release.type = "PUBREL" /\ release.pid = p.pid
  BY <1>3 DEF Acknowledgement, FromBroker, Releases
<1> HIDE DEF release
<1>13. /\ toClient' \in Seq(FromBroker)
       /\ \A i \in DOMAIN toClient' :
              \/ i \in DOMAIN toClient /\ toClient'[i] = toClient[i]
              \/ i = Len(toClient) + 1 /\ toClient'[i] = release
       /\ Len(toClient) + 1 \notin DOMAIN toClient
  <2>1. toClient \in Seq(FromBroker)
    BY DEF Typed
  <2>2. CASE toClient' = Append(toClient, release)
    <3>1. /\ Append(toClient, release) \in Seq(FromBroker)
          /\ DOMAIN Append(toClient, release) = 1..(Len(toClient) + 1)
          /\ DOMAIN toClient = 1..Len(toClient) /\ Len(toClient) \in Nat
          /\ \A i \in DOMAIN toClient : Append(toClient, release)[i] = toClient[i]
          /\ Append(toClient, release)[Len(toClient) + 1] = release
      BY <1>12, <2>1, Appending
    <3>2. \A i \in 1..(Len(toClient) + 1) : i \in DOMAIN toClient \/ i = Len(toClient) + 1
      BY <3>1
    <3>3. Len(toClient) + 1 \notin DOMAIN toClient
      BY <3>1
    <3> QED BY <2>2, <3>1, <3>2, <3>3
  <2>3. CASE toClient' = toClient
    <3>1. Len(toClient) + 1 \notin DOMAIN toClient
      BY <2>1
    <3> QED BY <2>1, <2>3, <3>1
  <2> QED BY <2>2, <2>3 DEF release
\* Every other packet is of another exchange.
<1>14. /\ \A i \in DOMAIN toClient : Exchanging(toClient[i]) => toClient[i].pid # p.pid
       /\ \A i \in DOMAIN toBroker : i # 1 /\ IsAck(toBroker[i]) => toBroker[i].pid # p.pid
  BY <1>1, <1>3 DEF Exchanges, Alone
<1>15. ASSUME NEW q, Belongs(q), q.pid # p.pid
       PROVE  \E k \in DOMAIN outgoing' :
                  /\ outgoing'[k].pid = q.pid
                  /\ outgoing'[k].phase = IF q.type \in {"PUBREL", "PUBCOMP"} THEN "pubrel" ELSE "publish"
  BY <1>4, <1>6, <1>15 DEF Belongs
<1>16. ToClientBelongs'
  <2>1. ASSUME NEW i \in DOMAIN toClient' PROVE
            LET q == toClient'[i] IN
            /\ Exchanging(q) => \E k \in DOMAIN outgoing' :
                   /\ outgoing'[k].pid = q.pid
                   /\ outgoing'[k].phase = IF q.type \in {"PUBREL", "PUBCOMP"} THEN "pubrel"
                                           ELSE "publish"
            /\ IsPublish(q) => /\ q.payload \notin unsent'
                               /\ \A k \in DOMAIN outgoing' :
                                      outgoing'[k].msg = q.payload
                                          <=> q.qos # 0 /\ outgoing'[k].pid = q.pid
    <3>1. CASE i \in DOMAIN toClient /\ toClient'[i] = toClient[i]
      <4>1. /\ Exchanging(toClient[i]) => Belongs(toClient[i])
            /\ IsPublish(toClient[i]) => /\ toClient[i].payload \notin unsent
                   /\ \A k \in DOMAIN outgoing : outgoing[k].msg = toClient[i].payload
                          <=> toClient[i].qos # 0 /\ outgoing[k].pid = toClient[i].pid
        BY <3>1 DEF Exchanges, ToClientBelongs
      <4> QED BY <1>6, <1>10, <1>14, <1>15, <3>1, <4>1
    <3>2. CASE toClient'[i] = release
      BY <1>4, <1>6, <1>8, <1>12, <3>2 DEF IsPublish
    <3> QED BY <1>13, <3>1, <3>2
  <2> QED BY <2>1 DEF ToClientBelongs, Belongs, Exchanging, IsPublish
<1>17. ToBrokerBelongs'
  <2>1. ASSUME NEW i \in DOMAIN toBroker', IsAck(toBroker'[i]) PROVE
            /\ \E k \in DOMAIN outgoing' :
                   /\ outgoing'[k].pid = toBroker'[i].pid
                   /\ outgoing'[k].phase = IF toBroker'[i].type \in {"PUBREL", "PUBCOMP"}
                                           THEN "pubrel" ELSE "publish"
            /\ \A k \in DOMAIN outgoing' :
                   outgoing'[k].pid = toBroker'[i].pid /\ toBroker'[i].type # "PUBCOMP"
                       => outgoing'[k].msg \in Held
    <3>1. /\ Belongs(toBroker[i + 1]) /\ toBroker'[i] = toBroker[i + 1]
          /\ toBroker[i + 1].pid # p.pid
          /\ \A k \in DOMAIN outgoing :
                 outgoing[k].pid = toBroker[i + 1].pid /\ toBroker[i + 1].type # "PUBCOMP"
                     => outgoing[k].msg \in Held
      BY <1>1, <1>2, <1>14, <2>1 DEF Exchanges, ToBrokerBelongs
    <3> QED BY <1>6, <1>10, <1>15, <3>1
  <2> QED BY <2>1 DEF ToBrokerBelongs, Belongs, IsAck
<1>18. Alone'
  <2>1. \A i, j \in DOMAIN toBroker' : i # j => i + 1 # j + 1
    BY <1>1
  <2>2. \A i, j \in DOMAIN toBroker' : i # j =>
           (IsAck(toBroker'[i]) /\ IsAck(toBroker'[j]) => toBroker'[i].pid # toBroker'[j].pid)
    BY <1>1, <1>2, <2>1 DEF Exchanges, Alone
  <2>3. \A i, j \in DOMAIN toClient' : i # j =>
           /\ IsPublish(toClient'[i]) /\ IsPublish(toClient'[j])
                  => toClient'[i].payload # toClient'[j].payload
           /\ Exchanging(toClient'[i]) /\ Exchanging(toClient'[j])
                  => toClient'[i].pid # toClient'[j].pid
    BY <1>12, <1>13, <1>14 DEF Exchanges, Alone, IsPublish
  <2>4. \A i \in DOMAIN toClient', j \in DOMAIN toBroker' :
           Exchanging(toClient'[i]) /\ IsAck(toBroker'[j]) => toClient'[i].pid # toBroker'[j].pid
    BY <1>1, <1>2, <1>12, <1>13, <1>14 DEF Exchanges, Alone
  <2> QED BY <2>2, <2>3, <2>4 DEF Alone, IsPublish, Exchanging, IsAck
<1>19. ASSUME NEW m \in Msgs, Pending(m)' PROVE Pending(m)
  <2>1. CASE m \in unsent'
    BY <2>1 DEF Pending
  <2>2. CASE \E i \in DOMAIN toClient' : IsPublish(toClient'[i]) /\ toClient'[i].payload = m
    BY <1>12, <1>13, <2>2 DEF Pending, IsPublish
  <2>3. ASSUME NEW k \in DOMAIN outgoing', outgoing'[k].msg = m, outgoing'[k].phase = "publish",
               \A j \in DOMAIN toBroker' : IsAck(toBroker'[j]) => toBroker'[j].pid # outgoing'[k].pid
        PROVE  Pending(m)
    <3>1. k \in DOMAIN outgoing /\ k # k0 /\ outgoing'[k] = outgoing[k] /\ outgoing[k].pid # p.pid
      BY <1>4, <1>5, <1>6, <1>8, <2>3 DEF Entry
    <3>2. ASSUME NEW j \in DOMAIN toBroker, IsAck(toBroker[j]) PROVE toBroker[j].pid # outgoing[k].pid
      <4>1. CASE j = 1
        BY <1>1, <3>1, <4>1
      <4>2. CASE j # 1
        <5>1. j - 1 \in DOMAIN toBroker' /\ toBroker'[j - 1] = toBroker[j]
          BY <1>1, <3>2, <4>2
        <5> QED BY <2>3, <3>1, <3>2, <5>1
      <4> QED BY <4>1, <4>2
    <3> QED BY <2>3, <3>1, <3>2 DEF Pending
  <2> QED BY <1>19, <2>1, <2>2, <2>3 DEF Pending, IsPublish, IsAck
<1> QED BY <1>9, <1>11, <1>13, <1>16, <1>17, <1>18, <1>19 DEF Exchanges

\* An exchange ends: its entry is removed.
LEMMA Closing ==
    ASSUME Typed, Exchanges, toBroker # <<>>, toBroker' = Tail(toBroker), unsent' = unsent,
           Held' = Held, toClient' = toClient, NEW p \in FromClient, p = Head(toBroker), IsAck(p),
           outgoing' = Without(p.pid)
    PROVE  /\ Exchanges'
           /\ outgoing' \in Seq(Entries)
           /\ \A m \in Msgs : Pending(m)' => Pending(m)
<1>1. /\ 1 \in DOMAIN toBroker /\ p = toBroker[1] /\ DOMAIN toBroker = 1..Len(toBroker)
      /\ DOMAIN toBroker' = 1..(Len(toBroker) - 1) /\ Len(toBroker) \in Nat \ {0}
      /\ \A i \in DOMAIN toBroker' : toBroker'[i] = toBroker[i + 1]
  BY Taking DEF Typed
<1>2. \A i \in DOMAIN toBroker' : i + 1 \in DOMAIN toBroker /\ i + 1 # 1
  BY <1>1
<1>3. Belongs(p)
  BY <1>1 DEF Exchanges, ToBrokerBelongs
<1>4. PICK k0 \in DOMAIN outgoing : outgoing[k0].pid = p.pid
  BY <1>3 DEF Belongs
<1>5. Entry(p.pid) = {k0}
  BY <1>4 DEF Entry, Exchanges, Distinct
<1>6. outgoing' = RemoveAt(outgoing, k0)
  BY <1>5 DEF Without
<1> DEFINE h(i) == IF i < k0 THEN i ELSE i + 1
<1>7. /\ outgoing' \in Seq(Entries) /\ DOMAIN outgoing' = 1..(Len(outgoing) - 1)
      /\ DOMAIN outgoing = 1..Len(outgoing) /\ Len(outgoing) \in Nat
      /\ \A i \in DOMAIN outgoing' : outgoing'[i] = outgoing[h(i)]
  <2>1. outgoing \in Seq(Entries) /\ k0 \in DOMAIN outgoing
    BY DEF Typed
  <2>2. /\ RemoveAt(outgoing, k0) \in Seq(Entries)
        /\ DOMAIN RemoveAt(outgoing, k0) = 1..(Len(outgoing) - 1)
        /\ DOMAIN outgoing = 1..Len(outgoing)
        /\ \A i \in DOMAIN RemoveAt(outgoing, k0) : RemoveAt(outgoing, k0)[i] = outgoing[h(i)]
    BY <2>1, Removing, Zenon
  <2>3. Len(outgoing) \in Nat
    BY <2>1
  <2> QED BY <1>6, <2>2, <2>3, Zenon
<1>8. /\ \A i \in DOMAIN outgoing' : h(i) \in DOMAIN outgoing /\ h(i) # k0
      /\ \A i, j \in DOMAIN outgoing' : i # j => h(i) # h(j)
  BY <1>4, <1>7
<1>9. ASSUME NEW k \in DOMAIN outgoing, k # k0
      PROVE  \E i \in DOMAIN outgoing' : outgoing'[i] = outgoing[k]
  <2>1. CASE k < k0
    <3>1. k \in DOMAIN outgoing' /\ h(k) = k
      BY <1>4, <1>7, <2>1
    <3> QED BY <1>7, <3>1
  <2>2. CASE k > k0
    <3>1. k - 1 \in DOMAIN outgoing' /\ h(k - 1) = k
      BY <1>4, <1>7, <2>2
    <3> QED BY <1>7, <3>1
  <2> QED BY <1>4, <1>7, <1>9, <2>1, <2>2
<1> HIDE DEF h
<1>10. Distinct'
  BY <1>7, <1>8 DEF Exchanges, Distinct
\* Every other packet is of another exchange.
<1>11. /\ \A i \in DOMAIN toClient : Exchanging(toClient[i]) => toClient[i].pid # p.pid
       /\ \A i \in DOMAIN toBroker : i # 1 /\ IsAck(toBroker[i]) => toBroker[i].pid # p.pid
  BY <1>1 DEF Exchanges, Alone
<1>12. ASSUME NEW q, Belongs(q), q.pid # p.pid
       PROVE  \E k \in DOMAIN outgoing' :
                  /\ outgoing'[k].pid = q.pid
                  /\ outgoing'[k].phase = IF q.type \in {"PUBREL", "PUBCOMP"} THEN "pubrel" ELSE "publish"
  <2>1. PICK k \in DOMAIN outgoing :
            /\ outgoing[k].pid = q.pid
            /\ outgoing[k].phase = IF q.type \in {"PUBREL", "PUBCOMP"} THEN "pubrel" ELSE "publish"
    BY <1>12 DEF Belongs
  <2>2. k # k0
    BY <1>4, <1>12, <2>1
  <2> QED BY <1>9, <2>1, <2>2
<1>13. ToClientBelongs'
  <2>1. ASSUME NEW i \in DOMAIN toClient PROVE
            LET q == toClient[i] IN
            /\ Exchanging(q) => \E k \in DOMAIN outgoing' :
                   /\ outgoing'[k].pid = q.pid
                   /\ outgoing'[k].phase = IF q.type \in {"PUBREL", "PUBCOMP"} THEN "pubrel"
                                           ELSE "publish"
            /\ IsPublish(q) => /\ q.payload \notin unsent'
                               /\ \A k \in DOMAIN outgoing' :
                                      outgoing'[k].msg = q.payload
                                          <=> q.qos # 0 /\ outgoing'[k].pid = q.pid
    <3>1. /\ Exchanging(toClient[i]) => Belongs(toClient[i])
          /\ IsPublish(toClient[i]) => /\ toClient[i].payload \notin unsent
                 /\ \A k \in DOMAIN outgoing : outgoing[k].msg = toClient[i].payload
                        <=> toClient[i].qos # 0 /\ outgoing[k].pid = toClient[i].pid
      BY DEF Exchanges, ToClientBelongs
    <3> QED BY <1>7, <1>8, <1>11, <1>12, <3>1
  <2> QED BY <2>1 DEF ToClientBelongs, Belongs, Exchanging, IsPublish
<1>14. ToBrokerBelongs'
  <2>1. ASSUME NEW i \in DOMAIN toBroker', IsAck(toBroker'[i]) PROVE
            /\ \E k \in DOMAIN outgoing' :
                   /\ outgoing'[k].pid = toBroker'[i].pid
                   /\ outgoing'[k].phase = IF toBroker'[i].type \in {"PUBREL", "PUBCOMP"}
                                           THEN "pubrel" ELSE "publish"
            /\ \A k \in DOMAIN outgoing' :
                   outgoing'[k].pid = toBroker'[i].pid /\ toBroker'[i].type # "PUBCOMP"
                       => outgoing'[k].msg \in Held
    <3>1. /\ Belongs(toBroker[i + 1]) /\ toBroker'[i] = toBroker[i + 1]
          /\ toBroker[i + 1].pid # p.pid
          /\ \A k \in DOMAIN outgoing :
                 outgoing[k].pid = toBroker[i + 1].pid /\ toBroker[i + 1].type # "PUBCOMP"
                     => outgoing[k].msg \in Held
      BY <1>1, <1>2, <1>11, <2>1 DEF Exchanges, ToBrokerBelongs
    <3> QED BY <1>7, <1>8, <1>12, <3>1
  <2> QED BY <2>1 DEF ToBrokerBelongs, Belongs, IsAck
<1>15. Alone'
  <2>1. \A i, j \in DOMAIN toBroker' : i # j => i + 1 # j + 1
    BY <1>1
  <2>2. \A i, j \in DOMAIN toBroker' : i # j =>
           (IsAck(toBroker'[i]) /\ IsAck(toBroker'[j]) => toBroker'[i].pid # toBroker'[j].pid)
    BY <1>1, <1>2, <2>1 DEF Exchanges, Alone
  <2>3. \A i \in DOMAIN toClient, j \in DOMAIN toBroker' :
           Exchanging(toClient[i]) /\ IsAck(toBroker'[j]) => toClient[i].pid # toBroker'[j].pid
    BY <1>1, <1>2 DEF Exchanges, Alone
  <2> QED BY <2>2, <2>3 DEF Exchanges, Alone, IsPublish, Exchanging, IsAck
<1>16. ASSUME NEW m \in Msgs, Pending(m)' PROVE Pending(m)
  <2>1. CASE m \in unsent' \/ \E i \in DOMAIN toClient : IsPublish(toClient[i]) /\ toClient[i].payload = m
    BY <2>1 DEF Pending
  <2>2. ASSUME NEW k \in DOMAIN outgoing', outgoing'[k].msg = m, outgoing'[k].phase = "publish",
               \A j \in DOMAIN toBroker' : IsAck(toBroker'[j]) => toBroker'[j].pid # outgoing'[k].pid
        PROVE  Pending(m)
    <3>1. /\ h(k) \in DOMAIN outgoing /\ outgoing'[k] = outgoing[h(k)]
          /\ outgoing[h(k)].pid # p.pid
      BY <1>4, <1>5, <1>7, <1>8 DEF Entry
    <3>2. ASSUME NEW j \in DOMAIN toBroker, IsAck(toBroker[j])
          PROVE  toBroker[j].pid # outgoing[h(k)].pid
      <4>1. CASE j = 1
        BY <1>1, <3>1, <4>1
      <4>2. CASE j # 1
        <5>1. j - 1 \in DOMAIN toBroker' /\ toBroker'[j - 1] = toBroker[j]
          BY <1>1, <3>2, <4>2
        <5> QED BY <2>2, <3>1, <3>2, <5>1
      <4> QED BY <4>1, <4>2
    <3> QED BY <2>2, <3>1, <3>2 DEF Pending
  <2> QED BY <1>16, <2>1, <2>2 DEF Pending, IsPublish, IsAck
<1> QED BY <1>7, <1>10, <1>13, <1>14, <1>15, <1>16 DEF Exchanges

\* Packets are read or dropped, or one of no exchange is added.
ClientShrinks ==
    \/ toClient' = toClient
    \/ toClient' = <<>>
    \/ toClient # <<>> /\ toClient' = Tail(toClient)
    \/ \E type \in Stray : toClient' = Append(toClient, [type |-> type])
BrokerShrinks ==
    \/ toBroker' = toBroker
    \/ toBroker # <<>> /\ ~IsAck(Head(toBroker)) /\ toBroker' = Tail(toBroker)
    \/ \E packet \in FromClient : ~IsAck(packet) /\ toBroker' = Append(toBroker, packet)

LEMMA ClientSide ==
    ASSUME Typed, ClientShrinks
    PROVE  /\ toClient' \in Seq(FromBroker)
           /\ ClientFrom
<1> DEFINE same == [i \in Nat |-> i]
           next == [i \in Nat |-> i + 1]
<1>0. \A i \in Nat : same[i] = i /\ next[i] = i + 1
  OBVIOUS
<1> HIDE DEF same, next
<1>1. toClient \in Seq(FromBroker) /\ DOMAIN toClient = 1..Len(toClient) /\ Len(toClient) \in Nat
  BY DEF Typed
<1>2. CASE toClient' = toClient
  <2>0. \A i \in DOMAIN toClient' : i \in Nat
    BY <1>1, <1>2
  <2>1. \A i \in DOMAIN toClient' : same[i] = i
    BY <1>0, <2>0
  <2> QED BY <1>1, <1>2, <2>1 DEF ClientFrom
<1>3. CASE toClient' = <<>>
  BY <1>1, <1>3 DEF ClientFrom
<1>4. CASE toClient # <<>> /\ toClient' = Tail(toClient)
  <2>1. /\ Tail(toClient) \in Seq(FromBroker) /\ Len(toClient) \in Nat \ {0}
        /\ DOMAIN Tail(toClient) = 1..(Len(toClient) - 1) /\ DOMAIN toClient = 1..Len(toClient)
        /\ \A i \in DOMAIN Tail(toClient) : Tail(toClient)[i] = toClient[i + 1]
    BY <1>1, <1>4, Taking, Zenon
  <2>a. \A i \in DOMAIN toClient' : i \in Nat /\ i + 1 \in DOMAIN toClient
    BY <1>4, <2>1
  <2>2. \A i \in DOMAIN toClient' :
            next[i] = i + 1 /\ i + 1 \in DOMAIN toClient /\ toClient'[i] = toClient[i + 1]
    BY <1>0, <1>4, <2>1, <2>a
  <2>3. \A i, j \in DOMAIN toClient' : i # j => i + 1 # j + 1
    BY <1>4, <2>1
  <2> QED BY <1>4, <2>1, <2>2, <2>3 DEF ClientFrom
<1>5. ASSUME NEW type \in Stray, toClient' = Append(toClient, [type |-> type])
      PROVE  /\ toClient' \in Seq(FromBroker)
             /\ \A i \in DOMAIN toClient' : Carries(toClient'[i])
                    => same[i] \in DOMAIN toClient /\ toClient'[i] = toClient[same[i]]
             /\ \A i, j \in DOMAIN toClient' : i # j => same[i] # same[j]
  <2>1. [type |-> type] \in FromBroker /\ ~Carries([type |-> type])
    BY DEF FromBroker, Others, Carries, IsPublish, Exchanging, Stray
  <2>2. /\ toClient' \in Seq(FromBroker)
        /\ DOMAIN toClient' = 1..(Len(toClient) + 1)
        /\ \A i \in DOMAIN toClient : toClient'[i] = toClient[i]
        /\ toClient'[Len(toClient) + 1] = [type |-> type]
    BY <1>1, <1>5, <2>1, Appending
  <2>3. \A i \in DOMAIN toClient' : same[i] = i /\ (i \in DOMAIN toClient \/ i = Len(toClient) + 1)
    <3>1. \A i \in DOMAIN toClient' : i \in Nat /\ (i \in DOMAIN toClient \/ i = Len(toClient) + 1)
      BY <1>1, <2>2
    <3> QED BY <1>0, <3>1
  <2> QED BY <2>1, <2>2, <2>3
<1> QED BY <1>2, <1>3, <1>4, <1>5 DEF ClientShrinks, ClientFrom

\* The same for the way to the broker; no acknowledgement is dropped.
LEMMA BrokerSide ==
    ASSUME Typed, BrokerShrinks
    PROVE  /\ toBroker' \in Seq(FromClient)
           /\ \A j \in DOMAIN toBroker : IsAck(toBroker[j])
                  => \E i \in DOMAIN toBroker' : toBroker'[i] = toBroker[j]
           /\ BrokerFrom
<1> DEFINE same == [i \in Nat |-> i]
           next == [i \in Nat |-> i + 1]
<1>0. \A i \in Nat : same[i] = i /\ next[i] = i + 1
  OBVIOUS
<1> HIDE DEF same, next
<1>1. toBroker \in Seq(FromClient) /\ DOMAIN toBroker = 1..Len(toBroker) /\ Len(toBroker) \in Nat
  BY DEF Typed
<1>2. CASE toBroker' = toBroker
  <2>0. \A i \in DOMAIN toBroker' : i \in Nat
    BY <1>1, <1>2
  <2>1. \A i \in DOMAIN toBroker' : same[i] = i
    BY <1>0, <2>0
  <2> QED BY <1>1, <1>2, <2>1 DEF BrokerFrom
<1>3. CASE toBroker # <<>> /\ ~IsAck(Head(toBroker)) /\ toBroker' = Tail(toBroker)
  <2>1. /\ Tail(toBroker) \in Seq(FromClient) /\ Len(toBroker) \in Nat \ {0}
        /\ Head(toBroker) = toBroker[1]
        /\ DOMAIN Tail(toBroker) = 1..(Len(toBroker) - 1) /\ DOMAIN toBroker = 1..Len(toBroker)
        /\ \A i \in DOMAIN Tail(toBroker) : Tail(toBroker)[i] = toBroker[i + 1]
    BY <1>1, <1>3, Taking, Zenon
  <2>a. \A i \in DOMAIN toBroker' : i \in Nat /\ i + 1 \in DOMAIN toBroker
    BY <1>3, <2>1
  <2>2. \A i \in DOMAIN toBroker' :
            next[i] = i + 1 /\ i + 1 \in DOMAIN toBroker /\ toBroker'[i] = toBroker[i + 1]
    BY <1>0, <1>3, <2>1, <2>a
  <2>3. \A i, j \in DOMAIN toBroker' : i # j => i + 1 # j + 1
    BY <1>3, <2>1
  <2>4. ASSUME NEW j \in DOMAIN toBroker, IsAck(toBroker[j])
        PROVE  \E i \in DOMAIN toBroker' : toBroker'[i] = toBroker[j]
    <3>1. j # 1
      BY <1>3, <2>1, <2>4
    <3>2. j - 1 \in DOMAIN toBroker' /\ (j - 1) + 1 = j
      BY <1>3, <2>1, <3>1
    <3> QED BY <2>2, <3>2
  <2>5. BrokerFrom
    BY <2>2, <2>3 DEF BrokerFrom
  <2> QED BY <1>3, <2>1, <2>4, <2>5
<1>4. ASSUME NEW packet \in FromClient, ~IsAck(packet), toBroker' = Append(toBroker, packet)
      PROVE  /\ toBroker' \in Seq(FromClient)
             /\ \A j \in DOMAIN toBroker : j \in DOMAIN toBroker' /\ toBroker'[j] = toBroker[j]
             /\ \A i \in DOMAIN toBroker' : IsAck(toBroker'[i])
                    => same[i] \in DOMAIN toBroker /\ toBroker'[i] = toBroker[same[i]]
             /\ \A i, j \in DOMAIN toBroker' : i # j => same[i] # same[j]
  <2>1. /\ toBroker' \in Seq(FromClient)
        /\ DOMAIN toBroker' = 1..(Len(toBroker) + 1)
        /\ \A i \in DOMAIN toBroker : toBroker'[i] = toBroker[i]
        /\ toBroker'[Len(toBroker) + 1] = packet
    BY <1>1, <1>4, Appending
  <2>2. \A i \in DOMAIN toBroker' : same[i] = i /\ (i \in DOMAIN toBroker \/ i = Len(toBroker) + 1)
    <3>1. \A i \in DOMAIN toBroker' : i \in Nat /\ (i \in DOMAIN toBroker \/ i = Len(toBroker) + 1)
      BY <1>1, <2>1
    <3> QED BY <1>0, <3>1
  <2>3. \A i \in DOMAIN toBroker : i \in DOMAIN toBroker'
    BY <1>1, <2>1
  <2> QED BY <1>4, <2>1, <2>2, <2>3
<1> QED BY <1>2, <1>3, <1>4 DEF BrokerShrinks, BrokerFrom

\* A step that only drops packets, or adds some of no exchange, keeps the
\* exchanges, and makes no message pending.
LEMMA Shrinking ==
    ASSUME Typed, Exchanges, outgoing' = outgoing, unsent' = unsent, Held \subseteq Held',
           ClientShrinks, BrokerShrinks
    PROVE  /\ toClient' \in Seq(FromBroker) /\ toBroker' \in Seq(FromClient)
           /\ Exchanges'
           /\ \A m \in Msgs : Pending(m)' => Pending(m)
<1>1. ClientFrom /\ BrokerFrom
  BY ClientSide, BrokerSide
<1>2. PICK f : \A i \in DOMAIN toClient' : Carries(toClient'[i])
          => f[i] \in DOMAIN toClient /\ toClient'[i] = toClient[f[i]]
  BY <1>1 DEF ClientFrom
<1>3. Exchanges'
  BY <1>1, FewerPackets
<1>4. \A j \in DOMAIN toBroker : IsAck(toBroker[j])
          => \E i \in DOMAIN toBroker' : toBroker'[i] = toBroker[j]
  BY BrokerSide
<1>5. ASSUME NEW m \in Msgs, Pending(m)' PROVE Pending(m)
  <2>1. CASE m \in unsent'
    BY <2>1 DEF Pending
  <2>2. ASSUME NEW i \in DOMAIN toClient', IsPublish(toClient'[i]), toClient'[i].payload = m
        PROVE  Pending(m)
    <3>1. f[i] \in DOMAIN toClient /\ toClient'[i] = toClient[f[i]]
      BY <1>2, <2>2 DEF Carries
    <3> QED BY <2>2, <3>1 DEF Pending
  <2>3. ASSUME NEW k \in DOMAIN outgoing, outgoing[k].msg = m, outgoing[k].phase = "publish",
               \A j \in DOMAIN toBroker' : IsAck(toBroker'[j]) => toBroker'[j].pid # outgoing[k].pid
        PROVE  Pending(m)
    <3>1. \A j \in DOMAIN toBroker : IsAck(toBroker[j]) => toBroker[j].pid # outgoing[k].pid
      BY <1>4, <2>3
    <3> QED BY <2>3, <3>1 DEF Pending
  <2> QED BY <1>5, <2>1, <2>2, <2>3 DEF Pending, IsPublish, IsAck
<1> QED BY <1>3, <1>5, ClientSide, BrokerSide

-----------------------------------------------------------------------------
(* Copies *)

LEMMA CopiesType ==
    ASSUME Typed, NEW m
    PROVE  Copies(m) \in Nat
<1>1. DOMAIN receipts = 1..Len(receipts) /\ Len(receipts) \in Nat
  BY DEF Typed
<1>2. IsFiniteSet(DOMAIN receipts)
  BY <1>1, FS_Interval
<1>3. {i \in DOMAIN receipts : receipts[i] = m} \subseteq DOMAIN receipts
  OBVIOUS
<1>4. IsFiniteSet({i \in DOMAIN receipts : receipts[i] = m})
  BY <1>2, <1>3, FS_Subset
<1> QED BY <1>4, FS_CardinalityType DEF Copies

LEMMA CopiesGrow ==
    ASSUME Typed, NEW x \in Msgs, receipts' = Append(receipts, x), NEW m
    PROVE  Copies(m)' = IF m = x THEN Copies(m) + 1 ELSE Copies(m)
<1> DEFINE old == {i \in DOMAIN receipts : receipts[i] = m}
           new == {i \in DOMAIN receipts' : receipts'[i] = m}
           last == Len(receipts) + 1
<1>1. /\ DOMAIN receipts' = 1..last /\ DOMAIN receipts = 1..Len(receipts) /\ Len(receipts) \in Nat
      /\ \A i \in DOMAIN receipts : receipts'[i] = receipts[i]
      /\ receipts'[last] = x
  BY Appending DEF Typed
<1>2. last \notin DOMAIN receipts /\ DOMAIN receipts' = DOMAIN receipts \cup {last}
  BY <1>1
<1> HIDE DEF last
<1>3. new = IF m = x THEN old \cup {last} ELSE old
  BY <1>1, <1>2
<1>4. IsFiniteSet(old) /\ last \notin old
  <2>1. IsFiniteSet(DOMAIN receipts)
    BY <1>1, FS_Interval
  <2>2. old \subseteq DOMAIN receipts
    OBVIOUS
  <2> QED BY <1>2, <2>1, <2>2, FS_Subset
<1>5. Copies(m) = Cardinality(old) /\ Copies(m)' = Cardinality(new)
  BY DEF Copies
<1> HIDE DEF old, new
<1>6. Cardinality(old \cup {last}) = Cardinality(old) + 1
  BY <1>4, FS_AddElement
<1> QED BY <1>3, <1>5, <1>6

\* A step without a receipt counts no more, if what becomes pending loses an
\* acknowledgement.
LEMMA NoReceipt ==
    ASSUME Typed, Counted, receipts' = receipts, lostAcks' \in [Msgs -> Nat],
           \A m \in Msgs : lostAcks'[m] >= lostAcks[m],
           \A m \in Msgs : Pending(m)' => Pending(m) \/ lostAcks'[m] > lostAcks[m]
    PROVE  Counted'
<1> SUFFICES ASSUME NEW m \in Msgs
             PROVE  Copies(m)' <= 1 + lostAcks'[m] /\ (Pending(m)' => Copies(m)' <= lostAcks'[m])
  BY DEF Counted
<1>1. Copies(m)' = Copies(m)
  BY DEF Copies
<1>2. Copies(m) \in Nat /\ lostAcks[m] \in Nat /\ lostAcks'[m] \in Nat
  BY CopiesType DEF Typed
<1>3. Copies(m) <= 1 + lostAcks[m] /\ (Pending(m) => Copies(m) <= lostAcks[m])
  BY DEF Counted
<1>4. lostAcks'[m] >= lostAcks[m] /\ (Pending(m)' => Pending(m) \/ lostAcks'[m] > lostAcks[m])
  OBVIOUS
<1> HIDE DEF Copies, Pending
<1> QED BY <1>1, <1>2, <1>3, <1>4

\* A receipt counts once, and no more is pending of the message or else an
\* acknowledgement of it is lost.
LEMMA OneReceipt ==
    ASSUME Typed, Counted, NEW x \in Msgs, receipts' = Append(receipts, x), Pending(x),
           \/ lostAcks' = lostAcks /\ ~Pending(x)'
           \/ lostAcks' = [lostAcks EXCEPT ![x] = @ + 1],
           \A m \in Msgs : Pending(m)' => Pending(m)
    PROVE  Counted' /\ lostAcks' \in [Msgs -> Nat]
<1>0. lostAcks \in [Msgs -> Nat] /\ [lostAcks EXCEPT ![x] = @ + 1] \in [Msgs -> Nat]
  BY DEF Typed
<1>1. lostAcks \in [Msgs -> Nat] /\ lostAcks' \in [Msgs -> Nat]
  BY <1>0, Zenon
<1>2. ASSUME NEW m \in Msgs
      PROVE  Copies(m)' <= 1 + lostAcks'[m] /\ (Pending(m)' => Copies(m)' <= lostAcks'[m])
  <2>1. Copies(m) \in Nat /\ Copies(m)' = IF m = x THEN Copies(m) + 1 ELSE Copies(m)
    BY CopiesType, CopiesGrow
  <2>2. Copies(m) <= 1 + lostAcks[m] /\ (Pending(m) => Copies(m) <= lostAcks[m])
    BY DEF Counted
  <2>3. m # x => lostAcks'[m] = lostAcks[m]
    BY <1>1
  <2>4. m = x => \/ lostAcks'[m] = lostAcks[m] /\ ~Pending(m)'
                 \/ lostAcks'[m] = lostAcks[m] + 1
    BY <1>1
  <2>5. m = x => Pending(m)
    OBVIOUS
  <2>6. Pending(m)' => Pending(m)
    OBVIOUS
  <2>7. lostAcks[m] \in Nat /\ lostAcks'[m] \in Nat
    BY <1>1
  <2> QED BY <2>1, <2>2, <2>3, <2>4, <2>5, <2>6, <2>7
<1> QED BY <1>1, <1>2 DEF Counted

-----------------------------------------------------------------------------
(* The inductive invariant *)

Inv == Typed /\ Exchanges /\ QueueIsNewest /\ NoSilentLoss /\ Counted

\* A step that leaves the queue alone.
LEMMA Unqueued ==
    ASSUME Inv, queue' = queue, receipts' = receipts, gone \subseteq gone', settled' = settled
    PROVE  QueueIsNewest' /\ NoSilentLoss' /\ Held \subseteq Held'
<1>1. QueueIsNewest'
  BY DEF Inv, QueueIsNewest
<1>2. Held \subseteq Held'
  BY DEF Held
<1> QED BY <1>1, <1>2 DEF Inv, NoSilentLoss, Held

\* A step that neither receives nor sends, and changes no exchange.
LEMMA Quiet ==
    ASSUME Inv, queue' = queue, receipts' = receipts, gone \subseteq gone', settled' = settled,
           lostAcks' = lostAcks, outgoing' = outgoing, unsent' = unsent,
           ClientShrinks, BrokerShrinks
    PROVE  Inv'
<1>1. QueueIsNewest' /\ NoSilentLoss' /\ Held \subseteq Held'
  BY Unqueued
<1>2. /\ toClient' \in Seq(FromBroker) /\ toBroker' \in Seq(FromClient)
      /\ Exchanges' /\ \A m \in Msgs : Pending(m)' => Pending(m)
  BY <1>1, Shrinking DEF Inv
<1>3. Typed'
  BY <1>2 DEF Inv, Typed
<1>4. Counted'
  <2>1. lostAcks' \in [Msgs -> Nat] /\ \A m \in Msgs : lostAcks'[m] >= lostAcks[m]
    BY DEF Inv, Typed
  <2> QED BY <1>2, <2>1, NoReceipt DEF Inv
<1> QED BY <1>1, <1>2, <1>3, <1>4 DEF Inv

-----------------------------------------------------------------------------
(* The steps *)

LEMMA InitInv == Init => Inv
<1> SUFFICES ASSUME Init PROVE Inv
  OBVIOUS
<1>1. /\ queue = <<>> /\ toClient = <<>> /\ toBroker = <<>> /\ outgoing = <<>> /\ receipts = <<>>
      /\ gone = {} /\ settled = {} /\ unsent = Msgs /\ lostAcks = [m \in Msgs |-> 0]
  BY DEF Init
<1>2. Typed
  BY <1>1, Known DEF Typed
<1>3. Exchanges
  BY <1>1 DEF Exchanges, Distinct, ToClientBelongs, ToBrokerBelongs, Alone
<1>4. QueueIsNewest /\ NoSilentLoss
  BY <1>1, Known DEF QueueIsNewest, NoSilentLoss
<1>5. Counted
  <2> SUFFICES ASSUME NEW m \in Msgs PROVE Copies(m) = 0 /\ lostAcks[m] = 0
    BY DEF Counted
  <2>1. {i \in DOMAIN receipts : receipts[i] = m} = {}
    BY <1>1
  <2> QED BY <1>1, <2>1, FS_EmptySet DEF Copies
<1> QED BY <1>2, <1>3, <1>4, <1>5 DEF Inv

LEMMA DisconnectKeeps == ASSUME Inv, Disconnect PROVE Inv'
<1>1. /\ queue' = queue /\ receipts' = receipts /\ gone' = gone /\ settled' = settled
      /\ lostAcks' = lostAcks /\ outgoing' = outgoing /\ unsent' = unsent
  BY DEF Disconnect, broker, ghosts
<1>2. ClientShrinks
  BY DEF Disconnect, network, ClientShrinks
<1>3. CreateDisconnect \in FromClient /\ ~IsAck(CreateDisconnect)
  BY DEF CreateDisconnect, CreateDisconnectV3, CreateDisconnectV5, FromClient, IsAck, AckTypes
<1>4. BrokerShrinks
  BY <1>3 DEF Disconnect, network, BrokerShrinks
<1> QED BY <1>1, <1>2, <1>4, Quiet

LEMMA ReceiveOtherKeeps == ASSUME Inv, ReceiveOther PROVE Inv'
<1>1. /\ queue' = queue /\ receipts' = receipts /\ gone' = gone /\ settled' = settled
      /\ lostAcks' = lostAcks /\ outgoing' = outgoing /\ unsent' = unsent /\ toBroker' = toBroker
  BY DEF ReceiveOther, broker, ghosts
<1>2. ClientShrinks /\ BrokerShrinks
  BY <1>1 DEF ReceiveOther, Reads, ClientShrinks, BrokerShrinks
<1> QED BY <1>1, <1>2, Quiet

LEMMA ReceiveFailsKeeps == ASSUME Inv, ReceiveFails PROVE Inv'
<1>1. /\ queue' = queue /\ receipts' = receipts /\ gone' = gone /\ settled' = settled
      /\ lostAcks' = lostAcks /\ outgoing' = outgoing /\ unsent' = unsent
      /\ toBroker' = toBroker /\ toClient' = toClient
  BY DEF ReceiveFails, network, broker, ghosts
<1> QED BY <1>1, Quiet DEF ClientShrinks, BrokerShrinks

LEMMA PollTimesOutKeeps == ASSUME Inv, PollTimesOut PROVE Inv'
<1>1. /\ queue' = queue /\ receipts' = receipts /\ gone' = gone /\ settled' = settled
      /\ lostAcks' = lostAcks /\ outgoing' = outgoing /\ unsent' = unsent
      /\ toBroker' = toBroker /\ toClient' = toClient
  BY DEF PollTimesOut, network, broker, ghosts
<1> QED BY <1>1, Quiet DEF ClientShrinks, BrokerShrinks

LEMMA BrokerStrayKeeps == ASSUME Inv, BrokerStray PROVE Inv'
<1>1. /\ queue' = queue /\ receipts' = receipts /\ gone' = gone /\ settled' = settled
      /\ lostAcks' = lostAcks /\ outgoing' = outgoing /\ unsent' = unsent /\ toBroker' = toBroker
  BY DEF BrokerStray, client, broker, ghosts
<1>2. \E type \in Stray : toClient' = Append(toClient, [type |-> type])
  BY DEF BrokerStray, Stray
<1> QED BY <1>1, <1>2, Quiet DEF ClientShrinks, BrokerShrinks

LEMMA NextMessageKeeps == ASSUME Inv, NextMessage PROVE Inv'
<1>1. /\ receipts' = receipts /\ settled' = settled /\ lostAcks' = lostAcks
      /\ outgoing' = outgoing /\ unsent' = unsent /\ toBroker' = toBroker /\ toClient' = toClient
  BY DEF NextMessage, network, broker
<1>2. /\ queue' \in Seq(Messages) /\ Len(queue') <= Capacity /\ Len(queue') <= Len(receipts)
      /\ Held \subseteq Held' /\ QueueIsNewest'
  BY Dequeueing DEF Inv
<1>3. ClientShrinks /\ BrokerShrinks
  BY <1>1 DEF ClientShrinks, BrokerShrinks
<1>4. Exchanges' /\ \A m \in Msgs : Pending(m)' => Pending(m)
  BY <1>1, <1>2, <1>3, Shrinking DEF Inv
<1>5. Typed'
  BY <1>1, <1>2 DEF Inv, Typed
<1>6. NoSilentLoss'
  BY <1>1, <1>2 DEF Inv, NoSilentLoss, Held
<1>7. Counted'
  <2>1. lostAcks' \in [Msgs -> Nat] /\ \A m \in Msgs : lostAcks'[m] >= lostAcks[m]
    BY <1>1 DEF Inv, Typed
  <2> QED BY <1>1, <1>4, <2>1, NoReceipt DEF Inv
<1> QED BY <1>2, <1>4, <1>5, <1>6, <1>7 DEF Inv

\* A message received: queued, or let go of after its acknowledgement was cut;
\* acknowledged, or not.
LEMMA PublishCases ==
    ASSUME Inv, ReceivePublish, NEW p, p = Head(toClient)
    PROVE  /\ toClient # <<>> /\ p \in FromBroker /\ toClient' = Tail(toClient) /\ IsPublish(p)
           /\ outgoing' = outgoing /\ unsent' = unsent /\ settled' = settled
           /\ \/ p.qos = 0 /\ toBroker' = toBroker
              \/ /\ p.qos # 0
                 /\ \/ toBroker' = toBroker
                    \/ \E ack \in FromClient :
                           /\ IsAck(ack) /\ ack.type # "PUBCOMP" /\ ack.pid = p.pid
                           /\ toBroker' = Append(toBroker, ack)
           /\ \/ /\ AddReceivedMessage(Message(p))
                 /\ \/ lostAcks' = lostAcks /\ (p.qos = 0 \/ toBroker' # toBroker)
                    \/ lostAcks' = [lostAcks EXCEPT ![p.payload] = @ + 1]
              \/ /\ queue' = queue /\ receipts' = receipts /\ lostAcks' = lostAcks
                 /\ gone \subseteq gone' /\ (toBroker' # toBroker => p.payload \in gone')
<1>1. Reads({"PublishReceived"})
  BY DEF ReceivePublish
<1>2. /\ toClient # <<>> /\ p \in FromBroker /\ IsPublish(p) /\ Action = PublishReceived(p)
      /\ toClient' = Tail(toClient)
  BY <1>1, Reading DEF Inv, Reads
<1>3. /\ Action.qos = p.qos /\ Action.payload = p.payload /\ Message(Action) = Message(p)
      /\ Action.pid = p.pid
  BY <1>2 DEF PublishReceived, Message
<1>4. outgoing' = outgoing /\ unsent' = unsent /\ settled' = settled
  BY DEF ReceivePublish, broker
<1>5. CASE p.qos = 0
  <2>1. AddReceivedMessage(Message(p)) /\ toBroker' = toBroker /\ lostAcks' = lostAcks
    BY <1>3, <1>5 DEF ReceivePublish
  <2> QED BY <1>2, <1>4, <1>5, <2>1
<1>6. CASE p.qos # 0
  <2> DEFINE ack == CreateAck(AckType(p.qos), p.pid)
  <2>1. p.qos \in 0..2 /\ p.pid \in Pids
    BY <1>2, <1>6, BrokerPackets
  <2>2. AckType(p.qos) \in {"PUBACK", "PUBREC"}
    BY DEF AckType
  <2>3. ack = Acknowledgement(AckType(p.qos), p.pid) /\ ack \in FromClient
    BY <2>1, <2>2, Acknowledging DEF AckTypes
  <2>4. ack \in FromClient /\ IsAck(ack) /\ ack.type # "PUBCOMP" /\ ack.pid = p.pid
    BY <2>2, <2>3 DEF Acknowledgement, IsAck, AckTypes
  <2>5. PICK outcome \in Outcomes :
           /\ SendAck(ack, outcome)
           /\ IF outcome = "sent" THEN AddReceivedMessage(Message(p))
              ELSE /\ queue' = queue /\ receipts' = receipts
                   /\ gone' = IF outcome = "written" THEN gone \cup {p.payload} ELSE gone
           /\ lostAcks' = IF outcome = "sent" /\ link # "up"
                          THEN [lostAcks EXCEPT ![p.payload] = @ + 1] ELSE lostAcks
    BY <1>3, <1>6 DEF ReceivePublish
  <2> HIDE DEF ack
  <2>6. toBroker' = IF link = "up" /\ outcome # "lost" THEN Append(toBroker, ack) ELSE toBroker
    BY <2>5 DEF SendAck
  <2>7. Append(toBroker, ack) # toBroker
    BY <2>4, Appending DEF Inv, Typed
  <2>8. toBroker' = toBroker \/ toBroker' = Append(toBroker, ack)
    BY <2>6
  <2>9. CASE outcome = "sent"
    <3>1. /\ AddReceivedMessage(Message(p))
          /\ \/ lostAcks' = lostAcks /\ toBroker' # toBroker
             \/ lostAcks' = [lostAcks EXCEPT ![p.payload] = @ + 1]
      BY <2>5, <2>6, <2>7, <2>9
    <3> QED BY <1>2, <1>4, <1>6, <2>4, <2>8, <3>1
  <2>10. CASE outcome # "sent"
    <3>1. /\ queue' = queue /\ receipts' = receipts /\ lostAcks' = lostAcks
          /\ gone \subseteq gone' /\ (toBroker' # toBroker => p.payload \in gone')
      BY <2>5, <2>6, <2>10 DEF Outcomes
    <3> QED BY <1>2, <1>4, <1>6, <2>4, <2>8, <3>1
  <2> QED BY <2>9, <2>10
<1> QED BY <1>5, <1>6

LEMMA ReceivePublishKeeps == ASSUME Inv, ReceivePublish PROVE Inv'
<1>0. PICK p : p = Head(toClient)
  OBVIOUS
<1>1. /\ toClient # <<>> /\ p \in FromBroker /\ toClient' = Tail(toClient) /\ IsPublish(p)
      /\ outgoing' = outgoing /\ unsent' = unsent /\ settled' = settled
  BY <1>0, PublishCases
<1>2. \/ p.qos = 0 /\ toBroker' = toBroker
      \/ /\ p.qos # 0
         /\ \/ toBroker' = toBroker
            \/ \E ack \in FromClient :
                   /\ IsAck(ack) /\ ack.type # "PUBCOMP" /\ ack.pid = p.pid
                   /\ toBroker' = Append(toBroker, ack)
  BY <1>0, PublishCases
<1>3. \/ /\ AddReceivedMessage(Message(p))
         /\ \/ lostAcks' = lostAcks /\ (p.qos = 0 \/ toBroker' # toBroker)
            \/ lostAcks' = [lostAcks EXCEPT ![p.payload] = @ + 1]
      \/ /\ queue' = queue /\ receipts' = receipts /\ lostAcks' = lostAcks
         /\ gone \subseteq gone' /\ (toBroker' # toBroker => p.payload \in gone')
  BY <1>0, PublishCases
<1>4. /\ p.payload \in Msgs /\ p.topic \in Payloads
      /\ p = toClient[1] /\ 1 \in DOMAIN toClient /\ DOMAIN toClient = 1..Len(toClient)
      /\ DOMAIN toClient' = 1..(Len(toClient) - 1) /\ Len(toClient) \in Nat \ {0}
      /\ \A i \in DOMAIN toClient' : toClient'[i] = toClient[i + 1]
      /\ toClient' \in Seq(FromBroker)
  BY <1>0, <1>1, BrokerPackets, Taking DEF Inv, Typed
<1>5. /\ Held \subseteq Held' /\ QueueIsNewest' /\ (toBroker' # toBroker => p.payload \in Held')
      /\ queue' \in Seq(Messages) /\ receipts' \in Seq(Msgs)
      /\ Len(queue') <= Capacity /\ Len(queue') <= Len(receipts')
  <2>1. CASE AddReceivedMessage(Message(p))
    BY <1>4, <2>1, Queueing DEF Inv
  <2>2. CASE /\ queue' = queue /\ receipts' = receipts /\ gone \subseteq gone'
             /\ (toBroker' # toBroker => p.payload \in gone')
    BY <1>1, <2>2, Unqueued DEF Inv, Typed, Held
  <2> QED BY <1>3, <2>1, <2>2
<1>6. NoSilentLoss'
  BY <1>1, <1>5 DEF Inv, NoSilentLoss, Held
\* The message itself stops pending, if it is acknowledged or needs no
\* acknowledgement.
<1>7. /\ Exchanges' /\ toBroker' \in Seq(FromClient)
      /\ \A m \in Msgs : Pending(m)' => Pending(m)
  <2>1. CASE toBroker' = toBroker
    <3>1. ClientShrinks /\ BrokerShrinks
      BY <1>1, <2>1 DEF ClientShrinks, BrokerShrinks
    <3> QED BY <1>1, <1>5, <3>1, Shrinking DEF Inv
  <2>2. ASSUME NEW ack \in FromClient, IsAck(ack), ack.type # "PUBCOMP", ack.pid = p.pid,
               toBroker' = Append(toBroker, ack), p.qos # 0
        PROVE  /\ Exchanges' /\ toBroker' \in Seq(FromClient)
               /\ \A m \in Msgs : Pending(m)' => Pending(m)
    <3>1. /\ toBroker' \in Seq(FromClient) /\ toBroker' # toBroker
          /\ \A i \in DOMAIN toBroker : i \in DOMAIN toBroker' /\ toBroker'[i] = toBroker[i]
      <4>1. /\ toBroker \in Seq(FromClient) /\ Len(toBroker) \in Nat
            /\ DOMAIN toBroker = 1..Len(toBroker)
        BY DEF Inv, Typed
      <4>2. /\ toBroker' \in Seq(FromClient) /\ Len(toBroker') = Len(toBroker) + 1
            /\ DOMAIN toBroker' = 1..(Len(toBroker) + 1)
            /\ \A i \in DOMAIN toBroker : toBroker'[i] = toBroker[i]
        BY <2>2, <4>1, Appending
      <4>3. \A i \in DOMAIN toBroker : i \in DOMAIN toBroker'
        BY <4>1, <4>2
      <4> QED BY <4>1, <4>2, <4>3
    <3>2. Exchanging(p)
      BY <1>1, <2>2 DEF Exchanging, IsPublish
    <3>3. Exchanges'
      BY <1>0, <1>1, <1>5, <2>2, <3>1, <3>2, Answering DEF Inv
    <3>4. \A i \in DOMAIN toClient' : i + 1 \in DOMAIN toClient
      BY <1>4
    <3>5. ASSUME NEW m \in Msgs, Pending(m)' PROVE Pending(m)
      BY <1>1, <1>4, <3>1, <3>4, <3>5 DEF Pending, IsPublish, IsAck
    <3> QED BY <3>1, <3>3, <3>5
  <2> QED BY <1>2, <2>1, <2>2
<1>8. Pending(p.payload)
  BY <1>1, <1>4 DEF Pending
<1>9. p.qos = 0 \/ toBroker' # toBroker => ~Pending(p.payload)'
  <2>1. /\ p.payload \notin unsent
        /\ \A k \in DOMAIN outgoing : outgoing[k].msg = p.payload <=> p.qos # 0 /\ outgoing[k].pid = p.pid
    BY <1>1, <1>4 DEF Inv, Exchanges, ToClientBelongs
  <2>2. \A i \in DOMAIN toClient' : IsPublish(toClient'[i]) => toClient'[i].payload # p.payload
    <3> SUFFICES ASSUME NEW i \in DOMAIN toClient', IsPublish(toClient'[i])
                 PROVE  toClient'[i].payload # p.payload
      OBVIOUS
    <3>1. i + 1 \in DOMAIN toClient /\ i + 1 # 1 /\ toClient'[i] = toClient[i + 1]
      BY <1>4
    <3> QED BY <1>1, <1>4, <3>1 DEF Inv, Exchanges, Alone
  <2>3. CASE p.qos = 0
    BY <1>1, <2>1, <2>2, <2>3 DEF Pending, IsPublish
  <2>4. CASE toBroker' # toBroker
    <3>1. PICK ack \in FromClient : IsAck(ack) /\ ack.pid = p.pid /\ toBroker' = Append(toBroker, ack)
      BY <1>2, <2>4
    <3>2. \E j \in DOMAIN toBroker' : IsAck(toBroker'[j]) /\ toBroker'[j].pid = p.pid
      <4>1. /\ DOMAIN toBroker' = 1..(Len(toBroker) + 1) /\ Len(toBroker) \in Nat
            /\ toBroker'[Len(toBroker) + 1] = ack
        BY <3>1, Appending DEF Inv, Typed
      <4>2. Len(toBroker) + 1 \in DOMAIN toBroker'
        BY <4>1
      <4> QED BY <3>1, <4>1, <4>2
    <3> QED BY <1>1, <2>1, <2>2, <3>2 DEF Pending, IsPublish, IsAck
  <2> QED BY <2>3, <2>4
<1>10. Counted' /\ lostAcks' \in [Msgs -> Nat]
  <2>1. CASE /\ AddReceivedMessage(Message(p))
             /\ \/ lostAcks' = lostAcks /\ (p.qos = 0 \/ toBroker' # toBroker)
                \/ lostAcks' = [lostAcks EXCEPT ![p.payload] = @ + 1]
    <3>1. receipts' = Append(receipts, p.payload)
      BY <2>1 DEF AddReceivedMessage, Message
    <3>2. \/ lostAcks' = lostAcks /\ ~Pending(p.payload)'
          \/ lostAcks' = [lostAcks EXCEPT ![p.payload] = @ + 1]
      BY <1>9, <2>1
    <3> QED BY <1>4, <1>7, <1>8, <3>1, <3>2, OneReceipt DEF Inv
  <2>2. CASE receipts' = receipts /\ lostAcks' = lostAcks
    <3>1. lostAcks' \in [Msgs -> Nat] /\ \A m \in Msgs : lostAcks'[m] >= lostAcks[m]
      BY <2>2 DEF Inv, Typed
    <3> QED BY <1>7, <2>2, <3>1, NoReceipt DEF Inv
  <2> QED BY <1>3, <2>1, <2>2
<1>11. Typed'
  BY <1>1, <1>4, <1>5, <1>7, <1>10 DEF Inv, Typed
<1> QED BY <1>5, <1>6, <1>7, <1>10, <1>11 DEF Inv

LEMMA ReceivePubrelKeeps == ASSUME Inv, ReceivePubrel PROVE Inv'
<1>0. PICK p : p = Head(toClient)
  OBVIOUS
<1>1. /\ queue' = queue /\ receipts' = receipts /\ gone' = gone /\ settled' = settled
      /\ lostAcks' = lostAcks /\ outgoing' = outgoing /\ unsent' = unsent
      /\ Reads({"PublishRelease"})
  BY DEF ReceivePubrel, broker
<1>2. /\ toClient # <<>> /\ p \in FromBroker /\ toClient' = Tail(toClient) /\ p.type = "PUBREL"
      /\ Action.pid = p.pid /\ p.pid \in Pids /\ Exchanging(p)
  <2>1. /\ toClient # <<>> /\ p \in FromBroker /\ toClient' = Tail(toClient) /\ p.type = "PUBREL"
        /\ Action = Acknowledgement("PublishRelease", p.pid)
    BY <1>0, <1>1, Reading DEF Inv, Reads
  <2> QED BY <2>1, BrokerPackets DEF Exchanging, Acknowledgement
<1>3. PICK ack \in FromClient :
          /\ IsAck(ack) /\ ack.type = "PUBCOMP" /\ ack.pid = p.pid
          /\ toBroker' = toBroker \/ toBroker' = Append(toBroker, ack)
  <2> DEFINE ack == CreateAck("PUBCOMP", p.pid)
  <2>1. ack \in FromClient /\ ack = Acknowledgement("PUBCOMP", p.pid)
    BY <1>2, Acknowledging DEF AckTypes
  <2>2. IsAck(ack) /\ ack.type = "PUBCOMP" /\ ack.pid = p.pid
    BY <2>1 DEF Acknowledgement, IsAck, AckTypes
  <2>3. toBroker' = toBroker \/ toBroker' = Append(toBroker, ack)
    BY <1>2 DEF ReceivePubrel, SendAck
  <2> QED BY <2>1, <2>2, <2>3
<1>4. CASE toBroker' = toBroker
  <2>1. ClientShrinks /\ BrokerShrinks
    BY <1>2, <1>4 DEF ClientShrinks, BrokerShrinks
  <2> QED BY <1>1, <2>1, Quiet
<1>5. CASE toBroker' = Append(toBroker, ack)
  <2>1. QueueIsNewest' /\ NoSilentLoss' /\ Held \subseteq Held'
    BY <1>1, Unqueued
  <2>2. Exchanges'
    BY <1>0, <1>1, <1>2, <1>3, <1>5, <2>1, Answering DEF Inv
  <2>3. /\ toBroker' \in Seq(FromClient)
        /\ DOMAIN toBroker' = 1..(Len(toBroker) + 1) /\ DOMAIN toBroker = 1..Len(toBroker)
        /\ Len(toBroker) \in Nat
        /\ \A i \in DOMAIN toBroker : toBroker'[i] = toBroker[i]
    BY <1>5, Appending DEF Inv, Typed
  <2>4. \A i \in DOMAIN toBroker : i \in DOMAIN toBroker'
    BY <2>3
  <2>5. /\ toClient' \in Seq(FromBroker) /\ DOMAIN toClient = 1..Len(toClient)
        /\ DOMAIN toClient' = 1..(Len(toClient) - 1) /\ Len(toClient) \in Nat \ {0}
        /\ \A i \in DOMAIN toClient' : toClient'[i] = toClient[i + 1]
    BY <1>2, Taking DEF Inv, Typed
  <2>6. \A i \in DOMAIN toClient' : i + 1 \in DOMAIN toClient
    BY <2>5
  <2>7. ASSUME NEW m \in Msgs, Pending(m)' PROVE Pending(m)
    BY <1>1, <2>3, <2>4, <2>5, <2>6, <2>7 DEF Pending, IsPublish, IsAck
  <2>8. Typed'
    BY <1>1, <2>3, <2>5 DEF Inv, Typed
  <2>9. lostAcks' \in [Msgs -> Nat] /\ \A m \in Msgs : lostAcks'[m] >= lostAcks[m]
    BY <1>1 DEF Inv, Typed
  <2>10. Counted'
    BY <1>1, <2>7, <2>9, NoReceipt DEF Inv
  <2> QED BY <2>1, <2>2, <2>8, <2>10 DEF Inv
<1> QED BY <1>3, <1>4, <1>5

LEMMA BrokerSendsKeeps == ASSUME Inv, NEW m \in Msgs, BrokerSends(m) PROVE Inv'
<1>1. /\ m \in unsent /\ unsent' = unsent \ {m} /\ toBroker' = toBroker
      /\ queue' = queue /\ receipts' = receipts /\ gone' = gone /\ settled' = settled
      /\ lostAcks' = lostAcks
  BY DEF BrokerSends, client, ghosts
<1>2. PICK packet \in FromBroker :
          /\ toClient' = Append(toClient, packet)
          /\ IsPublish(packet) /\ packet.payload = m
          /\ \/ packet.qos = 0 /\ outgoing' = outgoing
             \/ \E e \in Entries :
                    /\ packet.qos # 0 /\ packet.pid = e.pid /\ e.msg = m
                    /\ e.phase = "publish" /\ e.pid = FreePid
                    /\ outgoing' = Append(outgoing, e)
  BY SendingType DEF Inv
<1>3. QueueIsNewest' /\ NoSilentLoss'
  BY <1>1, Unqueued
<1>4. Exchanges'
  BY Sending DEF Inv
<1>5. /\ toClient' \in Seq(FromBroker)
      /\ \A i \in DOMAIN toClient' :
             \/ i \in DOMAIN toClient /\ toClient'[i] = toClient[i]
             \/ toClient'[i] = packet
  <2>1. /\ toClient' \in Seq(FromBroker)
        /\ DOMAIN toClient' = 1..(Len(toClient) + 1) /\ DOMAIN toClient = 1..Len(toClient)
        /\ Len(toClient) \in Nat
        /\ \A i \in DOMAIN toClient : toClient'[i] = toClient[i]
        /\ toClient'[Len(toClient) + 1] = packet
    BY <1>2, Appending DEF Inv, Typed
  <2>2. \A i \in DOMAIN toClient' : i \in DOMAIN toClient \/ i = Len(toClient) + 1
    BY <2>1
  <2> QED BY <2>1, <2>2
<1>6. /\ outgoing' \in Seq(Entries)
      /\ \A i \in DOMAIN outgoing' :
             \/ i \in DOMAIN outgoing /\ outgoing'[i] = outgoing[i]
             \/ outgoing'[i].msg = m
  <2>1. CASE outgoing' = outgoing
    BY <2>1 DEF Inv, Typed
  <2>2. ASSUME NEW e \in Entries, e.msg = m, outgoing' = Append(outgoing, e)
        PROVE  /\ outgoing' \in Seq(Entries)
               /\ \A i \in DOMAIN outgoing' :
                      \/ i \in DOMAIN outgoing /\ outgoing'[i] = outgoing[i]
                      \/ outgoing'[i].msg = m
    <3>1. /\ outgoing' \in Seq(Entries)
          /\ DOMAIN outgoing' = 1..(Len(outgoing) + 1) /\ DOMAIN outgoing = 1..Len(outgoing)
          /\ Len(outgoing) \in Nat
          /\ \A i \in DOMAIN outgoing : outgoing'[i] = outgoing[i]
          /\ outgoing'[Len(outgoing) + 1] = e
      BY <2>2, Appending DEF Inv, Typed
    <3>2. \A i \in DOMAIN outgoing' : i \in DOMAIN outgoing \/ i = Len(outgoing) + 1
      BY <3>1
    <3> QED BY <2>2, <3>1, <3>2
  <2> QED BY <1>2, <2>1, <2>2
<1>7. ASSUME NEW x \in Msgs, Pending(x)' PROVE Pending(x)
  BY <1>1, <1>2, <1>5, <1>6, <1>7 DEF Pending, IsPublish, IsAck
<1>8. Typed'
  BY <1>1, <1>5, <1>6 DEF Inv, Typed
<1>9. Counted'
  <2>1. lostAcks' \in [Msgs -> Nat] /\ \A x \in Msgs : lostAcks'[x] >= lostAcks[x]
    BY <1>1 DEF Inv, Typed
  <2> QED BY <1>1, <1>7, <2>1, NoReceipt DEF Inv
<1> QED BY <1>3, <1>4, <1>8, <1>9 DEF Inv

\* What is settled is held: the acknowledgement says so.
LEMMA BrokerReadsKeeps == ASSUME Inv, BrokerReads PROVE Inv'
<1>1. /\ toBroker # <<>> /\ toBroker' = Tail(toBroker)
      /\ queue' = queue /\ receipts' = receipts /\ gone' = gone /\ unsent' = unsent
      /\ lostAcks' = lostAcks
  BY DEF BrokerReads, client
<1>2. PICK p : p = Head(toBroker)
  OBVIOUS
<1>3. /\ p \in FromClient /\ p = toBroker[1] /\ 1 \in DOMAIN toBroker
      /\ toBroker' \in Seq(FromClient)
  BY <1>1, <1>2, Taking DEF Inv, Typed
<1>4. p.type \in {"PUBACK", "PUBREC", "PUBCOMP", "DISCONNECT"}
  BY <1>3, ClientPackets DEF AckTypes
<1>5. Held' = Held /\ QueueIsNewest'
  BY <1>1 DEF Held, Inv, QueueIsNewest
<1>6. p.type \in {"PUBACK", "PUBREC"} => MsgsOf(p.pid) \subseteq Held
  BY <1>3 DEF Inv, Exchanges, ToBrokerBelongs, IsAck, AckTypes, MsgsOf, Entry
<1>7. lostAcks' \in [Msgs -> Nat] /\ \A m \in Msgs : lostAcks'[m] >= lostAcks[m]
  BY <1>1 DEF Inv, Typed
<1>8. ASSUME Exchanges', outgoing' \in Seq(Entries), toClient' \in Seq(FromBroker),
             settled' \subseteq Held, \A m \in Msgs : Pending(m)' => Pending(m)
      PROVE  Inv'
  <2>1. Typed'
    BY <1>1, <1>3, <1>8 DEF Inv, Typed
  <2>2. Counted'
    BY <1>1, <1>7, <1>8, NoReceipt DEF Inv
  <2>3. NoSilentLoss'
    BY <1>5, <1>8 DEF NoSilentLoss, Held
  <2> QED BY <1>5, <1>8, <2>1, <2>2, <2>3 DEF Inv
<1>9. settled \subseteq Held
  BY DEF Inv, NoSilentLoss, Held
<1>10. CASE p.type \in {"PUBACK", "PUBCOMP"}
  <2>1. outgoing' = Without(p.pid) /\ toClient' = toClient /\ settled' \subseteq settled \cup
            (IF p.type = "PUBACK" THEN MsgsOf(p.pid) ELSE {})
    BY <1>2, <1>10 DEF BrokerReads
  <2>2. IsAck(p)
    BY <1>10 DEF IsAck, AckTypes
  <2>3. /\ Exchanges' /\ outgoing' \in Seq(Entries)
        /\ \A m \in Msgs : Pending(m)' => Pending(m)
    BY <1>1, <1>2, <1>3, <1>5, <2>1, <2>2, Closing DEF Inv
  <2>4. toClient' \in Seq(FromBroker) /\ settled' \subseteq Held
    BY <1>6, <1>9, <2>1 DEF Inv, Typed
  <2> QED BY <1>8, <2>3, <2>4
<1>11. CASE p.type = "PUBREC"
  <2>1. /\ outgoing' = [i \in DOMAIN outgoing |->
               IF i \in Entry(p.pid) THEN [outgoing[i] EXCEPT !.phase = "pubrel"] ELSE outgoing[i]]
        /\ settled' = settled \cup MsgsOf(p.pid)
        /\ \/ toClient' = Append(toClient, Acknowledgement("PUBREL", p.pid))
           \/ toClient' = toClient
    BY <1>2, <1>11 DEF BrokerReads
  <2>2. /\ Exchanges' /\ outgoing' \in Seq(Entries) /\ toClient' \in Seq(FromBroker)
        /\ \A m \in Msgs : Pending(m)' => Pending(m)
    BY <1>1, <1>2, <1>3, <1>5, <1>11, <2>1, Releasing DEF Inv
  <2>3. settled' \subseteq Held
    BY <1>6, <1>9, <1>11, <2>1
  <2> QED BY <1>8, <2>2, <2>3
<1>12. CASE p.type = "DISCONNECT"
  <2>1. outgoing' = outgoing /\ settled' = settled /\ toClient' = toClient
    BY <1>2, <1>12 DEF BrokerReads
  <2>2. ~IsAck(p)
    BY <1>12 DEF IsAck, AckTypes
  <2>3. ClientShrinks /\ BrokerShrinks
    BY <1>1, <1>2, <2>1, <2>2 DEF ClientShrinks, BrokerShrinks
  <2> QED BY <1>1, <2>1, <2>3, Quiet
<1> QED BY <1>4, <1>10, <1>11, <1>12

\* An acknowledgement that is lost is counted, and makes its message pending.
LEMMA BreakLinkKeeps == ASSUME Inv, BreakLink PROVE Inv'
<1> DEFINE Lost(m) == {i \in DOMAIN toBroker :
               toBroker[i].type \in {"PUBACK", "PUBREC"} /\ m \in MsgsOf(toBroker[i].pid)}
<1>1. /\ queue' = queue /\ receipts' = receipts /\ gone' = gone /\ settled' = settled
      /\ outgoing' = outgoing /\ unsent' = unsent /\ toBroker' = <<>>
      /\ lostAcks' = [m \in Msgs |-> lostAcks[m] + Cardinality(Lost(m))]
  BY DEF BreakLink, client, broker
<1>2. ClientShrinks
  BY DEF BreakLink, ClientShrinks, Stray
<1>3. BrokerFrom
  BY <1>1 DEF BrokerFrom
<1>4. QueueIsNewest' /\ NoSilentLoss' /\ Held \subseteq Held'
  BY <1>1, Unqueued
<1>5. ClientFrom /\ toClient' \in Seq(FromBroker)
  BY <1>2, ClientSide DEF Inv
<1>6. Exchanges'
  BY <1>1, <1>3, <1>4, <1>5, FewerPackets DEF Inv
<1>7. ASSUME NEW m
      PROVE  IsFiniteSet(Lost(m)) /\ Cardinality(Lost(m)) \in Nat
             /\ (Lost(m) # {} => Cardinality(Lost(m)) > 0)
  <2>1. DOMAIN toBroker = 1..Len(toBroker) /\ Len(toBroker) \in Nat
    BY DEF Inv, Typed
  <2>2. IsFiniteSet(DOMAIN toBroker)
    BY <2>1, FS_Interval
  <2>3. Lost(m) \subseteq DOMAIN toBroker
    OBVIOUS
  <2>4. IsFiniteSet(Lost(m))
    BY <2>2, <2>3, FS_Subset
  <2> HIDE DEF Lost
  <2>5. Cardinality(Lost(m)) \in Nat /\ (Cardinality(Lost(m)) = 0 <=> Lost(m) = {})
    BY <2>4, FS_CardinalityType, FS_EmptySet
  <2> QED BY <2>4, <2>5
<1>8. ASSUME NEW m \in Msgs, Pending(m)', ~Pending(m)
      PROVE  Lost(m) # {}
  <2>1. PICK f : \A i \in DOMAIN toClient' : Carries(toClient'[i])
                     => f[i] \in DOMAIN toClient /\ toClient'[i] = toClient[f[i]]
    BY <1>5 DEF ClientFrom
  <2>2. ~ \E i \in DOMAIN toClient' : IsPublish(toClient'[i]) /\ toClient'[i].payload = m
    <3> SUFFICES ASSUME NEW i \in DOMAIN toClient', IsPublish(toClient'[i]), toClient'[i].payload = m
                 PROVE  FALSE
      OBVIOUS
    <3>1. f[i] \in DOMAIN toClient /\ toClient'[i] = toClient[f[i]]
      BY <2>1 DEF Carries
    <3> QED BY <1>8, <3>1 DEF Pending
  <2>3. m \notin unsent
    BY <1>8 DEF Pending
  <2>4. PICK k \in DOMAIN outgoing : outgoing[k].msg = m /\ outgoing[k].phase = "publish"
    BY <1>1, <1>8, <2>2, <2>3 DEF Pending, IsPublish
  <2>5. PICK j \in DOMAIN toBroker : IsAck(toBroker[j]) /\ toBroker[j].pid = outgoing[k].pid
    BY <1>8, <2>4 DEF Pending
  <2>6. Belongs(toBroker[j])
    BY <2>5 DEF Inv, Exchanges, ToBrokerBelongs
  <2>7. toBroker[j].type \in {"PUBACK", "PUBREC"}
    BY <2>4, <2>5, <2>6 DEF Belongs, Inv, Exchanges, Distinct, IsAck, AckTypes
  <2>8. m \in MsgsOf(toBroker[j].pid)
    BY <2>4, <2>5 DEF MsgsOf, Entry
  <2> QED BY <2>7, <2>8
<1> HIDE DEF Lost
<1>9. lostAcks \in [Msgs -> Nat]
  BY DEF Inv, Typed
<1>10. /\ lostAcks' \in [Msgs -> Nat]
       /\ \A m \in Msgs : lostAcks'[m] >= lostAcks[m]
       /\ \A m \in Msgs : Lost(m) # {} => lostAcks'[m] > lostAcks[m]
  BY <1>1, <1>7, <1>9
<1>11. Counted'
  <2>1. \A m \in Msgs : Pending(m)' => Pending(m) \/ lostAcks'[m] > lostAcks[m]
    BY <1>8, <1>10
  <2> QED BY <1>1, <1>10, <2>1, NoReceipt DEF Inv
<1>12. Typed'
  BY <1>1, <1>5, <1>10 DEF Inv, Typed
<1> QED BY <1>4, <1>6, <1>11, <1>12 DEF Inv

\* What a new connection sends again is what is outstanding.
LEMMA ConnectKeeps == ASSUME Inv, NEW c \in Configs, Connect(c) PROVE Inv'
<1>1. /\ toBroker = <<>> /\ toBroker' = <<>> /\ unsent' = unsent /\ receipts' = receipts
      /\ settled' = settled /\ lostAcks' = lostAcks
      /\ outgoing' = outgoing \/ outgoing' = <<>>
      /\ toClient' = [i \in DOMAIN outgoing' |-> Resent(outgoing'[i])]
      /\ \/ queue' = queue /\ gone' = gone
         \/ queue' = <<>> /\ gone' = gone \cup {queue[i].payload : i \in DOMAIN queue}
  BY DEF Connect, Connected
<1>2. /\ outgoing' \in Seq(Entries) /\ DOMAIN outgoing' = 1..Len(outgoing') /\ Len(outgoing') \in Nat
      /\ \A i \in DOMAIN outgoing' : i \in DOMAIN outgoing /\ outgoing'[i] = outgoing[i]
      /\ \A i \in DOMAIN outgoing' : outgoing'[i] \in Entries
  BY <1>1 DEF Inv, Typed
<1>3. Held \subseteq Held'
  BY <1>1 DEF Held
<1>4. /\ queue' \in Seq(Messages) /\ Len(queue') <= Capacity /\ Len(queue') <= Len(receipts')
      /\ QueueIsNewest'
  <2>1. CASE queue' = queue
    BY <1>1, <2>1 DEF Inv, Typed, QueueIsNewest
  <2>2. CASE queue' = <<>>
    <3>1. Capacity \in Nat /\ Len(receipts) \in Nat
      BY Known DEF Inv, Typed
    <3> QED BY <1>1, <2>2, <3>1 DEF QueueIsNewest
  <2> QED BY <1>1, <2>1, <2>2
<1>5. NoSilentLoss'
  BY <1>1, <1>3 DEF Inv, NoSilentLoss, Held
<1>6. ASSUME NEW i \in DOMAIN outgoing'
      PROVE  LET e == outgoing'[i]  p == toClient'[i] IN
             /\ p \in FromBroker /\ Exchanging(p) /\ p.pid = e.pid
             /\ e.phase \in {"publish", "pubrel"}
             /\ e.phase = "publish" => IsPublish(p) /\ p.payload = e.msg /\ p.qos # 0
             /\ e.phase = "pubrel" => p.type = "PUBREL" /\ ~IsPublish(p)
  <2>1. toClient'[i] = Resent(outgoing'[i]) /\ outgoing'[i] \in Entries
    BY <1>1, <1>2
  <2>2. outgoing'[i].phase \in {"publish", "pubrel"}
    BY <2>1 DEF Entries
  <2> QED BY <2>1, <2>2, Resending
<1>7. DOMAIN toClient' = DOMAIN outgoing' /\ toClient' \in Seq(FromBroker)
  <2>1. toClient' = [i \in 1..Len(outgoing') |-> Resent(outgoing'[i])]
    BY <1>1, <1>2
  <2>2. \A i \in 1..Len(outgoing') : Resent(outgoing'[i]) \in FromBroker
    BY <1>2, Resending
  <2>3. toClient' \in [1..Len(outgoing') -> FromBroker]
    BY <2>1, <2>2, Zenon
  <2> QED BY <1>2, <2>1, <2>3
<1>8. Distinct'
  BY <1>1, <1>2 DEF Inv, Exchanges, Distinct
<1>9. ToClientBelongs'
  <2>1. ASSUME NEW i \in DOMAIN toClient' PROVE
            LET p == toClient'[i] IN
            /\ \E k \in DOMAIN outgoing' :
                   /\ outgoing'[k].pid = p.pid
                   /\ outgoing'[k].phase = IF p.type \in {"PUBREL", "PUBCOMP"} THEN "pubrel"
                                           ELSE "publish"
            /\ IsPublish(p) => /\ p.payload \notin unsent'
                               /\ \A k \in DOMAIN outgoing' :
                                      outgoing'[k].msg = p.payload
                                          <=> p.qos # 0 /\ outgoing'[k].pid = p.pid
    <3>1. i \in DOMAIN outgoing'
      BY <1>7
    <3>2. CASE outgoing'[i].phase = "publish"
      BY <1>6, <1>8, <3>1, <3>2 DEF Distinct, IsPublish
    <3>3. CASE outgoing'[i].phase = "pubrel"
      BY <1>6, <3>1, <3>3
    <3> QED BY <1>6, <3>1, <3>2, <3>3
  <2> QED BY <2>1 DEF ToClientBelongs, Belongs, Exchanging, IsPublish
<1>10. ToBrokerBelongs'
  BY <1>1 DEF ToBrokerBelongs
<1>11. Alone'
  <2>1. ASSUME NEW i \in DOMAIN toClient', NEW j \in DOMAIN toClient', i # j PROVE
           /\ IsPublish(toClient'[i]) /\ IsPublish(toClient'[j])
                  => toClient'[i].payload # toClient'[j].payload
           /\ toClient'[i].pid # toClient'[j].pid
    <3>1. /\ i \in DOMAIN outgoing' /\ j \in DOMAIN outgoing'
          /\ outgoing'[i].pid # outgoing'[j].pid /\ outgoing'[i].msg # outgoing'[j].msg
      BY <1>7, <1>8, <2>1 DEF Distinct
    <3> QED BY <1>6, <3>1
  <2> QED BY <1>1, <2>1 DEF Alone, IsPublish, Exchanging, IsAck
<1>12. ASSUME NEW m \in Msgs, Pending(m)' PROVE Pending(m)
  <2>1. CASE m \in unsent
    BY <2>1 DEF Pending
  <2>2. ASSUME NEW k \in DOMAIN outgoing', outgoing'[k].msg = m, outgoing'[k].phase = "publish"
        PROVE  Pending(m)
    BY <1>1, <1>2, <2>2 DEF Pending
  <2>3. ASSUME NEW i \in DOMAIN toClient', IsPublish(toClient'[i]), toClient'[i].payload = m
        PROVE  Pending(m)
    BY <1>6, <1>7, <2>2, <2>3
  <2> QED BY <1>1, <1>12, <2>1, <2>2, <2>3 DEF Pending, IsPublish
<1>13. Typed'
  BY <1>1, <1>2, <1>4, <1>7 DEF Inv, Typed
<1>14. Counted'
  <2>1. lostAcks' \in [Msgs -> Nat] /\ \A m \in Msgs : lostAcks'[m] >= lostAcks[m]
    BY <1>1 DEF Inv, Typed
  <2> QED BY <1>1, <1>12, <2>1, NoReceipt DEF Inv
<1>15. Exchanges'
  BY <1>8, <1>9, <1>10, <1>11 DEF Exchanges
<1> QED BY <1>4, <1>5, <1>13, <1>14, <1>15 DEF Inv

LEMMA StutteringKeeps == ASSUME Inv, UNCHANGED vars PROVE Inv'
<1>1. /\ queue' = queue /\ receipts' = receipts /\ gone' = gone /\ settled' = settled
      /\ lostAcks' = lostAcks /\ outgoing' = outgoing /\ unsent' = unsent
      /\ toBroker' = toBroker /\ toClient' = toClient
  BY DEF vars, client, network, broker, ghosts
<1> QED BY <1>1, Quiet DEF ClientShrinks, BrokerShrinks

LEMMA NextInv == Inv /\ [Next]_vars => Inv'
<1> SUFFICES ASSUME Inv, [Next]_vars PROVE Inv'
  OBVIOUS
<1>1. ASSUME NEW c \in Configs, Connect(c) PROVE Inv'
  BY <1>1, ConnectKeeps
<1>2. ASSUME NEW m \in Msgs, BrokerSends(m) PROVE Inv'
  BY <1>2, BrokerSendsKeeps
<1>3. CASE Receive
  BY <1>3, ReceivePublishKeeps, ReceivePubrelKeeps, ReceiveOtherKeeps, ReceiveFailsKeeps
     DEF Receive
<1> QED BY <1>1, <1>2, <1>3, DisconnectKeeps, PollTimesOutKeeps, NextMessageKeeps, BreakLinkKeeps,
           BrokerStrayKeeps, BrokerReadsKeeps, StutteringKeeps DEF Next

LEMMA Invariant == Spec => []Inv
  BY InitInv, NextInv, PTL DEF Spec

-----------------------------------------------------------------------------
(* The theorems *)

\* The receive queue is always the newest receipts in the order of arrival, and
\* never longer than its capacity: add_received_message drops the oldest only.
THEOREM NewestInOrder == Spec => []QueueIsNewest
<1>1. Inv => QueueIsNewest
  BY DEF Inv
<1> QED BY Invariant, <1>1, PTL

\* A message the broker regards as delivered is in the queue or has left it in
\* a way the application can know of: a PUBACK or PUBREC that reaches the broker
\* was sent by a call that also queued the message, or that failed after it.
THEOREM SettledIsHeld == Spec => []NoSilentLoss
<1>1. Inv => NoSilentLoss
  BY DEF Inv
<1> QED BY Invariant, <1>1, PTL

\* A message arrives at most once more than its acknowledgements were lost on
\* the way, though receive_packet remembers no identifier.
THEOREM DuplicatesBounded == Spec => []DuplicatesNeedLostAck
<1>1. Inv => DuplicatesNeedLostAck
  BY DEF Inv, Counted, DuplicatesNeedLostAck
<1> QED BY Invariant, <1>1, PTL
=============================================================================
