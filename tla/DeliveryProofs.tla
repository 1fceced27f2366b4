--------------------------- MODULE DeliveryProofs ---------------------------
(***************************************************************************)
(* Theorems about Delivery, for every set of messages, every range of      *)
(* packet identifiers, every retry policy and every number of faults.      *)
(***************************************************************************)
EXTENDS Delivery, FiniteSetTheorems, TLAPS

-----------------------------------------------------------------------------
(* Lemmas about the operators the actions are built from *)

LEMMA Numbers ==
    /\ Oldest \in Nat /\ LongEnough \in Nat
    /\ 0 \in 0..Oldest /\ 0 \in 0..LongEnough /\ 0 \in 0..MaxRetry
<1>1. MaxRetry * RetryTimeout \in Nat
  BY ConfigAssumption
<1> QED BY <1>1, ConfigAssumption DEF Oldest, LongEnough

LEMMA OlderType == ASSUME NEW n \in 0..Oldest PROVE Older(n) \in 0..Oldest
  BY Numbers DEF Older

LEMMA EntryTypes ==
    /\ \A m \in Msgs : NewEntry(m) \in Entries
    /\ \A e \in Entries : Aged(e) \in Entries /\ Aged(e).retries = e.retries
<1>1. \A m \in Msgs : NewEntry(m) \in Entries
  BY Numbers DEF Entries, NewEntry
<1>2. ASSUME NEW e \in Entries
      PROVE  Aged(e) \in Entries /\ Aged(e).retries = e.retries
  <2>1. Older(e.age) \in 0..Oldest
    BY OlderType DEF Entries
  <2>2. (IF e.waited < LongEnough THEN e.waited + 1 ELSE e.waited) \in 0..LongEnough
    BY Numbers DEF Entries
  <2> QED BY <2>1, <2>2 DEF Entries, Aged
<1> QED BY <1>1, <1>2

\* HashMap::insert and HashMap::remove on a map from identifiers.
LEMMA PutType ==
    ASSUME NEW K, NEW V, NEW f, DOMAIN f \subseteq K, f \in [DOMAIN f -> V],
           NEW k \in K, NEW v \in V
    PROVE  /\ DOMAIN Put(f, k, v) = DOMAIN f \cup {k}
           /\ DOMAIN Put(f, k, v) \subseteq K
           /\ Put(f, k, v) \in [DOMAIN Put(f, k, v) -> V]
  BY DEF Put

LEMMA WithoutPublishes ==
    ASSUME TypeOK, NEW T, publishes' = Without(publishes, T)
    PROVE  /\ DOMAIN publishes' = DOMAIN publishes \ T
           /\ DOMAIN publishes' \subseteq Pids /\ publishes' \in [DOMAIN publishes' -> Entries]
           /\ \A p \in DOMAIN publishes \ T : publishes'[p] = publishes[p]
<1>1. DOMAIN publishes \subseteq Pids /\ publishes \in [DOMAIN publishes -> Entries]
  BY DEF TypeOK
<1>2. publishes' = Without(publishes, T)
  OBVIOUS
<1> HIDE DEF TypeOK
<1> QED BY ONLY <1>1, <1>2 DEF Without, Restrict

LEMMA EmptyType ==
    ASSUME NEW K, NEW V
    PROVE  LET f == [p \in {} |-> 0] IN DOMAIN f = {} /\ DOMAIN f \subseteq K /\ f \in [DOMAIN f -> V]
  OBVIOUS

LEMMA EmptySeq == ASSUME NEW S PROVE <<>> \in Seq(S)
  OBVIOUS

LEMMA TailType ==
    ASSUME NEW S, NEW q \in Seq(S), q # <<>>
    PROVE  Tail(q) \in Seq(S) /\ Head(q) \in S
  OBVIOUS

LEMMA AppendType ==
    ASSUME NEW S, NEW q \in Seq(S), NEW x \in S
    PROVE  Append(q, x) \in Seq(S)
  OBVIOUS

LEMMA PacketTypes ==
    /\ \A p \in Pids, m \in Msgs : Publishing(p, m) \in ToBroker
    /\ \A p \in Pids : Packet("PUBREL", p) \in ToBroker
    /\ \A p \in Pids : /\ Packet("PUBACK", p) \in ToClient
                       /\ Packet("PUBREC", p) \in ToClient
                       /\ Packet("PUBCOMP", p) \in ToClient
  BY DEF Publishing, Packet, ToBroker, ToClient

\* send_packet, whatever its outcome.
LEMMA SendType ==
    ASSUME TypeOK, NEW packet \in ToBroker, NEW outcome, Send(packet, outcome)
    PROVE  toBroker' \in Seq(ToBroker) /\ sentAge' \in 0..Oldest /\ faults' \in 0..MaxFaults
<1>1. Append(toBroker, packet) \in Seq(ToBroker)
  BY AppendType DEF TypeOK
<1>2. toBroker' \in Seq(ToBroker)
  <2>1. toBroker' = Append(toBroker, packet) \/ toBroker' = toBroker
    BY DEF Send
  <2> QED BY <1>1, <2>1 DEF TypeOK
<1>3. sentAge' \in 0..Oldest
  BY Numbers DEF Send, TypeOK
<1>4. faults' \in 0..MaxFaults
  <2>1. faults' = faults \/ (faults < MaxFaults /\ faults' = faults + 1)
    BY DEF Send
  <2>2. faults \in 0..MaxFaults
    BY DEF TypeOK
  <2> QED BY <2>1, <2>2, ConfigAssumption
<1> QED BY <1>2, <1>3, <1>4

LEMMA PidType ==
    1 \in Pids /\ \A p \in Pids : (IF p = MaxPid THEN 1 ELSE p + 1) \in Pids
<1>1. MaxPid \in Nat /\ MaxPid >= 1
  BY ConfigAssumption
<1> QED BY <1>1 DEF Pids

LEMMA TakePidType ==
    ASSUME TypeOK, TakePid
    PROVE  nextPid' \in Pids /\ allocated' \in 0..MaxAllocated
<1>1. nextPid \in Pids /\ allocated \in 0..MaxAllocated
  BY DEF TypeOK
<1>2. nextPid' = IF nextPid = MaxPid THEN 1 ELSE nextPid + 1
  BY DEF TakePid
<1>3. allocated < MaxAllocated /\ allocated' = allocated + 1
  BY DEF TakePid
<1> QED BY <1>1, <1>2, <1>3, PidType, ConfigAssumption

-----------------------------------------------------------------------------
(* Type correctness *)

\* The loops of handle_retries and resend_pending_messages index the session
\* by identifiers they collected before their first send, so the types of the
\* entries rest on LoopHasEntries.
Typed == TypeOK /\ LoopHasEntries

\* Most actions keep these two, as part of bounds or by name.
USE DEF history

LEMMA InitTyped == Init => Typed
<1> SUFFICES ASSUME Init PROVE Typed
  OBVIOUS
<1>1. publishes \in [DOMAIN publishes -> Entries] /\ DOMAIN publishes = {}
  BY EmptyType DEF Init
<1>2. owner \in [DOMAIN owner -> Msgs] /\ DOMAIN owner = {}
  BY EmptyType DEF Init
<1>3. toBroker \in Seq(ToBroker) /\ toClient \in Seq(ToClient)
  BY EmptySeq DEF Init
<1>4. deliveries \in [Msgs -> 0..2]
  BY DEF Init
<1>5. allocated \in 0..MaxAllocated /\ faults \in 0..MaxFaults /\ reconnects \in 0..MaxReconnects
  BY ConfigAssumption DEF Init
<1>6. sentAge \in 0..Oldest /\ sincePoll \in 0..Oldest /\ nextPid \in Pids
  BY Numbers, PidType DEF Init
<1> QED BY <1>1, <1>2, <1>3, <1>4, <1>5, <1>6 DEF Init, Typed, TypeOK, LoopHasEntries, Footings

LEMMA PublishTyped ==
    ASSUME Typed, NEW m \in Msgs, Publish(m)
    PROVE  Typed'
<1> USE DEF Typed
<1>1. /\ DOMAIN publishes' = DOMAIN publishes \cup {nextPid}
      /\ DOMAIN publishes' \subseteq Pids /\ publishes' \in [DOMAIN publishes' -> Entries]
  <2>1. NewEntry(m) \in Entries /\ nextPid \in Pids
    BY EntryTypes DEF TypeOK
  <2>2. DOMAIN publishes \subseteq Pids /\ publishes \in [DOMAIN publishes -> Entries]
    BY DEF TypeOK
  <2>3. publishes' = Put(publishes, nextPid, NewEntry(m))
    BY DEF Publish
  <2>4. /\ DOMAIN Put(publishes, nextPid, NewEntry(m)) = DOMAIN publishes \cup {nextPid}
        /\ DOMAIN Put(publishes, nextPid, NewEntry(m)) \subseteq Pids
        /\ Put(publishes, nextPid, NewEntry(m)) \in
               [DOMAIN Put(publishes, nextPid, NewEntry(m)) -> Entries]
    BY <2>1, <2>2, PutType
  <2> QED BY <2>3, <2>4
<1>2. DOMAIN owner' \subseteq Pids /\ owner' \in [DOMAIN owner' -> Msgs]
  <2>1. nextPid \in Pids /\ DOMAIN owner \subseteq Pids /\ owner \in [DOMAIN owner -> Msgs]
    BY DEF TypeOK
  <2>2. owner' = Put(owner, nextPid, m)
    BY DEF Publish
  <2> QED BY <2>1, <2>2, PutType
<1>3. toBroker' \in Seq(ToBroker) /\ sentAge' \in 0..Oldest /\ faults' \in 0..MaxFaults
  BY SendType, PacketTypes DEF Publish, TypeOK
<1>4. nextPid' \in Pids /\ allocated' \in 0..MaxAllocated
  BY TakePidType DEF Publish
<1>5. TypeOK'
  BY <1>1, <1>2, <1>3, <1>4 DEF Publish, TypeOK, call
<1>6. LoopHasEntries'
  BY <1>1 DEF Publish, LoopHasEntries, call
<1> QED BY <1>5, <1>6

LEMMA OtherTrafficTyped ==
    ASSUME Typed, OtherTraffic
    PROVE  Typed'
<1> USE DEF Typed
<1>1. nextPid' \in Pids /\ allocated' \in 0..MaxAllocated
  BY TakePidType DEF OtherTraffic, TypeOK
<1>2. TypeOK'
  BY <1>1, Numbers DEF OtherTraffic, TypeOK, call, network, bounds
<1>3. LoopHasEntries'
  BY DEF OtherTraffic, LoopHasEntries, call
<1> QED BY <1>2, <1>3

LEMMA PollStartsRetriesTyped ==
    ASSUME Typed, PollStartsRetries
    PROVE  Typed'
<1> USE DEF Typed
<1>1. /\ DOMAIN publishes' = DOMAIN publishes \ Exhausted
      /\ DOMAIN publishes' \subseteq Pids /\ publishes' \in [DOMAIN publishes' -> Entries]
      /\ \A p \in DOMAIN publishes \ Exhausted : publishes'[p] = publishes[p]
  BY WithoutPublishes DEF PollStartsRetries
<1>2. Due \subseteq DOMAIN publishes /\ Exhausted \subseteq DOMAIN publishes
  BY DEF Due, Exhausted
<1>3. \A p \in Due : publishes[p].retries < MaxRetry /\ p \notin Exhausted
  <2>1. \A p \in DOMAIN publishes : publishes[p].retries \in 0..MaxRetry
    BY DEF TypeOK, Entries
  <2> QED BY <2>1, ConfigAssumption DEF Due, Exhausted
<1>4. dropped' \subseteq Msgs
  BY <1>2 DEF PollStartsRetries, TypeOK, Entries
<1>5. todo' = Due /\ pc' = "retry" /\ sincePoll' = sincePoll
  BY DEF PollStartsRetries, Goto
<1>6. TypeOK'
  BY <1>1, <1>2, <1>4, <1>5 DEF PollStartsRetries, TypeOK, network, bounds
<1>7. LoopHasEntries'
  BY <1>1, <1>2, <1>3, <1>5 DEF LoopHasEntries
<1> QED BY <1>6, <1>7

LEMMA RetryPublishTyped ==
    ASSUME Typed, NEW p \in Pids, RetryPublish(p)
    PROVE  Typed'
<1> USE DEF Typed
<1>1. p \in DOMAIN publishes /\ publishes[p] \in Entries /\ publishes[p].retries < MaxRetry
  BY DEF RetryPublish, LoopHasEntries, TypeOK
<1>2. DOMAIN publishes' = DOMAIN publishes
  BY DEF RetryPublish
<1>3. \A q \in DOMAIN publishes : q # p => publishes'[q] = publishes[q]
  BY DEF RetryPublish
<1>4. publishes' \in [DOMAIN publishes' -> Entries]
  <2>1. [publishes[p] EXCEPT !.retries = @ + 1, !.age = sincePoll] \in Entries
    <3>1. publishes[p].retries + 1 \in 0..MaxRetry
      BY <1>1, ConfigAssumption DEF Entries
    <3>2. sincePoll \in 0..Oldest
      BY DEF TypeOK
    <3> QED BY <1>1, <3>1, <3>2 DEF Entries
  <2> QED BY <1>1, <2>1 DEF RetryPublish, TypeOK
<1>5. toBroker' \in Seq(ToBroker) /\ sentAge' \in 0..Oldest /\ faults' \in 0..MaxFaults
  <2>1. Publishing(p, publishes[p].msg) \in ToBroker
    BY <1>1, PacketTypes DEF Entries
  <2> QED BY <2>1, SendType DEF RetryPublish
<1>6. \/ pc' = "retry" /\ todo' = todo \ {p} /\ sincePoll' = sincePoll
      \/ pc' = "idle" /\ todo' = {} /\ sincePoll' = 0
  BY DEF RetryPublish, Goto, Idle
<1>7. TypeOK'
  BY <1>2, <1>4, <1>5, <1>6, Numbers DEF RetryPublish, TypeOK, ghosts
<1>8. LoopHasEntries'
  BY <1>2, <1>3, <1>6 DEF RetryPublish, LoopHasEntries
<1> QED BY <1>7, <1>8

LEMMA RetryPubrelTyped ==
    ASSUME Typed, RetryPubrel
    PROVE  Typed'
<1> USE DEF Typed
<1>1. toBroker' \in Seq(ToBroker) /\ sentAge' \in 0..Oldest /\ faults' \in 0..MaxFaults
  <2>1. \A p \in pubrels : Packet("PUBREL", p) \in ToBroker
    BY PacketTypes DEF TypeOK
  <2> QED BY <2>1, SendType DEF RetryPubrel, TypeOK
<1>2. pc' \in {"idle", "receive"} /\ todo' = {} /\ sincePoll' = 0
  BY DEF RetryPubrel
<1>3. TypeOK'
  BY <1>1, <1>2, Numbers DEF RetryPubrel, TypeOK, session, ghosts
<1>4. LoopHasEntries'
  BY <1>2 DEF RetryPubrel, LoopHasEntries
<1> QED BY <1>3, <1>4

\* A packet that is read carries an identifier, and ends the call.
LEMMA IncomingType ==
    ASSUME TypeOK, NEW type, Incoming(type)
    PROVE  /\ Head(toClient).pid \in Pids /\ toClient' \in Seq(ToClient)
           /\ pc' = "idle" /\ todo' = {} /\ sincePoll' = 0
<1>1. Head(toClient) \in ToClient /\ Tail(toClient) \in Seq(ToClient)
  BY TailType DEF Incoming, TypeOK
<1> QED BY <1>1 DEF Incoming, Idle, ToClient

LEMMA AcknowledgeType ==
    ASSUME TypeOK, NEW p, Acknowledge(p)
    PROVE  acked' \subseteq Msgs
  BY DEF Acknowledge, TypeOK

LEMMA ReceiveTyped ==
    ASSUME Typed, Receive
    PROVE  Typed'
<1> USE DEF Typed, bounds, session, network, ghosts
<1> DEFINE p == Head(toClient).pid
<1>1. CASE ReceivePuback
  <2>1. p \in Pids /\ toClient' \in Seq(ToClient) /\ pc' = "idle" /\ todo' = {} /\ sincePoll' = 0
    BY <1>1, IncomingType DEF ReceivePuback
  <2>2. DOMAIN publishes' \subseteq Pids /\ publishes' \in [DOMAIN publishes' -> Entries]
    BY <1>1, WithoutPublishes DEF ReceivePuback
  <2>3. acked' \subseteq Msgs
    BY <1>1, AcknowledgeType DEF ReceivePuback
  <2> HIDE DEF p
  <2> QED BY <1>1, <2>1, <2>2, <2>3, Numbers DEF ReceivePuback, TypeOK, LoopHasEntries
<1>2. CASE ReceivePubrec
  <2>1. p \in Pids /\ toClient' \in Seq(ToClient) /\ pc' = "idle" /\ todo' = {} /\ sincePoll' = 0
    BY <1>2, IncomingType DEF ReceivePubrec
  <2>2. CASE p \in DOMAIN publishes
    <3>1. DOMAIN publishes' \subseteq Pids /\ publishes' \in [DOMAIN publishes' -> Entries]
      BY <1>2, <2>2, WithoutPublishes DEF ReceivePubrec
    <3>2. toBroker' \in Seq(ToBroker) /\ sentAge' \in 0..Oldest /\ faults' \in 0..MaxFaults
      BY <1>2, <2>1, <2>2, PacketTypes, SendType DEF ReceivePubrec
    <3>3. pubrels' \subseteq Pids /\ awaiting' \subseteq Pids /\ connected' \in BOOLEAN
      BY <1>2, <2>1, <2>2 DEF ReceivePubrec, TypeOK
    <3> HIDE DEF p
    <3> QED BY <1>2, <2>1, <3>1, <3>2, <3>3, Numbers DEF ReceivePubrec, TypeOK, LoopHasEntries
  <2>3. CASE p \notin DOMAIN publishes
    <3>1. UNCHANGED <<publishes, pubrels, awaiting, connected, toBroker, sentAge, faults>>
      BY <1>2, <2>3 DEF ReceivePubrec
    <3> HIDE DEF p
    <3> QED BY <1>2, <2>1, <3>1, Numbers DEF ReceivePubrec, TypeOK, LoopHasEntries
  <2> QED BY <2>2, <2>3
<1>3. CASE ReceivePubcomp
  <2>1. p \in Pids /\ toClient' \in Seq(ToClient) /\ pc' = "idle" /\ todo' = {} /\ sincePoll' = 0
    BY <1>3, IncomingType DEF ReceivePubcomp
  <2>2. DOMAIN publishes' \subseteq Pids /\ publishes' \in [DOMAIN publishes' -> Entries]
    BY <1>3, WithoutPublishes DEF ReceivePubcomp
  <2>3. acked' \subseteq Msgs
    BY <1>3, AcknowledgeType DEF ReceivePubcomp
  <2>4. pubrels' \subseteq Pids /\ awaiting' \subseteq Pids
    BY <1>3 DEF ReceivePubcomp, TypeOK
  <2> HIDE DEF p
  <2> QED BY <1>3, <2>1, <2>2, <2>3, <2>4, Numbers DEF ReceivePubcomp, TypeOK, LoopHasEntries
<1>4. CASE ReceiveFails
  BY <1>4, Numbers DEF ReceiveFails, Idle, TypeOK, LoopHasEntries
<1> QED BY <1>1, <1>2, <1>3, <1>4 DEF Receive

LEMMA ClearSessionTyped ==
    ASSUME TypeOK, ClearSession
    PROVE  /\ nextPid' \in Pids /\ pubrels' = {}
           /\ DOMAIN publishes' = {} /\ publishes' \in [DOMAIN publishes' -> Entries]
           /\ DOMAIN owner' = {} /\ owner' \in [DOMAIN owner' -> Msgs]
           /\ cleared' \subseteq Msgs /\ awaiting' = {} /\ allocated' \in 0..MaxAllocated
           /\ UNCHANGED <<published, deliveries, acked, dropped>>
<1>1. Tracked \subseteq Msgs
  BY DEF Tracked, TypeOK, Entries
<1> QED BY <1>1, EmptyType, PidType, ConfigAssumption DEF ClearSession, TypeOK

LEMMA FootingType ==
    ASSUME TypeOK
    PROVE  /\ LosesFooting => footing' \in Footings
           /\ \A f \in Footings : FindsFooting(f) => footing' \in Footings
  BY DEF TypeOK, Footings, LosesFooting, FindsFooting

LEMMA ConnectFailsTyped ==
    ASSUME Typed, ConnectFails
    PROVE  Typed'
<1> USE DEF Typed, session, call, network, ghosts
<1>1. CASE ClearSession /\ LosesFooting
  BY <1>1, ClearSessionTyped, FootingType DEF ConnectFails, TypeOK, LoopHasEntries
<1>2. CASE UNCHANGED <<session, ghosts, footing>>
  BY <1>2 DEF ConnectFails, TypeOK, LoopHasEntries
<1> QED BY <1>1, <1>2 DEF ConnectFails

LEMMA RestartTyped ==
    ASSUME Typed, Restart
    PROVE  Typed'
<1>1. footing' \in Footings /\ sentAge' \in 0..Oldest /\ sincePoll' \in 0..Oldest
  BY FootingType, Numbers DEF Restart, Idle, Typed
<1>2. toBroker' \in Seq(ToBroker) /\ toClient' \in Seq(ToClient)
  BY EmptySeq DEF Restart
<1> QED BY <1>1, <1>2, ClearSessionTyped DEF Restart, Idle, Typed, TypeOK, LoopHasEntries

LEMMA ReconnectTyped ==
    ASSUME Typed, Reconnect
    PROVE  Typed'
<1> USE DEF Typed, session, call, ghosts
<1>1. reconnects' \in 0..MaxReconnects /\ connected' \in BOOLEAN /\ link' \in BOOLEAN
  <2>1. reconnects' = reconnects + 1 /\ reconnects < MaxReconnects /\ connected' /\ link'
    BY DEF Reconnect
  <2>2. reconnects \in 0..MaxReconnects
    BY DEF TypeOK
  <2>3. reconnects' \in 0..MaxReconnects
    BY <2>1, <2>2, ConfigAssumption
  <2>4. connected' \in BOOLEAN /\ link' \in BOOLEAN
    BY <2>1 DEF Reconnect
  <2> QED BY <2>3, <2>4
<1>2. toBroker' \in Seq(ToBroker) /\ toClient' \in Seq(ToClient) /\ sentAge' \in 0..Oldest
  BY EmptySeq, Numbers DEF Reconnect
<1>3. footing' \in Footings
  BY FootingType DEF Reconnect, Footings
<1>4. CASE ClearSession /\ received' = {} /\ UNCHANGED call
  BY <1>1, <1>2, <1>3, <1>4, ClearSessionTyped DEF Reconnect, TypeOK, LoopHasEntries
<1>5. CASE Goto("resend", DOMAIN publishes) /\ UNCHANGED <<session, ghosts, received>>
  BY <1>1, <1>2, <1>3, <1>5 DEF Reconnect, Goto, TypeOK, LoopHasEntries
<1>6. CASE received' = {} /\ UNCHANGED <<session, ghosts, call>>
  BY <1>1, <1>2, <1>3, <1>6 DEF Reconnect, TypeOK, LoopHasEntries
<1> QED BY <1>4, <1>5, <1>6 DEF Reconnect

LEMMA ResendTyped ==
    ASSUME Typed, Resend
    PROVE  Typed'
<1> USE DEF Typed, session, ghosts, bounds, network
<1>1. CASE \E p \in Pids : ResendPublish(p)
  <2>1. PICK p \in Pids : ResendPublish(p)
    BY <1>1
  <2>2. Publishing(p, publishes[p].msg) \in ToBroker
    BY <2>1, PacketTypes DEF ResendPublish, LoopHasEntries, TypeOK, Entries
  <2>3. toBroker' \in Seq(ToBroker) /\ sentAge' \in 0..Oldest /\ faults' \in 0..MaxFaults
    BY <2>1, <2>2, SendType DEF ResendPublish
  <2>4. \/ pc' = "resend" /\ todo' = todo \ {p} /\ sincePoll' = sincePoll
        \/ pc' = "idle" /\ todo' = {} /\ sincePoll' = 0
    BY <2>1 DEF ResendPublish, Goto, Idle
  <2>5. TypeOK'
    BY <2>1, <2>3, <2>4, Numbers DEF ResendPublish, TypeOK
  <2>6. LoopHasEntries'
    BY <2>1, <2>4 DEF ResendPublish, LoopHasEntries
  <2> QED BY <2>5, <2>6
<1>2. CASE ResendDone
  BY <1>2, Numbers DEF ResendDone, Idle, TypeOK, LoopHasEntries
<1> QED BY <1>1, <1>2 DEF Resend

LEMMA TickTyped ==
    ASSUME Typed, Tick
    PROVE  Typed'
<1> USE DEF Typed, network, ghosts, bounds
<1>1. /\ DOMAIN publishes' = DOMAIN publishes /\ publishes' \in [DOMAIN publishes' -> Entries]
      /\ \A p \in DOMAIN publishes : publishes'[p].retries = publishes[p].retries
  BY EntryTypes DEF Tick, TypeOK
<1>2. sentAge' \in 0..Oldest /\ sincePoll' \in 0..Oldest
  BY OlderType, Numbers DEF Tick, TypeOK
<1>3. TypeOK'
  BY <1>1, <1>2 DEF Tick, TypeOK
<1>4. LoopHasEntries'
  BY <1>1 DEF Tick, LoopHasEntries
<1> QED BY <1>3, <1>4

LEMMA BrokerTyped ==
    ASSUME Typed, Broker
    PROVE  Typed'
<1> USE DEF Typed, session, call, bounds
<1> DEFINE packet == Head(toBroker)
<1>1. PICK type \in {"PUBLISH", "PUBREL"} : BrokerTakes(type)
  BY DEF Broker, BrokerPublish, BrokerPubrel
<1>2. /\ packet \in ToBroker /\ packet.pid \in Pids /\ toBroker' \in Seq(ToBroker)
      /\ packet.type = "PUBLISH" => packet.msg \in Msgs
  <2>1. packet \in ToBroker /\ Tail(toBroker) \in Seq(ToBroker)
    BY <1>1, TailType DEF BrokerTakes, TypeOK
  <2> QED BY <1>1, <2>1 DEF BrokerTakes, ToBroker
<1>3. \A t \in {"PUBACK", "PUBREC", "PUBCOMP"} :
          Reply(t, packet.pid) => toClient' \in Seq(ToClient)
  <2>1. \A t \in {"PUBACK", "PUBREC", "PUBCOMP"} :
            Append(toClient, Packet(t, packet.pid)) \in Seq(ToClient)
    BY <1>2, PacketTypes, AppendType DEF TypeOK
  <2> QED BY <2>1 DEF Reply
<1>4. \A m \in Msgs : Deliver(m) => deliveries' \in [Msgs -> 0..2]
  BY DEF Deliver, TypeOK
<1>5. toClient' \in Seq(ToClient) /\ received' \subseteq Pids /\ deliveries' \in [Msgs -> 0..2]
  <2>1. CASE BrokerPublish
    <3>1. packet.msg \in Msgs
      BY <1>2, <2>1 DEF BrokerPublish, BrokerTakes
    <3> QED BY <1>2, <1>3, <1>4, <2>1, <3>1 DEF BrokerPublish, TypeOK
  <2>2. CASE BrokerPubrel
    BY <1>2, <1>3, <2>2 DEF BrokerPubrel, TypeOK
  <2> QED BY <2>1, <2>2 DEF Broker
<1> HIDE DEF packet
<1> QED BY <1>1, <1>2, <1>5 DEF BrokerTakes, TypeOK, LoopHasEntries

LEMMA NextTyped == Typed /\ [Next]_vars => Typed'
<1> SUFFICES ASSUME Typed, [Next]_vars PROVE Typed'
  OBVIOUS
<1>1. CASE PollTimesOut
  BY <1>1 DEF PollTimesOut, Typed, TypeOK, LoopHasEntries, session, call, network, ghosts, bounds
<1>2. CASE StopWaiting
  BY <1>2, Numbers
     DEF StopWaiting, Idle, Typed, TypeOK, LoopHasEntries, session, network, ghosts, bounds
<1>3. CASE BreakLink
  BY <1>3, EmptySeq
     DEF BreakLink, Typed, TypeOK, LoopHasEntries, session, call, ghosts, bounds
<1>4. CASE UNCHANGED vars
  BY <1>4 DEF vars, Typed, TypeOK, LoopHasEntries, session, call, network, ghosts, bounds
<1> QED
  BY <1>1, <1>2, <1>3, <1>4, PublishTyped, OtherTrafficTyped, PollStartsRetriesTyped,
     RetryPublishTyped, RetryPubrelTyped, ReceiveTyped, ConnectFailsTyped, RestartTyped,
     ReconnectTyped, ResendTyped, TickTyped, BrokerTyped
     DEF Next, Poll, RetryLoop

\* Every entry, packet and identifier is one the code can make, and the loops
\* of a call find the entries they collected.
THEOREM TypeCorrect == Spec => []TypeOK /\ []LoopHasEntries
<1>1. Typed => TypeOK /\ LoopHasEntries
  BY DEF Typed
<1> QED BY <1>1, InitTyped, NextTyped, PTL DEF Spec

-----------------------------------------------------------------------------
(* Flow control *)

LEMMA PidsFinite ==
    ASSUME TypeOK
    PROVE  IsFiniteSet(DOMAIN publishes) /\ Cardinality(DOMAIN publishes) \in Nat
<1>1. IsFiniteSet(Pids)
  BY FS_Interval, ConfigAssumption DEF Pids
<1>2. DOMAIN publishes \in SUBSET Pids
  BY DEF TypeOK
<1>3. IsFiniteSet(DOMAIN publishes)
  BY <1>1, <1>2, FS_Subset
<1> QED BY <1>3, FS_CardinalityType

\* Only publish() puts an identifier into the map; every other step keeps the
\* map's identifiers or takes some of them out.
LEMMA OnlyPublishAdds ==
    ASSUME Typed, [Next]_vars, \A m \in Msgs : ~Publish(m)
    PROVE  DOMAIN publishes' \subseteq DOMAIN publishes
<1> USE DEF Typed, session
<1>1. CASE PollStartsRetries \/ Receive
  <2>1. \/ \E T : publishes' = Without(publishes, T)
        \/ publishes' = publishes
    BY <1>1 DEF PollStartsRetries, Receive, ReceivePuback, ReceivePubrec, ReceivePubcomp,
                ReceiveFails
  <2> QED BY <2>1, WithoutPublishes
<1>2. CASE \E p \in Pids : RetryPublish(p)
  BY <1>2 DEF RetryPublish
<1>3. CASE Tick
  BY <1>3 DEF Tick
<1>4. CASE ConnectFails \/ Restart \/ Reconnect
  <2>1. ClearSession \/ publishes' = publishes
    BY <1>4 DEF ConnectFails, Restart, Reconnect
  <2> QED BY <2>1 DEF ClearSession
<1>5. CASE OtherTraffic \/ PollTimesOut \/ RetryPubrel \/ StopWaiting
  BY <1>5 DEF OtherTraffic, PollTimesOut, RetryPubrel, StopWaiting
<1>6. CASE Resend \/ BreakLink \/ Broker
  BY <1>6 DEF Resend, ResendPublish, ResendDone, BreakLink, Broker, BrokerPublish,
              BrokerPubrel, BrokerTakes
<1>7. CASE UNCHANGED vars
  BY <1>7 DEF vars
<1> QED BY <1>1, <1>2, <1>3, <1>4, <1>5, <1>6, <1>7 DEF Next, Poll, RetryLoop

LEMMA FlowControl ==
    ASSUME Typed, InFlightBound, [Next]_vars
    PROVE  InFlightBound'
<1>1. IsFiniteSet(DOMAIN publishes) /\ Cardinality(DOMAIN publishes) \in Nat
  BY PidsFinite DEF Typed
<1>2. MaxInflight \in Nat
  BY ConfigAssumption
<1>3. ASSUME NEW m \in Msgs, Publish(m)
      PROVE  InFlightBound'
  <2>1. DOMAIN publishes' = DOMAIN publishes \cup {nextPid}
    BY <1>3 DEF Publish, Put
  <2>2. Cardinality(DOMAIN publishes) < MaxInflight
    BY <1>3 DEF Publish, RoomToPublish
  <2>3. Cardinality(DOMAIN publishes \cup {nextPid}) <= Cardinality(DOMAIN publishes) + 1
    BY <1>1, FS_AddElement
  <2>4. Cardinality(DOMAIN publishes \cup {nextPid}) \in Nat
    <3>1. IsFiniteSet(DOMAIN publishes \cup {nextPid})
      BY <1>1, FS_AddElement
    <3> QED BY <3>1, FS_CardinalityType
  <2> QED BY <1>1, <1>2, <2>1, <2>2, <2>3, <2>4 DEF InFlightBound
<1>4. CASE \A m \in Msgs : ~Publish(m)
  <2>1. DOMAIN publishes' \in SUBSET DOMAIN publishes
    BY <1>4, OnlyPublishAdds
  <2>2. /\ Cardinality(DOMAIN publishes') <= Cardinality(DOMAIN publishes)
        /\ Cardinality(DOMAIN publishes') \in Nat
    BY <1>1, <2>1, FS_Subset, FS_CardinalityType
  <2> QED BY <1>1, <1>2, <2>2 DEF InFlightBound
<1> QED BY <1>3, <1>4

\* The flow control of publish() bounds what the session stores, whatever
\* sends fail, futures are dropped, connections break and sessions are resumed.
THEOREM InFlightBounded == Spec => []InFlightBound
<1>1. Init => Typed /\ InFlightBound
  <2>1. ASSUME Init PROVE InFlightBound
    BY <2>1, FS_EmptySet, ConfigAssumption DEF Init, InFlightBound
  <2> QED BY <2>1, InitTyped
<1>2. Typed /\ InFlightBound /\ [Next]_vars => (Typed /\ InFlightBound)'
  BY NextTyped, FlowControl
<1> QED BY <1>1, <1>2, PTL DEF Spec

-----------------------------------------------------------------------------
(* Phases of a QoS 2 message *)

\* Before next_pid wraps around it has handed out 1..allocated, every
\* identifier in use is one of them, and the next one is fresh.
Fresh ==
    NoWrap =>
        /\ DOMAIN publishes \subseteq 1..allocated /\ pubrels \subseteq 1..allocated
        /\ DOMAIN publishes \cap pubrels = {}
        /\ allocated < MaxPid => nextPid = allocated + 1

LEMMA TakePidFresh ==
    ASSUME TypeOK, Fresh, NoWrap', TakePid
    PROVE  /\ NoWrap /\ nextPid = allocated + 1 /\ allocated' = allocated + 1
           /\ allocated' < MaxPid => nextPid' = allocated' + 1
<1>1. allocated \in Nat /\ MaxPid \in Nat /\ nextPid \in Nat
  <2>1. allocated \in 0..MaxAllocated /\ nextPid \in Pids
    BY DEF TypeOK
  <2> QED BY <2>1, ConfigAssumption DEF Pids
<1>2. allocated' = allocated + 1 /\ allocated' <= MaxPid
  BY DEF TakePid, NoWrap
<1>3. NoWrap /\ nextPid = allocated + 1
  BY <1>1, <1>2 DEF NoWrap, Fresh
<1>4. nextPid' = IF nextPid = MaxPid THEN 1 ELSE nextPid + 1
  BY DEF TakePid
<1> QED BY <1>1, <1>2, <1>3, <1>4

\* Every step but publish() and those that empty the session or move an
\* identifier from one phase to the next leaves the phases as they are.
LEMMA FreshStep ==
    ASSUME Typed, Fresh, [Next]_vars
    PROVE  Fresh'
<1> SUFFICES ASSUME NoWrap' PROVE Fresh'
  BY DEF Fresh
<1> USE DEF Typed, session, ghosts
<1>0. allocated \in Nat /\ MaxPid \in Nat
  <2>1. allocated \in 0..MaxAllocated
    BY DEF TypeOK
  <2> QED BY <2>1, ConfigAssumption
<1>1. ASSUME NEW m \in Msgs, Publish(m)
      PROVE  Fresh'
  <2>1. /\ NoWrap /\ nextPid = allocated + 1 /\ allocated' = allocated + 1
        /\ allocated' < MaxPid => nextPid' = allocated' + 1
    BY <1>1, TakePidFresh DEF Publish
  <2>2. DOMAIN publishes' = DOMAIN publishes \cup {nextPid} /\ pubrels' = pubrels
    BY <1>1 DEF Publish, Put
  <2> QED BY <1>0, <2>1, <2>2 DEF Fresh
<1>2. CASE \A m \in Msgs : ~Publish(m)
  <2>1. DOMAIN publishes' \subseteq DOMAIN publishes
    BY <1>2, OnlyPublishAdds
  <2>2. CASE OtherTraffic
    <3>1. pubrels' = pubrels /\ publishes' = publishes
      BY <2>2 DEF OtherTraffic
    <3>2. CASE TakePid
      BY <1>0, <3>1, <3>2, TakePidFresh DEF Fresh
    <3>3. CASE UNCHANGED <<nextPid, allocated>>
      BY <3>1, <3>3 DEF Fresh, NoWrap
    <3> QED BY <2>2, <3>2, <3>3 DEF OtherTraffic
  <2>3. CASE ClearSession
    <3>1. /\ nextPid' = 1 /\ allocated' = 0 /\ pubrels' = {}
          /\ DOMAIN publishes' = {}
      BY <2>3 DEF ClearSession
    <3> QED BY <3>1 DEF Fresh
  <2>4. CASE ReceivePubrec
    <3>1. UNCHANGED <<nextPid, allocated>>
      BY <2>4 DEF ReceivePubrec
    <3>2. \/ pubrels' = pubrels
          \/ \E p \in DOMAIN publishes : /\ DOMAIN publishes' = DOMAIN publishes \ {p}
                                         /\ pubrels' = pubrels \cup {p}
      <4>1. CASE Head(toClient).pid \in DOMAIN publishes
        <5>1. publishes' = Without(publishes, {Head(toClient).pid})
          BY <2>4, <4>1 DEF ReceivePubrec
        <5>2. DOMAIN publishes' = DOMAIN publishes \ {Head(toClient).pid}
          BY <5>1, WithoutPublishes
        <5> QED BY <2>4, <4>1, <5>2 DEF ReceivePubrec
      <4>2. CASE Head(toClient).pid \notin DOMAIN publishes
        BY <2>4, <4>2 DEF ReceivePubrec
      <4> QED BY <4>1, <4>2
    <3> QED BY <2>1, <3>1, <3>2 DEF Fresh, NoWrap
  <2>5. CASE pubrels' \subseteq pubrels /\ UNCHANGED <<nextPid, allocated>>
    BY <2>1, <2>5 DEF Fresh, NoWrap
  <2>6. \/ OtherTraffic \/ ClearSession \/ ReceivePubrec
        \/ pubrels' \subseteq pubrels /\ UNCHANGED <<nextPid, allocated>>
    <3>1. CASE Poll
      BY <3>1 DEF Poll, PollTimesOut, PollStartsRetries, RetryLoop, RetryPublish, RetryPubrel,
                  Receive, ReceivePuback, ReceivePubcomp, ReceiveFails, StopWaiting
    <3>2. CASE ConnectFails \/ Restart \/ Reconnect
      BY <3>2 DEF ConnectFails, Restart, Reconnect
    <3>3. CASE Resend \/ BreakLink \/ Tick \/ Broker
      BY <3>3 DEF Resend, ResendPublish, ResendDone, BreakLink, Tick, Broker, BrokerPublish,
                  BrokerPubrel, BrokerTakes
    <3>4. CASE UNCHANGED vars
      BY <3>4 DEF vars
    <3> QED BY <1>2, <3>1, <3>2, <3>3, <3>4 DEF Next
  <2> QED BY <2>2, <2>3, <2>4, <2>5, <2>6
<1> QED BY <1>1, <1>2

\* A QoS 2 message is in one phase at a time: while identifiers have not
\* wrapped around, none awaits PUBREC and PUBCOMP at once.
THEOREM OnePhase == Spec => []OnePhasePerPid
<1>1. Init => Typed /\ Fresh
  <2>1. ASSUME Init PROVE Fresh
    BY <2>1 DEF Init, Fresh
  <2> QED BY <2>1, InitTyped
<1>2. Typed /\ Fresh /\ [Next]_vars => (Typed /\ Fresh)'
  BY NextTyped, FreshStep
<1>3. Fresh => OnePhasePerPid
  BY DEF Fresh, OnePhasePerPid
<1> QED BY <1>1, <1>2, <1>3, PTL DEF Spec

-----------------------------------------------------------------------------
(* Retries take their time *)

\* A multiple of the timeout, by its laws: the prover's arithmetic is linear.
Waiting(n) == n * RetryTimeout

LEMMA WaitingLaws ==
    /\ Waiting(0) = 0
    /\ \A n \in 0..MaxRetry : Waiting(n) \in Nat /\ Waiting(n) <= LongEnough
    /\ \A n \in Nat : Waiting(n + 1) = Waiting(n) + RetryTimeout
<1>1. Waiting(0) = 0
  BY ConfigAssumption DEF Waiting
<1>2. ASSUME NEW n \in 0..MaxRetry
      PROVE  Waiting(n) \in Nat /\ Waiting(n) <= LongEnough
  <2>1. \A d \in Nat : d * RetryTimeout \in Nat
    BY ConfigAssumption
  <2>2. n \in Nat /\ MaxRetry - n \in Nat /\ MaxRetry \in Nat
    BY ConfigAssumption
  <2>3. MaxRetry * RetryTimeout = n * RetryTimeout + (MaxRetry - n) * RetryTimeout
    BY <2>2, ConfigAssumption
  <2>4. n * RetryTimeout \in Nat /\ (MaxRetry - n) * RetryTimeout \in Nat
    BY <2>1, <2>2
  <2> QED BY <2>3, <2>4 DEF Waiting, LongEnough
<1>3. \A n \in Nat : Waiting(n + 1) = Waiting(n) + RetryTimeout
  BY ConfigAssumption DEF Waiting
<1> QED BY <1>1, <1>2, <1>3

\* An entry is as old as it can be, or has waited for its retries and its age.
Waited(e, n) == e.waited = LongEnough \/ e.waited >= n

\* An entry that is due for a retry has waited for that one too, since before
\* the poll read the clock.
Spaced ==
    /\ pc # "retry" => sincePoll = 0
    /\ \A p \in DOMAIN publishes :
           Waited(publishes[p], Waiting(publishes[p].retries) + publishes[p].age)
    /\ pc = "retry" => \A p \in todo :
           Waited(publishes[p], Waiting(publishes[p].retries + 1) + sincePoll)

\* The steps that neither date an entry nor collect entries to retry.
LEMMA SpacedOtherwise ==
    ASSUME Typed, Spaced,
           \A p \in DOMAIN publishes' : p \in DOMAIN publishes /\ publishes'[p] = publishes[p],
           pc' # "retry" => sincePoll' = 0,
           \/ UNCHANGED call /\ publishes' = publishes
           \/ pc' # "retry"
    PROVE  Spaced'
<1>1. CASE UNCHANGED call /\ publishes' = publishes
  BY <1>1 DEF call, Spaced, Waited
<1>2. CASE pc' # "retry"
  BY <1>2 DEF Spaced, Waited
<1> QED BY <1>1, <1>2

LEMMA SpacedTick ==
    ASSUME Typed, Spaced, Tick
    PROVE  Spaced'
<1> USE DEF Typed
<1>1. /\ pc' = pc /\ todo' = todo /\ DOMAIN publishes' = DOMAIN publishes
      /\ \A p \in DOMAIN publishes : publishes'[p] = Aged(publishes[p])
      /\ sincePoll' = IF pc = "retry" THEN Older(sincePoll) ELSE 0
  BY DEF Tick
<1>2. \A n \in 0..Oldest : Older(n) \in 0..Oldest /\ Older(n) <= n + 1
  BY Numbers DEF Older
<1>3. ASSUME NEW e \in Entries, NEW n \in Nat, NEW k \in 0..Oldest, Waited(e, n + k)
      PROVE  Waited(Aged(e), n + Older(k))
  <2>1. Aged(e).waited = IF e.waited < LongEnough THEN e.waited + 1 ELSE e.waited
    BY DEF Aged, Entries
  <2>2. e.waited \in 0..LongEnough /\ LongEnough \in Nat
    BY Numbers DEF Entries
  <2>3. Older(k) \in 0..Oldest /\ Older(k) <= k + 1 /\ Oldest \in Nat
    BY <1>2, Numbers
  <2> QED BY <1>3, <2>1, <2>2, <2>3 DEF Waited
<1>4. \A e \in Entries : Aged(e).retries = e.retries /\ Aged(e).age = Older(e.age)
  BY DEF Entries, Aged
<1>5. \A p \in DOMAIN publishes :
          /\ publishes[p] \in Entries /\ publishes[p].age \in 0..Oldest
          /\ publishes[p].retries \in 0..MaxRetry
  BY DEF TypeOK, Entries
<1>6. \A p \in DOMAIN publishes' :
          Waited(publishes'[p], Waiting(publishes'[p].retries) + publishes'[p].age)
  <2> SUFFICES ASSUME NEW p \in DOMAIN publishes
               PROVE  Waited(Aged(publishes[p]), Waiting(publishes[p].retries) + Older(publishes[p].age))
    BY <1>1, <1>4, <1>5
  <2>1. Waiting(publishes[p].retries) \in Nat
    BY <1>5, WaitingLaws
  <2> QED BY <1>3, <1>5, <2>1 DEF Spaced
<1>7. ASSUME pc' = "retry", NEW p \in todo'
      PROVE  Waited(publishes'[p], Waiting(publishes'[p].retries + 1) + sincePoll')
  <2>1. p \in DOMAIN publishes /\ pc = "retry" /\ p \in todo /\ publishes[p].retries < MaxRetry
    BY <1>1, <1>7 DEF LoopHasEntries
  <2>2. Waited(publishes[p], Waiting(publishes[p].retries + 1) + sincePoll)
    BY <2>1 DEF Spaced
  <2>3. Waiting(publishes[p].retries + 1) \in Nat /\ sincePoll \in 0..Oldest
    <3>1. publishes[p].retries + 1 \in 0..MaxRetry
      BY <1>5, <2>1, ConfigAssumption
    <3> QED BY <3>1, WaitingLaws DEF TypeOK
  <2>4. Waited(Aged(publishes[p]), Waiting(publishes[p].retries + 1) + Older(sincePoll))
    BY <1>3, <1>5, <2>1, <2>2, <2>3
  <2> QED BY <1>1, <1>4, <1>5, <2>1, <2>4
<1>8. pc' # "retry" => sincePoll' = 0
  BY <1>1
<1> QED BY <1>6, <1>7, <1>8 DEF Spaced

LEMMA SpacedPoll ==
    ASSUME Typed, Spaced, PollStartsRetries
    PROVE  Spaced'
<1> USE DEF Typed
<1>1. /\ publishes' = Without(publishes, Exhausted)
      /\ pc = "idle" /\ pc' = "retry" /\ todo' = Due /\ sincePoll' = sincePoll
  BY DEF PollStartsRetries, Goto
<1>2. /\ DOMAIN publishes' = DOMAIN publishes \ Exhausted
      /\ \A p \in DOMAIN publishes \ Exhausted : publishes'[p] = publishes[p]
  BY <1>1, WithoutPublishes
<1>3. sincePoll = 0
  BY <1>1 DEF Spaced
<1>4. ASSUME NEW p \in Due
      PROVE  Waited(publishes'[p], Waiting(publishes'[p].retries + 1) + 0)
  <2>1. /\ p \in DOMAIN publishes /\ publishes[p].age >= RetryTimeout
        /\ publishes[p].retries < MaxRetry
    BY DEF Due
  <2>2. publishes[p].age \in 0..Oldest /\ publishes[p].retries \in 0..MaxRetry
        /\ publishes[p].waited \in 0..LongEnough
    BY <2>1 DEF TypeOK, Entries
  <2>3. publishes'[p] = publishes[p]
    <3>1. p \notin Exhausted
      BY <2>1, <2>2, ConfigAssumption DEF Exhausted
    <3> QED BY <1>2, <2>1, <3>1
  <2>4. /\ Waiting(publishes[p].retries) \in Nat
        /\ Waiting(publishes[p].retries + 1) = Waiting(publishes[p].retries) + RetryTimeout
    BY <2>2, WaitingLaws
  <2>5. Waited(publishes[p], Waiting(publishes[p].retries) + publishes[p].age)
    BY <2>1 DEF Spaced
  <2>6. Waited(publishes[p], Waiting(publishes[p].retries + 1) + 0)
    BY <2>1, <2>2, <2>4, <2>5, Numbers, ConfigAssumption DEF Waited
  <2> QED BY <2>3, <2>6
<1> QED BY <1>1, <1>2, <1>3, <1>4 DEF Spaced, Waited

LEMMA SpacedRetry ==
    ASSUME Typed, Spaced, NEW p \in Pids, RetryPublish(p)
    PROVE  Spaced'
<1> USE DEF Typed
<1>1. /\ pc = "retry" /\ p \in todo /\ p \in DOMAIN publishes /\ publishes[p] \in Entries
      /\ publishes[p].retries < MaxRetry
  BY DEF RetryPublish, LoopHasEntries, TypeOK
<1>2. /\ DOMAIN publishes' = DOMAIN publishes
      /\ \A q \in DOMAIN publishes : q # p => publishes'[q] = publishes[q]
      /\ publishes'[p] = [publishes[p] EXCEPT !.retries = @ + 1, !.age = sincePoll]
  BY <1>1 DEF RetryPublish
<1>3. /\ publishes'[p].retries = publishes[p].retries + 1 /\ publishes'[p].age = sincePoll
      /\ publishes'[p].waited = publishes[p].waited
  BY <1>1, <1>2 DEF Entries
<1>4. \/ pc' = "retry" /\ todo' = todo \ {p} /\ sincePoll' = sincePoll
      \/ pc' = "idle" /\ todo' = {} /\ sincePoll' = 0
  BY DEF RetryPublish, Goto, Idle
<1>5. Waited(publishes'[p], Waiting(publishes'[p].retries) + publishes'[p].age)
  BY <1>1, <1>3 DEF Spaced, Waited
<1>6. \A q \in DOMAIN publishes' :
          Waited(publishes'[q], Waiting(publishes'[q].retries) + publishes'[q].age)
  BY <1>2, <1>5 DEF Spaced
<1>7. pc' = "retry" => \A q \in todo' :
          Waited(publishes'[q], Waiting(publishes'[q].retries + 1) + sincePoll')
  BY <1>1, <1>2, <1>4 DEF Spaced, LoopHasEntries
<1> QED BY <1>4, <1>6, <1>7 DEF Spaced, Waited

LEMMA SpacedPublish ==
    ASSUME Typed, Spaced, NEW m \in Msgs, Publish(m)
    PROVE  Spaced'
<1>1. /\ pc = "idle" /\ pc' = pc /\ sincePoll' = sincePoll
      /\ publishes' = Put(publishes, nextPid, NewEntry(m))
  BY DEF Publish, call
<1>2. \A p \in DOMAIN publishes' :
          \/ publishes'[p] = NewEntry(m)
          \/ p \in DOMAIN publishes /\ publishes'[p] = publishes[p]
  BY <1>1 DEF Put
<1>3. Waited(NewEntry(m), Waiting(NewEntry(m).retries) + NewEntry(m).age)
  BY WaitingLaws DEF NewEntry, Waited
<1> QED BY <1>1, <1>2, <1>3 DEF Spaced, Waited

LEMMA SpacedStep == Typed /\ Spaced /\ [Next]_vars => Spaced'
<1> SUFFICES ASSUME Typed, Spaced, [Next]_vars PROVE Spaced'
  OBVIOUS
<1> USE DEF session, network, ghosts, bounds
<1>1. CASE OtherTraffic \/ PollTimesOut \/ BreakLink \/ Broker \/ UNCHANGED vars
           \/ (ConnectFails /\ UNCHANGED publishes)
  <2>1. UNCHANGED call /\ publishes' = publishes
    BY <1>1 DEF OtherTraffic, PollTimesOut, BreakLink, Broker, BrokerPublish, BrokerPubrel,
                BrokerTakes, vars, ConnectFails
  <2> QED BY <2>1, SpacedOtherwise DEF call, Spaced
<1>2. ASSUME NEW T, publishes' = Without(publishes, T), Idle
      PROVE  Spaced'
  <2>1. \A p \in DOMAIN publishes' : p \in DOMAIN publishes /\ publishes'[p] = publishes[p]
    BY <1>2, WithoutPublishes DEF Typed
  <2> QED BY <1>2, <2>1, SpacedOtherwise DEF Idle
<1>3. CASE ReceivePuback \/ ReceivePubrec \/ ReceivePubcomp
  <2>1. CASE UNCHANGED publishes
    BY <1>3, <2>1, SpacedOtherwise DEF ReceivePuback, ReceivePubrec, ReceivePubcomp, Incoming, Idle
  <2>2. CASE publishes' = Without(publishes, {Head(toClient).pid})
    BY <1>2, <1>3, <2>2 DEF ReceivePuback, ReceivePubrec, ReceivePubcomp, Incoming
  <2> QED BY <1>3, <2>1, <2>2 DEF ReceivePuback, ReceivePubrec, ReceivePubcomp
<1>4. CASE RetryPubrel \/ ReceiveFails \/ StopWaiting \/ Resend
  <2>1. publishes' = publishes /\ pc' # "retry"
    BY <1>4 DEF RetryPubrel, ReceiveFails, StopWaiting, Resend, ResendPublish, ResendDone, Idle, Goto
  <2>2. sincePoll' = 0
    BY <1>4 DEF RetryPubrel, ReceiveFails, StopWaiting, Resend, ResendPublish, ResendDone, Idle,
                Goto, Spaced
  <2> QED BY <2>1, <2>2, SpacedOtherwise
<1>5. CASE (ConnectFails /\ ClearSession) \/ Restart \/ Reconnect
  <2>1. pc' # "retry" /\ sincePoll' = 0
    BY <1>5 DEF ConnectFails, Restart, Reconnect, Idle, Goto, call, Spaced
  <2>2. DOMAIN publishes' = {} \/ publishes' = publishes
    BY <1>5 DEF ConnectFails, Restart, Reconnect, ClearSession
  <2> QED BY <2>1, <2>2, SpacedOtherwise
<1>6. CASE Tick
  BY <1>6, SpacedTick
<1>7. CASE PollStartsRetries
  BY <1>7, SpacedPoll
<1>8. CASE \E p \in Pids : RetryPublish(p)
  BY <1>8, SpacedRetry
<1>9. CASE \E m \in Msgs : Publish(m)
  BY <1>9, SpacedPublish
<1>10. ConnectFails => ClearSession \/ UNCHANGED publishes
  BY DEF ConnectFails
<1> QED BY <1>1, <1>3, <1>4, <1>5, <1>6, <1>7, <1>8, <1>9, <1>10
        DEF Next, Poll, RetryLoop, Receive

\* A message is retried, and given up, only after a full RETRY_TIMEOUT_MS for
\* each retry, however polls, ticks and failed sends interleave.
THEOREM RetriesTakeTime == Spec => []RetriesSpaced
<1>1. Init => Typed /\ Spaced
  BY InitTyped DEF Init, Spaced
<1>2. Typed /\ Spaced => RetriesSpaced
  <2> SUFFICES ASSUME Typed, Spaced, NEW p \in DOMAIN publishes
               PROVE  publishes[p].waited >= Waiting(publishes[p].retries)
    BY DEF RetriesSpaced, Waiting
  <2>1. /\ publishes[p].age \in 0..Oldest /\ publishes[p].retries \in 0..MaxRetry
        /\ publishes[p].waited \in 0..LongEnough
    BY DEF Typed, TypeOK, Entries
  <2>2. Waiting(publishes[p].retries) \in Nat /\ Waiting(publishes[p].retries) <= LongEnough
    BY <2>1, WaitingLaws
  <2> QED BY <2>1, <2>2, Numbers DEF Spaced, Waited
<1> QED BY <1>1, <1>2, NextTyped, SpacedStep, PTL DEF Spec

-----------------------------------------------------------------------------
(* What awaits PUBCOMP *)

Undisturbed == link /\ faults = 0 /\ reconnects = 0

\* Until a send is cut, a link lost or a connection made, the session's pubrels are
\* the exchanges whose PUBREC arrived.
LEMMA TrackedStep ==
    ASSUME Typed, Undisturbed => awaiting = pubrels, [Next]_vars
    PROVE  Undisturbed' => awaiting' = pubrels'
<1> SUFFICES ASSUME Undisturbed' PROVE awaiting' = pubrels'
  OBVIOUS
<1> USE DEF session, network, ghosts, bounds, history, Undisturbed
<1>0. faults \in Nat /\ reconnects \in Nat
  BY ConfigAssumption DEF Typed, TypeOK
<1>1. ASSUME NEW x, NEW outcome \in Outcomes, Send(x, outcome)
      PROVE  faults' = 0 => faults = 0 /\ (link => outcome = "sent")
  BY <1>0, <1>1 DEF Send
<1>2. CASE UNCHANGED <<awaiting, pubrels, link, reconnects>> /\ (faults' = 0 => faults = 0)
  BY <1>2
<1>3. CASE ReceivePubrec
  <2>1. link' = link /\ reconnects' = reconnects
    BY <1>3 DEF ReceivePubrec
  <2>2. CASE Head(toClient).pid \in DOMAIN publishes
    <3>1. PICK outcome \in Outcomes :
              /\ Send(Packet("PUBREL", Head(toClient).pid), outcome)
              /\ outcome = "sent" => pubrels' = pubrels \cup {Head(toClient).pid}
      BY <1>3, <2>2 DEF ReceivePubrec
    <3>2. awaiting' = awaiting \cup {Head(toClient).pid}
      BY <1>3, <2>2 DEF ReceivePubrec
    <3> QED BY <1>1, <2>1, <3>1, <3>2
  <2>3. CASE Head(toClient).pid \notin DOMAIN publishes
    BY <1>3, <2>1, <2>3 DEF ReceivePubrec
  <2> QED BY <2>2, <2>3
<1>4. CASE ReceivePubcomp
  BY <1>4 DEF ReceivePubcomp
<1>5. CASE ClearSession
  BY <1>5 DEF ClearSession
<1>6. CASE Reconnect
  BY <1>0, <1>6 DEF Reconnect
<1>7. CASE BreakLink
  BY <1>7 DEF BreakLink
<1>8. CASE OtherTraffic \/ PollTimesOut \/ PollStartsRetries \/ ReceivePuback \/ ReceiveFails
           \/ StopWaiting \/ ResendDone \/ Tick \/ Broker \/ UNCHANGED vars
           \/ (ConnectFails /\ UNCHANGED <<session, ghosts, footing>>)
  BY <1>2, <1>8 DEF OtherTraffic, PollTimesOut, PollStartsRetries, ReceivePuback, ReceiveFails,
                    StopWaiting, ResendDone, Tick, Broker, BrokerPublish, BrokerPubrel, BrokerTakes,
                    vars, ConnectFails
<1>9. CASE \E p \in Pids : RetryPublish(p) \/ ResendPublish(p)
  BY <1>1, <1>2, <1>9 DEF RetryPublish, ResendPublish
<1>10. CASE RetryPubrel
  BY <1>1, <1>2, <1>10 DEF RetryPubrel
<1>11. CASE \E m \in Msgs : Publish(m)
  BY <1>1, <1>2, <1>11 DEF Publish
<1>12. /\ ConnectFails => ClearSession \/ UNCHANGED <<session, ghosts, footing>>
       /\ Restart => ClearSession
  BY DEF ConnectFails, Restart
<1> QED BY <1>3, <1>4, <1>5, <1>6, <1>7, <1>8, <1>9, <1>10, <1>11, <1>12
        DEF Next, Poll, RetryLoop, Receive, Resend

\* On a connection without a cut send every exchange that awaits PUBCOMP is in
\* the session, so PUBREL will be retried for it.
THEOREM PubrelsTracked == Spec => []PubcompTracked
<1>1. Init => (Undisturbed => awaiting = pubrels)
  BY DEF Init
<1>2. (Undisturbed => awaiting = pubrels) => PubcompTracked
  BY DEF Undisturbed, PubcompTracked
<1>3. Typed /\ (Undisturbed => awaiting = pubrels) /\ [Next]_vars
        => (Undisturbed => awaiting = pubrels)'
  BY TrackedStep
<1> QED BY <1>1, <1>2, <1>3, InitTyped, NextTyped, PTL DEF Spec
=============================================================================
