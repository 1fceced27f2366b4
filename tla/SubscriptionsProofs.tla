------------------------- MODULE SubscriptionsProofs -------------------------
(***************************************************************************)
(* Theorems of Subscriptions, for every set of filters, limit, number of   *)
(* identifiers, size of a request and bound on calls and faults.           *)
(***************************************************************************)
EXTENDS Subscriptions, FiniteSetTheorems, TLAPS

LEMMA Numbers ==
    /\ Capacity \in Nat \ {0} /\ MaxPid \in Nat \ {0} /\ MaxRequest \in Nat \ {0}
    /\ MaxCalls \in Nat /\ MaxFaults \in Nat /\ MaxReconnects \in Nat
    /\ IsFiniteSet(Pids)
BY ConfigAssumption, FS_Interval DEF Pids

LEMMA RequestFilters ==
    ASSUME NEW filters \in Requests
    PROVE  Range(filters) \subseteq Filters /\ filters[1] \in Filters /\ filters[Len(filters)] \in Filters
<1>1. PICK n \in 1..MaxRequest : filters \in [1..n -> Filters]
  BY DEF Requests
<1>2. n \in Nat /\ 1 <= n
  BY <1>1, Numbers
<1>3. Len(filters) = n /\ DOMAIN filters = 1..n
  BY <1>1, <1>2
<1> QED BY <1>1, <1>2, <1>3 DEF Range

LEMMA PacketTypes ==
    ASSUME NEW filters \in Requests, NEW pid \in Pids
    PROVE  /\ SubscribePackets(filters, pid) \subseteq ToBroker
           /\ UnsubscribePacket(filters, pid) \in ToBroker
<1>1. filters # <<>>
  <2>1. PICK n \in 1..MaxRequest : filters \in [1..n -> Filters]
    BY DEF Requests
  <2>2. 1 \in DOMAIN filters
    BY <2>1, Numbers
  <2> QED BY <2>2
<1>2. ASSUME NEW type \in {"SUBSCRIBE", "UNSUBSCRIBE"}, NEW properties \in {None} \cup Configs
      PROVE  [type |-> type, pid |-> pid, filters |-> filters, properties |-> properties] \in ToBroker
  BY DEF ToBroker
<1>3. /\ CreateSubscribeV3(filters, pid) \in ToBroker /\ CreateSubscribeV5(filters, pid) \in ToBroker
      /\ \A config \in Configs : CreateSubscribeWithConfig(filters, pid, config) \in ToBroker
  BY <1>1, <1>2 DEF CreateSubscribeV3, CreateSubscribeV5, CreateSubscribeWithConfig
<1>4. CreateUnsubscribeV3(filters, pid) \in ToBroker /\ CreateUnsubscribeV5(filters, pid) \in ToBroker
  BY <1>1, <1>2 DEF CreateUnsubscribeV3, CreateUnsubscribeV5
<1> QED BY <1>3, <1>4 DEF SubscribePackets, UnsubscribePacket

LEMMA EmptySeq == ASSUME NEW T PROVE <<>> \in Seq(T)
  OBVIOUS

LEMMA AppendType == ASSUME NEW T, NEW s \in Seq(T), NEW e \in T PROVE Append(s, e) \in Seq(T)
  OBVIOUS

LEMMA TailType == ASSUME NEW T, NEW s \in Seq(T), s # <<>> PROVE Head(s) \in T /\ Tail(s) \in Seq(T)
  OBVIOUS

LEMMA AskedFilters ==
    ASSUME TypeOK
    PROVE  Asked(toBroker) \subseteq Filters
<1>1. ASSUME NEW i \in DOMAIN toBroker PROVE Range(toBroker[i].filters) \subseteq Filters
  <2>1. toBroker[i] \in ToBroker
    BY DEF TypeOK
  <2>2. toBroker[i].filters \in Requests
    BY <2>1 DEF ToBroker
  <2> QED BY <2>2, RequestFilters
<1> QED BY <1>1 DEF Asked

LEMMA TakePidType ==
    ASSUME TypeOK, TakePid
    PROVE  nextPid' \in Pids /\ allocated' \in Nat /\ calls' \in 0..MaxCalls
<1>1. nextPid \in 1..MaxPid /\ allocated \in Nat /\ calls \in 0..MaxCalls
  BY DEF TypeOK, Pids
<1>2. nextPid' \in 1..MaxPid
  BY <1>1, Numbers DEF TakePid
<1>3. allocated' \in Nat /\ calls' \in 0..MaxCalls
  BY <1>1, Numbers DEF TakePid
<1> QED BY <1>2, <1>3 DEF Pids

LEMMA SendType ==
    ASSUME TypeOK, NEW packet \in ToBroker, NEW outcome, Send(packet, outcome)
    PROVE  toBroker' \in Seq(ToBroker) /\ faults' \in 0..MaxFaults
<1>1. toBroker' = Append(toBroker, packet) \/ toBroker' = toBroker
  BY DEF Send
<1>2. toBroker' \in Seq(ToBroker)
  BY <1>1, AppendType DEF TypeOK
<1>3. faults' = faults \/ (faults < MaxFaults /\ faults' = faults + 1)
  BY DEF Send
<1>4. faults \in 0..MaxFaults
  BY DEF TypeOK
<1> QED BY <1>2, <1>3, <1>4, Numbers

\* The entries after a subscribe.
LEMMA AddedType ==
    ASSUME TypeOK, NEW pid \in Pids, NEW filters \in Requests
    PROVE  /\ DOMAIN Added(pid, filters) = DOMAIN subscriptions \cup {pid}
           /\ Added(pid, filters) \in [DOMAIN Added(pid, filters) -> Entries]
<1>1. ASSUME NEW f \in Filters
      PROVE  /\ DOMAIN Put(subscriptions, pid, Pending(f)) = DOMAIN subscriptions \cup {pid}
             /\ Put(subscriptions, pid, Pending(f)) \in [DOMAIN subscriptions \cup {pid} -> Entries]
  <2>1. Pending(f) \in Entries
    BY DEF Pending, Entries
  <2> QED BY <2>1 DEF Put, TypeOK
<1> QED BY <1>1, RequestFilters DEF Added

LEMMA RemovedType ==
    ASSUME TypeOK, NEW filters, Removed(filters)
    PROVE  /\ DOMAIN subscriptions' \subseteq DOMAIN subscriptions
           /\ subscriptions' \in [DOMAIN subscriptions' -> Entries]
           /\ active' \subseteq active
<1>1. PICK gone \in SUBSET DOMAIN subscriptions :
          /\ subscriptions' = Without(subscriptions, gone)
          /\ active' = active \ {subscriptions[p].filter : p \in gone}
  BY DEF Removed
<1>2. subscriptions' = [p \in DOMAIN subscriptions \ gone |-> subscriptions[p]]
  BY <1>1 DEF Without, Restrict
<1> QED BY <1>1, <1>2 DEF TypeOK

LEMMA ConfirmType ==
    ASSUME TypeOK, NEW p \in DOMAIN subscriptions, NEW codes, Confirm(p, codes)
    PROVE  /\ DOMAIN subscriptions' = DOMAIN subscriptions
           /\ subscriptions' \in [DOMAIN subscriptions' -> Entries]
           /\ active' \subseteq Filters
           /\ \/ active' = active
              \/ \E f \in Filters : Cardinality(active) < Capacity /\ active' = active \cup {f}
<1>1. subscriptions[p].filter \in Filters /\ subscriptions[p] \in Entries
  BY DEF TypeOK, Entries
<1>2. ASSUME NEW s \in {"Active", "Failed"}
      PROVE  [subscriptions EXCEPT ![p].state = s] \in [DOMAIN subscriptions -> Entries]
  BY <1>1 DEF TypeOK, Entries
<1> QED BY <1>1, <1>2 DEF Confirm, Activate, Fail, TypeOK

-----------------------------------------------------------------------------
(* Types *)

LEMMA InitTyped == Init => TypeOK
BY Numbers DEF Init, TypeOK, Pids

LEMMA SubscribeTyped ==
    ASSUME TypeOK, NEW filters \in Requests, Subscribe(filters)
    PROVE  TypeOK'
<1>1. PICK outcome \in {"sent", "lost", "written"}, packet \in SubscribePackets(filters, nextPid) :
          /\ Send(packet, outcome)
          /\ subscriptions' \in {subscriptions, Added(nextPid, filters)}
          /\ asked' \in {asked, asked \cup Range(filters)}
          /\ unsure' \in {unsure, unsure \cup Range(filters)}
  BY DEF Subscribe
<1>2. nextPid \in Pids /\ packet \in ToBroker
  BY <1>1, PacketTypes DEF TypeOK
<1>3. toBroker' \in Seq(ToBroker) /\ faults' \in 0..MaxFaults
  BY <1>1, <1>2, SendType
<1>4. nextPid' \in Pids /\ allocated' \in Nat /\ calls' \in 0..MaxCalls
  BY TakePidType DEF Subscribe
<1>5. DOMAIN subscriptions' \subseteq Pids /\ subscriptions' \in [DOMAIN subscriptions' -> Entries]
  <2>1. CASE subscriptions' = subscriptions
    BY <2>1 DEF TypeOK
  <2>2. CASE subscriptions' = Added(nextPid, filters)
    <3>1. DOMAIN subscriptions \subseteq Pids
      BY DEF TypeOK
    <3>2. /\ DOMAIN Added(nextPid, filters) = DOMAIN subscriptions \cup {nextPid}
          /\ Added(nextPid, filters) \in [DOMAIN Added(nextPid, filters) -> Entries]
      BY <1>2, AddedType
    <3>3. DOMAIN Added(nextPid, filters) \subseteq Pids
      BY <1>2, <3>1, <3>2
    <3> HIDE DEF Added
    <3> QED BY <2>2, <3>2, <3>3
  <2> QED BY <1>1, <2>1, <2>2
<1>6. asked' \subseteq Filters /\ unsure' \subseteq Filters
  BY <1>1, RequestFilters DEF TypeOK
<1> QED BY <1>3, <1>4, <1>5, <1>6 DEF TypeOK, Subscribe

LEMMA UnsubscribeTyped ==
    ASSUME TypeOK, NEW filters \in Requests, Unsubscribe(filters)
    PROVE  TypeOK'
<1>1. PICK outcome \in {"sent", "lost", "written"} :
          /\ Send(UnsubscribePacket(filters, nextPid), outcome)
          /\ \/ Removed(filters) /\ asked' = asked \ Range(filters)
             \/ UNCHANGED <<subscriptions, active, asked>>
          /\ unsure' \in {unsure, unsure \cup Range(filters)}
  BY DEF Unsubscribe
<1>2. UnsubscribePacket(filters, nextPid) \in ToBroker
  BY PacketTypes DEF TypeOK
<1>3. toBroker' \in Seq(ToBroker) /\ faults' \in 0..MaxFaults
  BY <1>1, <1>2, SendType
<1>4. nextPid' \in Pids /\ allocated' \in Nat /\ calls' \in 0..MaxCalls
  BY TakePidType DEF Unsubscribe
<1>5. /\ DOMAIN subscriptions' \subseteq Pids /\ subscriptions' \in [DOMAIN subscriptions' -> Entries]
      /\ active' \subseteq Filters
  BY <1>1, RemovedType DEF TypeOK
<1>6. asked' \subseteq Filters /\ unsure' \subseteq Filters
  BY <1>1, RequestFilters DEF TypeOK
<1> QED BY <1>3, <1>4, <1>5, <1>6 DEF TypeOK, Unsubscribe

LEMMA ReceiveTyped ==
    ASSUME TypeOK, Receive
    PROVE  TypeOK'
<1>1. toClient' \in Seq(ToClient)
  BY TailType DEF TypeOK, Receive
<1>2. /\ DOMAIN subscriptions' \subseteq Pids /\ subscriptions' \in [DOMAIN subscriptions' -> Entries]
      /\ active' \subseteq Filters
  <2>1. CASE UNCHANGED <<subscriptions, active>>
    BY <2>1 DEF TypeOK
  <2>2. CASE \E p \in DOMAIN subscriptions : Confirm(p, Head(toClient).codes)
    BY <2>2, ConfirmType DEF TypeOK
  <2> QED BY <2>1, <2>2 DEF Receive
<1> QED BY <1>1, <1>2 DEF TypeOK, Receive, ghosts

LEMMA ConnectTyped ==
    ASSUME TypeOK, PollFails \/ ConnectFails \/ Reconnect \/ BreakLink
    PROVE  TypeOK'
<1>1. ASSUME ClearSession
      PROVE  /\ nextPid' \in Pids /\ DOMAIN subscriptions' \subseteq Pids
             /\ subscriptions' \in [DOMAIN subscriptions' -> Entries]
             /\ active' \subseteq Filters /\ asked' \subseteq Filters
             /\ unsure' \subseteq Filters /\ allocated' \in Nat
  BY <1>1, Numbers DEF ClearSession, Pids
<1>2. CASE ConnectFails
  BY <1>1, <1>2 DEF ConnectFails, TypeOK, session, ghosts
<1>3. CASE Reconnect
  <2>1. reconnects \in 0..MaxReconnects /\ reconnects' = reconnects + 1 /\ reconnects < MaxReconnects
    BY <1>3 DEF Reconnect, TypeOK
  <2>2. reconnects' \in 0..MaxReconnects
    BY <2>1, Numbers
  <2>3. CASE ClearSession /\ granted' = {}
    BY <1>1, <1>3, <2>2, <2>3 DEF Reconnect, TypeOK
  <2>4. CASE ~CleanSession /\ granted' \in {granted, {}} /\ UNCHANGED <<session, asked, allocated>>
    <3>1. {subscriptions[p].filter : p \in {q \in DOMAIN subscriptions :
              subscriptions[q].state = "Pending"}} \subseteq Filters
      BY DEF TypeOK, Entries
    <3>2. unsure' \subseteq Filters
      <4>1. unsure' = unsure \cup Asked(toBroker) \cup (granted \ granted')
                \cup {subscriptions[p].filter :
                         p \in {q \in DOMAIN subscriptions : subscriptions[q].state = "Pending"}}
        BY <1>3, <2>4 DEF Reconnect
      <4> QED BY <3>1, <4>1, AskedFilters DEF TypeOK
    <3>3. granted' \subseteq Filters
      BY <2>4 DEF TypeOK
    <3> QED BY <1>3, <2>2, <2>4, <3>2, <3>3 DEF Reconnect, TypeOK, session
  <2> QED BY <1>3, <2>3, <2>4 DEF Reconnect
<1>4. CASE BreakLink
  <2>1. toBroker' = <<>> /\ unsure' = unsure \cup Asked(toBroker) /\ link' = FALSE
    BY <1>4 DEF BreakLink
  <2>2. toBroker' \in Seq(ToBroker) /\ link' \in BOOLEAN
    BY <2>1, EmptySeq
  <2>3. unsure' \subseteq Filters
    BY <2>1, AskedFilters DEF TypeOK
  <2> QED BY <1>4, <2>2, <2>3 DEF BreakLink, TypeOK, session
<1>5. CASE PollFails
  BY <1>5 DEF PollFails, TypeOK, session, ghosts
<1> QED BY <1>2, <1>3, <1>4, <1>5

LEMMA BrokerTyped ==
    ASSUME TypeOK, Broker
    PROVE  TypeOK'
<1>1. toBroker # <<>> /\ toBroker' = Tail(toBroker) /\ Head(toBroker) \in ToBroker
  BY TailType DEF Broker, BrokerSubscribe, BrokerUnsubscribe, BrokerTakes, TypeOK
<1>2. toBroker' \in Seq(ToBroker)
  BY <1>1, TailType DEF TypeOK
<1>3. PICK n \in 1..MaxRequest : Head(toBroker).filters \in [1..n -> Filters]
  BY <1>1 DEF ToBroker, Requests
<1>4. CASE BrokerSubscribe
  <2>1. PICK codes \in [DOMAIN Head(toBroker).filters -> {"granted", "refused"}] :
            /\ granted' = granted \cup {Head(toBroker).filters[i] :
                                           i \in {j \in DOMAIN codes : codes[j] = "granted"}}
            /\ toClient' = Append(toClient, [type |-> "SUBACK", pid |-> Head(toBroker).pid,
                                             codes |-> codes])
    BY <1>4 DEF BrokerSubscribe
  <2>2. codes \in [1..n -> {"granted", "refused"}] /\ codes \in Codes
    BY <1>3, <2>1 DEF Codes
  <2>3. [type |-> "SUBACK", pid |-> Head(toBroker).pid, codes |-> codes] \in ToClient
    BY <1>1, <2>2 DEF ToBroker, ToClient
  <2>4. toClient' \in Seq(ToClient)
    BY <2>1, <2>3, AppendType DEF TypeOK
  <2>5. granted' \subseteq Filters
    BY <1>3, <2>1, <2>2 DEF TypeOK
  <2> QED BY <1>2, <1>4, <2>4, <2>5 DEF BrokerSubscribe, BrokerTakes, TypeOK, session, ghosts
<1>5. CASE BrokerUnsubscribe
  <2>1. [type |-> "UNSUBACK", pid |-> Head(toBroker).pid] \in ToClient
    BY <1>1 DEF ToBroker, ToClient
  <2>2. toClient' \in Seq(ToClient)
    BY <1>5, <2>1, AppendType DEF BrokerUnsubscribe, TypeOK
  <2> QED BY <1>2, <1>5, <2>2 DEF BrokerUnsubscribe, BrokerTakes, TypeOK, session, ghosts
<1> QED BY <1>4, <1>5 DEF Broker

LEMMA NextTyped == TypeOK /\ [Next]_vars => TypeOK'
<1>1. TypeOK /\ UNCHANGED vars => TypeOK'
  BY DEF TypeOK, vars, session, ghosts
<1>2. TypeOK /\ Next => TypeOK'
  BY SubscribeTyped, UnsubscribeTyped, ReceiveTyped, ConnectTyped, BrokerTyped DEF Next
<1> QED BY <1>1, <1>2

\* The session's tables, the packets and the broker's subscriptions keep their
\* types under every order of requests, acknowledgements and reconnects.
THEOREM TypeCorrect == Spec => []TypeOK
BY InitTyped, NextTyped, PTL DEF Spec

-----------------------------------------------------------------------------
(* The limit.  A test of the size of a table that is passed before one     *)
(* element is added keeps the table within it; the finiteness of the       *)
(* tables makes their sizes numbers.                                       *)

Limited == TypeOK /\ IsFiniteSet(active) /\ WithinLimit

LEMMA FiniteEntries == ASSUME TypeOK PROVE IsFiniteSet(DOMAIN subscriptions)
BY Numbers, FS_Subset DEF TypeOK

LEMMA OneMoreFits ==
    ASSUME NEW S, NEW x, IsFiniteSet(S), Cardinality(S) < Capacity
    PROVE  IsFiniteSet(S \cup {x}) /\ Cardinality(S \cup {x}) <= Capacity
BY FS_AddElement, FS_CardinalityType, Numbers

LEMMA NoMoreFits ==
    ASSUME NEW S, NEW T \in SUBSET S, IsFiniteSet(S), Cardinality(S) <= Capacity
    PROVE  IsFiniteSet(T) /\ Cardinality(T) <= Capacity
BY FS_Subset, FS_CardinalityType, Numbers

LEMMA EntriesGrowInRoom ==
    ASSUME TypeOK, [Next]_vars
    PROVE  \/ DOMAIN subscriptions' \subseteq DOMAIN subscriptions
           \/ /\ Cardinality(DOMAIN subscriptions) < Capacity
              /\ \E p \in Pids : DOMAIN subscriptions' = DOMAIN subscriptions \cup {p}
<1>1. ASSUME NEW filters \in Requests, Subscribe(filters)
      PROVE  \/ subscriptions' = subscriptions
             \/ /\ Cardinality(DOMAIN subscriptions) < Capacity
                /\ \E p \in Pids : DOMAIN subscriptions' = DOMAIN subscriptions \cup {p}
  <2>1. nextPid \in Pids
    BY DEF TypeOK
  <2>2. \/ subscriptions' = subscriptions
        \/ Room(DOMAIN subscriptions) /\ subscriptions' = Added(nextPid, filters)
    BY <1>1 DEF Subscribe
  <2> QED BY <2>1, <2>2, AddedType DEF Room
<1>2. ASSUME NEW filters \in Requests, Unsubscribe(filters)
      PROVE  DOMAIN subscriptions' \subseteq DOMAIN subscriptions
  BY <1>2, RemovedType DEF Unsubscribe
<1>3. Receive => DOMAIN subscriptions' = DOMAIN subscriptions
  BY ConfirmType DEF Receive
<1>4. ClearSession => DOMAIN subscriptions' = {}
  BY DEF ClearSession
<1>5. ConnectFails \/ Reconnect => ClearSession \/ UNCHANGED session
  BY DEF ConnectFails, Reconnect
<1>6. PollFails \/ BreakLink \/ Broker => UNCHANGED session
  BY DEF PollFails, BreakLink, Broker, BrokerSubscribe, BrokerUnsubscribe, BrokerTakes
<1>7. UNCHANGED session => subscriptions' = subscriptions
  BY DEF session
<1>8. UNCHANGED vars => subscriptions' = subscriptions
  BY DEF vars, session
<1> QED BY <1>1, <1>2, <1>3, <1>4, <1>5, <1>6, <1>7, <1>8 DEF Next

LEMMA ActiveGrowsInRoom ==
    ASSUME TypeOK, [Next]_vars
    PROVE  \/ active' \subseteq active
           \/ \E f \in Filters : Cardinality(active) < Capacity /\ active' = active \cup {f}
<1>1. ASSUME NEW filters \in Requests, Subscribe(filters) PROVE active' = active
  BY <1>1 DEF Subscribe
<1>2. ASSUME NEW filters \in Requests, Unsubscribe(filters) PROVE active' \subseteq active
  BY <1>2, RemovedType DEF Unsubscribe
<1>3. ASSUME Receive
      PROVE  \/ active' = active
             \/ \E f \in Filters : Cardinality(active) < Capacity /\ active' = active \cup {f}
  BY <1>3, ConfirmType DEF Receive
<1>4. ClearSession => active' = {}
  BY DEF ClearSession
<1>5. ConnectFails \/ Reconnect => ClearSession \/ UNCHANGED session
  BY DEF ConnectFails, Reconnect
<1>6. PollFails \/ BreakLink \/ Broker => UNCHANGED session
  BY DEF PollFails, BreakLink, Broker, BrokerSubscribe, BrokerUnsubscribe, BrokerTakes
<1>7. UNCHANGED session \/ UNCHANGED vars => active' = active
  BY DEF vars, session
<1> QED BY <1>1, <1>2, <1>3, <1>4, <1>5, <1>6, <1>7 DEF Next

LEMMA InitLimited == Init => Limited
BY InitTyped, FS_EmptySet, Numbers DEF Init, Limited, WithinLimit

LEMMA NextLimited == Limited /\ [Next]_vars => Limited'
<1> SUFFICES ASSUME Limited, [Next]_vars PROVE Limited'
  OBVIOUS
<1>1. /\ TypeOK /\ TypeOK' /\ IsFiniteSet(active) /\ IsFiniteSet(DOMAIN subscriptions)
      /\ Cardinality(DOMAIN subscriptions) <= Capacity /\ Cardinality(active) <= Capacity
  BY NextTyped, FiniteEntries DEF Limited, WithinLimit
<1>2. \/ DOMAIN subscriptions' \subseteq DOMAIN subscriptions
      \/ /\ Cardinality(DOMAIN subscriptions) < Capacity
         /\ \E p \in Pids : DOMAIN subscriptions' = DOMAIN subscriptions \cup {p}
  BY <1>1, EntriesGrowInRoom
<1>3. \/ active' \subseteq active
      \/ \E f \in Filters : Cardinality(active) < Capacity /\ active' = active \cup {f}
  BY <1>1, ActiveGrowsInRoom
<1>4. IsFiniteSet(DOMAIN subscriptions') /\ Cardinality(DOMAIN subscriptions') <= Capacity
  BY <1>1, <1>2, OneMoreFits, NoMoreFits
<1>5. IsFiniteSet(active') /\ Cardinality(active') <= Capacity
  BY <1>1, <1>3, OneMoreFits, NoMoreFits
<1> QED BY <1>1, <1>4, <1>5 DEF Limited, WithinLimit

\* max_subscriptions bounds both tables whatever identifiers collide, requests
\* repeat and SUBACKs arrive late.
THEOREM Limit == Spec => []WithinLimit
<1>1. Limited => WithinLimit
  BY DEF Limited
<1> QED BY <1>1, InitLimited, NextLimited, PTL DEF Spec

-----------------------------------------------------------------------------
(* Identifiers.  Until they start again from 1 they number the packets in    *)
(* the order in which these travel, and an identifier under way is that of a *)
(* pending entry or of none.                                                 *)

\* A connect() that failed has cleared a clean session, and packets of the old
\* one may be on the way; until then, and with the session kept, all is in order.
Live == connected \/ ~CleanSession \/ DOMAIN subscriptions # {} \/ active # {}

Up == Range(toBroker)
Down == Range(toClient)
Increasing(s) == \A i, j \in DOMAIN s : i < j => s[i].pid < s[j].pid

Numbered ==
    /\ DOMAIN subscriptions \subseteq 1..allocated
    /\ allocated < MaxPid => nextPid = allocated + 1
    /\ Increasing(toBroker) /\ Increasing(toClient)
    /\ \A c \in Down, b \in Up : c.pid < b.pid
    /\ \A packet \in Up \cup Down :
           /\ packet.pid <= allocated
           /\ packet.pid \in DOMAIN subscriptions => subscriptions[packet.pid].state = "Pending"
Backed == \A f \in active : \E p \in EntriesOf(f) : subscriptions[p].state = "Active"

NumberingInv == NoWrap /\ Live => Numbered /\ Backed

LEMMA AppendPid ==
    ASSUME NEW T, NEW s \in Seq(T), NEW e
    PROVE  /\ Range(Append(s, e)) = Range(s) \cup {e}
           /\ Increasing(s) /\ (\A x \in Range(s) : x.pid < e.pid) => Increasing(Append(s, e))
<1>1. /\ DOMAIN Append(s, e) = DOMAIN s \cup {Len(s) + 1} /\ Len(s) \in Nat /\ DOMAIN s = 1..Len(s)
      /\ Append(s, e)[Len(s) + 1] = e
      /\ \A i \in DOMAIN s : Append(s, e)[i] = s[i]
  OBVIOUS
<1>2. Range(Append(s, e)) = Range(s) \cup {e}
  BY <1>1 DEF Range
<1>3. ASSUME Increasing(s), \A x \in Range(s) : x.pid < e.pid,
             NEW i \in DOMAIN Append(s, e), NEW j \in DOMAIN Append(s, e), i < j
      PROVE  Append(s, e)[i].pid < Append(s, e)[j].pid
  <2>1. i \in DOMAIN s /\ Append(s, e)[i] = s[i]
    BY <1>1, <1>3
  <2>2. CASE j \in DOMAIN s
    BY <1>1, <1>3, <2>1, <2>2 DEF Increasing
  <2>3. CASE j = Len(s) + 1
    BY <1>1, <1>3, <2>1, <2>3 DEF Range
  <2> QED BY <1>1, <2>2, <2>3
<1> QED BY <1>2, <1>3 DEF Increasing

LEMMA TailPid ==
    ASSUME NEW T, NEW s \in Seq(T), s # <<>>
    PROVE  /\ Range(s) = Range(Tail(s)) \cup {Head(s)}
           /\ Increasing(s) => /\ Increasing(Tail(s))
                               /\ \A x \in Range(Tail(s)) : Head(s).pid < x.pid
<1>1. /\ Len(s) \in Nat /\ Len(s) >= 1 /\ DOMAIN s = 1..Len(s) /\ Head(s) = s[1]
      /\ DOMAIN Tail(s) = 1..(Len(s) - 1)
      /\ \A i \in DOMAIN Tail(s) : Tail(s)[i] = s[i + 1]
  OBVIOUS
<1>2. Range(s) = Range(Tail(s)) \cup {Head(s)}
  <2>1. ASSUME NEW i \in DOMAIN s PROVE s[i] \in Range(Tail(s)) \cup {Head(s)}
    <3>1. CASE i = 1
      BY <1>1, <3>1
    <3>2. CASE i # 1
      <4>1. i - 1 \in DOMAIN Tail(s) /\ Tail(s)[i - 1] = s[i]
        BY <1>1, <3>2
      <4> QED BY <4>1 DEF Range
    <3> QED BY <3>1, <3>2
  <2>2. Head(s) \in Range(s) /\ \A i \in DOMAIN Tail(s) : Tail(s)[i] \in Range(s)
    BY <1>1 DEF Range
  <2> QED BY <2>1, <2>2 DEF Range
<1>3. ASSUME Increasing(s)
      PROVE  Increasing(Tail(s)) /\ \A i \in DOMAIN Tail(s) : Head(s).pid < Tail(s)[i].pid
  BY <1>1, <1>3 DEF Increasing
<1> QED BY <1>2, <1>3 DEF Range

LEMMA EmptyPid == Range(<<>>) = {} /\ Increasing(<<>>)
  BY DEF Range, Increasing

LEMMA PacketFields ==
    ASSUME NEW filters \in Requests, NEW pid \in Pids
    PROVE  /\ \A packet \in SubscribePackets(filters, pid) :
                  /\ packet \in ToBroker /\ packet.type = "SUBSCRIBE"
                  /\ packet.pid = pid /\ packet.filters = filters
           /\ UnsubscribePacket(filters, pid) \in ToBroker
           /\ UnsubscribePacket(filters, pid).type = "UNSUBSCRIBE"
           /\ UnsubscribePacket(filters, pid).pid = pid
           /\ UnsubscribePacket(filters, pid).filters = filters
<1>1. filters # <<>>
  <2>1. PICK n \in 1..MaxRequest : filters \in [1..n -> Filters]
    BY DEF Requests
  <2>2. 1 \in DOMAIN filters
    BY <2>1, Numbers
  <2> QED BY <2>2
<1>2. \A packet \in SubscribePackets(filters, pid) :
          packet.type = "SUBSCRIBE" /\ packet.pid = pid /\ packet.filters = filters
  BY <1>1 DEF SubscribePackets, CreateSubscribeV3, CreateSubscribeV5, CreateSubscribeWithConfig
<1>3. LET packet == UnsubscribePacket(filters, pid) IN
          packet.type = "UNSUBSCRIBE" /\ packet.pid = pid /\ packet.filters = filters
  BY <1>1 DEF UnsubscribePacket, CreateUnsubscribeV3, CreateUnsubscribeV5
<1> QED BY <1>2, <1>3, PacketTypes

\* What a send does to the packets under way.
LEMMA SendUp ==
    ASSUME TypeOK, NEW packet, NEW outcome, Send(packet, outcome)
    PROVE  /\ \/ toBroker' = toBroker /\ Up' = Up
              \/ link /\ toBroker' = Append(toBroker, packet) /\ Up' = Up \cup {packet}
           /\ outcome = "sent" /\ link => Up' = Up \cup {packet}
<1>1. \/ toBroker' = toBroker /\ ~(outcome = "sent" /\ link)
      \/ link /\ toBroker' = Append(toBroker, packet)
  BY DEF Send
<1>2. Range(Append(toBroker, packet)) = Up \cup {packet}
  BY AppendPid DEF TypeOK, Up
<1> QED BY <1>1, <1>2 DEF Up

\* The next packet has the next number.
LEMMA SendNumbered ==
    ASSUME TypeOK, Numbered, allocated < MaxPid, allocated' = allocated + 1, TakePid,
           NEW packet, packet.pid = nextPid, NEW outcome, Send(packet, outcome), UNCHANGED toClient,
           DOMAIN subscriptions' \subseteq DOMAIN subscriptions \cup {nextPid},
           nextPid \in DOMAIN subscriptions' => subscriptions'[nextPid].state = "Pending",
           \A p \in DOMAIN subscriptions' \cap DOMAIN subscriptions :
               subscriptions'[p] = subscriptions[p]
    PROVE  Numbered'
<1>1. /\ allocated \in Nat /\ MaxPid \in Nat /\ nextPid = allocated + 1
      /\ allocated' < MaxPid => nextPid' = allocated' + 1
  BY Numbers DEF TypeOK, Numbered, TakePid
<1>2. DOMAIN subscriptions' \subseteq 1..allocated'
  BY <1>1 DEF Numbered
<1>3. Down' = Down /\ Increasing(toClient')
  BY DEF Down, Numbered
<1>4. \A q \in Up \cup Down : q.pid \in Nat
  <2>1. \A q \in Up : q \in ToBroker
    BY DEF TypeOK, Up, Range
  <2>2. \A q \in Down : q \in ToClient
    BY DEF TypeOK, Down, Range
  <2> QED BY <2>1, <2>2, Numbers DEF ToBroker, ToClient, Pids
<1>5. \A q \in Up \cup Down : q.pid < packet.pid /\ q.pid <= allocated
  BY <1>1, <1>4 DEF Numbered
<1>6. /\ Increasing(toBroker') /\ Up' \subseteq Up \cup {packet}
  <2>1. Increasing(Append(toBroker, packet))
    BY <1>5, AppendPid DEF TypeOK, Numbered, Up
  <2> QED BY <2>1, SendUp DEF Numbered
<1>7. \A c \in Down', b \in Up' : c.pid < b.pid
  BY <1>3, <1>5, <1>6 DEF Numbered
<1>8. ASSUME NEW q \in Up' \cup Down'
      PROVE  /\ q.pid <= allocated'
             /\ q.pid \in DOMAIN subscriptions' => subscriptions'[q.pid].state = "Pending"
  <2>1. CASE q = packet
    BY <1>1, <2>1
  <2>2. CASE q \in Up \cup Down
    <3>1. q.pid <= allocated /\ q.pid \in Nat /\ q.pid # nextPid
      BY <1>1, <1>4, <1>5, <2>2
    <3>2. q.pid \in DOMAIN subscriptions => subscriptions[q.pid].state = "Pending"
      BY <2>2 DEF Numbered
    <3> QED BY <1>1, <3>1, <3>2
  <2> QED BY <1>3, <1>6, <2>1, <2>2
<1> QED BY <1>1, <1>2, <1>3, <1>6, <1>7, <1>8 DEF Numbered

\* What Added does to an entry.
LEMMA AddedEntries ==
    ASSUME TypeOK, NEW filters \in Requests, NEW pid \in Pids
    PROVE  /\ DOMAIN Added(pid, filters) = DOMAIN subscriptions \cup {pid}
           /\ Added(pid, filters)[pid].state = "Pending"
           /\ Added(pid, filters)[pid].filter \in Range(filters)
           /\ Added(pid, filters)[pid].filter \in {filters[1], filters[Len(filters)]}
           /\ \A p \in DOMAIN subscriptions : p # pid => Added(pid, filters)[p] = subscriptions[p]
<1>1. PICK f \in {filters[1], filters[Len(filters)]} :
          Added(pid, filters) = Put(subscriptions, pid, Pending(f))
  BY DEF Added
<1>2. filters[1] \in Range(filters) /\ filters[Len(filters)] \in Range(filters)
  <2>1. PICK n \in 1..MaxRequest : filters \in [1..n -> Filters]
    BY DEF Requests
  <2>2. n \in Nat /\ 1 <= n /\ Len(filters) = n
    BY <2>1, Numbers
  <2> QED BY <2>1, <2>2 DEF Range
<1>3. Pending(f).state = "Pending" /\ Pending(f).filter = f
  BY DEF Pending
<1>4. Added(pid, filters) = [k \in DOMAIN subscriptions \cup {pid} |->
                                 IF k = pid THEN Pending(f) ELSE subscriptions[k]]
  BY <1>1 DEF Put
<1> QED BY <1>2, <1>3, <1>4

LEMMA SubscribeNumbered ==
    ASSUME TypeOK, NumberingInv, NEW filters \in Requests, Subscribe(filters)
    PROVE  NumberingInv'
<1>1. Live /\ Live' /\ TakePid /\ UNCHANGED <<active, toClient>> /\ nextPid \in Pids
  BY DEF Subscribe, Live, TypeOK
<1> SUFFICES ASSUME NoWrap' PROVE Numbered' /\ Backed'
  BY <1>1 DEF NumberingInv
<1>2. allocated' = allocated + 1 /\ allocated < MaxPid /\ NoWrap
  BY <1>1, Numbers DEF TakePid, NoWrap, TypeOK
<1>3. Numbered /\ Backed /\ nextPid = allocated + 1 /\ allocated \in Nat
  BY <1>1, <1>2 DEF NumberingInv, Numbered, TypeOK
<1>4. nextPid \notin DOMAIN subscriptions
  BY <1>3 DEF Numbered
<1>5. PICK outcome \in {"sent", "lost", "written"}, packet \in SubscribePackets(filters, nextPid) :
          Send(packet, outcome) /\ subscriptions' \in {subscriptions, Added(nextPid, filters)}
  BY DEF Subscribe
<1>6. packet.pid = nextPid
  BY <1>1, <1>5, PacketFields
<1>7. /\ DOMAIN subscriptions \subseteq DOMAIN subscriptions'
      /\ DOMAIN subscriptions' \subseteq DOMAIN subscriptions \cup {nextPid}
      /\ nextPid \in DOMAIN subscriptions' => subscriptions'[nextPid].state = "Pending"
      /\ \A p \in DOMAIN subscriptions : subscriptions'[p] = subscriptions[p]
  <2>1. CASE subscriptions' = subscriptions
    BY <1>4, <2>1
  <2>2. CASE subscriptions' = Added(nextPid, filters)
    <3>1. /\ DOMAIN Added(nextPid, filters) = DOMAIN subscriptions \cup {nextPid}
          /\ Added(nextPid, filters)[nextPid].state = "Pending"
          /\ \A p \in DOMAIN subscriptions :
                 p # nextPid => Added(nextPid, filters)[p] = subscriptions[p]
      BY <1>1, AddedEntries
    <3> HIDE DEF Added
    <3> QED BY <1>4, <2>2, <3>1
  <2> QED BY <1>5, <2>1, <2>2
<1>8. Numbered'
  BY <1>1, <1>2, <1>3, <1>5, <1>6, <1>7, SendNumbered
<1>9. Backed'
  BY <1>1, <1>3, <1>7 DEF Backed, EntriesOf
<1> QED BY <1>8, <1>9

LEMMA RemovedEntries ==
    ASSUME NEW filters, Removed(filters)
    PROVE  \E gone \in SUBSET DOMAIN subscriptions :
               /\ \A f \in Filters :
                      Cardinality(gone \cap EntriesOf(f)) =
                          Least(Cardinality(EntriesOf(f)),
                                Cardinality({i \in DOMAIN filters : filters[i] = f}))
               /\ DOMAIN subscriptions' = DOMAIN subscriptions \ gone
               /\ \A p \in DOMAIN subscriptions' : subscriptions'[p] = subscriptions[p]
               /\ active' = active \ {subscriptions[p].filter : p \in gone}
<1>1. PICK gone \in SUBSET DOMAIN subscriptions :
          /\ \A f \in Filters :
                 Cardinality(gone \cap EntriesOf(f)) =
                     Least(Cardinality(EntriesOf(f)),
                           Cardinality({i \in DOMAIN filters : filters[i] = f}))
          /\ subscriptions' = Without(subscriptions, gone)
          /\ active' = active \ {subscriptions[p].filter : p \in gone}
  BY DEF Removed
<1>2. subscriptions' = [p \in DOMAIN subscriptions \ gone |-> subscriptions[p]]
  BY <1>1 DEF Without, Restrict
<1>3. /\ DOMAIN subscriptions' = DOMAIN subscriptions \ gone
      /\ \A p \in DOMAIN subscriptions' : subscriptions'[p] = subscriptions[p]
  BY <1>2
<1> QED BY <1>1, <1>3

LEMMA UnsubscribeNumbered ==
    ASSUME TypeOK, NumberingInv, NEW filters \in Requests, Unsubscribe(filters)
    PROVE  NumberingInv'
<1>1. Live /\ Live' /\ TakePid /\ UNCHANGED toClient /\ nextPid \in Pids
  BY DEF Unsubscribe, Live, TypeOK
<1> SUFFICES ASSUME NoWrap' PROVE Numbered' /\ Backed'
  BY <1>1 DEF NumberingInv
<1>2. allocated' = allocated + 1 /\ allocated < MaxPid /\ NoWrap
  BY <1>1, Numbers DEF TakePid, NoWrap, TypeOK
<1>3. Numbered /\ Backed /\ nextPid = allocated + 1 /\ allocated \in Nat
  BY <1>1, <1>2 DEF NumberingInv, Numbered, TypeOK
<1>4. nextPid \notin DOMAIN subscriptions
  BY <1>3 DEF Numbered
<1>5. PICK outcome \in {"sent", "lost", "written"} :
          /\ Send(UnsubscribePacket(filters, nextPid), outcome)
          /\ Removed(filters) \/ UNCHANGED <<subscriptions, active>>
  BY DEF Unsubscribe
<1>6. UnsubscribePacket(filters, nextPid).pid = nextPid
  BY <1>1, PacketFields
<1>7. /\ DOMAIN subscriptions' \subseteq DOMAIN subscriptions
      /\ \A p \in DOMAIN subscriptions' : subscriptions'[p] = subscriptions[p]
      /\ Backed'
  <2>1. CASE Removed(filters)
    <3>1. PICK gone \in SUBSET DOMAIN subscriptions :
              /\ DOMAIN subscriptions' = DOMAIN subscriptions \ gone
              /\ \A p \in DOMAIN subscriptions' : subscriptions'[p] = subscriptions[p]
              /\ active' = active \ {subscriptions[p].filter : p \in gone}
      BY <2>1, RemovedEntries
    <3>2. ASSUME NEW f \in active'
          PROVE  \E p \in EntriesOf(f)' : subscriptions'[p].state = "Active"
      <4>1. PICK p \in EntriesOf(f) : subscriptions[p].state = "Active"
        BY <1>3, <3>1 DEF Backed
      <4>2. p \notin gone
        BY <3>1, <4>1 DEF EntriesOf
      <4> QED BY <3>1, <4>1, <4>2 DEF EntriesOf
    <3> QED BY <3>1, <3>2 DEF Backed
  <2>2. CASE UNCHANGED <<subscriptions, active>>
    BY <1>3, <2>2 DEF Backed, EntriesOf
  <2> QED BY <1>5, <2>1, <2>2
<1>8. Numbered'
  BY <1>1, <1>2, <1>3, <1>4, <1>5, <1>6, <1>7, SendNumbered
<1> QED BY <1>7, <1>8

\* What a SUBACK does to the entry it is for.
LEMMA ConfirmEntries ==
    ASSUME TypeOK, NEW p \in DOMAIN subscriptions, NEW codes, Confirm(p, codes)
    PROVE  /\ DOMAIN subscriptions' = DOMAIN subscriptions
           /\ \A q \in DOMAIN subscriptions :
                  /\ subscriptions'[q].filter = subscriptions[q].filter
                  /\ q # p => subscriptions'[q] = subscriptions[q]
           /\ codes[1] = "granted" =>
                  /\ subscriptions'[p].state = "Active"
                  /\ active' = IF Cardinality(active) < Capacity
                               THEN active \cup {subscriptions[p].filter} ELSE active
           /\ codes[1] # "granted" => subscriptions'[p].state = "Failed" /\ active' = active
<1>1. ASSUME NEW s, subscriptions' = [subscriptions EXCEPT ![p].state = s]
      PROVE  /\ DOMAIN subscriptions' = DOMAIN subscriptions /\ subscriptions'[p].state = s
             /\ \A q \in DOMAIN subscriptions :
                    /\ subscriptions'[q].filter = subscriptions[q].filter
                    /\ q # p => subscriptions'[q] = subscriptions[q]
  <2>1. subscriptions' = [subscriptions EXCEPT ![p] = [subscriptions[p] EXCEPT !.state = s]]
    BY <1>1
  <2>2. subscriptions[p] \in Entries
    BY DEF TypeOK
  <2>3. /\ [subscriptions[p] EXCEPT !.state = s].state = s
        /\ [subscriptions[p] EXCEPT !.state = s].filter = subscriptions[p].filter
    BY <2>2 DEF Entries
  <2> QED BY <2>1, <2>3
<1>2. CASE codes[1] = "granted"
  BY <1>1, <1>2 DEF Confirm, Activate
<1>3. CASE codes[1] # "granted"
  BY <1>1, <1>3 DEF Confirm, Fail
<1> QED BY <1>2, <1>3

\* The packets under way after one is received.
LEMMA ReceiveDown ==
    ASSUME TypeOK, NumberingInv, Live, NoWrap, Receive
    PROVE  /\ toClient # <<>> /\ Head(toClient) \in ToClient
           /\ Down = Down' \cup {Head(toClient)}
           /\ Head(toClient).pid \in Nat
           /\ \A q \in Down' \cup Up : Head(toClient).pid < q.pid
<1>1. toClient # <<>> /\ toClient' = Tail(toClient) /\ Head(toClient) \in ToClient
  BY TailType DEF Receive, TypeOK
<1>2. Head(toClient).pid \in Nat
  BY <1>1, Numbers DEF ToClient, Pids
<1>3. Numbered
  BY DEF NumberingInv
<1>4. Down = Down' \cup {Head(toClient)} /\ \A q \in Down' : Head(toClient).pid < q.pid
  BY <1>1, <1>3, TailPid DEF Down, Numbered, TypeOK
<1> QED BY <1>1, <1>2, <1>3, <1>4 DEF Numbered

LEMMA ReceiveNumbered ==
    ASSUME TypeOK, NumberingInv, Receive
    PROVE  NumberingInv'
<1> DEFINE packet == Head(toClient)
<1>1. UNCHANGED <<nextPid, connected, link, toBroker, granted, allocated>> /\ toClient' = Tail(toClient)
  BY DEF Receive, ghosts
<1>2. \/ UNCHANGED <<subscriptions, active>>
      \/ packet.type = "SUBACK" /\ packet.pid \in DOMAIN subscriptions /\ Confirm(packet.pid, packet.codes)
  BY DEF Receive
<1>3. CASE ~Live
  BY <1>1, <1>2, <1>3 DEF NumberingInv, Live
<1>4. CASE Live
  <2> SUFFICES ASSUME NoWrap' PROVE Numbered' /\ Backed'
    BY DEF NumberingInv
  <2>1. NoWrap /\ Numbered /\ Backed
    BY <1>1, <1>4 DEF NoWrap, NumberingInv
  <2>2. /\ toClient # <<>> /\ Down = Down' \cup {packet} /\ Up' = Up
        /\ packet.pid \in Nat /\ \A q \in Down' \cup Up : packet.pid < q.pid
    BY <1>1, <1>4, <2>1, ReceiveDown DEF Up
  <2>3. Increasing(toClient')
    BY <1>1, <2>1, <2>2, TailPid DEF Numbered, TypeOK
  <2>4. packet.pid \in DOMAIN subscriptions => subscriptions[packet.pid].state = "Pending"
    BY <2>1, <2>2 DEF Numbered
  <2>5. \A q \in Down' \cup Up : q.pid \in Nat
    <3>1. \A q \in Up : q \in ToBroker
      BY DEF TypeOK, Up, Range
    <3>2. \A q \in Down : q \in ToClient
      BY DEF TypeOK, Down, Range
    <3> QED BY <2>2, <3>1, <3>2, Numbers DEF ToBroker, ToClient, Pids
  <2> HIDE DEF packet
  <2>6. /\ DOMAIN subscriptions' = DOMAIN subscriptions
        /\ \A q \in DOMAIN subscriptions : q # packet.pid => subscriptions'[q] = subscriptions[q]
    BY <1>2, ConfirmEntries
  <2>7. ASSUME NEW q \in Down' \cup Up
        PROVE  q.pid \in DOMAIN subscriptions' => subscriptions'[q.pid].state = "Pending"
    <3>1. packet.pid < q.pid /\ packet.pid \in Nat /\ q.pid \in Nat
      BY <2>2, <2>5
    <3>2. q.pid # packet.pid
      BY <3>1
    <3> QED BY <2>1, <2>2, <2>6, <3>2 DEF Numbered
  <2>8. Numbered'
    BY <1>1, <2>1, <2>2, <2>3, <2>6, <2>7 DEF Numbered
  <2>9. Backed'
    <3>1. CASE UNCHANGED <<subscriptions, active>>
      BY <2>1, <3>1 DEF Backed, EntriesOf
    <3>2. CASE packet.pid \in DOMAIN subscriptions /\ Confirm(packet.pid, packet.codes)
      <4>1. ASSUME NEW f \in active
            PROVE  \E p \in EntriesOf(f)' : subscriptions'[p].state = "Active"
        <5>1. PICK p \in EntriesOf(f) : subscriptions[p].state = "Active"
          BY <2>1 DEF Backed
        <5>2. p # packet.pid
          BY <2>4, <5>1 DEF EntriesOf
        <5> QED BY <2>6, <5>1, <5>2 DEF EntriesOf
      <4>2. CASE packet.codes[1] = "granted"
        <5>1. /\ subscriptions'[packet.pid].state = "Active"
              /\ subscriptions'[packet.pid].filter = subscriptions[packet.pid].filter
              /\ active' \subseteq active \cup {subscriptions[packet.pid].filter}
          BY <3>2, <4>2, ConfirmEntries
        <5> QED BY <2>6, <3>2, <4>1, <5>1 DEF Backed, EntriesOf
      <4>3. CASE packet.codes[1] # "granted"
        <5>1. active' = active
          BY <3>2, <4>3, ConfirmEntries
        <5> QED BY <4>1, <5>1 DEF Backed
      <4> QED BY <4>2, <4>3
    <3> QED BY <1>2, <3>1, <3>2
  <2> QED BY <2>8, <2>9
<1> QED BY <1>3, <1>4

\* A broken link or a new one leaves fewer packets under way, a cleared
\* session none that it knows.
LEMMA ConnectNumbered ==
    ASSUME TypeOK, NumberingInv, PollFails \/ ConnectFails \/ Reconnect \/ BreakLink
    PROVE  NumberingInv'
<1>1. ASSUME ClearSession PROVE DOMAIN subscriptions' = {} /\ active' = {}
                                /\ nextPid' = 1 /\ allocated' = 0
  BY <1>1 DEF ClearSession
<1>2. CASE ConnectFails
  <2>1. connected' = FALSE /\ UNCHANGED <<toBroker, toClient>>
    BY <1>2 DEF ConnectFails
  <2>2. CASE CleanSession
    BY <1>1, <1>2, <2>1, <2>2 DEF ConnectFails, NumberingInv, Live
  <2>3. CASE ~CleanSession
    BY <1>2, <2>1, <2>3
       DEF ConnectFails, NumberingInv, Live, session, ghosts, Numbered, Backed, NoWrap, EntriesOf,
           Up, Down
  <2> QED BY <2>2, <2>3
<1>3. CASE Reconnect
  <2>1. /\ connected' = TRUE /\ toBroker' = <<>> /\ toClient' = <<>>
        /\ \/ ClearSession
           \/ ~CleanSession /\ UNCHANGED <<nextPid, subscriptions, active, allocated>>
    BY <1>3 DEF Reconnect, session
  <2>2. Up' = {} /\ Down' = {} /\ Increasing(toBroker') /\ Increasing(toClient') /\ Live'
    BY <2>1, EmptyPid DEF Up, Down, Live
  <2>3. CASE ClearSession
    BY <1>1, <2>2, <2>3 DEF NumberingInv, Numbered, Backed
  <2>4. CASE ~CleanSession /\ UNCHANGED <<nextPid, subscriptions, active, allocated>>
    BY <2>2, <2>4 DEF NumberingInv, Numbered, Backed, Live, NoWrap, EntriesOf
  <2> QED BY <2>1, <2>3, <2>4
<1>4. CASE BreakLink
  <2>1. /\ toBroker' = <<>>
        /\ UNCHANGED <<nextPid, subscriptions, active, connected, toClient, allocated>>
    BY <1>4 DEF BreakLink, session
  <2>2. Up' = {} /\ Increasing(toBroker') /\ Down' = Down
    BY <2>1, EmptyPid DEF Up, Down
  <2> QED BY <2>1, <2>2 DEF NumberingInv, Numbered, Backed, Live, NoWrap, EntriesOf
<1>5. CASE PollFails
  <2>1. UNCHANGED <<nextPid, subscriptions, active, toBroker, toClient, allocated>> /\ connected
    BY <1>5 DEF PollFails, session, ghosts
  <2> QED BY <2>1 DEF NumberingInv, Numbered, Backed, Live, NoWrap, EntriesOf, Up, Down
<1> QED BY <1>2, <1>3, <1>4, <1>5

\* The broker answers the first packet under its own identifier.
LEMMA BrokerTakesPid ==
    ASSUME TypeOK, NumberingInv, Live, NoWrap, NEW type, BrokerTakes(type),
           NEW ack, toClient' = Append(toClient, ack), ack.pid = Head(toBroker).pid
    PROVE  /\ Up = Up' \cup {Head(toBroker)} /\ Down' = Down \cup {ack}
           /\ Head(toBroker) \in ToBroker /\ Head(toBroker).pid \in Nat
           /\ \A q \in Up' : Head(toBroker).pid < q.pid
           /\ \A q \in Down : q.pid < Head(toBroker).pid
           /\ Increasing(toBroker') /\ Increasing(toClient')
<1>1. toBroker # <<>> /\ toBroker' = Tail(toBroker) /\ Head(toBroker) \in ToBroker
  BY TailType DEF BrokerTakes, TypeOK
<1>2. Head(toBroker).pid \in Nat
  BY <1>1, Numbers DEF ToBroker, Pids
<1>3. Numbered
  BY DEF NumberingInv
<1>4. /\ Up = Up' \cup {Head(toBroker)} /\ \A q \in Up' : Head(toBroker).pid < q.pid
      /\ Increasing(toBroker')
  BY <1>1, <1>3, TailPid DEF Up, Numbered, TypeOK
<1>5. \A q \in Down : q.pid < ack.pid
  BY <1>3, <1>4 DEF Numbered
<1>6. Down' = Down \cup {ack} /\ Increasing(toClient')
  BY <1>3, <1>5, AppendPid DEF Down, Numbered, TypeOK
<1> QED BY <1>1, <1>2, <1>4, <1>5, <1>6

LEMMA BrokerStep ==
    ASSUME Broker
    PROVE  \E type, ack :
               /\ BrokerTakes(type) /\ toClient' = Append(toClient, ack)
               /\ ack.pid = Head(toBroker).pid
<1>1. CASE BrokerSubscribe
  <2>1. PICK codes \in [DOMAIN Head(toBroker).filters -> {"granted", "refused"}] :
            toClient' = Append(toClient, [type |-> "SUBACK", pid |-> Head(toBroker).pid,
                                          codes |-> codes])
    BY <1>1 DEF BrokerSubscribe
  <2>2. [type |-> "SUBACK", pid |-> Head(toBroker).pid, codes |-> codes].pid = Head(toBroker).pid
    OBVIOUS
  <2>3. BrokerTakes("SUBSCRIBE")
    BY <1>1 DEF BrokerSubscribe
  <2> QED BY <2>1, <2>2, <2>3
<1>2. CASE BrokerUnsubscribe
  <2>1. [type |-> "UNSUBACK", pid |-> Head(toBroker).pid].pid = Head(toBroker).pid
    OBVIOUS
  <2> QED BY <1>2, <2>1 DEF BrokerUnsubscribe
<1> QED BY <1>1, <1>2 DEF Broker

LEMMA BrokerNumbered ==
    ASSUME TypeOK, NumberingInv, Broker
    PROVE  NumberingInv'
<1>1. PICK type, ack :
          /\ BrokerTakes(type) /\ toClient' = Append(toClient, ack)
          /\ ack.pid = Head(toBroker).pid
  BY BrokerStep
<1>2. UNCHANGED <<nextPid, subscriptions, active, connected, allocated>>
  BY <1>1 DEF BrokerTakes, session, ghosts
<1> SUFFICES ASSUME Live', NoWrap' PROVE Numbered' /\ Backed'
  BY <1>2 DEF NumberingInv, Live
<1>3. Live /\ NoWrap /\ Numbered /\ Backed
  BY <1>2 DEF Live, NoWrap, NumberingInv
<1>4. /\ Up = Up' \cup {Head(toBroker)} /\ Down' = Down \cup {ack}
      /\ \A q \in Up' : Head(toBroker).pid < q.pid
      /\ Increasing(toBroker') /\ Increasing(toClient')
  BY <1>1, <1>3, BrokerTakesPid
<1>5. \A c \in Down', b \in Up' : c.pid < b.pid
  BY <1>1, <1>3, <1>4 DEF Numbered
<1>6. ASSUME NEW packet \in Up' \cup Down'
      PROVE  /\ packet.pid <= allocated
             /\ packet.pid \in DOMAIN subscriptions => subscriptions[packet.pid].state = "Pending"
  BY <1>1, <1>3, <1>4 DEF Numbered
<1>7. Numbered'
  BY <1>2, <1>3, <1>4, <1>5, <1>6 DEF Numbered
<1>8. Backed'
  BY <1>2, <1>3 DEF Backed, EntriesOf
<1> QED BY <1>7, <1>8

LEMMA InitNumbered == Init => NumberingInv
BY EmptyPid, Numbers DEF Init, NumberingInv, Numbered, Backed, Up, Down, Live

LEMMA NextNumbered == TypeOK /\ NumberingInv /\ [Next]_vars => NumberingInv'
<1>1. TypeOK /\ NumberingInv /\ UNCHANGED vars => NumberingInv'
  BY DEF NumberingInv, Numbered, Backed, EntriesOf, Up, Down, Live, NoWrap, vars, session, ghosts
<1>2. TypeOK /\ NumberingInv /\ Next => NumberingInv'
  BY SubscribeNumbered, UnsubscribeNumbered, ReceiveNumbered, ConnectNumbered, BrokerNumbered DEF Next
<1> QED BY <1>1, <1>2

LEMMA NumberingInvariant == Spec => []NumberingInv
<1> HIDE DEF NumberingInv, TypeOK
<1> QED BY InitTyped, NextTyped, InitNumbered, NextNumbered, PTL DEF Spec

\* An active topic has an entry in state Active, whatever is subscribed to
\* twice, refused, removed while it is confirmed or sent in one request: a
\* SUBACK finds a pending entry or none (confirm_subscription,
\* remove_subscription).
THEOREM ActiveTopicsBacked == Spec => []ActiveHasEntry
<1>1. NumberingInv => ActiveHasEntry
  BY DEF NumberingInv, ActiveHasEntry, Backed, Live
<1> HIDE DEF NumberingInv
<1> QED BY <1>1, NumberingInvariant, PTL

-----------------------------------------------------------------------------
(* Agreement.  With one filter in a request and no filter subscribed to      *)
(* twice, the last packet about a filter says what the session believes, a   *)
(* subscribe and an unsubscribe take turns, and an entry that is no longer   *)
(* pending says what the broker holds.                                       *)

OneByOne == MaxRequest = 1 /\ ~Resubscribe

SubscribesTo(f) == {b \in Up : b.type = "SUBSCRIBE" /\ b.filters[1] = f}
UnsubscribesFrom(f) == {b \in Up : b.type = "UNSUBSCRIBE" /\ b.filters[1] = f}
About(f) == SubscribesTo(f) \cup UnsubscribesFrom(f)

\* One entry, for a filter that was asked for.
Single(f) ==
    /\ \A p, q \in EntriesOf(f) : p = q
    /\ EntriesOf(f) # {} => f \in asked

LastWord(f) ==
    /\ EntriesOf(f) = {} =>
           \A b \in About(f) : \E u \in UnsubscribesFrom(f) : b.pid <= u.pid
    /\ \A p \in EntriesOf(f), b \in About(f) :
           b.pid <= p /\ \E s \in SubscribesTo(f) : s.pid = p

Turns(f) ==
    /\ \A s, t \in SubscribesTo(f) : s.pid < t.pid =>
           \E u \in UnsubscribesFrom(f) : s.pid < u.pid /\ u.pid < t.pid
    /\ f \in granted => \A s \in SubscribesTo(f) : \E u \in UnsubscribesFrom(f) : u.pid < s.pid
    /\ f \in granted /\ EntriesOf(f) = {} => UnsubscribesFrom(f) # {}

\* A SUBACK under way for the entry p of f says what the broker holds.
Answered(f, p) == \E c \in Down :
    c.type = "SUBACK" /\ c.pid = p /\ (c.codes[1] = "granted" <=> f \in granted)

Truthful(f) == \A p \in EntriesOf(f) :
    /\ subscriptions[p].state = "Active" => f \in granted
    /\ subscriptions[p].state = "Failed" => f \notin granted
    /\ subscriptions[p].state = "Pending" =>
           (\E s \in SubscribesTo(f) : s.pid = p) \/ Answered(f, p)
    /\ subscriptions[p].state = "Active" <=> f \in active

Agreement(f) == Single(f) /\ LastWord(f) /\ Turns(f) /\ Truthful(f)
AgreementInv == NoWrap /\ Live => \A f \in Filters \ unsure : Agreement(f)

LEMMA OneFilter ==
    ASSUME OneByOne, NEW filters \in Requests
    PROVE  /\ filters \in [{1} -> Filters] /\ Len(filters) = 1
           /\ Range(filters) = {filters[1]} /\ filters[1] \in Filters
<1>1. PICK n \in 1..1 : filters \in [1..n -> Filters]
  BY DEF Requests, OneByOne
<1>2. filters \in [1..1 -> Filters]
  BY <1>1
<1>3. 1..1 = {1}
  OBVIOUS
<1> QED BY <1>2, <1>3 DEF Range

\* A filter that a step is not about.
LEMMA Unaffected ==
    ASSUME NEW f, Agreement(f), EntriesOf(f)' = EntriesOf(f),
           \A p \in EntriesOf(f) : subscriptions'[p].state = subscriptions[p].state,
           SubscribesTo(f)' = SubscribesTo(f), UnsubscribesFrom(f)' = UnsubscribesFrom(f),
           f \in active <=> f \in active', f \in granted <=> f \in granted',
           f \in asked => f \in asked',
           \A c \in Down : c.type = "SUBACK" /\ c.pid \in EntriesOf(f) => c \in Down'
    PROVE  Agreement(f)'
<1>1. Single(f)'
  BY DEF Agreement, Single
<1>2. LastWord(f)' /\ Turns(f)'
  BY DEF Agreement, LastWord, Turns, About
<1>3. Truthful(f)'
  <2> SUFFICES ASSUME NEW p \in EntriesOf(f)
               PROVE  /\ subscriptions'[p].state = "Active" => f \in granted'
                      /\ subscriptions'[p].state = "Failed" => f \notin granted'
                      /\ subscriptions'[p].state = "Pending" =>
                             (\E s \in SubscribesTo(f)' : s.pid = p) \/ Answered(f, p)'
                      /\ subscriptions'[p].state = "Active" <=> f \in active'
    BY DEF Truthful
  <2>1. Answered(f, p) => Answered(f, p)'
    BY DEF Answered
  <2> QED BY <2>1 DEF Agreement, Truthful
<1> QED BY <1>1, <1>2, <1>3 DEF Agreement

LEMMA NumberTypes ==
    ASSUME TypeOK
    PROVE  /\ \A q \in Up : q \in ToBroker /\ q.pid \in Nat
           /\ \A q \in Down : q \in ToClient /\ q.pid \in Nat
           /\ DOMAIN subscriptions \subseteq Nat
<1>1. \A q \in Up : q \in ToBroker
  BY DEF TypeOK, Up, Range
<1>2. \A q \in Down : q \in ToClient
  BY DEF TypeOK, Down, Range
<1>3. Pids \subseteq Nat
  BY Numbers DEF Pids
<1> QED BY <1>1, <1>2, <1>3 DEF ToBroker, ToClient, TypeOK

LEMMA DistinctPids ==
    ASSUME TypeOK, Numbered, NEW a \in Up, NEW b \in Up, a # b
    PROVE  a.pid # b.pid
<1>1. PICK i \in DOMAIN toBroker, j \in DOMAIN toBroker : a = toBroker[i] /\ b = toBroker[j]
  BY DEF Up, Range
<1>2. i \in Nat /\ j \in Nat /\ i # j
  BY <1>1 DEF TypeOK
<1>3. a.pid < b.pid \/ b.pid < a.pid
  BY <1>1, <1>2 DEF Numbered, Increasing
<1> QED BY <1>3, NumberTypes

\* What is under way about a filter after a send.
LEMMA SendAbout ==
    ASSUME NEW packet, NEW f, Up' = Up \cup {packet}
    PROVE  /\ SubscribesTo(f)' = IF packet.type = "SUBSCRIBE" /\ packet.filters[1] = f
                                 THEN SubscribesTo(f) \cup {packet} ELSE SubscribesTo(f)
           /\ UnsubscribesFrom(f)' = IF packet.type = "UNSUBSCRIBE" /\ packet.filters[1] = f
                                     THEN UnsubscribesFrom(f) \cup {packet} ELSE UnsubscribesFrom(f)
  BY DEF SubscribesTo, UnsubscribesFrom

\* Nothing under way about other filters than that of the packet.
LEMMA SendOthers ==
    ASSUME TypeOK, NEW packet, NEW outcome, Send(packet, outcome), NEW f, packet.filters[1] # f
    PROVE  SubscribesTo(f)' = SubscribesTo(f) /\ UnsubscribesFrom(f)' = UnsubscribesFrom(f)
<1>1. Up' = Up \/ Up' = Up \cup {packet}
  BY SendUp
<1>2. CASE Up' = Up
  BY <1>2 DEF SubscribesTo, UnsubscribesFrom
<1>3. CASE Up' = Up \cup {packet}
  BY <1>3, SendAbout
<1> QED BY <1>1, <1>2, <1>3

LEMMA SubscribeAgrees ==
    ASSUME OneByOne, TypeOK, NumberingInv, AgreementInv, NEW filters \in Requests, Subscribe(filters)
    PROVE  AgreementInv'
<1> DEFINE g == filters[1]
<1>1. /\ connected /\ Live /\ TakePid /\ nextPid \in Pids /\ g \notin asked
      /\ UNCHANGED <<active, toClient, granted>> /\ Down' = Down /\ active' = active
  BY OneFilter DEF Subscribe, Live, TypeOK, OneByOne, Down
<1>2. PICK outcome \in {"sent", "lost", "written"}, packet \in SubscribePackets(filters, nextPid) :
          /\ Send(packet, outcome)
          /\ subscriptions' = IF outcome = "sent" /\ Room(DOMAIN subscriptions)
                              THEN Added(nextPid, filters) ELSE subscriptions
          /\ asked' = IF outcome = "sent" /\ ~Refused(nextPid, filters)
                      THEN asked \cup Range(filters) ELSE asked
          /\ unsure' = IF outcome = "sent" /\ ~Refused(nextPid, filters) /\ link
                       THEN unsure ELSE unsure \cup Range(filters)
  BY DEF Subscribe
<1>3. /\ packet.type = "SUBSCRIBE" /\ packet.pid = nextPid /\ packet.filters = filters
      /\ packet.filters[1] = g
  BY <1>1, <1>2, PacketFields
<1> SUFFICES ASSUME NoWrap', NEW f \in Filters \ unsure' PROVE Agreement(f)'
  BY DEF AgreementInv
<1>4. NoWrap /\ allocated < MaxPid /\ allocated \in Nat
  BY <1>1, Numbers DEF TakePid, NoWrap, TypeOK
<1>5. Numbered /\ Backed /\ nextPid = allocated + 1
  BY <1>1, <1>4 DEF NumberingInv, Numbered
<1>6. nextPid \notin DOMAIN subscriptions
  BY <1>4, <1>5 DEF Numbered
<1>7. f \in Filters \ unsure /\ Agreement(f)
  BY <1>1, <1>2, <1>4 DEF AgreementInv
<1>8. /\ DOMAIN Added(nextPid, filters) = DOMAIN subscriptions \cup {nextPid}
      /\ Added(nextPid, filters)[nextPid].state = "Pending"
      /\ Added(nextPid, filters)[nextPid].filter = g
      /\ \A p \in DOMAIN subscriptions : Added(nextPid, filters)[p] = subscriptions[p]
  BY <1>1, <1>6, OneFilter, AddedEntries
<1> HIDE DEF Added, g
<1>9. CASE f # g
  <2>1. EntriesOf(f)' = EntriesOf(f)
    BY <1>2, <1>8, <1>9 DEF EntriesOf
  <2>2. \A p \in EntriesOf(f) : subscriptions'[p].state = subscriptions[p].state
    BY <1>2, <1>8 DEF EntriesOf
  <2>3. SubscribesTo(f)' = SubscribesTo(f) /\ UnsubscribesFrom(f)' = UnsubscribesFrom(f)
    BY <1>2, <1>3, <1>9, SendOthers
  <2>4. f \in asked => f \in asked'
    BY <1>2
  <2> QED BY <1>1, <1>7, <2>1, <2>2, <2>3, <2>4, Unaffected
<1>10. CASE f = g
  <2>1. outcome = "sent" /\ ~Refused(nextPid, filters) /\ link
    BY <1>2, <1>10, OneFilter DEF g
  <2>2. subscriptions' = Added(nextPid, filters) /\ g \in asked' /\ Up' = Up \cup {packet}
    BY <1>2, <2>1, OneFilter, SendUp DEF Refused, g
  <2>3. SubscribesTo(f)' = SubscribesTo(f) \cup {packet} /\ UnsubscribesFrom(f)' = UnsubscribesFrom(f)
    BY <1>3, <1>10, <2>2, SendAbout
  <2>4. EntriesOf(f) = {}
    BY <1>1, <1>7, <1>10 DEF Agreement, Single
  <2>5. EntriesOf(f)' = {nextPid} /\ subscriptions'[nextPid].state = "Pending"
    BY <1>8, <1>10, <2>2, <2>4 DEF EntriesOf
  <2>6. \A b \in About(f) : b.pid \in Nat /\ b.pid < nextPid
    BY <1>4, <1>5, NumberTypes DEF About, SubscribesTo, UnsubscribesFrom, Numbered
  <2>7. \A b \in SubscribesTo(f) : \E u \in UnsubscribesFrom(f) : b.pid < u.pid
    <3> SUFFICES ASSUME NEW b \in SubscribesTo(f) PROVE \E u \in UnsubscribesFrom(f) : b.pid < u.pid
      OBVIOUS
    <3>1. PICK u \in UnsubscribesFrom(f) : b.pid <= u.pid
      BY <1>7, <2>4 DEF Agreement, LastWord, About
    <3>2. b \in Up /\ u \in Up /\ b.pid \in Nat /\ u.pid \in Nat
      BY NumberTypes DEF SubscribesTo, UnsubscribesFrom
    <3>3. b.pid # u.pid
      <4>1. b # u
        BY DEF SubscribesTo, UnsubscribesFrom
      <4> QED BY <1>5, <3>2, <4>1, DistinctPids
    <3> QED BY <3>1, <3>2, <3>3
  <2>8. Single(f)'
    BY <1>10, <2>2, <2>5 DEF Single
  <2>9. LastWord(f)'
    <3>1. \A b \in About(f)' : b.pid <= nextPid
      BY <1>3, <1>4, <1>5, <2>3, <2>6 DEF About
    <3> QED BY <1>3, <2>3, <2>5, <3>1 DEF LastWord
  <2>10. Turns(f)'
    <3>1. ASSUME NEW s \in SubscribesTo(f)', NEW t \in SubscribesTo(f)', s.pid < t.pid
          PROVE  \E u \in UnsubscribesFrom(f) : s.pid < u.pid /\ u.pid < t.pid
      <4>1. CASE t = packet
        <5>1. s \in SubscribesTo(f)
          BY <1>3, <1>4, <1>5, <2>3, <3>1, <4>1
        <5> QED BY <1>3, <2>6, <2>7, <4>1, <5>1 DEF About
      <4>2. CASE t \in SubscribesTo(f)
        <5>1. s \in SubscribesTo(f)
          <6>1. t.pid \in Nat /\ t.pid < nextPid
            BY <2>6, <4>2 DEF About
          <6> QED BY <1>3, <1>4, <1>5, <2>3, <3>1, <6>1
        <5> QED BY <1>7, <3>1, <4>2, <5>1 DEF Agreement, Turns
      <4> QED BY <2>3, <4>1, <4>2
    <3>2. ASSUME f \in granted, NEW s \in SubscribesTo(f)'
          PROVE  \E u \in UnsubscribesFrom(f) : u.pid < s.pid
      <4>1. CASE s \in SubscribesTo(f)
        BY <1>7, <3>2, <4>1 DEF Agreement, Turns
      <4>2. CASE s = packet
        <5>1. UnsubscribesFrom(f) # {}
          BY <1>7, <2>4, <3>2 DEF Agreement, Turns
        <5> QED BY <1>3, <2>6, <4>2, <5>1 DEF About
      <4> QED BY <2>3, <4>1, <4>2
    <3> QED BY <1>1, <2>3, <2>5, <3>1, <3>2 DEF Turns
  <2>11. Truthful(f)'
    <3>1. f \notin active'
      BY <1>1, <1>5, <2>4 DEF Backed
    <3> QED BY <1>3, <2>3, <2>5, <3>1 DEF Truthful
  <2> QED BY <2>8, <2>9, <2>10, <2>11 DEF Agreement
<1> QED BY <1>9, <1>10

LEMMA UnsubscribeAgrees ==
    ASSUME OneByOne, TypeOK, NumberingInv, AgreementInv,
           NEW filters \in Requests, Unsubscribe(filters)
    PROVE  AgreementInv'
<1> DEFINE g == filters[1]
           packet == UnsubscribePacket(filters, nextPid)
<1>1. /\ connected /\ Live /\ TakePid /\ nextPid \in Pids /\ g \in Filters
      /\ DOMAIN filters = {1} /\ Range(filters) = {g}
      /\ UNCHANGED <<toClient, granted>> /\ Down' = Down
  BY OneFilter DEF Unsubscribe, Live, TypeOK, Down
<1>2. PICK outcome \in {"sent", "lost", "written"} :
          /\ Send(packet, outcome)
          /\ IF outcome = "sent" THEN Removed(filters) /\ asked' = asked \ Range(filters)
                                 ELSE UNCHANGED <<subscriptions, active, asked>>
          /\ unsure' = IF outcome = "sent" /\ link THEN unsure ELSE unsure \cup Range(filters)
  BY DEF Unsubscribe
<1>3. packet.type = "UNSUBSCRIBE" /\ packet.pid = nextPid /\ packet.filters[1] = g
  BY <1>1, PacketFields
<1> SUFFICES ASSUME NoWrap', NEW f \in Filters \ unsure' PROVE Agreement(f)'
  BY DEF AgreementInv
<1>4. NoWrap /\ allocated < MaxPid /\ allocated \in Nat
  BY <1>1, Numbers DEF TakePid, NoWrap, TypeOK
<1>5. Numbered /\ Backed /\ nextPid = allocated + 1
  BY <1>1, <1>4 DEF NumberingInv, Numbered
<1>6. f \in Filters \ unsure /\ Agreement(f)
  BY <1>1, <1>2, <1>4 DEF AgreementInv
<1> HIDE DEF packet
<1>7. ASSUME Removed(filters)
      PROVE  \E gone \in SUBSET DOMAIN subscriptions :
                 /\ \A h \in Filters : h # g => gone \cap EntriesOf(h) = {}
                 /\ \A p : EntriesOf(g) = {p} => p \in gone
                 /\ DOMAIN subscriptions' = DOMAIN subscriptions \ gone
                 /\ \A p \in DOMAIN subscriptions' : subscriptions'[p] = subscriptions[p]
                 /\ active' = active \ {subscriptions[p].filter : p \in gone}
  <2>1. PICK gone \in SUBSET DOMAIN subscriptions :
            /\ \A h \in Filters :
                   Cardinality(gone \cap EntriesOf(h)) =
                       Least(Cardinality(EntriesOf(h)),
                             Cardinality({i \in DOMAIN filters : filters[i] = h}))
            /\ DOMAIN subscriptions' = DOMAIN subscriptions \ gone
            /\ \A p \in DOMAIN subscriptions' : subscriptions'[p] = subscriptions[p]
            /\ active' = active \ {subscriptions[p].filter : p \in gone}
    BY <1>7, RemovedEntries
  <2>2. ASSUME NEW h \in Filters
        PROVE  /\ IsFiniteSet(EntriesOf(h)) /\ IsFiniteSet(gone \cap EntriesOf(h))
               /\ Cardinality(EntriesOf(h)) \in Nat
    <3>1. EntriesOf(h) \subseteq DOMAIN subscriptions
      BY DEF EntriesOf
    <3>2. IsFiniteSet(EntriesOf(h))
      BY <3>1, FiniteEntries, FS_Subset
    <3> QED BY <3>2, FS_Subset, FS_CardinalityType
  <2>3. ASSUME NEW h \in Filters, h # g PROVE gone \cap EntriesOf(h) = {}
    <3>1. {i \in DOMAIN filters : filters[i] = h} = {}
      BY <1>1, <2>3
    <3>2. Cardinality(gone \cap EntriesOf(h)) = 0
      BY <2>1, <2>2, <3>1, FS_EmptySet DEF Least
    <3> QED BY <2>2, <3>2, FS_EmptySet
  <2>4. ASSUME NEW p, EntriesOf(g) = {p} PROVE p \in gone
    <3>1. {i \in DOMAIN filters : filters[i] = g} = {1}
      BY <1>1
    <3>2. Cardinality({1}) = 1 /\ Cardinality({p}) = 1
      BY FS_Singleton
    <3>3. Cardinality(gone \cap EntriesOf(g)) = 1
      BY <1>1, <2>1, <2>4, <3>1, <3>2 DEF Least
    <3>4. gone \cap EntriesOf(g) # {}
      BY <3>3, FS_EmptySet
    <3> QED BY <2>4, <3>4
  <2> QED BY <2>1, <2>3, <2>4
<1> HIDE DEF g
<1>8. CASE f # g
  <2>1. /\ EntriesOf(f)' = EntriesOf(f)
        /\ \A p \in EntriesOf(f) : subscriptions'[p].state = subscriptions[p].state
        /\ f \in active <=> f \in active'
    <3>1. CASE Removed(filters)
      <4>1. PICK gone \in SUBSET DOMAIN subscriptions :
                /\ \A h \in Filters : h # g => gone \cap EntriesOf(h) = {}
                /\ DOMAIN subscriptions' = DOMAIN subscriptions \ gone
                /\ \A p \in DOMAIN subscriptions' : subscriptions'[p] = subscriptions[p]
                /\ active' = active \ {subscriptions[p].filter : p \in gone}
        BY <1>7, <3>1
      <4>2. \A p \in gone : p \in DOMAIN subscriptions /\ subscriptions[p].filter # f
        BY <1>8, <4>1 DEF EntriesOf
      <4> QED BY <4>1, <4>2 DEF EntriesOf
    <3>2. CASE UNCHANGED <<subscriptions, active>>
      BY <3>2 DEF EntriesOf
    <3> QED BY <1>2, <3>1, <3>2
  <2>2. SubscribesTo(f)' = SubscribesTo(f) /\ UnsubscribesFrom(f)' = UnsubscribesFrom(f)
    BY <1>2, <1>3, <1>8, SendOthers
  <2>3. f \in asked => f \in asked'
    BY <1>1, <1>2, <1>8
  <2> QED BY <1>1, <1>6, <2>1, <2>2, <2>3, Unaffected
<1>9. CASE f = g
  <2>1. outcome = "sent" /\ link
    BY <1>1, <1>2, <1>9
  <2>2. Removed(filters) /\ Up' = Up \cup {packet}
    BY <1>2, <2>1, SendUp
  <2>3. SubscribesTo(f)' = SubscribesTo(f) /\ UnsubscribesFrom(f)' = UnsubscribesFrom(f) \cup {packet}
    BY <1>3, <1>9, <2>2, SendAbout
  <2>4. EntriesOf(f)' = {}
    <3>1. PICK gone \in SUBSET DOMAIN subscriptions :
              /\ \A p : EntriesOf(g) = {p} => p \in gone
              /\ DOMAIN subscriptions' = DOMAIN subscriptions \ gone
              /\ \A p \in DOMAIN subscriptions' : subscriptions'[p] = subscriptions[p]
      BY <1>7, <2>2
    <3>2. SUFFICES ASSUME NEW p \in EntriesOf(f)' PROVE FALSE
      OBVIOUS
    <3>3. p \in EntriesOf(f) /\ p \notin gone
      BY <3>1 DEF EntriesOf
    <3>4. EntriesOf(f) = {p}
      BY <1>6, <3>3 DEF Agreement, Single
    <3> QED BY <1>9, <3>1, <3>3, <3>4
  <2>5. Single(f)' /\ Truthful(f)'
    BY <2>4 DEF Single, Truthful
  <2>6. \A b \in About(f)' : b.pid <= nextPid
    <3>1. \A b \in About(f) : b.pid \in Nat /\ b.pid <= allocated
      BY <1>5, NumberTypes DEF About, SubscribesTo, UnsubscribesFrom, Numbered
    <3> QED BY <1>3, <1>4, <1>5, <2>3, <3>1 DEF About
  <2>7. LastWord(f)'
    BY <1>3, <2>3, <2>4, <2>6 DEF LastWord
  <2>8. Turns(f)'
    BY <1>1, <1>6, <2>3 DEF Turns, Agreement
  <2> QED BY <2>5, <2>7, <2>8 DEF Agreement
<1> QED BY <1>8, <1>9

\* There is room among the active topics for the filter of a pending entry.
LEMMA RoomToActivate ==
    ASSUME TypeOK, IsFiniteSet(active), WithinLimit, Backed,
           NEW p \in DOMAIN subscriptions, subscriptions[p].state = "Pending"
    PROVE  Cardinality(active) < Capacity
<1> DEFINE others == DOMAIN subscriptions \ {p}
           filterOf == [q \in others |-> subscriptions[q].filter]
           filters == {subscriptions[q].filter : q \in others}
<1>1. IsFiniteSet(DOMAIN subscriptions) /\ Cardinality(DOMAIN subscriptions) <= Capacity
  BY FiniteEntries DEF WithinLimit
<1>2. /\ IsFiniteSet(others) /\ Cardinality(others) = Cardinality(DOMAIN subscriptions) - 1
      /\ Cardinality(DOMAIN subscriptions) \in Nat
  BY <1>1, FS_RemoveElement, FS_CardinalityType
<1>3. active \subseteq filters
  <2> SUFFICES ASSUME NEW f \in active PROVE f \in filters
    OBVIOUS
  <2>1. PICK q \in EntriesOf(f) : subscriptions[q].state = "Active"
    BY DEF Backed
  <2>2. q \in others /\ subscriptions[q].filter = f
    BY <2>1 DEF EntriesOf
  <2> QED BY <2>2
<1>4. filterOf \in Surjection(others, filters)
  BY DEF Surjection
<1>5. IsFiniteSet(filters) /\ Cardinality(filters) <= Cardinality(others)
  BY <1>2, <1>4, FS_Surjection
<1>6. Cardinality(active) <= Cardinality(filters)
  BY <1>3, <1>5, FS_Subset
<1> QED BY <1>1, <1>2, <1>5, <1>6, FS_CardinalityType, Numbers

LEMMA ReceiveAgrees ==
    ASSUME OneByOne, Limited, NumberingInv, AgreementInv, Receive
    PROVE  AgreementInv'
<1> DEFINE packet == Head(toClient)
<1>1. /\ UNCHANGED <<connected, toBroker, granted, ghosts>> /\ TypeOK
      /\ IsFiniteSet(active) /\ WithinLimit
  BY DEF Receive, Limited
<1>2. \/ /\ packet.type = "SUBACK" => packet.pid \notin DOMAIN subscriptions
         /\ UNCHANGED <<subscriptions, active>>
      \/ packet.type = "SUBACK" /\ packet.pid \in DOMAIN subscriptions /\ Confirm(packet.pid, packet.codes)
  BY DEF Receive
<1> SUFFICES ASSUME NoWrap', Live', NEW f \in Filters \ unsure' PROVE Agreement(f)'
  BY DEF AgreementInv
<1>3. NoWrap /\ Live /\ Numbered /\ Backed
  <2>1. NoWrap
    BY <1>1 DEF NoWrap, ghosts
  <2>2. Live
    BY <1>1, <1>2, ConfirmEntries DEF Live
  <2> QED BY <2>1, <2>2 DEF NumberingInv
<1>4. Agreement(f)
  BY <1>1, <1>3 DEF AgreementInv, ghosts
<1>5. /\ Down = Down' \cup {packet} /\ packet.pid \in Nat
      /\ \A q \in Down' \cup Up : packet.pid < q.pid
  BY <1>1, <1>3, ReceiveDown
<1>6. Up' = Up /\ SubscribesTo(f)' = SubscribesTo(f) /\ UnsubscribesFrom(f)' = UnsubscribesFrom(f)
  BY <1>1 DEF Up, SubscribesTo, UnsubscribesFrom
<1>7. granted' = granted /\ asked' = asked
  BY <1>1 DEF ghosts
<1> HIDE DEF packet
<1>8. CASE UNCHANGED <<subscriptions, active>> /\
           (packet.type = "SUBACK" => packet.pid \notin DOMAIN subscriptions)
  <2>1. EntriesOf(f)' = EntriesOf(f) /\ EntriesOf(f) \subseteq DOMAIN subscriptions
    BY <1>8 DEF EntriesOf
  <2>2. \A c \in Down : c.type = "SUBACK" /\ c.pid \in EntriesOf(f) => c \in Down'
    BY <1>5, <1>8, <2>1
  <2> QED BY <1>4, <1>6, <1>7, <1>8, <2>1, <2>2, Unaffected
<1>9. CASE /\ packet.type = "SUBACK" /\ packet.pid \in DOMAIN subscriptions
           /\ Confirm(packet.pid, packet.codes)
  <2> DEFINE p == packet.pid
  <2>1. /\ DOMAIN subscriptions' = DOMAIN subscriptions
        /\ \A q \in DOMAIN subscriptions :
               /\ subscriptions'[q].filter = subscriptions[q].filter
               /\ q # p => subscriptions'[q] = subscriptions[q]
        /\ packet.codes[1] = "granted" =>
               /\ subscriptions'[p].state = "Active"
               /\ active' = IF Cardinality(active) < Capacity
                            THEN active \cup {subscriptions[p].filter} ELSE active
        /\ packet.codes[1] # "granted" => subscriptions'[p].state = "Failed" /\ active' = active
    BY <1>1, <1>9, ConfirmEntries
  <2>2. EntriesOf(f)' = EntriesOf(f)
    BY <2>1 DEF EntriesOf
  <2>3. subscriptions[p].state = "Pending" /\ Cardinality(active) < Capacity
    <3>1. subscriptions[p].state = "Pending"
      BY <1>3, <1>5, <1>9 DEF Numbered
    <3> QED BY <1>1, <1>3, <1>9, <3>1, RoomToActivate
  <2>4. CASE p \notin EntriesOf(f)
    <3>1. subscriptions[p].filter # f
      BY <1>9, <2>4 DEF EntriesOf
    <3>2. \A q \in EntriesOf(f) : subscriptions'[q].state = subscriptions[q].state
      BY <2>1, <2>4 DEF EntriesOf
    <3>3. f \in active <=> f \in active'
      BY <2>1, <3>1
    <3>4. \A c \in Down : c.type = "SUBACK" /\ c.pid \in EntriesOf(f) => c \in Down'
      BY <1>5, <2>4
    <3> QED BY <1>4, <1>6, <1>7, <2>2, <3>2, <3>3, <3>4, Unaffected
  <2>5. CASE p \in EntriesOf(f)
    <3>1. EntriesOf(f) = {p} /\ subscriptions[p].filter = f
      BY <1>4, <2>5 DEF Agreement, Single, EntriesOf
    <3>2. f \notin active
      BY <1>4, <2>3, <2>5 DEF Agreement, Truthful
    <3>3. packet.codes[1] = "granted" <=> f \in granted
      <4>1. \A s \in SubscribesTo(f) : s.pid # p
        BY <1>1, <1>5, NumberTypes DEF SubscribesTo
      <4>2. PICK c \in Down : c.pid = p /\ (c.codes[1] = "granted" <=> f \in granted)
        BY <1>4, <2>3, <2>5, <4>1 DEF Agreement, Truthful, Answered
      <4>3. c \notin Down'
        BY <1>5, <4>2
      <4> QED BY <1>5, <4>2, <4>3
    <3>4. Truthful(f)'
      <4>1. CASE packet.codes[1] = "granted"
        <5>1. subscriptions'[p].state = "Active" /\ f \in active' /\ f \in granted'
          BY <1>7, <2>1, <2>3, <3>1, <3>3, <4>1
        <5> QED BY <2>2, <3>1, <5>1 DEF Truthful
      <4>2. CASE packet.codes[1] # "granted"
        <5>1. subscriptions'[p].state = "Failed" /\ f \notin active' /\ f \notin granted'
          BY <1>7, <2>1, <3>2, <3>3, <4>2
        <5> QED BY <2>2, <3>1, <5>1 DEF Truthful
      <4> QED BY <4>1, <4>2
    <3>5. Single(f)' /\ LastWord(f)' /\ Turns(f)'
      BY <1>4, <1>6, <1>7, <2>2 DEF Agreement, Single, LastWord, Turns, About
    <3> QED BY <3>4, <3>5 DEF Agreement
  <2> QED BY <2>4, <2>5
<1> QED BY <1>2, <1>8, <1>9

LEMMA AskedAbout ==
    ASSUME OneByOne, TypeOK, NEW f \in Filters, f \notin Asked(toBroker)
    PROVE  SubscribesTo(f) = {} /\ UnsubscribesFrom(f) = {}
<1> SUFFICES ASSUME NEW b \in Up PROVE b.filters[1] # f
  BY DEF SubscribesTo, UnsubscribesFrom
<1>1. PICK i \in DOMAIN toBroker : b = toBroker[i]
  BY DEF Up, Range
<1>2. b.filters \in Requests
  BY NumberTypes DEF ToBroker
<1>3. b.filters[1] \in Range(b.filters)
  BY <1>2, OneFilter
<1> QED BY <1>1, <1>3 DEF Asked

\* Nothing pending, nothing under way, nothing unknown to the session.
LEMMA Quiet ==
    ASSUME NEW f, Single(f)', Up' = {}, f \in granted' => EntriesOf(f)' # {},
           \A p \in EntriesOf(f)' :
               /\ subscriptions'[p].state # "Pending"
               /\ subscriptions'[p].state = "Active" => f \in granted'
               /\ subscriptions'[p].state = "Failed" => f \notin granted'
               /\ subscriptions'[p].state = "Active" <=> f \in active'
    PROVE  Agreement(f)'
<1>1. SubscribesTo(f)' = {} /\ UnsubscribesFrom(f)' = {}
  BY DEF SubscribesTo, UnsubscribesFrom
<1> QED BY <1>1 DEF Agreement, Single, LastWord, Turns, Truthful, About

LEMMA ConnectAgrees ==
    ASSUME OneByOne, TypeOK, NumberingInv, AgreementInv,
           PollFails \/ ConnectFails \/ Reconnect \/ BreakLink
    PROVE  AgreementInv'
<1> SUFFICES ASSUME NoWrap', Live', NEW f \in Filters \ unsure' PROVE Agreement(f)'
  BY DEF AgreementInv
<1>1. CASE ConnectFails
  <2>1. /\ connected' = FALSE /\ ~CleanSession
        /\ UNCHANGED <<session, ghosts, toBroker, toClient, granted>>
    BY <1>1 DEF ConnectFails, ClearSession, Live
  <2>2. Agreement(f)
    BY <2>1 DEF AgreementInv, Live, NoWrap, session, ghosts
  <2>3. /\ EntriesOf(f)' = EntriesOf(f) /\ Down' = Down
        /\ SubscribesTo(f)' = SubscribesTo(f) /\ UnsubscribesFrom(f)' = UnsubscribesFrom(f)
    BY <2>1 DEF EntriesOf, Down, Up, SubscribesTo, UnsubscribesFrom, session
  <2> QED BY <2>1, <2>2, <2>3, Unaffected DEF session, ghosts
<1>2. CASE Reconnect
  <2>1. toBroker' = <<>> /\ Up' = {}
    BY <1>2, EmptyPid DEF Reconnect, Up
  <2>2. CASE ClearSession /\ granted' = {}
    <3>1. EntriesOf(f)' = {}
      BY <2>2 DEF EntriesOf, ClearSession
    <3> QED BY <2>1, <2>2, <3>1, Quiet DEF Single
  <2>3. CASE ~CleanSession /\ ~(ClearSession /\ granted' = {})
    <3>1. /\ unsure' = unsure \cup Asked(toBroker) \cup (granted \ granted')
                 \cup {subscriptions[p].filter :
                          p \in {q \in DOMAIN subscriptions : subscriptions[q].state = "Pending"}}
          /\ granted' \subseteq granted
          /\ UNCHANGED <<session, asked, allocated>>
      BY <1>2, <2>3 DEF Reconnect
    <3>2. Agreement(f)
      BY <2>3, <3>1 DEF AgreementInv, Live, NoWrap
    <3>3. SubscribesTo(f) = {} /\ UnsubscribesFrom(f) = {}
      BY <3>1, AskedAbout
    <3>4. \A p \in EntriesOf(f) : subscriptions[p].state # "Pending"
      BY <3>1 DEF EntriesOf
    <3>5. EntriesOf(f)' = EntriesOf(f) /\ subscriptions' = subscriptions /\ active' = active
      BY <3>1 DEF EntriesOf, session
    <3>6. Single(f)' /\ (f \in granted => EntriesOf(f) # {})
      BY <3>1, <3>2, <3>3, <3>5 DEF Agreement, Single, Turns
    <3>7. f \in granted' <=> f \in granted
      BY <3>1
    <3> QED BY <2>1, <3>1, <3>2, <3>4, <3>5, <3>6, <3>7, Quiet DEF Agreement, Truthful
  <2> QED BY <1>2, <2>2, <2>3 DEF Reconnect
<1>3. CASE BreakLink
  <2>1. /\ toBroker' = <<>> /\ unsure' = unsure \cup Asked(toBroker)
        /\ UNCHANGED <<session, connected, toClient, granted, asked, allocated>>
    BY <1>3 DEF BreakLink
  <2>2. Agreement(f)
    BY <2>1 DEF AgreementInv, Live, NoWrap, session
  <2>3. SubscribesTo(f) = {} /\ UnsubscribesFrom(f) = {}
    BY <2>1, AskedAbout
  <2>4. Up' = {} /\ Down' = Down /\ EntriesOf(f)' = EntriesOf(f)
    BY <2>1, EmptyPid DEF Up, Down, EntriesOf, session
  <2>5. SubscribesTo(f)' = {} /\ UnsubscribesFrom(f)' = {}
    BY <2>4 DEF SubscribesTo, UnsubscribesFrom
  <2> QED BY <2>1, <2>2, <2>3, <2>4, <2>5, Unaffected DEF session
<1>4. CASE PollFails
  <2>1. connected /\ UNCHANGED <<session, ghosts, toBroker, toClient, granted>>
    BY <1>4 DEF PollFails
  <2>2. Agreement(f)
    BY <2>1 DEF AgreementInv, Live, NoWrap, ghosts
  <2>3. /\ EntriesOf(f)' = EntriesOf(f) /\ Down' = Down
        /\ SubscribesTo(f)' = SubscribesTo(f) /\ UnsubscribesFrom(f)' = UnsubscribesFrom(f)
    BY <2>1 DEF EntriesOf, Down, Up, SubscribesTo, UnsubscribesFrom, session
  <2> QED BY <2>1, <2>2, <2>3, Unaffected DEF session, ghosts
<1> QED BY <1>1, <1>2, <1>3, <1>4

LEMMA AppendedLast ==
    ASSUME NEW T, NEW s \in Seq(T), NEW a, NEW b, Append(s, a) = Append(s, b)
    PROVE  a = b
<1>1. Append(s, a)[Len(s) + 1] = a /\ Append(s, b)[Len(s) + 1] = b
  OBVIOUS
<1> QED BY <1>1

\* What is under way after the broker took a packet.
LEMMA TakenAbout ==
    ASSUME NEW packet, Up = Up' \cup {packet}, packet \notin Up', NEW f
    PROVE  /\ SubscribesTo(f)' = SubscribesTo(f) \ {packet}
           /\ UnsubscribesFrom(f)' = UnsubscribesFrom(f) \ {packet}
  BY DEF SubscribesTo, UnsubscribesFrom

LEMMA BrokerAgrees ==
    ASSUME OneByOne, TypeOK, NumberingInv, AgreementInv, Broker
    PROVE  AgreementInv'
<1> DEFINE packet == Head(toBroker)
           g == packet.filters[1]
<1>1. PICK type, ack :
          BrokerTakes(type) /\ toClient' = Append(toClient, ack) /\ ack.pid = packet.pid
  BY BrokerStep
<1>2. UNCHANGED <<session, connected, ghosts>>
  BY <1>1 DEF BrokerTakes
<1> SUFFICES ASSUME NoWrap', Live', NEW f \in Filters \ unsure' PROVE Agreement(f)'
  BY DEF AgreementInv
<1>3. NoWrap /\ Live /\ Numbered
  BY <1>2 DEF NoWrap, Live, session, ghosts, NumberingInv
<1>4. f \in Filters \ unsure /\ Agreement(f)
  BY <1>2, <1>3 DEF AgreementInv, ghosts
<1>5. /\ Up = Up' \cup {packet} /\ Down' = Down \cup {ack} /\ packet.pid \in Nat
      /\ packet \in ToBroker
      /\ \A q \in Up' : packet.pid < q.pid
  BY <1>1, <1>3, BrokerTakesPid
<1>6. packet.filters \in [{1} -> Filters] /\ Range(packet.filters) = {g}
  <2>1. packet.filters \in Requests
    BY <1>5 DEF ToBroker
  <2> QED BY <2>1, OneFilter
<1>7. packet \notin Up'
  BY <1>5
<1>8. /\ SubscribesTo(f)' = SubscribesTo(f) \ {packet}
      /\ UnsubscribesFrom(f)' = UnsubscribesFrom(f) \ {packet}
  BY <1>5, <1>7, TakenAbout
<1>9. EntriesOf(f)' = EntriesOf(f) /\ subscriptions' = subscriptions /\ active' = active
      /\ asked' = asked
  BY <1>2 DEF EntriesOf, session, ghosts
<1>10. Single(f)'
  BY <1>4, <1>9 DEF Agreement, Single
<1>11. \/ /\ packet.type = "SUBSCRIBE" /\ ack.type = "SUBACK"
          /\ granted' = IF ack.codes[1] = "granted" THEN granted \cup {g} ELSE granted
       \/ packet.type = "UNSUBSCRIBE" /\ granted' = granted \ {g}
  <2>1. CASE BrokerSubscribe
    <3>1. PICK codes \in [{1} -> {"granted", "refused"}] :
              /\ granted' = granted \cup
                     {packet.filters[i] : i \in {j \in DOMAIN codes : codes[j] = "granted"}}
              /\ toClient' = Append(toClient, [type |-> "SUBACK", pid |-> packet.pid,
                                               codes |-> codes])
      BY <1>6, <2>1 DEF BrokerSubscribe
    <3>2. [type |-> "SUBACK", pid |-> packet.pid, codes |-> codes] = ack
      <4>1. Append(toClient, [type |-> "SUBACK", pid |-> packet.pid, codes |-> codes]) =
                Append(toClient, ack)
        BY <1>1, <3>1
      <4>2. toClient \in Seq(ToClient)
        BY DEF TypeOK
      <4> QED BY <4>1, <4>2, AppendedLast
    <3>3. ack.type = "SUBACK" /\ ack.codes = codes
      BY <3>2
    <3>4. packet.type = "SUBSCRIBE"
      BY <2>1 DEF BrokerSubscribe, BrokerTakes
    <3>5. granted' = IF codes[1] = "granted" THEN granted \cup {g} ELSE granted
      BY <3>1
    <3> QED BY <3>3, <3>4, <3>5
  <2>2. CASE BrokerUnsubscribe
    BY <1>6, <2>2 DEF BrokerUnsubscribe, BrokerTakes
  <2> QED BY <2>1, <2>2 DEF Broker
<1> HIDE DEF packet, g
<1>12. CASE f # g
  <2>1. SubscribesTo(f)' = SubscribesTo(f) /\ UnsubscribesFrom(f)' = UnsubscribesFrom(f)
    BY <1>8, <1>12 DEF SubscribesTo, UnsubscribesFrom, g
  <2>2. f \in granted <=> f \in granted'
    BY <1>11, <1>12
  <2> QED BY <1>4, <1>5, <1>9, <2>1, <2>2, Unaffected
<1>13. CASE f = g /\ packet.type = "SUBSCRIBE"
  <2>1. packet \in SubscribesTo(f) /\ UnsubscribesFrom(f)' = UnsubscribesFrom(f)
    BY <1>5, <1>8, <1>13 DEF SubscribesTo, UnsubscribesFrom, g
  <2>2. \A u \in UnsubscribesFrom(f) : u \in Up' /\ packet.pid < u.pid /\ u.pid \in Nat
    BY <1>5, <1>13, NumberTypes DEF UnsubscribesFrom
  <2>3. f \notin granted
    BY <1>4, <1>5, <2>1, <2>2 DEF Agreement, Turns
  <2>4. f \in granted' <=> ack.codes[1] = "granted"
    BY <1>11, <1>13, <2>3
  <2>5. \A s \in SubscribesTo(f)' : s \in SubscribesTo(f) /\ packet.pid < s.pid
    BY <1>5, <1>8 DEF SubscribesTo
  <2>6. LastWord(f)'
    <3>1. CASE EntriesOf(f) = {}
      BY <1>4, <1>8, <1>9, <2>1, <3>1 DEF Agreement, LastWord, About
    <3>2. ASSUME NEW p \in EntriesOf(f), NEW b \in About(f)'
          PROVE  b.pid <= p /\ \E s \in SubscribesTo(f)' : s.pid = p
      <4>1. b \in About(f) /\ b \in Up' /\ b.pid \in Nat
        BY <1>5, <1>8, <2>1, <2>2, <2>5, NumberTypes DEF About, SubscribesTo, UnsubscribesFrom
      <4>2. PICK s \in SubscribesTo(f) : s.pid = p /\ b.pid <= p
        BY <1>4, <4>1 DEF Agreement, LastWord
      <4>3. packet.pid < b.pid
        BY <1>5, <4>1
      <4>4. s \in Up /\ s.pid \in Nat
        BY NumberTypes DEF SubscribesTo
      <4>5. s # packet
        BY <1>5, <4>1, <4>2, <4>3, <4>4
      <4> QED BY <1>8, <4>2, <4>5
    <3> QED BY <1>9, <3>1, <3>2 DEF LastWord
  <2>7. Turns(f)'
    <3>1. \A s \in SubscribesTo(f)' : \E u \in UnsubscribesFrom(f) : u.pid < s.pid
      BY <1>4, <2>1, <2>5 DEF Agreement, Turns
    <3>2. EntriesOf(f) = {} => UnsubscribesFrom(f) # {}
      BY <1>4, <2>1 DEF Agreement, LastWord, About
    <3>3. \A s, t \in SubscribesTo(f) : s.pid < t.pid =>
              \E u \in UnsubscribesFrom(f) : s.pid < u.pid /\ u.pid < t.pid
      BY <1>4 DEF Agreement, Turns
    <3> QED BY <1>9, <2>1, <2>5, <3>1, <3>2, <3>3 DEF Turns
  <2>8. Truthful(f)'
    <3> SUFFICES ASSUME NEW p \in EntriesOf(f)
                 PROVE  /\ subscriptions[p].state = "Pending" =>
                               (\E s \in SubscribesTo(f)' : s.pid = p) \/ Answered(f, p)'
                        /\ subscriptions[p].state = "Pending"
                        /\ subscriptions[p].state = "Active" <=> f \in active
      BY <1>9 DEF Truthful
    <3>1. PICK s \in SubscribesTo(f) : s.pid = p
      BY <1>4, <2>1 DEF Agreement, LastWord, About
    <3>2. p \in DOMAIN subscriptions /\ s \in Up
      BY DEF EntriesOf, SubscribesTo
    <3>3. subscriptions[p].state = "Pending"
      BY <1>3, <3>1, <3>2 DEF Numbered
    <3>4. subscriptions[p].state = "Active" <=> f \in active
      BY <1>4 DEF Agreement, Truthful
    <3>5. CASE s # packet
      BY <1>8, <3>1, <3>3, <3>4, <3>5
    <3>6. CASE s = packet
      <4>1. Answered(f, p)'
        BY <1>1, <1>5, <1>11, <1>13, <2>4, <3>1, <3>6 DEF Answered
      <4> QED BY <3>3, <3>4, <4>1
    <3> QED BY <3>5, <3>6
  <2> QED BY <1>10, <2>6, <2>7, <2>8 DEF Agreement
<1>14. CASE f = g /\ packet.type = "UNSUBSCRIBE"
  <2>1. packet \in UnsubscribesFrom(f) /\ SubscribesTo(f)' = SubscribesTo(f)
    BY <1>5, <1>8, <1>14 DEF SubscribesTo, UnsubscribesFrom, g
  <2>2. f \notin granted' /\ Up' \subseteq Up
    BY <1>5, <1>11, <1>14
  <2>3. \A b \in About(f)' : b \in About(f) /\ b \in Up' /\ packet.pid < b.pid /\ b.pid \in Nat
    BY <1>5, <1>8, NumberTypes DEF About, SubscribesTo, UnsubscribesFrom
  <2>4. ASSUME NEW b \in About(f)', NEW u \in UnsubscribesFrom(f), b.pid <= u.pid
        PROVE  u \in UnsubscribesFrom(f)'
    <3>1. u # packet
      BY <1>5, <2>3, <2>4
    <3> QED BY <1>8, <3>1
  <2>5. LastWord(f)'
    <3>1. ASSUME EntriesOf(f) = {}, NEW b \in About(f)'
          PROVE  \E u \in UnsubscribesFrom(f)' : b.pid <= u.pid
      <4>1. PICK u \in UnsubscribesFrom(f) : b.pid <= u.pid
        BY <1>4, <2>3, <3>1 DEF Agreement, LastWord
      <4> QED BY <2>4, <4>1
    <3>2. \A p \in EntriesOf(f), b \in About(f)' :
              b.pid <= p /\ \E s \in SubscribesTo(f)' : s.pid = p
      BY <1>4, <2>1, <2>3 DEF Agreement, LastWord
    <3> QED BY <1>9, <3>1, <3>2 DEF LastWord
  <2>6. Turns(f)'
    <3>1. ASSUME NEW s \in SubscribesTo(f), NEW t \in SubscribesTo(f), s.pid < t.pid
          PROVE  \E u \in UnsubscribesFrom(f)' : s.pid < u.pid /\ u.pid < t.pid
      <4>1. PICK u \in UnsubscribesFrom(f) : s.pid < u.pid /\ u.pid < t.pid
        BY <1>4, <3>1 DEF Agreement, Turns
      <4>2. s \in About(f)' /\ u.pid \in Nat /\ s.pid \in Nat
        BY <2>1, NumberTypes DEF About, SubscribesTo, UnsubscribesFrom
      <4> QED BY <2>4, <4>1, <4>2
    <3> QED BY <2>1, <2>2, <3>1 DEF Turns
  <2>7. Truthful(f)'
    <3> SUFFICES ASSUME NEW p \in EntriesOf(f)
                 PROVE  /\ subscriptions[p].state = "Pending"
                        /\ \E s \in SubscribesTo(f)' : s.pid = p
                        /\ subscriptions[p].state = "Active" <=> f \in active
      BY <1>9 DEF Truthful
    <3>1. PICK s \in SubscribesTo(f) : s.pid = p
      BY <1>4, <2>1 DEF Agreement, LastWord, About
    <3>2. p \in DOMAIN subscriptions /\ s \in Up
      BY DEF EntriesOf, SubscribesTo
    <3>3. subscriptions[p].state = "Pending"
      BY <1>3, <3>1, <3>2 DEF Numbered
    <3>4. subscriptions[p].state = "Active" <=> f \in active
      BY <1>4 DEF Agreement, Truthful
    <3> QED BY <2>1, <3>1, <3>3, <3>4
  <2> QED BY <1>10, <2>5, <2>6, <2>7 DEF Agreement
<1> QED BY <1>11, <1>12, <1>13, <1>14

LEMMA InitAgrees == Init => AgreementInv
<1> SUFFICES ASSUME Init, NEW f \in Filters PROVE Agreement(f)
  BY DEF AgreementInv
<1>1. EntriesOf(f) = {} /\ granted = {} /\ SubscribesTo(f) = {} /\ UnsubscribesFrom(f) = {}
  BY EmptyPid DEF Init, EntriesOf, SubscribesTo, UnsubscribesFrom, Up
<1> QED BY <1>1 DEF Agreement, Single, LastWord, Turns, Truthful, About

LEMMA NextAgrees ==
    OneByOne => (Limited /\ NumberingInv /\ AgreementInv /\ [Next]_vars => AgreementInv')
<1> SUFFICES ASSUME OneByOne, Limited, NumberingInv, AgreementInv, [Next]_vars PROVE AgreementInv'
  OBVIOUS
<1>1. TypeOK
  BY DEF Limited
<1>2. CASE UNCHANGED vars
  BY <1>2
     DEF AgreementInv, Agreement, Single, LastWord, Turns, Truthful, Answered, About, SubscribesTo,
         UnsubscribesFrom, EntriesOf, Up, Down, Live, NoWrap, vars, session, ghosts
<1>3. CASE Next
  BY <1>1, <1>3, SubscribeAgrees, UnsubscribeAgrees, ReceiveAgrees, ConnectAgrees, BrokerAgrees DEF Next
<1> QED BY <1>2, <1>3

LEMMA AgreementInvariant == OneByOne => (Spec => [](NumberingInv /\ AgreementInv))
<1> SUFFICES ASSUME OneByOne PROVE Spec => [](NumberingInv /\ AgreementInv)
  OBVIOUS
<1>1. Limited => TypeOK
  BY DEF Limited
<1>2. Limited /\ NumberingInv /\ AgreementInv /\ [Next]_vars => AgreementInv'
  BY NextAgrees
<1> HIDE DEF Limited, NumberingInv, AgreementInv, TypeOK
<1> QED BY <1>1, <1>2, InitLimited, NextLimited, InitNumbered, NextNumbered, InitAgrees, PTL DEF Spec

\* "The subscription is active." (state.rs): with requests of one filter each and
\* none for a filter subscribed to, the broker holds every active topic whose
\* requests neither failed nor were lost (subscribe, unsubscribe,
\* confirm_subscription).
THEOREM ActiveIsGranted == OneByOne => (Spec => []ActiveMeansGranted)
<1> SUFFICES ASSUME OneByOne PROVE Spec => []ActiveMeansGranted
  OBVIOUS
<1>1. TypeOK /\ NumberingInv /\ AgreementInv => ActiveMeansGranted
  <2> SUFFICES ASSUME TypeOK, NumberingInv, AgreementInv, NoWrap, NEW f \in active, f \notin unsure
               PROVE  f \in granted
    BY DEF ActiveMeansGranted
  <2>1. Live /\ Backed
    BY DEF NumberingInv, Live
  <2>2. f \in Filters /\ Agreement(f)
    BY <2>1 DEF TypeOK, AgreementInv
  <2>3. PICK p \in EntriesOf(f) : subscriptions[p].state = "Active"
    BY <2>1 DEF Backed
  <2> QED BY <2>2, <2>3 DEF Agreement, Truthful
<1> HIDE DEF TypeOK, NumberingInv, AgreementInv, ActiveMeansGranted
<1> QED BY <1>1, TypeCorrect, AgreementInvariant, PTL

\* Once nothing is under way on a working link, session and broker agree on
\* every filter whose requests all succeeded: unsubscribes that overtake SUBACKs,
\* refusals, broken links and failed connects leave no difference, and the limit
\* of the active topics never stops a confirmation.
THEOREM AgreementWhenSettled == OneByOne => (Spec => []AgreeWhenSettled)
<1> SUFFICES ASSUME OneByOne PROVE Spec => []AgreeWhenSettled
  OBVIOUS
<1>1. TypeOK /\ NumberingInv /\ AgreementInv => AgreeWhenSettled
  <2> SUFFICES ASSUME TypeOK, NumberingInv, AgreementInv, NoWrap, connected,
                      toBroker = <<>>, toClient = <<>>, NEW f \in Filters \ unsure
               PROVE  f \in active <=> f \in granted
    BY DEF AgreeWhenSettled
  <2>1. Backed /\ Agreement(f)
    BY DEF NumberingInv, AgreementInv, Live
  <2>2. SubscribesTo(f) = {} /\ UnsubscribesFrom(f) = {} /\ Down = {}
    BY EmptyPid DEF SubscribesTo, UnsubscribesFrom, Up, Down
  <2>3. f \in active => f \in granted
    BY <2>1 DEF Backed, Agreement, Truthful
  <2>4. ASSUME f \in granted PROVE f \in active
    <3>1. PICK p \in EntriesOf(f) : TRUE
      BY <2>1, <2>2, <2>4 DEF Agreement, Turns
    <3>2. subscriptions[p].state \in {"Pending", "Active", "Failed"}
      BY DEF TypeOK, EntriesOf, Entries
    <3>3. subscriptions[p].state # "Pending"
      BY <2>1, <2>2 DEF Agreement, Truthful, Answered
    <3>4. subscriptions[p].state = "Active"
      BY <2>1, <2>4, <3>2, <3>3 DEF Agreement, Truthful
    <3> QED BY <2>1, <3>4 DEF Agreement, Truthful
  <2> QED BY <2>3, <2>4
<1> HIDE DEF TypeOK, NumberingInv, AgreementInv, AgreeWhenSettled
<1> QED BY <1>1, TypeCorrect, AgreementInvariant, PTL
=============================================================================
