---------------------------- MODULE Subscriptions ----------------------------
(***************************************************************************)
(* Subscribing: MqttClient::subscribe(_multiple), subscribe_v5 and         *)
(* _with_id, unsubscribe(_multiple) with the engine calls below them       *)
(* (client.rs, protocol/mod.rs), the two tables of the session that SUBACK *)
(* and unsubscribe change (session/in_memory.rs), the network connection   *)
(* and the subscriptions a broker holds (external).                        *)
(*                                                                         *)
(* A send ends "sent"; "lost", an error or a dropped future before the     *)
(* packet left; or "written", the same after it left.  The code after the  *)
(* send has no await point and runs only after "sent"; a SUBACK is read by *)
(* a later poll(), so call and send are one step.                          *)
(***************************************************************************)
EXTENDS Handler, FiniteSets, Functions

CONSTANTS
    Version,        \* of the handler, 3 or 5
    Filters,
    Identifiers,    \* subscription identifiers of version 5
    Capacity,       \* ClientConfig::max_subscriptions
    MaxPid,         \* the largest packet identifier, 65535 in the code
    CleanSession,   \* ClientConfig::clean_session
    \* What the application does.
    MaxRequest,     \* filters in one request; 1 for subscribe and unsubscribe
    Resubscribe,    \* may the application subscribe to what it subscribed to?
    \* Bounds of the checked instance.
    MaxCalls, MaxFaults, MaxReconnects, MaxChannel

ASSUME ConfigAssumption ==
    /\ Version \in {3, 5}
    /\ Capacity \in Nat \ {0} /\ MaxPid \in Nat \ {0} /\ MaxRequest \in Nat \ {0}
    /\ CleanSession \in BOOLEAN /\ Resubscribe \in BOOLEAN
    /\ MaxCalls \in Nat /\ MaxFaults \in Nat /\ MaxReconnects \in Nat
    /\ MaxChannel \in Nat \ {0}

VARIABLES
    nextPid, subscriptions, active,   \* InMemorySession; active is active_topics
    connected,                        \* connection_state() = Connected
    link, toBroker, toClient,
    granted,                          \* the filters the broker holds
    \* Ghosts: filters of calls that returned Ok and were not undone, filters
    \* of requests the application cannot know the fate of, calls made since
    \* identifiers started from 1.
    asked, unsure, allocated,
    calls, faults, reconnects         \* bounded counters

session == <<nextPid, subscriptions, active>>
ghosts  == <<asked, unsure, allocated>>
vars    == <<session, connected, link, toBroker, toClient, granted, ghosts,
             calls, faults, reconnects>>

Pids == 1..MaxPid
Requests == UNION {[1..n -> Filters] : n \in 1..MaxRequest}

\* SubscriptionInfo; the code never uses its retry_count nor Unsubscribing.
Entries == [filter: Filters, state: {"Pending", "Active", "Failed"}]
Pending(f) == [filter |-> f, state |-> "Pending"]

\* The fields of a V5SubscribeConfig that matter here: the identifier.
Configs == {{i} : i \in Identifiers}
ToBroker == [type: {"SUBSCRIBE", "UNSUBSCRIBE"}, pid: Pids, filters: Requests,
             properties: {None} \cup Configs]
Codes == UNION {[1..n -> {"granted", "refused"}] : n \in 1..MaxRequest}
ToClient == [type: {"SUBACK"}, pid: Pids, codes: Codes] \cup [type: {"UNSUBACK"}, pid: Pids]

Put(f, key, value) == [k \in DOMAIN f \cup {key} |-> IF k = key THEN value ELSE f[k]]
Without(f, keys) == Restrict(f, DOMAIN f \ keys)

EntriesOf(f) == {p \in DOMAIN subscriptions : subscriptions[p].filter = f}
Asked(packets) == UNION {Range(packets[i].filters) : i \in DOMAIN packets}

Init ==
    /\ nextPid = 1 /\ subscriptions = [p \in {} |-> 0] /\ active = {}
    /\ connected = TRUE /\ link = TRUE /\ toBroker = <<>> /\ toClient = <<>>
    /\ granted = {} /\ asked = {} /\ unsure = {} /\ allocated = 0
    /\ calls = 0 /\ faults = 0 /\ reconnects = 0

-----------------------------------------------------------------------------
(* subscribe and unsubscribe *)

\* Mutant: no wrap around.
TakePid_NoWrap ==
    /\ calls < MaxCalls /\ calls' = calls + 1
    /\ allocated' = allocated + 1
    /\ nextPid' = nextPid + 1

TakePid ==
    /\ calls < MaxCalls /\ calls' = calls + 1
    /\ allocated' = allocated + 1
    /\ nextPid' = IF nextPid = MaxPid THEN 1 ELSE nextPid + 1

\* send_packet; a link that is gone swallows what is written to it.
Send(packet, outcome) ==
    /\ IF link /\ outcome # "lost"
       THEN Len(toBroker) < MaxChannel /\ toBroker' = Append(toBroker, packet)
       ELSE UNCHANGED toBroker
    /\ IF link /\ outcome # "sent"
       THEN faults < MaxFaults /\ faults' = faults + 1
       ELSE UNCHANGED faults

\* Mutant: the limit is tested one too late.
Room_OneMore(pids) == Cardinality(pids) <= Capacity

\* The test at the head of add_subscription.
Room(pids) == Cardinality(pids) < Capacity

\* add_subscription once per filter, all under the same identifier: the last
\* one that finds room is the one that stays.
Added(pid, filters) ==
    IF Room(DOMAIN subscriptions \cup {pid})
    THEN Put(subscriptions, pid, Pending(filters[Len(filters)]))
    ELSE Put(subscriptions, pid, Pending(filters[1]))
Refused(pid, filters) ==
    \/ ~Room(DOMAIN subscriptions)
    \/ Len(filters) > 1 /\ ~Room(DOMAIN subscriptions \cup {pid})

\* What subscribe, and with version 5 also subscribe_v5, can send.
SubscribePackets(filters, pid) ==
    IF Version = 3 THEN {CreateSubscribeV3(filters, pid)}
    ELSE {CreateSubscribeV5(filters, pid)}
         \cup {CreateSubscribeWithConfig(filters, pid, config) : config \in Configs}

\* SUBSCRIBE is sent first; the limit is tested when the broker has it.
Subscribe(filters) ==
    /\ connected /\ (Resubscribe \/ Range(filters) \cap asked = {})
    /\ TakePid
    /\ \E outcome \in {"sent", "lost", "written"}, packet \in SubscribePackets(filters, nextPid) :
           /\ Send(packet, outcome)
           /\ subscriptions' = IF outcome = "sent" /\ Room(DOMAIN subscriptions)
                               THEN Added(nextPid, filters) ELSE subscriptions
           /\ asked' = IF outcome = "sent" /\ ~Refused(nextPid, filters)
                       THEN asked \cup Range(filters) ELSE asked
           /\ unsure' = IF outcome = "sent" /\ ~Refused(nextPid, filters) /\ link
                        THEN unsure ELSE unsure \cup Range(filters)
    /\ UNCHANGED <<active, connected, link, toClient, granted, reconnects>>

Least(m, n) == IF m < n THEN m ELSE n

\* Mutant: the topic stays active.
Removed_Keeps(filters) ==
    \E gone \in SUBSET DOMAIN subscriptions :
        /\ \A f \in Filters :
               Cardinality(gone \cap EntriesOf(f)) =
                   Least(Cardinality(EntriesOf(f)), Cardinality({i \in DOMAIN filters : filters[i] = f}))
        /\ subscriptions' = Without(subscriptions, gone)
        /\ UNCHANGED active

\* remove_subscription once per filter: it takes out one entry of the filter,
\* whichever the hash map yields first.
Removed(filters) ==
    \E gone \in SUBSET DOMAIN subscriptions :
        /\ \A f \in Filters :
               Cardinality(gone \cap EntriesOf(f)) =
                   Least(Cardinality(EntriesOf(f)), Cardinality({i \in DOMAIN filters : filters[i] = f}))
        /\ subscriptions' = Without(subscriptions, gone)
        /\ active' = active \ {subscriptions[p].filter : p \in gone}

UnsubscribePacket(filters, pid) ==
    IF Version = 3 THEN CreateUnsubscribeV3(filters, pid) ELSE CreateUnsubscribeV5(filters, pid)

\* The session forgets the filters as soon as UNSUBSCRIBE is sent.
Unsubscribe(filters) ==
    /\ connected /\ TakePid
    /\ \E outcome \in {"sent", "lost", "written"} :
           /\ Send(UnsubscribePacket(filters, nextPid), outcome)
           /\ IF outcome = "sent" THEN Removed(filters) /\ asked' = asked \ Range(filters)
                                  ELSE UNCHANGED <<subscriptions, active, asked>>
           /\ unsure' = IF outcome = "sent" /\ link
                        THEN unsure ELSE unsure \cup Range(filters)
    /\ UNCHANGED <<connected, link, toClient, granted, reconnects>>

-----------------------------------------------------------------------------
(* poll() *)

\* The active topics are limited apart from the entries: with a full set poll()
\* returns an error, and changes no state but the entry's, which is Active by then.
Activate(p, capacity) ==
    /\ subscriptions' = [subscriptions EXCEPT ![p].state = "Active"]
    /\ active' = IF Cardinality(active) < capacity
                 THEN active \cup {subscriptions[p].filter} ELSE active
Fail(p) ==
    /\ subscriptions' = [subscriptions EXCEPT ![p].state = "Failed"]
    /\ UNCHANGED active

\* Mutants: a refused topic becomes active; a refusal leaves the entry pending;
\* the set of active topics is full one too early.
Confirm_Unread(p, codes) == Activate(p, Capacity)
Confirm_Pending(p, codes) ==
    IF codes[1] = "granted" THEN Activate(p, Capacity) ELSE UNCHANGED <<subscriptions, active>>
Confirm_OneLess(p, codes) ==
    IF codes[1] = "granted" THEN Activate(p, Capacity - 1) ELSE Fail(p)

\* confirm_subscription for a known identifier: only the first return code
\* counts.
Confirm(p, codes) ==
    IF codes[1] = "granted" THEN Activate(p, Capacity) ELSE Fail(p)

Receive ==
    /\ toClient # <<>> /\ toClient' = Tail(toClient)
    /\ LET packet == Head(toClient) IN
       IF packet.type = "SUBACK" /\ packet.pid \in DOMAIN subscriptions
       THEN Confirm(packet.pid, packet.codes)
       ELSE UNCHANGED <<subscriptions, active>>
    /\ UNCHANGED <<nextPid, connected, link, toBroker, granted, ghosts, calls, faults, reconnects>>

\* A timeout, or a packet the client rejects, makes poll() enter Error; the next
\* poll() may still read, but need not get that far.
PollFails ==
    /\ connected /\ connected' = FALSE
    /\ UNCHANGED <<session, link, toBroker, toClient, granted, ghosts, calls, faults, reconnects>>

-----------------------------------------------------------------------------
(* connect() *)

ClearSession ==
    /\ nextPid' = 1 /\ subscriptions' = [p \in {} |-> 0] /\ active' = {}
    /\ asked' = {} /\ unsure' = {} /\ allocated' = 0

\* A connect() that fails has cleared a clean session by then.
ConnectFails ==
    /\ connected' = FALSE
    /\ IF CleanSession THEN ClearSession ELSE UNCHANGED <<session, ghosts>>
    /\ UNCHANGED <<link, toBroker, toClient, granted, calls, faults, reconnects>>

\* A new network connection with the session kept, if the broker still has its
\* part: nothing asks the broker again, and a session it has lost is kept here
\* without a word to the application.  So what was pending, in flight or granted
\* in a lost session is unsure from now on.
Reconnect ==
    /\ ~(connected /\ link) /\ reconnects < MaxReconnects /\ reconnects' = reconnects + 1
    /\ connected' = TRUE /\ link' = TRUE /\ toBroker' = <<>> /\ toClient' = <<>>
    /\ \/ CleanSession /\ ClearSession /\ granted' = {}
       \/ /\ ~CleanSession /\ granted' \in {granted, {}}
          /\ unsure' = unsure \cup Asked(toBroker) \cup (granted \ granted')
                 \cup {subscriptions[p].filter :
                          p \in {q \in DOMAIN subscriptions : subscriptions[q].state = "Pending"}}
          /\ UNCHANGED <<session, asked, allocated>>
    /\ UNCHANGED <<calls, faults>>

-----------------------------------------------------------------------------
(* The network and the broker (external) *)

BreakLink ==
    /\ link /\ reconnects < MaxReconnects /\ link' = FALSE
    /\ toBroker' = <<>> /\ unsure' = unsure \cup Asked(toBroker)
    /\ UNCHANGED <<session, connected, toClient, granted, asked, allocated,
                   calls, faults, reconnects>>

BrokerTakes(type) ==
    /\ link /\ toBroker # <<>> /\ Head(toBroker).type = type /\ Len(toClient) < MaxChannel
    /\ toBroker' = Tail(toBroker)
    /\ UNCHANGED <<session, connected, link, ghosts, calls, faults, reconnects>>

BrokerSubscribe ==
    /\ BrokerTakes("SUBSCRIBE")
    /\ LET packet == Head(toBroker) IN
       \E codes \in [DOMAIN packet.filters -> {"granted", "refused"}] :
           /\ granted' = granted \cup
                  {packet.filters[i] : i \in {j \in DOMAIN codes : codes[j] = "granted"}}
           /\ toClient' = Append(toClient, [type |-> "SUBACK", pid |-> packet.pid, codes |-> codes])

BrokerUnsubscribe ==
    /\ BrokerTakes("UNSUBSCRIBE")
    /\ granted' = granted \ Range(Head(toBroker).filters)
    /\ toClient' = Append(toClient, [type |-> "UNSUBACK", pid |-> Head(toBroker).pid])

Broker == BrokerSubscribe \/ BrokerUnsubscribe

-----------------------------------------------------------------------------

Next ==
    \/ \E filters \in Requests : Subscribe(filters) \/ Unsubscribe(filters)
    \/ Receive \/ PollFails \/ ConnectFails \/ Reconnect \/ BreakLink \/ Broker

Spec == Init /\ [][Next]_vars

\* The application polls while it is connected, and the broker answers.
FairSpec == Spec /\ WF_vars(connected /\ Receive) /\ WF_vars(Broker)

Lasting == <>[](connected /\ link)

-----------------------------------------------------------------------------
(* Properties *)

TypeOK ==
    /\ nextPid \in Pids /\ active \subseteq Filters
    /\ DOMAIN subscriptions \subseteq Pids
    /\ subscriptions \in [DOMAIN subscriptions -> Entries]
    /\ connected \in BOOLEAN /\ link \in BOOLEAN
    /\ toBroker \in Seq(ToBroker) /\ toClient \in Seq(ToClient)
    /\ granted \subseteq Filters /\ asked \subseteq Filters /\ unsure \subseteq Filters
    /\ allocated \in Nat /\ calls \in 0..MaxCalls
    /\ faults \in 0..MaxFaults /\ reconnects \in 0..MaxReconnects

\* Neither table of the session outgrows max_subscriptions.
WithinLimit == Cardinality(DOMAIN subscriptions) <= Capacity /\ Cardinality(active) <= Capacity

\* Identifiers are taken without a look at those in use: what follows is said
\* of the calls that are made until they start again from 1.
NoWrap == allocated <= MaxPid

\* The two tables agree in one direction, whatever is subscribed to twice,
\* refused, removed while it is confirmed or sent in one request: an active
\* topic has an entry in state Active.
ActiveHasEntry ==
    NoWrap => \A f \in active : \E p \in EntriesOf(f) : subscriptions[p].state = "Active"

\* "The subscription is active." (state.rs, SubscriptionState::Active): the
\* broker holds every filter the session takes for active, unless a request
\* for it failed or was lost.
ActiveMeansGranted == NoWrap => active \subseteq granted \cup unsure

\* Once nothing is in flight the session and the broker agree on every filter
\* whose requests all succeeded: late SUBACKs, unsubscribes that overtake
\* them, refusals and failed connects leave no difference.
AgreeWhenSettled ==
    NoWrap /\ connected /\ link /\ toBroker = <<>> /\ toClient = <<>>
        => \A f \in Filters \ unsure : f \in active <=> f \in granted

IsPending(p) == p \in DOMAIN subscriptions /\ subscriptions[p].state = "Pending"

\* Of a client with a clean session, once it stays connected, every subscription
\* is confirmed, fails or is removed.
PendingResolves ==
    CleanSession /\ Lasting => \A p \in Pids : IsPending(p) ~> ~IsPending(p)
=============================================================================
