------------------------------ MODULE Delivery ------------------------------
(***************************************************************************)
(* Publishing with QoS 1 and QoS 2: MqttClient::publish and poll           *)
(* (client.rs), the engine's publish, receive_packet and handle_retries    *)
(* (protocol/mod.rs), the in-memory session they share                     *)
(* (session/in_memory.rs), the two directions of the network connection    *)
(* and a broker (external).                                                *)
(*                                                                         *)
(* A send_packet has three outcomes: "sent"; "lost", an error or a dropped *)
(* future before the packet left; "written", the same after it left and    *)
(* before the flush was over.  Code after the send runs only after "sent". *)
(* Between two sends of one call the broker, the network and the clock may *)
(* move; the client is a &mut self value, so no other call of it may.      *)
(*                                                                         *)
(* Times are kept as ages, capped where the code no longer tells them      *)
(* apart: elapsed = current_time.saturating_sub(timestamp) is only ever    *)
(* compared with a constant.                                               *)
(***************************************************************************)
EXTENDS Integers, Sequences, FiniteSets, Functions

CONSTANTS
    Msgs,           \* the messages the application publishes, each once
    Qos2,           \* those it publishes with QoS 2; the others with QoS 1
    MaxPid,         \* the largest packet identifier, 65535 in the code
    MaxInflight,    \* ClientConfig::max_inflight_messages
    RetryTimeout,   \* RETRY_TIMEOUT_MS, in ticks
    PubrelGap,      \* the 1000 ms between two PUBREL retries, in ticks
    MaxRetry,       \* MAX_RETRY_COUNT
    CleanSessions,  \* the values of ClientConfig::clean_session among the clients
    BrokerForgets,  \* may the broker lose its session across connections?
    \* Bounds of the checked instance.
    MaxAllocated,   \* identifiers handed out by next_pid
    MaxFaults,      \* sends that do not end "sent" on a working link
    MaxReconnects,  \* connections after the first
    MaxChannel      \* packets in flight in one direction

ASSUME ConfigAssumption ==
    /\ Qos2 \subseteq Msgs
    /\ MaxPid \in Nat \ {0} /\ MaxInflight \in Nat \ {0}
    /\ RetryTimeout \in Nat \ {0} /\ PubrelGap \in Nat /\ MaxRetry \in Nat
    /\ CleanSessions \subseteq BOOLEAN /\ BrokerForgets \in BOOLEAN
    /\ MaxAllocated \in Nat /\ MaxFaults \in Nat /\ MaxReconnects \in Nat
    /\ MaxChannel \in Nat \ {0}

VARIABLES
    nextPid, publishes, pubrels,  \* InMemorySession
    connected,                    \* connection_state() = Connected
    pc, todo,                     \* the loop a call is in, what it has left to send
    sentAge,                      \* since last_packet_sent_time
    sincePoll,                    \* since handle_retries read current_time
    link, toBroker, toClient,
    received,                     \* the broker's QoS 2 identifiers without PUBREL
    \* Ghosts: what the application and the subscribers have seen.
    published, owner, deliveries, acked, dropped, cleared, awaiting, allocated,
    footing,                      \* may the broker remember a session the client lost?
    faults, reconnects            \* bounded counters

session == <<nextPid, publishes, pubrels>>
call    == <<pc, todo, sincePoll>>
network == <<link, toBroker, toClient>>
ghosts  == <<published, owner, deliveries, acked, dropped, cleared, awaiting, allocated>>
history == <<reconnects, footing>>
bounds  == <<faults, history>>
vars    == <<session, connected, call, sentAge, network, received, ghosts, bounds>>

Pids == 1..MaxPid
Oldest == IF RetryTimeout > PubrelGap THEN RetryTimeout ELSE PubrelGap + 1
Older(age) == IF age < Oldest THEN age + 1 ELSE age

\* InflightMessage: topic and payload are the message, QoS is in Qos2.  The
\* ghost `waited` counts the ticks since publish(), as far as they matter.
LongEnough == MaxRetry * RetryTimeout
Entries == [msg: Msgs, retries: 0..MaxRetry, age: 0..Oldest, waited: 0..LongEnough]
NewEntry(m) == [msg |-> m, retries |-> 0, age |-> 0, waited |-> 0]
Aged(e) == [e EXCEPT !.age = Older(@),
                     !.waited = IF @ < LongEnough THEN @ + 1 ELSE @]

Put(f, key, value) == [k \in DOMAIN f \cup {key} |-> IF k = key THEN value ELSE f[k]]
Without(f, keys) == Restrict(f, DOMAIN f \ keys)

Publishing(p, m) == [type |-> "PUBLISH", pid |-> p, msg |-> m]
Packet(type, p) == [type |-> type, pid |-> p]

ToBroker == [type: {"PUBLISH"}, pid: Pids, msg: Msgs] \cup [type: {"PUBREL"}, pid: Pids]
ToClient == [type: {"PUBACK", "PUBREC", "PUBCOMP"}, pid: Pids]

Outcomes == {"sent", "lost", "written"}

\* send_packet with each of its outcomes.  A link that is gone without the
\* client knowing swallows what is written to it.
Send(packet, outcome) ==
    /\ IF link /\ outcome # "lost"
       THEN Len(toBroker) < MaxChannel /\ toBroker' = Append(toBroker, packet)
       ELSE UNCHANGED toBroker
    /\ sentAge' = IF outcome = "sent" THEN 0 ELSE sentAge
    /\ IF link /\ outcome # "sent"
       THEN faults < MaxFaults /\ faults' = faults + 1
       ELSE UNCHANGED faults

Idle == pc' = "idle" /\ todo' = {} /\ sincePoll' = 0
Goto(loop, pids) == pc' = loop /\ todo' = pids /\ UNCHANGED sincePoll

Init ==
    /\ nextPid = 1 /\ publishes = [p \in {} |-> 0] /\ pubrels = {}
    /\ connected = TRUE
    /\ pc = "idle" /\ todo = {} /\ sincePoll = 0 /\ sentAge = 0
    /\ link = TRUE /\ toBroker = <<>> /\ toClient = <<>> /\ received = {}
    /\ published = {} /\ owner = [p \in {} |-> 0]
    /\ deliveries = [m \in Msgs |-> 0]
    /\ acked = {} /\ dropped = {} /\ cleared = {} /\ awaiting = {} /\ allocated = 0
    /\ footing = "shared" /\ faults = 0 /\ reconnects = 0

-----------------------------------------------------------------------------
(* publish() *)

\* Mutants: no wrap-around, and an identifier that is not moved on.
TakePid_NoWrap == allocated < MaxAllocated /\ allocated' = allocated + 1 /\ nextPid' = nextPid + 1
TakePid_Stuck == allocated < MaxAllocated /\ allocated' = allocated + 1 /\ UNCHANGED nextPid

\* Pid wraps from its largest value to 1; nothing looks whether it is in use.
TakePid ==
    /\ allocated < MaxAllocated /\ allocated' = allocated + 1
    /\ nextPid' = IF nextPid = MaxPid THEN 1 ELSE nextPid + 1

\* Mutant: one message too many.
RoomToPublish_OneMore == connected /\ Cardinality(DOMAIN publishes) <= MaxInflight

\* The checks of MqttClient::publish: connected, and flow control.
RoomToPublish == connected /\ Cardinality(DOMAIN publishes) < MaxInflight

\* Mutant: stored once the send has succeeded.
Publish_StoredLate(m) ==
    /\ pc = "idle" /\ RoomToPublish /\ m \notin published
    /\ TakePid
    /\ \E outcome \in Outcomes :
           /\ Send(Publishing(nextPid, m), outcome)
           /\ IF outcome = "sent" THEN publishes' = Put(publishes, nextPid, NewEntry(m))
                                  ELSE UNCHANGED publishes
    /\ published' = published \cup {m} /\ owner' = Put(owner, nextPid, m)
    /\ UNCHANGED <<pubrels, connected, call, link, toClient, received,
                   deliveries, acked, dropped, cleared, awaiting, history>>

\* The message is stored before it is sent: whatever becomes of the send, it
\* is pending.
Publish(m) ==
    /\ pc = "idle" /\ RoomToPublish /\ m \notin published
    /\ TakePid
    /\ publishes' = Put(publishes, nextPid, NewEntry(m))
    /\ \E outcome \in Outcomes : Send(Publishing(nextPid, m), outcome)
    /\ published' = published \cup {m} /\ owner' = Put(owner, nextPid, m)
    /\ UNCHANGED <<pubrels, connected, call, link, toClient, received,
                   deliveries, acked, dropped, cleared, awaiting, history>>

\* Everything else the client sends between two polls: SUBSCRIBE and
\* UNSUBSCRIBE take an identifier, QoS 0 messages and pings do not; a send that
\* fails leaves last_packet_sent_time alone.
OtherTraffic ==
    /\ pc = "idle" /\ connected
    /\ sentAge' \in {0, sentAge}
    /\ TakePid \/ UNCHANGED <<nextPid, allocated>>
    /\ UNCHANGED <<publishes, pubrels, connected, call, network, received, published,
                   owner, deliveries, acked, dropped, cleared, awaiting, bounds>>

-----------------------------------------------------------------------------
(* poll(): the timers *)

Exhausted == {p \in DOMAIN publishes : publishes[p].retries >= MaxRetry}
\* Mutant: the retry count is tested the wrong way.
Due_Swapped == {p \in DOMAIN publishes :
                    publishes[p].age >= RetryTimeout /\ publishes[p].retries > MaxRetry}
Due == {p \in DOMAIN publishes :
            publishes[p].age >= RetryTimeout /\ publishes[p].retries < MaxRetry}

\* is_connection_timeout: poll() ends before the retries.  As with BreakLink,
\* the instance lets it happen only if it lets the client connect again.
PollTimesOut ==
    /\ pc = "idle" /\ connected /\ reconnects < MaxReconnects
    /\ connected' = FALSE
    /\ UNCHANGED <<session, call, sentAge, network, received, ghosts, bounds>>

\* The first half of handle_retries: what to drop and what to retry, by the clock
\* that poll() read before its ping.  A ping is OtherTraffic before this step; the
\* time its send took passes in the retries, which is the same to both.
PollStartsRetries ==
    /\ pc = "idle"
    /\ publishes' = Without(publishes, Exhausted)
    /\ dropped' = dropped \cup {publishes[p].msg : p \in Exhausted}
    /\ Goto("retry", Due)
    /\ UNCHANGED <<nextPid, pubrels, connected, sentAge, network, received, published,
                   owner, deliveries, acked, cleared, awaiting, allocated, bounds>>

\* Mutant: the date of the entry is left alone.
RetryPublish_Undated(p) ==
    /\ pc = "retry" /\ p \in todo
    /\ publishes' = [publishes EXCEPT ![p].retries = @ + 1]
    /\ \E outcome \in Outcomes :
           /\ Send(Publishing(p, publishes[p].msg), outcome)
           /\ IF outcome = "sent" THEN Goto("retry", todo \ {p}) ELSE Idle
    /\ UNCHANGED <<nextPid, pubrels, connected, link, toClient, received, ghosts, history>>

\* A retry is counted, and dated at the start of the poll, before it is sent.
RetryPublish(p) ==
    /\ pc = "retry" /\ p \in todo
    /\ publishes' = [publishes EXCEPT ![p].retries = @ + 1, ![p].age = sincePoll]
    /\ \E outcome \in Outcomes :
           /\ Send(Publishing(p, publishes[p].msg), outcome)
           /\ IF outcome = "sent" THEN Goto("retry", todo \ {p}) ELSE Idle
    /\ UNCHANGED <<nextPid, pubrels, connected, link, toClient, received, ghosts, history>>

\* Mutant: the gap is tested the wrong way.
PubrelDue_Swapped == pubrels # {} /\ sentAge < PubrelGap + sincePoll

PubrelDue == pubrels # {} /\ sentAge > PubrelGap + sincePoll

\* The second half: a first PUBREL makes the others wait, as does any packet
\* sent within the gap.  Then poll() waits for a packet.
RetryPubrel ==
    /\ pc = "retry" /\ todo = {}
    /\ \/ /\ ~PubrelDue
          /\ pc' = "receive" /\ todo' = {} /\ sincePoll' = 0
          /\ UNCHANGED <<toBroker, sentAge, faults>>
       \/ /\ PubrelDue
          /\ \E p \in pubrels, outcome \in Outcomes :
                 /\ Send(Packet("PUBREL", p), outcome)
                 /\ pc' = IF outcome = "sent" THEN "receive" ELSE "idle"
          /\ todo' = {} /\ sincePoll' = 0
    /\ UNCHANGED <<session, connected, link, toClient, received, ghosts, history>>

-----------------------------------------------------------------------------
(* poll(): the packet *)

Incoming(type) ==
    /\ pc = "receive" /\ toClient # <<>> /\ Head(toClient).type = type
    /\ toClient' = Tail(toClient)
    /\ Idle

\* MessageAcknowledged is reported whether or not the session knew the pid.
Acknowledge(p) == acked' = acked \cup {owner[q] : q \in {p} \cap DOMAIN owner}

ReceivePuback ==
    /\ Incoming("PUBACK")
    /\ publishes' = Without(publishes, {Head(toClient).pid})
    /\ Acknowledge(Head(toClient).pid)
    /\ UNCHANGED <<nextPid, pubrels, connected, sentAge, link, toBroker, received, published,
                   owner, deliveries, dropped, cleared, awaiting, allocated, bounds>>

\* Mutant: the publish stays until PUBCOMP.
ReceivePubrec_Keeps ==
    /\ Incoming("PUBREC")
    /\ LET p == Head(toClient).pid IN
       IF p \in DOMAIN publishes
       THEN /\ awaiting' = awaiting \cup {p}
            /\ Send(Packet("PUBREL", p), "sent") /\ pubrels' = pubrels \cup {p}
       ELSE UNCHANGED <<pubrels, awaiting, toBroker, sentAge, faults>>
    /\ UNCHANGED <<nextPid, publishes, connected, link, received, published, owner,
                   deliveries, acked, dropped, cleared, allocated, history>>

\* Mutant: the pubrel is stored although the publish was unknown.
ReceivePubrec_Unknown ==
    /\ Incoming("PUBREC")
    /\ LET p == Head(toClient).pid IN
       /\ publishes' = Without(publishes, {p})
       /\ awaiting' = IF p \in DOMAIN publishes THEN awaiting \cup {p} ELSE awaiting
       /\ Send(Packet("PUBREL", p), "sent") /\ pubrels' = pubrels \cup {p}
    /\ UNCHANGED <<nextPid, connected, link, received, published, owner, deliveries, acked,
                   dropped, cleared, allocated, history>>

\* The publish is forgotten before PUBREL is sent, and the pubrel remembered
\* after it.  An error makes poll() enter Error; a dropped future does not.
ReceivePubrec ==
    /\ Incoming("PUBREC")
    /\ LET p == Head(toClient).pid IN
       IF p \in DOMAIN publishes
       THEN /\ publishes' = Without(publishes, {p})
            /\ awaiting' = awaiting \cup {p}
            /\ \E outcome \in Outcomes :
                   /\ Send(Packet("PUBREL", p), outcome)
                   /\ IF outcome = "sent"
                      THEN pubrels' = pubrels \cup {p} /\ UNCHANGED connected
                      ELSE UNCHANGED pubrels /\ connected' \in {connected, FALSE}
       ELSE UNCHANGED <<publishes, pubrels, awaiting, connected, toBroker, sentAge, faults>>
    /\ UNCHANGED <<nextPid, link, received, published, owner, deliveries, acked,
                   dropped, cleared, allocated, history>>

ReceivePubcomp ==
    /\ Incoming("PUBCOMP")
    /\ LET p == Head(toClient).pid IN
       /\ publishes' = Without(publishes, {p})
       /\ pubrels' = pubrels \ {p}
       /\ awaiting' = awaiting \ {p}
       /\ Acknowledge(p)
    /\ UNCHANGED <<nextPid, connected, sentAge, link, toBroker, received, published,
                   owner, deliveries, dropped, cleared, allocated, bounds>>

ReceiveFails ==
    /\ pc = "receive" /\ ~link /\ toClient = <<>>
    /\ connected' = FALSE /\ Idle
    /\ UNCHANGED <<session, sentAge, network, received, ghosts, bounds>>

\* The application stops waiting for a packet: it drops the future of poll().
StopWaiting ==
    /\ pc = "receive" /\ Idle
    /\ UNCHANGED <<session, connected, sentAge, network, received, ghosts, bounds>>

-----------------------------------------------------------------------------
(* connect() with the session of an earlier connection *)

\* The messages the session holds.
Tracked == {publishes[p].msg : p \in DOMAIN publishes}

\* Mutant: the pending publishes survive.
ClearSession_Keeps ==
    /\ nextPid' = 1 /\ pubrels' = {}
    /\ cleared' = cleared \cup {publishes[p].msg : p \in DOMAIN publishes}
    /\ owner' = [p \in {} |-> 0] /\ awaiting' = {} /\ allocated' = 0
    /\ UNCHANGED <<publishes, published, deliveries, acked, dropped>>

\* session.clear(), and the messages it takes from the application.
ClearSession ==
    /\ nextPid' = 1 /\ publishes' = [p \in {} |-> 0] /\ pubrels' = {}
    /\ cleared' = cleared \cup Tracked
    /\ owner' = [p \in {} |-> 0] /\ awaiting' = {} /\ allocated' = 0
    /\ UNCHANGED <<published, deliveries, acked, dropped>>

\* The two sessions stand on one footing until one of them starts anew
\* without the other: "lost" once the client's has been cleared, "shared" again
\* once the broker's has too, "estranged" for good once the broker resumes its
\* own for a client that lost its.
Footings == {"shared", "lost", "estranged"}
LosesFooting == footing' = IF footing = "shared" THEN "lost" ELSE footing
FindsFooting(f) == footing' = IF footing = "lost" THEN f ELSE footing

\* A connect() that fails, of this client because the engine is connected or of
\* the next one, has cleared a clean session by then.
ConnectFails ==
    /\ pc = "idle"
    /\ connected' = FALSE
    /\ \/ TRUE \in CleanSessions /\ ClearSession /\ LosesFooting
       \/ FALSE \in CleanSessions /\ UNCHANGED <<session, ghosts, footing>>
    /\ UNCHANGED <<call, sentAge, network, received, faults, reconnects>>

\* The process ends, whatever it was doing, and starts with a new client: the
\* session is in memory only.  What was in flight is gone, and the new engine
\* has never sent a packet (its timestamp is 0).  As with BreakLink,
\* the instance lets it happen only if it lets the client connect again.
Restart ==
    /\ reconnects < MaxReconnects
    /\ connected' = FALSE /\ ClearSession /\ LosesFooting
    /\ Idle /\ sentAge' = Oldest
    /\ link' = FALSE /\ toBroker' = <<>> /\ toClient' = <<>>
    /\ UNCHANGED <<received, faults, reconnects>>

\* A new network connection, by a client that was given the session and may be
\* configured otherwise: what was in flight is gone.  Only a broker that kept
\* its session makes connect() resend, and then the publishes alone; that the
\* client's own session is not the one the broker resumes goes unnoticed.
Reconnect ==
    /\ pc = "idle" /\ ~(connected /\ link)
    /\ reconnects < MaxReconnects /\ reconnects' = reconnects + 1
    /\ connected' = TRUE /\ link' = TRUE /\ toBroker' = <<>> /\ toClient' = <<>>
    /\ sentAge' = 0
    /\ \/ /\ TRUE \in CleanSessions
          /\ ClearSession /\ received' = {} /\ FindsFooting("shared") /\ UNCHANGED call
       \/ /\ FALSE \in CleanSessions
          /\ Goto("resend", DOMAIN publishes) /\ FindsFooting("estranged")
          /\ UNCHANGED <<session, ghosts, received>>
       \/ /\ FALSE \in CleanSessions /\ BrokerForgets
          /\ received' = {} /\ FindsFooting("shared") /\ UNCHANGED <<session, ghosts, call>>
    /\ UNCHANGED faults

\* resend_pending_messages leaves retry_count and timestamp alone.
ResendPublish(p) ==
    /\ pc = "resend" /\ p \in todo
    /\ \E outcome \in Outcomes :
           /\ Send(Publishing(p, publishes[p].msg), outcome)
           /\ IF outcome = "sent" THEN Goto("resend", todo \ {p}) ELSE Idle
    /\ UNCHANGED <<session, connected, link, toClient, received, ghosts, history>>

ResendDone ==
    /\ pc = "resend" /\ todo = {} /\ Idle
    /\ UNCHANGED <<session, connected, sentAge, network, received, ghosts, bounds>>

-----------------------------------------------------------------------------
(* The network, the clock and the broker *)

\* What the broker sent before still arrives.
BreakLink ==
    /\ link /\ reconnects < MaxReconnects
    /\ link' = FALSE /\ toBroker' = <<>>
    /\ UNCHANGED <<session, connected, call, sentAge, toClient, received, ghosts, bounds>>

\* Time passes while the client is idle or awaits a send or a packet; there is
\* no await point between the last PUBLISH retry and the test for PUBREL.
Tick ==
    /\ ~(pc = "retry" /\ todo = {})
    /\ publishes' = [p \in DOMAIN publishes |-> Aged(publishes[p])]
    /\ sentAge' = Older(sentAge)
    /\ sincePoll' = IF pc = "retry" THEN Older(sincePoll) ELSE 0
    /\ UNCHANGED <<nextPid, pubrels, connected, pc, todo, network, received, ghosts, bounds>>

BrokerTakes(type) ==
    /\ link /\ toBroker # <<>> /\ Head(toBroker).type = type
    /\ toBroker' = Tail(toBroker)
    /\ UNCHANGED <<session, connected, call, sentAge, link, published, owner, acked, dropped,
                   cleared, awaiting, allocated, bounds>>
Reply(type, p) == Len(toClient) < MaxChannel /\ toClient' = Append(toClient, Packet(type, p))

\* Two deliveries are enough to tell a duplicate.
Deliver(m) == deliveries' = [deliveries EXCEPT ![m] = IF @ < 2 THEN @ + 1 ELSE @]

BrokerPublish ==
    /\ BrokerTakes("PUBLISH")
    /\ LET p == Head(toBroker).pid
           m == Head(toBroker).msg
       IN  IF m \in Qos2
           THEN /\ IF p \in received THEN UNCHANGED deliveries ELSE Deliver(m)
                /\ received' = received \cup {p}
                /\ Reply("PUBREC", p)
           ELSE Deliver(m) /\ UNCHANGED received /\ Reply("PUBACK", p)

BrokerPubrel ==
    /\ BrokerTakes("PUBREL")
    /\ received' = received \ {Head(toBroker).pid}
    /\ Reply("PUBCOMP", Head(toBroker).pid)
    /\ UNCHANGED deliveries

-----------------------------------------------------------------------------

Receive == ReceivePuback \/ ReceivePubrec \/ ReceivePubcomp \/ ReceiveFails
Resend == (\E p \in Pids : ResendPublish(p)) \/ ResendDone
RetryLoop == (\E p \in Pids : RetryPublish(p)) \/ RetryPubrel
Poll == PollTimesOut \/ PollStartsRetries \/ RetryLoop \/ Receive \/ StopWaiting
Broker == BrokerPublish \/ BrokerPubrel

Next ==
    \/ \E m \in Msgs : Publish(m)
    \/ OtherTraffic \/ Poll \/ ConnectFails \/ Restart \/ Reconnect \/ Resend
    \/ BreakLink \/ Tick \/ Broker

Spec == Init /\ [][Next]_vars

\* The application polls in a loop, with a timeout around each poll, whenever it
\* is connected, and connects again when it can; a packet that keeps arriving
\* is read in the end; time passes and the broker answers.
Fairness ==
    /\ WF_vars(connected /\ PollStartsRetries)
    /\ WF_vars(RetryLoop) /\ WF_vars(Resend)
    /\ SF_vars(Receive) /\ WF_vars(StopWaiting)
    /\ WF_vars(Reconnect) /\ SF_vars(Tick) /\ WF_vars(Broker)
\* A poll() that has a packet to read completes at once, before the
\* application's timeout can drop it.
Patient == StopWaiting => toClient = <<>>
FairSpec == Init /\ [][Next /\ Patient]_vars /\ Fairness

-----------------------------------------------------------------------------
(* Properties *)

\* Every entry, packet and identifier is one the code can make.
TypeOK ==
    /\ nextPid \in Pids
    /\ DOMAIN publishes \subseteq Pids /\ publishes \in [DOMAIN publishes -> Entries]
    /\ pubrels \subseteq Pids /\ connected \in BOOLEAN
    /\ pc \in {"idle", "retry", "receive", "resend"} /\ todo \subseteq Pids
    /\ sentAge \in 0..Oldest /\ sincePoll \in 0..Oldest
    /\ link \in BOOLEAN /\ received \subseteq Pids
    /\ toBroker \in Seq(ToBroker) /\ toClient \in Seq(ToClient)
    /\ published \subseteq Msgs /\ acked \subseteq Msgs
    /\ dropped \subseteq Msgs /\ cleared \subseteq Msgs
    /\ DOMAIN owner \subseteq Pids /\ owner \in [DOMAIN owner -> Msgs]
    /\ deliveries \in [Msgs -> 0..2] /\ awaiting \subseteq Pids
    /\ allocated \in 0..MaxAllocated
    /\ footing \in Footings
    /\ faults \in 0..MaxFaults /\ reconnects \in 0..MaxReconnects

\* A loop never meets an identifier whose entry an earlier step of the same
\* call removed, and never retries one past MaxRetry.
LoopHasEntries ==
    /\ pc \in {"idle", "receive"} => todo = {}
    /\ todo \subseteq DOMAIN publishes
    /\ pc = "retry" => \A p \in todo : publishes[p].retries < MaxRetry

\* The flow control of publish() bounds what the session stores, through
\* retries, resends, failed sends and restarts.
InFlightBound == Cardinality(DOMAIN publishes) <= MaxInflight

\* Identifiers have not wrapped around since the session was last cleared.
NoWrap == allocated <= MaxPid

\* No client hands out an identifier twice.  (NoWrap would not do where the
\* damage outlasts the session: the count starts over with each.)
NoReuse == MaxAllocated <= MaxPid

\* The broker has resumed a session that is not the client's.
Estranged == footing = "estranged"

\* A QoS 2 message is in one phase at a time: no identifier awaits PUBREC and
\* PUBCOMP at once, so no PUBLISH is retried after its PUBREL.
OnePhasePerPid == NoWrap => DOMAIN publishes \cap pubrels = {}

\* The session tracks exactly the exchanges that await PUBCOMP, as long as no
\* send was cut and no link lost: the pubrel is stored only after PUBREL was
\* sent, so a send that fails leaves an exchange that nothing tracks.
PubcompTracked ==
    NoWrap /\ link /\ faults = 0 /\ reconnects = 0 => awaiting = pubrels

Delivered == {m \in Msgs : deliveries[m] > 0}

\* MessageAcknowledged is reported only for a message the broker has taken
\* over, whichever acknowledgements are late, repeated or from an earlier
\* connection.  Not so once the broker has resumed its session for a client
\* that lost its own: identifiers start from 1 again, and the broker takes a new
\* QoS 2 message for a copy of the one it remembers.
AckedWasDelivered == NoReuse /\ ~Estranged => acked \subseteq Delivered

\* No message is forgotten, short of estrangement: once publish() got as far as storing it, a message
\* the session no longer tracks was delivered, given up or cleared, whichever
\* sends failed, whichever futures were dropped and wherever the link broke.
NothingForgotten ==
    NoReuse /\ ~Estranged => published \subseteq Tracked \cup Delivered \cup dropped \cup cleared

\* A QoS 2 message reaches the subscribers at most once, retries, resends and
\* reconnections included, as long as the broker keeps its session.
ExactlyOnce == NoReuse /\ ~BrokerForgets => \A m \in Qos2 : deliveries[m] <= 1

\* A message is retried, and given up, no earlier than the code's timeout
\* allows: a full RetryTimeout before each retry.
RetriesSpaced == \A p \in DOMAIN publishes :
                     publishes[p].waited >= publishes[p].retries * RetryTimeout

Lasting == <>[](connected /\ link)
Quiet == <>[][~OtherTraffic]_vars

\* On a connection that lasts no message stays pending: it is acknowledged, or
\* dropped after its retries, however busy the client is otherwise.
PublishesResolve == Lasting => \A m \in Msgs : (m \in Tracked) ~> (m \notin Tracked)

\* Every PUBREL is answered in the end on a connection that lasts and that
\* carries nothing else, though connect() does not resend it and each poll()
\* retries at most one.
PubrelsResolveWhenQuiet ==
    Lasting /\ Quiet => \A p \in Pids : (p \in pubrels) ~> (p \notin pubrels)

\* The client, its session, the network and the broker together keep the
\* promise of DeliveryPromise, step by step, until a broker resumes its session
\* for a client that lost its own, when NoReuse.
Promise == INSTANCE DeliveryPromise WITH
    Once <- IF BrokerForgets THEN {} ELSE Qos2,
    accepted <- published, held <- Tracked, abandoned <- dropped \cup cleared
KeepsPromise == Promise!Init /\ [][Promise!Next \/ Estranged']_(Promise!vars)
=============================================================================
