----------------------------- MODULE KeepAlive -----------------------------
(***************************************************************************)
(* Keep-alive: the two timers of the engine (should_send_keep_alive,       *)
(* is_connection_timeout and what sets them, protocol/mod.rs), the order   *)
(* in which poll() looks at them (client.rs), the clock they are read from *)
(* (time.rs), an application that polls at some cadence, and a broker that *)
(* answers what asks for an answer (external).                             *)
(*                                                                         *)
(* The clock is the wall clock: it may be set.  The two timestamps are     *)
(* kept as their ages by that clock, so setting it changes both; the ages  *)
(* may be negative, which saturating_sub takes for 0.  A poll() reads the  *)
(* clock once, tests the timeout, then the ping, then parks in the read.   *)
(***************************************************************************)
EXTENDS Integers

CONSTANTS
    Intervals,   \* the values of keep_alive_interval_ms, in ticks; 0 disables
    Settings,    \* by how much the clock is set, forwards or backwards,
    Back,        \* backwards by this at most
    Unanswered,  \* does the application send what needs no answer (QoS 0)?
    Idle,        \* the application lets at most this pass between two polls,
    Park,        \* and drops the future of a poll() that waits for longer
    Delay,       \* the broker answers within this
    \* Bounds of the checked instance.
    MaxFaults,   \* pings and retries that fail on a working link
    MaxSettings, \* how often the clock is set
    MaxBuffer    \* packets that wait to be read

VARIABLES
    interval,               \* keep_alive_interval_ms
    state,                  \* connection_state()
    pc, waited,             \* "idle" or parked in "receive", and since when
    sentAge, receivedAge,   \* of last_packet_sent_time, last_packet_received_time
    link,                   \* "up"; "dead": silent, reads and writes do not fail
    request,                \* since when the broker owes an answer, if it does
    toClient,               \* packets that wait to be read
    \* Ghosts: true times since the client sent something and since the link
    \* died; has poll() reported a timeout, and is the connection as it should
    \* be: link up, clock not set forward, no packet rejected?
    silence, deadFor, timedOut, healthy,
    faults, settings        \* bounded counters

vars == <<interval, state, pc, waited, sentAge, receivedAge, link, request, toClient,
          silence, deadFor, timedOut, healthy, faults, settings>>

Nobody == {}
SetBack == MaxSettings * Back

\* The cadence that keeps a connection alive: within half an interval a ping
\* is sent, if need be after sends failed or the clock was set back, answered, and
\* the answer read.
Slack == (Park + Idle) * (1 + MaxFaults) + Delay + Idle + SetBack

ASSUME CadenceAssumption ==
    /\ Intervals \subseteq Nat /\ Unanswered \in BOOLEAN
    /\ Settings \subseteq Int /\ Back \in Nat /\ \A d \in Settings : -Back <= d
    /\ Idle \in Nat /\ Park \in Nat /\ Delay \in Nat
    /\ MaxFaults \in Nat /\ MaxSettings \in Nat /\ MaxBuffer \in Nat \ {0}
    /\ \A k \in Intervals \ {0} : 2 * Slack < k

\* is_connection_timeout: 1.5 times the interval.
Timeout(k) == k + k \div 2
Oldest == Timeout(interval) + SetBack
Older(age) == IF age < Oldest THEN age + 1 ELSE age
Counted(n) == IF n < 2 * (Oldest + Slack) THEN n + 1 ELSE n

Init ==
    /\ interval \in Intervals
    /\ state = "Connected" /\ pc = "idle" /\ waited = 0
    /\ sentAge = 0 /\ receivedAge = 0
    /\ link = "up" /\ request = Nobody /\ toClient = 0
    /\ silence = 0 /\ deadFor = 0 /\ timedOut = FALSE /\ healthy = TRUE
    /\ faults = 0 /\ settings = 0

-----------------------------------------------------------------------------
(* poll() *)

\* Mutant: the timeout looks at the last packet sent.
IsConnectionTimeout_Sent == interval # 0 /\ sentAge >= Timeout(interval)
IsConnectionTimeout == interval # 0 /\ receivedAge >= Timeout(interval)

\* Mutant: the ping looks at the last packet received.
ShouldSendKeepAlive_Received == interval # 0 /\ receivedAge >= interval
ShouldSendKeepAlive == interval # 0 /\ sentAge >= interval

\* A packet has left: what the broker must answer it answers within Delay.
Leaves(answered) ==
    /\ silence' = 0
    /\ request' = IF link = "up" /\ answered /\ request = Nobody THEN {0} ELSE request

\* The engine's flag is not reset: the next poll() reports the timeout again.
PollTimesOut ==
    /\ pc = "idle" /\ IsConnectionTimeout
    /\ state' = "Error" /\ timedOut' = TRUE /\ waited' = 0
    /\ UNCHANGED <<interval, pc, sentAge, receivedAge, link, request, toClient, silence, deadFor,
                   healthy, faults, settings>>

\* client.ping() refuses in state Error, and poll() ends.  A ping that fails
\* ends poll() too, and leaves last_packet_sent_time alone.
PollPings ==
    /\ pc = "idle" /\ ~IsConnectionTimeout /\ ShouldSendKeepAlive
    /\ waited' = 0
    /\ \/ /\ state # "Connected"
          /\ UNCHANGED <<pc, sentAge, request, silence, faults>>
       \/ /\ state = "Connected" /\ Leaves(TRUE)
          /\ sentAge' = 0 /\ pc' = "receive" /\ UNCHANGED faults
       \/ /\ state = "Connected" /\ faults < MaxFaults /\ faults' = faults + 1
          /\ Leaves(TRUE) \/ UNCHANGED <<silence, request>>
          /\ UNCHANGED <<pc, sentAge>>
    /\ UNCHANGED <<interval, state, receivedAge, link, toClient, deadFor, timedOut, healthy, settings>>

\* handle_retries may send first, in any state.
PollReads ==
    /\ pc = "idle" /\ ~IsConnectionTimeout /\ ~ShouldSendKeepAlive
    /\ pc' = "receive" /\ waited' = 0
    /\ \/ UNCHANGED <<sentAge, silence, request>>
       \/ sentAge' = 0 /\ Leaves(TRUE)
    /\ UNCHANGED <<interval, state, receivedAge, link, toClient, deadFor, timedOut, healthy, faults,
                   settings>>

\* handle_retries may fail too, before it sent anything or after, and ends
\* poll() before the read.
PollRetriesFail ==
    /\ pc = "idle" /\ ~IsConnectionTimeout
    /\ faults < MaxFaults /\ faults' = faults + 1 /\ waited' = 0
    /\ \/ ~ShouldSendKeepAlive /\ UNCHANGED <<sentAge, silence, request>>
       \/ ~ShouldSendKeepAlive /\ UNCHANGED sentAge /\ Leaves(TRUE)
       \/ (ShouldSendKeepAlive => state = "Connected") /\ sentAge' = 0 /\ Leaves(TRUE)
    /\ UNCHANGED <<interval, state, pc, receivedAge, link, toClient, deadFor, timedOut, healthy,
                   settings>>

\* Mutant: the time of receipt is left alone.
Receive_Undated ==
    /\ pc = "receive" /\ toClient > 0
    /\ toClient' = toClient - 1
    /\ pc' = "idle" /\ waited' = 0
    /\ UNCHANGED <<interval, state, sentAge, receivedAge, link, request, silence, deadFor, timedOut,
                   healthy, faults, settings>>

\* The time is taken when the packet was read, before the handler sees it; a
\* packet the handler rejects makes the client enter Error.
Receive ==
    /\ pc = "receive" /\ toClient > 0
    /\ toClient' = toClient - 1 /\ receivedAge' = 0
    /\ pc' = "idle" /\ waited' = 0
    /\ \/ UNCHANGED <<state, healthy>>
       \/ state' = "Error" /\ healthy' = FALSE
    /\ UNCHANGED <<interval, sentAge, link, request, silence, deadFor, timedOut, faults, settings>>

\* The application drops the future of the poll(): nothing else happens.  With a
\* packet to read the future is ready at once, and is not dropped.
StopWaiting ==
    /\ pc = "receive" /\ toClient = 0 /\ pc' = "idle" /\ waited' = 0
    /\ UNCHANGED <<interval, state, sentAge, receivedAge, link, request, toClient, silence, deadFor,
                   timedOut, healthy, faults, settings>>

\* publish, subscribe, ping and the like: each packet sent postpones the ping,
\* answered or not.
Send ==
    /\ pc = "idle" /\ state = "Connected"
    /\ sentAge' = 0
    /\ \E answered \in {TRUE} \cup (IF Unanswered THEN {FALSE} ELSE {}) : Leaves(answered)
    /\ UNCHANGED <<interval, state, pc, waited, receivedAge, link, toClient, deadFor, timedOut,
                   healthy, faults, settings>>

-----------------------------------------------------------------------------
(* The clock, the broker and the network (external) *)

\* A parked read is woken at once; application and broker keep their times.
Tick ==
    /\ waited < (IF pc = "idle" THEN Idle ELSE Park)
    /\ pc = "receive" => toClient = 0
    /\ \A since \in request : since < Delay
    /\ waited' = waited + 1
    /\ sentAge' = Older(sentAge) /\ receivedAge' = Older(receivedAge)
    /\ request' = {since + 1 : since \in request}
    /\ silence' = Counted(silence)
    /\ deadFor' = IF link = "dead" THEN Counted(deadFor) ELSE 0
    /\ UNCHANGED <<interval, state, pc, link, toClient, timedOut, healthy, faults, settings>>

SetClock ==
    /\ settings < MaxSettings /\ settings' = settings + 1
    /\ \E d \in Settings :
           /\ sentAge' = IF sentAge + d > Oldest THEN Oldest ELSE sentAge + d
           /\ receivedAge' = IF receivedAge + d > Oldest THEN Oldest ELSE receivedAge + d
           /\ healthy' = (healthy /\ d < 0)
    /\ UNCHANGED <<interval, state, pc, waited, link, request, toClient, silence, deadFor, timedOut,
                   faults>>

BrokerAnswers ==
    /\ request # Nobody /\ request' = Nobody
    /\ toClient' = IF toClient < MaxBuffer THEN toClient + 1 ELSE toClient
    /\ UNCHANGED <<interval, state, pc, waited, sentAge, receivedAge, link, silence, deadFor,
                   timedOut, healthy, faults, settings>>

BrokerSends ==
    /\ link = "up" /\ toClient < MaxBuffer /\ toClient' = toClient + 1
    /\ UNCHANGED <<interval, state, pc, waited, sentAge, receivedAge, link, request, silence,
                   deadFor, timedOut, healthy, faults, settings>>

LinkDies ==
    /\ link = "up" /\ link' = "dead" /\ request' = Nobody /\ healthy' = FALSE
    /\ UNCHANGED <<interval, state, pc, waited, sentAge, receivedAge, toClient, silence, deadFor,
                   timedOut, faults, settings>>

-----------------------------------------------------------------------------

Poll == PollTimesOut \/ PollPings \/ PollReads \/ PollRetriesFail \/ Receive \/ StopWaiting
World == Tick \/ SetClock \/ BrokerAnswers \/ BrokerSends \/ LinkDies
Next == Poll \/ Send \/ World

Spec == Init /\ [][Next]_vars

-----------------------------------------------------------------------------
(* Properties *)

\* Times and counters are in their ranges.
TypeOK ==
    /\ interval \in Intervals /\ state \in {"Connected", "Error"}
    /\ pc \in {"idle", "receive"} /\ waited \in 0..(IF pc = "idle" THEN Idle ELSE Park)
    /\ sentAge \in -SetBack..Oldest /\ receivedAge \in -SetBack..Oldest
    /\ link \in {"up", "dead"} /\ request \in {Nobody} \cup {{n} : n \in 0..Delay}
    /\ toClient \in 0..MaxBuffer
    /\ silence \in Nat /\ deadFor \in Nat
    /\ timedOut \in BOOLEAN /\ healthy \in BOOLEAN
    /\ faults \in 0..MaxFaults /\ settings \in 0..MaxSettings

\* "Checks if the connection has timed out." (protocol/mod.rs): a client that
\* polls at the cadence gives up only a connection on which something went
\* wrong, and none when keep-alive is disabled.
TimedOutForAReason == timedOut => interval # 0 /\ ~healthy

\* The broker hears from a connected client often enough not to close the
\* connection, whatever the client receives meanwhile and whenever a send fails.
BrokerHearsClient ==
    interval # 0 /\ state = "Connected" => silence < Timeout(interval)

\* A link that dies without a sign does not stay unnoticed for longer than the
\* timeout, the packets that were still to be read, the pings and retries that
\* failed before they were, one poll, and by how much the clock was set back.
DeadLinkNoticed ==
    interval # 0 /\ state = "Connected"
        => deadFor < Timeout(interval) + (MaxBuffer + MaxFaults + 1) * Idle + Park + SetBack
=============================================================================
