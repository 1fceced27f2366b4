----------------------------- MODULE Connection -----------------------------
(***************************************************************************)
(* The life of one MqttClient's connection: the public calls connect,      *)
(* reconnect, disconnect and poll of client.rs, the `connected` flag of    *)
(* the protocol engine (protocol/mod.rs), the statistics that              *)
(* set_connection_state keeps (state.rs), one network connection and the   *)
(* broker at its other end.                                                *)
(*                                                                         *)
(* The client is a &mut self value: at most one call is in progress.  A    *)
(* call is cut at its await points; `pc` names the one it is parked at and *)
(* `caller` the public call it serves.  Dropping the future at an await    *)
(* point (tokio::time::timeout around a call) is CancelCall.               *)
(***************************************************************************)
EXTENDS Integers, Sequences

CONSTANTS
    ReconnectEnabled,   \* ReconnectConfig::enabled
    MaxAttempts,        \* ReconnectConfig::max_attempts, 0 for unlimited
    InitialInterval,    \* ReconnectConfig::initial_interval_ms
    MaxInterval,        \* ReconnectConfig::max_interval_ms
    Scaled,             \* an interval times ReconnectConfig::backoff_multiplier, as
                        \* f32 rounds the product and `as u32` cuts off its fraction
    CanRestore,         \* can the transport be re-established under the client?
    \* Bounds of the checked instance.
    MaxTries,           \* calls to reconnect() when they are unlimited
    MaxBreaks,          \* network connections that are lost
    MaxCancels,         \* calls whose future is dropped
    MaxChannel,         \* packets in flight in one direction
    StatCap             \* statistics saturate here

\* What reconnect_interval_ms can be.
Intervals == 0..(IF InitialInterval > MaxInterval THEN InitialInterval ELSE MaxInterval)

ASSUME ConfigAssumption ==
    /\ ReconnectEnabled \in BOOLEAN /\ CanRestore \in BOOLEAN
    /\ MaxAttempts \in Nat /\ MaxTries \in Nat
    /\ InitialInterval \in Nat /\ MaxInterval \in Nat
    /\ Scaled \in [Intervals -> Nat] /\ Scaled[0] = 0
    /\ MaxBreaks \in Nat /\ MaxCancels \in Nat
    /\ MaxChannel \in Nat \ {0} /\ StatCap \in Nat \ {0}

VARIABLES
    connState,        \* ClientState.connection_state
    engineConnected,  \* MqttProtocolEngine.connected
    attempt,          \* MqttClient.reconnect_attempt
    interval,         \* MqttClient.reconnect_interval_ms
    stats,            \* ClientStats: connects, disconnects, reconnects, errors
    pc, caller,       \* the await point of the call in progress, and its call
    link,             \* "up", "broken" (peer gone, is_connected() still true), "down"
    toBroker, toClient,
    broker,           \* "none" or "open": has the peer accepted a CONNECT?
    handshakeHere,    \* ghost: engineConnected was last set on this link
    breaks, cancels   \* bounded counters of faults

client  == <<connState, engineConnected, attempt, interval, stats>>
call    == <<pc, caller>>
network == <<link, toBroker, toClient, broker>>
ghosts  == <<handshakeHere>>
faults  == <<breaks, cancels>>
vars    == <<client, call, network, ghosts, faults>>

States == {"Disconnected", "Connecting", "Connected", "Disconnecting", "Error"}
AwaitPoints == {"idle", "sendConnect", "awaitConnack", "resend", "backoff",
                "sendDisconnect", "close", "timers", "receive"}
Callers == {"none", "connect", "reconnect", "disconnect", "poll"}
FromClient == {"CONNECT", "DISCONNECT"}
\* DATA stands for a packet handle_packet accepts, BAD for one it rejects.
FromBroker == {"ACCEPTED", "RESUMED", "REFUSED", "DATA", "BAD"}

Capped(n) == IF n < StatCap THEN n + 1 ELSE n

\* Mutant: a disconnection takes a connection back off the count.
Count_Bug(s, from, to) ==
    IF to = "Disconnected" THEN [s EXCEPT !.connects = @ - 1] ELSE s

\* The arms of set_connection_state, in their order.
Count(s, from, to) ==
    CASE from = "Connecting" /\ to = "Connected" ->
             [s EXCEPT !.connects = Capped(@)]
      [] to = "Disconnected" ->
             [s EXCEPT !.disconnects = Capped(@),
                       !.reconnects = IF from = "Connected" THEN Capped(@) ELSE @]
      [] to = "Error" -> [s EXCEPT !.errors = Capped(@)]
      [] OTHER -> s

SetState(to) == connState' = to /\ stats' = Count(stats, connState, to)

Idle == pc' = "idle" /\ caller' = "none"
Park(point, by) == pc' = point /\ caller' = by
At(point) == pc = point

\* MqttProtocolEngine::is_connected
IsConnected == engineConnected /\ link # "down"

\* send_packet: bytes handed to a broken link vanish without an error.
SendOk(packet) ==
    \/ /\ link = "up" /\ Len(toBroker) < MaxChannel
       /\ toBroker' = Append(toBroker, packet)
    \/ link = "broken" /\ UNCHANGED toBroker
SendFails == link # "up" /\ UNCHANGED toBroker

\* A read drains what has arrived, then fails on a link that is gone.
ReadFails == link = "down" \/ (link = "broken" /\ toClient = <<>>)

Init ==
    /\ connState = "Disconnected" /\ engineConnected = FALSE
    /\ attempt = 0 /\ interval = 0
    /\ stats = [connects |-> 0, disconnects |-> 0, reconnects |-> 0, errors |-> 0]
    /\ pc = "idle" /\ caller = "none"
    /\ link = "up" /\ toBroker = <<>> /\ toClient = <<>> /\ broker = "none"
    /\ handshakeHere = FALSE
    /\ breaks = 0 /\ cancels = 0

-----------------------------------------------------------------------------
(* connect() and reconnect() *)

\* What a failed connect() leaves: Error, and Disconnected when poll() made it.
FailedFrom(from, by) ==
    LET failed == Count(stats, from, "Error")
    IN  IF by = "poll"
        THEN connState' = "Disconnected" /\ stats' = Count(failed, "Error", "Disconnected")
        ELSE connState' = "Error" /\ stats' = failed

\* Mutant: nothing looks at the flag of the engine.
BeginConnect_Bug(by) == SetState("Connecting") /\ Park("sendConnect", by)

\* connect() up to its first await point; the engine refuses a second CONNECT.
BeginConnect(by) ==
    IF engineConnected
    THEN FailedFrom("Connecting", by) /\ Idle
    ELSE SetState("Connecting") /\ Park("sendConnect", by)

Connect ==
    /\ At("idle")
    /\ BeginConnect("connect")
    /\ UNCHANGED <<engineConnected, attempt, interval, network, ghosts, faults>>

\* Mutant: connected as soon as CONNECT is sent.
SendConnect_Bug ==
    /\ At("sendConnect") /\ SendOk("CONNECT")
    /\ engineConnected' = TRUE /\ handshakeHere' = TRUE /\ SetState("Connected") /\ Idle
    /\ UNCHANGED <<attempt, interval, link, toClient, broker, faults>>

SendConnect ==
    /\ At("sendConnect")
    /\ \/ SendOk("CONNECT") /\ Park("awaitConnack", caller) /\ UNCHANGED <<connState, stats>>
       \/ SendFails /\ FailedFrom("Connecting", caller) /\ Idle
    /\ UNCHANGED <<engineConnected, attempt, interval, link, toClient, broker, ghosts, faults>>

\* connect() after an accepting CONNACK: poll() goes on, the others return.
ConnectDone == IF caller = "poll" THEN Park("timers", "poll") ELSE Idle

\* Mutant: the attempts start again and the interval does not.
ConnackAccepted_Bug ==
    /\ At("awaitConnack") /\ link # "down"
    /\ toClient # <<>> /\ Head(toClient) \in {"ACCEPTED", "RESUMED"}
    /\ toClient' = Tail(toClient)
    /\ engineConnected' = TRUE /\ handshakeHere' = TRUE
    /\ SetState("Connected") /\ attempt' = 0 /\ ConnectDone
    /\ UNCHANGED <<interval, link, toBroker, broker, faults>>

ConnackAccepted ==
    /\ At("awaitConnack") /\ link # "down"
    /\ toClient # <<>> /\ Head(toClient) \in {"ACCEPTED", "RESUMED"}
    /\ toClient' = Tail(toClient)
    /\ engineConnected' = TRUE /\ handshakeHere' = TRUE
    /\ SetState("Connected")
    /\ attempt' = 0 /\ interval' = 0
    /\ IF Head(toClient) = "RESUMED" THEN Park("resend", caller) ELSE ConnectDone
    /\ UNCHANGED <<link, toBroker, broker, faults>>

\* Mutant: the end of the stream is taken for "nothing yet".
ConnackRejected_Bug ==
    /\ At("awaitConnack") /\ link # "down" /\ toClient # <<>>
    /\ Head(toClient) \notin {"ACCEPTED", "RESUMED"} /\ toClient' = Tail(toClient)
    /\ FailedFrom("Connecting", caller) /\ Idle
    /\ UNCHANGED <<engineConnected, attempt, interval, link, toBroker, broker, ghosts, faults>>

ConnackRejected ==
    /\ At("awaitConnack")
    /\ \/ /\ link # "down" /\ toClient # <<>>
          /\ Head(toClient) \notin {"ACCEPTED", "RESUMED"}
          /\ toClient' = Tail(toClient)
       \/ ReadFails /\ UNCHANGED toClient
    /\ FailedFrom("Connecting", caller) /\ Idle
    /\ UNCHANGED <<engineConnected, attempt, interval, link, toBroker, broker, ghosts, faults>>

\* resend_pending_messages: its packets are Delivery's business; a send that
\* fails makes connect() return an error with the state still Connected.
Resend ==
    /\ At("resend")
    /\ \/ ConnectDone /\ UNCHANGED <<connState, stats>>
       \/ /\ link # "up" /\ Idle
          /\ IF caller = "poll" THEN SetState("Disconnected")
                                ELSE UNCHANGED <<connState, stats>>
    /\ UNCHANGED <<engineConnected, attempt, interval, network, ghosts, faults>>

Limited(delay) == IF delay < MaxInterval THEN delay ELSE MaxInterval
NextInterval == IF interval = 0 THEN InitialInterval ELSE Limited(Scaled[interval])

AttemptsLeft == MaxAttempts = 0 \/ attempt < MaxAttempts

\* reconnect() up to the delay; MaxTries bounds only the instance.
BeginReconnect(by) ==
    /\ ReconnectEnabled /\ AttemptsLeft /\ attempt < MaxTries
    /\ attempt' = attempt + 1 /\ interval' = NextInterval
    /\ Park("backoff", by)

Reconnect ==
    /\ At("idle")
    /\ BeginReconnect("reconnect")
    /\ UNCHANGED <<connState, stats, engineConnected, network, ghosts, faults>>

DelayOver ==
    /\ At("backoff")
    /\ BeginConnect(caller)
    /\ UNCHANGED <<engineConnected, attempt, interval, network, ghosts, faults>>

-----------------------------------------------------------------------------
(* disconnect() *)

\* Mutant: the state changes only when everything is done.
Disconnect_Late ==
    /\ At("idle") /\ connState # "Disconnected" /\ engineConnected
    /\ Park("sendDisconnect", "disconnect")
    /\ UNCHANGED <<client, network, ghosts, faults>>

\* Mutant: the state changes and the broker is not told.
Disconnect_Silent ==
    /\ At("idle") /\ connState # "Disconnected"
    /\ SetState("Disconnected")
    /\ UNCHANGED <<engineConnected, attempt, interval, call, network, ghosts, faults>>

Disconnect ==
    /\ At("idle") /\ connState # "Disconnected"
    /\ IF engineConnected
       THEN SetState("Disconnecting") /\ Park("sendDisconnect", "disconnect")
       ELSE /\ connState' = "Disconnected"
            /\ stats' = Count(Count(stats, connState, "Disconnecting"),
                              "Disconnecting", "Disconnected")
            /\ UNCHANGED call
    /\ UNCHANGED <<engineConnected, attempt, interval, network, ghosts, faults>>

\* Once DISCONNECT is out, close() gives up the stream before its await point.
SendDisconnect ==
    /\ At("sendDisconnect")
    /\ \/ /\ link = "up" => Len(toBroker) < MaxChannel
          /\ link # "down"
          /\ engineConnected' = FALSE
          /\ link' = "down" /\ toBroker' = <<>> /\ toClient' = <<>> /\ broker' = "none"
          /\ Park("close", caller) /\ UNCHANGED <<connState, stats>>
       \/ /\ SendFails /\ SetState("Disconnected") /\ Idle
          /\ UNCHANGED <<engineConnected, link, toClient, broker>>
    /\ UNCHANGED <<attempt, interval, ghosts, faults>>

\* The end of disconnect(); an error of close() changes nothing.
DisconnectDone ==
    /\ At("close")
    /\ SetState("Disconnected") /\ Idle
    /\ UNCHANGED <<engineConnected, attempt, interval, network, ghosts, faults>>

-----------------------------------------------------------------------------
(* poll() *)

PollFindsLoss ==
    /\ At("idle") /\ ~IsConnected /\ connState = "Connected" /\ ReconnectEnabled
    /\ \/ BeginReconnect("poll") /\ UNCHANGED <<connState, stats>>
       \/ /\ ~AttemptsLeft
          /\ SetState("Disconnected")
          /\ UNCHANGED <<attempt, interval, call>>
    /\ UNCHANGED <<engineConnected, network, ghosts, faults>>

PollDisconnected ==
    /\ At("idle") /\ ~IsConnected
    /\ ~(connState = "Connected" /\ ReconnectEnabled) /\ connState # "Disconnected"
    /\ SetState("Disconnected")
    /\ UNCHANGED <<engineConnected, attempt, interval, call, network, ghosts, faults>>

PollLive ==
    /\ At("idle") /\ IsConnected
    /\ Park("timers", "poll")
    /\ UNCHANGED <<client, network, ghosts, faults>>

\* Between the connection check and the read: the keep-alive timeout, then the
\* ping and the retries, any of which returns an error without a state change.
PollTimers ==
    /\ At("timers")
    /\ \/ SetState("Error") /\ Idle
       \/ (connState # "Connected" \/ link # "up") /\ Idle /\ UNCHANGED <<connState, stats>>
       \/ Park("receive", "poll") /\ UNCHANGED <<connState, stats>>
    /\ UNCHANGED <<engineConnected, attempt, interval, network, ghosts, faults>>

PollReceive ==
    /\ At("receive")
    /\ \/ /\ link # "down" /\ toClient # <<>> /\ toClient' = Tail(toClient)
          /\ IF Head(toClient) = "BAD" THEN SetState("Error")
                                       ELSE UNCHANGED <<connState, stats>>
       \/ ReadFails /\ SetState("Error") /\ UNCHANGED toClient
    /\ Idle
    /\ UNCHANGED <<engineConnected, attempt, interval, link, toBroker, broker, ghosts, faults>>

\* A dropped future runs no further code; a packet that was being sent may
\* have left.
CancelCall ==
    /\ ~At("idle") /\ cancels < MaxCancels
    /\ cancels' = cancels + 1 /\ Idle
    /\ \/ UNCHANGED toBroker
       \/ At("sendConnect") /\ SendOk("CONNECT")
       \/ At("sendDisconnect") /\ SendOk("DISCONNECT")
    /\ UNCHANGED <<client, link, toClient, broker, ghosts, breaks>>

-----------------------------------------------------------------------------
(* The network and the broker (external) *)

BreakLink ==
    /\ link = "up" /\ breaks < MaxBreaks /\ breaks' = breaks + 1
    /\ \/ link' = "broken" /\ UNCHANGED toClient
       \/ link' = "down" /\ toClient' = <<>>
    /\ toBroker' = <<>> /\ broker' = "none"
    /\ UNCHANGED <<client, call, ghosts, cancels>>

\* A read that is parked on a lost link fails before the link is replaced.
RestoreLink ==
    /\ CanRestore /\ link # "up" /\ ~At("awaitConnack") /\ ~At("receive")
    /\ link' = "up" /\ toBroker' = <<>> /\ toClient' = <<>> /\ broker' = "none"
    /\ handshakeHere' = FALSE
    /\ UNCHANGED <<client, call, faults>>

\* The broker ends the network connection; what it sent before still arrives.
HangUp == link' = "broken" /\ broker' = "none" /\ toBroker' = <<>>

BrokerReadsConnect ==
    /\ link = "up" /\ toBroker # <<>> /\ Head(toBroker) = "CONNECT"
    /\ \/ /\ broker = "none" /\ Len(toClient) < MaxChannel
          /\ \/ /\ \E answer \in {"ACCEPTED", "RESUMED"} : toClient' = Append(toClient, answer)
                /\ toBroker' = Tail(toBroker) /\ broker' = "open" /\ UNCHANGED link
             \/ toClient' = Append(toClient, "REFUSED") /\ HangUp
       \/ broker = "open" /\ HangUp /\ UNCHANGED toClient
    /\ UNCHANGED <<client, call, ghosts, faults>>

BrokerReadsDisconnect ==
    /\ link = "up" /\ toBroker # <<>> /\ Head(toBroker) = "DISCONNECT"
    /\ HangUp
    /\ UNCHANGED <<client, call, toClient, ghosts, faults>>

BrokerSends ==
    /\ link = "up" /\ broker = "open" /\ Len(toClient) < MaxChannel
    /\ \E packet \in {"DATA", "BAD"} : toClient' = Append(toClient, packet)
    /\ UNCHANGED <<client, call, link, toBroker, broker, ghosts, faults>>

-----------------------------------------------------------------------------

ClientCall == Connect \/ Reconnect \/ Disconnect \/ PollFindsLoss \/ PollDisconnected \/ PollLive
ClientStep ==
    \/ SendConnect \/ ConnackAccepted \/ ConnackRejected \/ Resend \/ DelayOver
    \/ SendDisconnect \/ DisconnectDone \/ PollTimers \/ PollReceive
BrokerReads == BrokerReadsConnect \/ BrokerReadsDisconnect
Environment == BreakLink \/ RestoreLink \/ BrokerReads \/ BrokerSends

Next == ClientCall \/ ClientStep \/ CancelCall \/ Environment

Spec == Init /\ [][Next]_vars

\* A call that was started is polled to completion, and a broker that is
\* reached reads what it is sent.  Nothing obliges the application to call.
Fairness == WF_vars(ClientStep) /\ WF_vars(BrokerReads)
FairSpec == Spec /\ Fairness

-----------------------------------------------------------------------------
(* Properties *)

TypeOK ==
    /\ connState \in States /\ engineConnected \in BOOLEAN
    /\ attempt \in Nat /\ interval \in Intervals
    /\ stats \in [connects: 0..StatCap, disconnects: 0..StatCap,
                  reconnects: 0..StatCap, errors: 0..StatCap]
    /\ pc \in AwaitPoints /\ caller \in Callers
    /\ link \in {"up", "broken", "down"} /\ broker \in {"none", "open"}
    /\ toBroker \in Seq(FromClient) /\ toClient \in Seq(FromBroker)
    /\ handshakeHere \in BOOLEAN
    /\ breaks \in 0..MaxBreaks /\ cancels \in 0..MaxCancels

\* A client that reports Connected has an engine that will send: client.rs
\* changes its state and the engine its flag in different calls, with await
\* points, failures and cancellations between the two.
ConnectedMeansEngineConnected == connState = "Connected" => engineConnected

\* While the network connection on which the handshake ran is up, a client
\* that reports Connected has a broker that accepted it: no cancelled, refused
\* or repeated connect() and no half-done disconnect() separates the two ends.
ConnectedMeansBrokerOpen ==
    connState = "Connected" /\ handshakeHere /\ link = "up" => broker = "open"

\* MQTT allows one CONNECT per network connection.  The `connected` guard of
\* connect_with_will keeps to it, whatever calls are made in whatever order,
\* except where the future of an earlier call was dropped.
DoubleConnectNeedsCancellation ==
    /\ link = "up" /\ broker = "open" /\ toBroker # <<>> /\ Head(toBroker) = "CONNECT"
    => cancels > 0

\* A client that reports Disconnected has left no session open at the broker
\* on a link that still works, unless a call was dropped half way.
DisconnectedMeansBrokerGone ==
    connState = "Disconnected" /\ link = "up" => broker = "none" \/ cancels > 0

\* The delay of the n-th consecutive attempt: initial_interval_ms for the first,
\* scaled and limited once for each after it.
DelayAfter(n, previous) == IF n = 1 THEN InitialInterval ELSE Limited(Scaled[previous])
Delay[n \in Nat] == IF n = 0 THEN 0 ELSE DelayAfter(n, Delay[n - 1])

\* The two counters of the backoff stay in step through failures, cancelled
\* delays and resets: the interval is the one the attempt number calls for.
BackoffMatchesAttempt == interval = Delay[attempt]

\* Every call but a poll() that waits for a packet returns, if the broker
\* answers: connect() does not hang on a refused, broken or reused connection.
CallsReturn == (pc \notin {"idle", "receive"}) ~> (pc \in {"idle", "receive"})

\* "Maximum number of reconnect attempts. `0` means unlimited."
\* (config/common.rs): with 0 an automatic reconnect is never given up.
UnlimitedAttempts ==
    [][MaxAttempts = 0 /\ pc = "backoff" /\ caller = "poll"
         => connState' # "Disconnected"]_vars
=============================================================================
