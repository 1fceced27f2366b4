# A TLA+ model of masaka

masaka is an async MQTT client library in Rust: `MqttClient` (src/client.rs) owns a protocol
engine (src/protocol/mod.rs), a session (src/session), its own state and statistics
(src/state.rs) and a time source (src/time.rs); the engine owns a transport (src/transport)
and a handler for one protocol version (src/protocol/v3.rs, v5.rs). Encoding is done by the
external crate mqtt-proto. This directory holds TLA+ modules translated from that source,
TLC configurations that check them, and proofs checked by TLAPS.

There are no threads. A client is a `&mut self` value, so at most one call is in progress, and
a call is cut only at its await points. What makes the program hard is what happens *between*
those points: the broker, the network and the clock move; the awaited operation fails; or the
application drops the future (`tokio::time::timeout(client.poll())` is the normal way to use
it), and the code after the await never runs.

## Inventory

| Component | State | Operations | Hard behaviour | What makes it correct |
|---|---|---|---|---|
| Client life cycle (client.rs) | `connection_state`, `reconnect_attempt`, `reconnect_interval_ms` | connect, reconnect, disconnect, poll | the client's state and the engine's `connected` flag change in different places; failures and dropped futures in between | both agree with each other and with the broker; calls return; backoff follows the attempts |
| Engine handshake (protocol/mod.rs) | `connected` | connect_with_will, disconnect, is_connected | the flag survives the loss of the link | one CONNECT per network connection |
| Statistics (state.rs) | `ClientStats` | set_connection_state | counts depend on pairs of states | each counter counts what it says |
| Outgoing publishing (client.rs, protocol/mod.rs, session/in_memory.rs) | `next_pid`, `pending_publishes`, `pending_pubrels`, `last_packet_sent_time` | publish, handle_retries, receive_packet, resend_pending_messages, clear | late and repeated acknowledgements, retries crossing them, failures between two changes of the session, reconnects, wrap-around of identifiers | at least once, exactly once for QoS 2, no false acknowledgement, nothing forgotten, bounded window, everything resolved in the end |
| Incoming messages (protocol/mod.rs, client.rs, state.rs) | `received_messages` | receive_packet, add_received_message, next_message | acknowledged before delivered; queue drops its oldest; duplicates; an acknowledgement that fails is never repeated | no acknowledged message lost unnoticed; duplicates only after a lost acknowledgement; everything outstanding settled or cut |
| Subscriptions (client.rs, session/in_memory.rs) | `subscriptions`, `active_topics` | subscribe(_multiple), SUBACK, unsubscribe(_multiple) | several filters share one identifier; the two tables drift apart; limit checked after the send | tables agree with the broker and with each other |
| Keep-alive (protocol/mod.rs, client.rs, time.rs) | `last_packet_sent_time`, `last_packet_received_time`, `keep_alive_interval_ms` | ping, should_send_keep_alive, is_connection_timeout | only poll() looks at the timers; a poll() parked in a read does not; the clock is the wall clock | no false timeout against a broker that answers; a dead link is noticed |
| Version 5 handler and extensions (protocol/v5.rs, client.rs) | `topic_aliases`, `next_topic_alias` | create_publish_with_config, publish_v5, publish_request, publish_response, handle_packet | aliases outlive failed sends and connections; alias counter without bound; failure reason codes taken for success; retries without properties | no message reaches another message's topic; the broker refuses nothing but an alias beyond its maximum |
| Version 3.1.1 handler (protocol/v3.rs) | none | handle_packet, create_* | | packets map to the right actions (shown through the components that use them) |
| Write queue (protocol/mod.rs) | `write_queue` | send_packet, flush_write_queue | partial writes; a future dropped inside a packet | the byte stream is a sequence of whole packets |
| Transports (transport/) | the stream or socket; the mock's buffers and settings | read, write, flush, close, is_connected | a lost connection that still reports is_connected(); short writes | what was accepted is in the stream, in order |
| Configuration (config/) | plain data | validate, presets | limits | |
| Errors, crate root, main (error/, lib.rs, main.rs) | none | | | |

The client calls the engine and lends it the session; the engine calls handler and transport
and changes the session; the broker is reached only through the transport.

## Modules

| Module | What it is |
|---|---|
| `Handler` | the packets and actions of both protocol handlers, as operators; `Incoming`, `Publish5` and `Subscriptions` extend it |
| `Connection` | connect, reconnect, disconnect, poll; the engine's flag; the statistics; one network connection; a broker (external) |
| `MCConnection`, `ConnectionProofs` | its instance for TLC; theorems about it |
| `DeliveryPromise` | the abstract promise of publishing with QoS 1 and 2 |
| `Delivery` | publish, poll and resume of a session; the session; the network; the clock; a broker (external); the refinement mapping to `DeliveryPromise` |
| `MCDelivery`, `DeliveryProofs`, `DeliveryPromiseProofs` | its instance for TLC; theorems about it, and that it implements `DeliveryPromise` |
| `Subscriptions` | subscribe, unsubscribe, SUBACK, the session's two tables of subscriptions; the network; a broker and what it is subscribed to (external) |
| `MCSubscriptions`, `SubscriptionsProofs` | its instance for TLC; theorems about it |
| `Incoming` | connect as far as the broker's session depends on it, receiving and acknowledging, the receive queue, next_message; a broker with messages for the client (external) |
| `MCIncoming`, `IncomingProofs` | its instance for TLC; theorems about it |
| `KeepAlive` | the two timers, poll's use of them, the wall clock; a broker that answers (external) |
| `MCKeepAlive`, `KeepAliveProofs` | its instance for TLC; theorems about it |
| `Publish5` | version 5 publishing, topic aliases, retries and resends of it; a broker with aliases and reason codes (external) |
| `MCPublish5`, `Publish5Proofs` | its instance for TLC; theorems about it |
| `Stream` | the write queue, the packet reader and the three transports, byte by byte; a broker that frames what it reads (external) |
| `MCStream`, `StreamProofs` | its instance for TLC; theorems about it |

Definitions whose name contains an underscore and a word, such as `Count_Bug` or
`Publish_StoredLate`, are mutants: a plausible mistake in the definition they precede. No
specification uses them; each property was checked to fail with one of them in place.

### Connection

`pc` is the await point at which the call in progress is parked (`idle` when there is none) and
`caller` the public call it serves. One action runs from one await point to the next, with every
state change of the code in between:

| Code | Actions |
|---|---|
| `MqttClient::connect`, `connect_with_will` | `Connect`, `SendConnect`, `ConnackAccepted`, `ConnackRejected`, `Resend` |
| `MqttClient::reconnect` | `Reconnect`, `DelayOver`, then those of connect |
| `MqttClient::disconnect`, engine `disconnect` | `Disconnect`, `SendDisconnect`, `DisconnectDone` |
| `MqttClient::poll` | `PollFindsLoss` (then those of reconnect), `PollDisconnected`, `PollLive`, `PollTimers`, `PollReceive` |
| a dropped future | `CancelCall` |
| network, broker (external) | `BreakLink`, `RestoreLink`, `BrokerReadsConnect`, `BrokerReadsDisconnect`, `BrokerSends` |

Abstractions. `poll` before the read is `PollTimers`: the keep-alive timeout may strike, the ping
and the retries may fail, without saying when. A `link` is `up`, `broken` (the peer is gone,
`is_connected()` still says true, as with the Tokio transport, and what is written vanishes) or
`down` (`is_connected()` says false). `RestoreLink` gives the client a working transport again;
the transports of src/transport cannot do that, a user's may (`CanRestore`). It does not happen
under a parked read: such a read fails first. `handle_packet` is a packet it accepts (`DATA`) or
rejects (`BAD`). The product of an interval with the backoff multiplier, an `f32` that is cut off to
a `u32`, is the constant function `Scaled`: any rounding is one of its values. Statistics saturate
at `StatCap`.

### Delivery

The session is `nextPid`, `publishes` (a function from identifiers to entries) and `pubrels`.
`pc` and `todo` say in which loop the call in progress is and what it has left to send; the
loops of the code collect identifiers first and send afterwards, with an await at each send.

| Code | Actions |
|---|---|
| `MqttClient::publish`, engine `publish`, `next_pid` | `Publish` |
| subscribe, unsubscribe, ping, QoS 0 | `OtherTraffic` |
| `poll`: timeout | `PollTimesOut` |
| `handle_retries` | `PollStartsRetries`, `RetryPublish`, `RetryPubrel` |
| `receive_packet`, `handle_packet_action` | `ReceivePuback`, `ReceivePubrec`, `ReceivePubcomp`, `ReceiveFails` |
| a future of poll dropped in the read | `StopWaiting` |
| `MqttClient::new` in a process that starts again | `Restart` |
| `connect`, `resend_pending_messages`, `clear` | `Reconnect`, `ResendPublish`, `ResendDone`, `ConnectFails` |
| network, clock, broker (external) | `BreakLink`, `Tick`, `BrokerPublish`, `BrokerPubrel` |

A send ends `sent`; `lost`, an error or a dropped future before the packet left; or `written`,
the same after it left. Code after the send runs only after `sent`. Times are ages: the code
compares `current_time.saturating_sub(timestamp)` with constants, so an age is capped where no
comparison can tell it from a larger one. `sincePoll` is the age of the `current_time` that a
poll read once and uses for all its retries. The clock does not move between the last PUBLISH
retry and the test for PUBREL: the code has no await point there. The ping of a poll() is an
`OtherTraffic` before `PollStartsRetries`: the code reads the clock before it sends the ping, and the
time that send takes passes in the retries, over which the same entries are due.

A `Reconnect` is a new network connection of a client that holds the session (the session is a
value that can outlive the client; the engine refuses to reconnect by itself, see the findings).
A `Restart` may end the process at any await point: the session is in memory and is lost.
The broker implements MQTT's server side: QoS 1 is delivered on arrival; QoS 2 is delivered on
arrival if its identifier is not in `received`, which PUBREL empties.

Ghost variables record what application and subscribers saw (`published`, `owner`,
`deliveries`, `acked`, `dropped`, `cleared`), the identifiers whose PUBCOMP is awaited
(`awaiting`) and the identifiers handed out (`allocated`). They feed properties and bounds only.
`NoWrap` (`allocated <= MaxPid`) says identifiers have not been used twice; the code gives no
guarantee beyond that point: `next_pid` does not look at what is pending, although its
documentation speaks of the "next available" identifier. `NoReuse` says it of every session of the
behaviour, for the properties about what outlasts a session.

`footing` says how the two sessions relate: `shared`; `lost`, since the client's was cleared (by a
connect() that failed, or a restart) and the broker's was not; `estranged`, once the broker has
answered session_present to such a client, which takes the session for its own. A new QoS 2
message then may get an identifier that the broker remembers: the broker acknowledges it as a
copy and delivers it to nobody, and the client reports it as acknowledged. `AckedWasDelivered`,
`NothingForgotten` and `KeepsPromise` hold up to that point; `ExactlyOnce` holds beyond it.

### Subscriptions

| Code | Actions |
|---|---|
| `subscribe`, `subscribe_multiple` (and `subscribe_v5`), `add_subscription` | `Subscribe` (with `Added`, `Room`) |
| `unsubscribe`, `unsubscribe_multiple`, `remove_subscription` | `Unsubscribe` (with `Removed`) |
| `handle_packet_action`, `confirm_subscription` | `Receive` (with `Confirm`) |
| `poll`: a timeout, a packet rejected | `PollFails` |
| `connect`, `clear` | `Reconnect`, `ConnectFails` |
| network, broker (external) | `BreakLink`, `BrokerSubscribe`, `BrokerUnsubscribe` |

A call and its send are one step: the code after the send has no await point, and the answer is
read by a later poll(). A request is a sequence of filters; `Requests` of length 1 are subscribe
and unsubscribe. `remove_subscription` takes whichever entry of the filter the hash map yields, so
`Removed` chooses. The model has no publishes, which use identifiers of the same sequence:
`allocated` counts the calls since identifiers started from 1, and `NoWrap` is as in Delivery.

`asked` and `unsure` are ghosts: the filters of subscribes that returned Ok and were not undone,
and the filters of requests whose fate the application cannot know, because the send failed, the
link broke before the broker read them, or the call returned an error after it had sent the
packet. Nothing renews subscriptions when the client connects again, so `Reconnect` makes
everything that was pending unsure. The broker may have lost its session by then; connect() ignores
session_present = false, keeps the active topics and tells nobody, so what the broker dropped is
unsure too.

The requests and answers are those of `Handler`: with `Version` = 5 a SUBSCRIBE carries the
subscription identifier of its `V5SubscribeConfig`, and the answer has reason codes, which the
session does not look at.

### Handler

One operator per function of `V3Handler` and `V5Handler` that makes a packet, and one per version
for `handle_packet`, whose result is the `PacketAction` the engine acts upon, or an error. An
`Option` is a set with at most one element. Only `create_publish_with_config` has state, the
aliases; it is a function from a handler to the packet and the next handler. Encoding is done by
mqtt-proto and left out.

### Incoming

| Code | Actions |
|---|---|
| `MqttClient::connect`, `connect_with_will`, CONNACK | `Connect` |
| `MqttClient::disconnect` | `Disconnect` |
| `receive_packet`, `handle_packet_action` | `ReceivePublish`, `ReceivePubrel`, `ReceiveOther`, `ReceiveFails` |
| `poll`: timeout | `PollTimesOut` |
| `ClientState::add_received_message` | `AddReceivedMessage` |
| `MqttClient::next_message` | `NextMessage` |
| network, broker (external) | `BreakLink`, `BrokerSends`, `BrokerStray`, `BrokerReads` |

Connecting is one step here: its await points are in `Connection`. What CONNECT carries matters,
because it decides what the broker keeps and may send: version, clean session or session expiry,
receive maximum, topic alias maximum, will. A configuration is given to a new client, which
shares nothing with the one before; `Connect` with the present configuration may also be the same
client after `disconnect`.

An acknowledgement ends `sent`, `lost` or `written` as in Delivery, and the message is queued
after `sent` only. The broker sends a message once per connection (MQTT forbids more), keeps what
is unacknowledged, and sends it again on a connection that resumes the session. A poll() that ends
before its read with an error of the ping or of the retries, and leaves the state as it is, changes
nothing here.

Ghosts: `receipts` are all messages queued, in order; `gone` those that left the queue by
next_message, by overflow, with a discarded client, or whose acknowledgement was written by a call
that failed, so that an application can know of each; `settled` those the broker is done with;
`lostAcks` counts acknowledgements lost on the way; `stuck` are the messages for which the broker
waits until a new connection, because an acknowledgement was not sent.

### KeepAlive

| Code | Actions |
|---|---|
| `poll`: is_connection_timeout | `PollTimesOut` |
| `poll`: should_send_keep_alive, `ping` | `PollPings` |
| `poll`: handle_retries, the read | `PollReads`, `PollRetriesFail` |
| `receive_packet` | `Receive` |
| every other packet sent | `Send` |
| a future of poll dropped in the read | `StopWaiting` |
| `TokioTimeProvider::current_timestamp_ms` | `SetClock`, `Tick` |
| network, broker (external) | `LinkDies`, `BrokerAnswers`, `BrokerSends` |

Timestamps are kept as ages by the client's clock, which `SetClock` moves: `SystemTime` is the
wall clock. (`EmbassyTimeProvider` counts from boot, so that `SetClock` does not happen there.)
Ages may be negative after the clock was set back, which the code's `saturating_sub` takes for 0.
`link = "dead"` is a connection that lost its peer without a sign. `waited` is the true time since
the last poll() began or ended.

Nothing in the code limits the time between two calls of poll(). `CadenceAssumption` is what an
application must do for keep-alive to work: it lets at most `Idle` pass between two polls, drops a
poll() after at most `Park`, and `Slack` (those, once more for each ping or retry that may fail, the
broker's `Delay`, and by how much the clock may be set back) fits twice into an interval. The
ghosts are true times: `silence` since the broker heard from the client, `deadFor` since the link
died; `healthy` says that the link is up, the clock was not set forward and no packet was rejected.

### Publish5

| Code | Actions |
|---|---|
| `publish_v5`, `V5PublishConfig::topic_alias` | `PublishV5`, `PublishWithAlias` |
| `publish_request`, `publish_response` | `PublishRequest`, `PublishResponse` |
| `publish` of a version 5 client | `Publish` |
| `handle_retries` | `Retry` |
| `receive_packet` | `ReceivePuback`, `ReceiveFails` |
| `connect`, `resend_pending_messages` | `Reconnect` |
| network, broker (external) | `BreakLink`, `BrokerRoutes`, `BrokerRefuses` |

Messages are published in the order of `TopicOf`. The session outlives the connection; `Reconnect`
uses it with the same client's handler or a new one's. Times are left out: `Retry` may happen
whenever a retry is allowed, the times are in Delivery. The broker keeps aliases per connection
and closes it over a PUBLISH it cannot accept. Ghosts: `given` are the properties each message was
published with, `routed` what subscribers got, `acked` what the client counts as acknowledged,
`denied` what was answered with a failure code, `refused` the aliases the connection was closed
over. The overflow of the `u16` after 65535 topics is left out.

### Stream

| Code | Actions |
|---|---|
| `send_packet`, `disconnect` | `SendPacket` |
| `flush_write_queue` | `Write`, `WriteFails`, `Flush` |
| `read_from_transport`, the packet reader | `StartRead`, `Read`, `ReadFails` |
| `TokioTransport`, `EmbassyTransport`, `MockTransport` | `TokioWrite`, `EmbassyWrite`, `MockWrite` and the like: sets of results of one call |
| a dropped future | `DropFuture` |
| network, broker (external) | `BreakLink`, `BrokerReads`, `BrokerCloses`, `BrokerWrites` |

Each direction of the connection holds `Capacity` bytes and a write takes any part of what it is
offered. A future owns the packet it popped from the write queue, so dropping it forgets the rest.
A mock is given its settings (error on the n-th call, delay, data to read) before a client owns
it. The broker is `patient`, it goes on reading while an answer waits, or not. Ghosts: `begun` and
`ok` are the packets begun and reported sent, `cut` the first one cut after some of its bytes,
`wire` all bytes the transport took, `received` the packets read by the client.

## Runs

| Run | Shows |
|---|---|
| `Connection` | every order of calls, two lost connections, two dropped futures: client, engine and broker agree; calls return |
| `Delivery` | two QoS 2 messages and one of QoS 1, clients with and without `clean_session`, restarts, a broker that may lose its session, two retries, a lost connection, a failed send: no message is lost, retries are spaced; the abstract promise, until client and broker are estranged |
| `DeliveryLive` | two QoS 2 messages together, whose retries compete: acknowledged means delivered, once; every publish and (without other traffic) every PUBREL is resolved on a connection that lasts |
| `Subscriptions` | session and broker agree, one filter per request, none subscribed to twice, a failed send, a lost connection |
| `SubscriptionsAny` | version 5: the session's tables keep their limit and agree with each other, and pending subscriptions are resolved, with requests of two filters, repeated subscriptions, a clean session, room for two |
| `Incoming` | both versions, sessions kept and not, three messages, a queue of two, a cut acknowledgement, a new connection: nothing is lost unnoticed, the queue is the newest messages, duplicates need a lost acknowledgement, what is outstanding is settled or cut, a lost connection is noticed |
| `KeepAlive` | keep-alive off and on, a failed ping or retry, a clock set back or forward, a link that dies: no timeout without a reason, the broker hears the client, a dead link is noticed in time |
| `Publish5` | two topics, a broker with one alias, aliases of handler and application, a lost send, a reconnection: nothing reaches another topic; the broker refuses only an alias beyond its maximum; what counts as acknowledged was answered |
| `Stream` | three packets, two dropped futures, errors of a mock: packets are whole up to the first cut one, Ok means in the stream, answers are received whole, sends return or both sides wait |
| `ConnectionUnlimited`, `KeepAliveFalse`, `Publish5Retry` | the code does not do what a comment says, see below |

Bounds. In Delivery two identifiers and two or three messages make every pair of a first and a
second user of the session, and of an identifier before and after a restart, interact. `MaxRetry`
is 2 in `Delivery` (1 in `DeliveryLive`) instead of 3: the code distinguishes the first retry, a
later one and exhaustion. `DeliveryLive` has QoS 2 only: both messages can await PUBCOMP with nothing
else in flight, so that the retry of one PUBREL postpones the other's, and the first half of their
exchange is what QoS 1 does; QoS 1 itself is in `Delivery`. Channels hold two or three packets, enough for a retry to follow the
original and for acknowledgements to be reordered against them. One failed send and one lost
connection or restart are enough for each step of the session to be interrupted; the promise for
any number of them is a theorem. The messages are symmetric only within a quality of service, so
no symmetry is used. In Subscriptions two
filters are symmetric (symmetry is off where liveness is checked), three or four calls allow
subscribe, unsubscribe and subscribe again beside a request for the other filter, and a `Capacity`
of 2 lets two entries of one filter, or of one request, coexist and makes a third meet the limit.

In Connection the multiplier is the preset 1.5, with intervals 3, 4 and 5: a product that is cut
off, then the maximum. Incoming has three messages, one of each QoS, and a queue of two, so that
order shows and the queue overflows; two of them may be outstanding at a time, with one packet in
each direction; and four configurations, one for each kind of session, of which the one that version
5 keeps has a receive maximum of 1 and a will. KeepAlive has an
interval of 16 ticks, where the slack asks for more than 14, and one setting of the clock; the
theorems hold for all. In Publish5 the first and the last of three messages share a
topic, so that an alias is introduced and then used, the second topic gets the alias beyond the
broker's maximum of 1, and the application's own aliases are those two numbers. In Stream a packet
of 3 bytes does not fit the connection's 2, one of 2 just does, and two drops cut one packet and
disturb the next.

`CHECK_DEADLOCK FALSE` appears where a client may stop: in Connection a poll() waits for ever
for a packet on a connection on which nobody sends; in Delivery a client parked in a send, with
both directions full, waits for a broker that waits for it (the code does not read while it
writes; only dropping the future, a bounded fault in the model, ends that); in Subscriptions,
Incoming, Publish5 and Stream the calls or messages are used up. DeliveryLive and KeepAlive check
for deadlock.

### Fairness

`Connection`: the executor polls a future that can go on (`WF(ClientStep)`) and the broker
reads what arrives (`WF(BrokerReads)`). Nothing obliges the application to call anything and
nothing obliges links to break.

`DeliveryLive`: the application polls in a loop with a timeout around each poll while it is
connected, and connects again when it is not; futures are polled; the broker answers; time
passes. Reading is strongly fair because the application's timeouts interleave with it, and
`Patient` says that a poll() with a packet ready returns it rather than be dropped, since such a
poll completes without waiting.

`SubscriptionsAny`, `Incoming`: the application polls while the client is Connected, and the broker
reads and answers. Such a poll() reads, unless it times out and enters Error, or fails to send a
ping or a retry, which on a working link does not go on for ever. In state Error a poll() may end
before the read every time (the ping is refused), so nothing is assumed of it; `Lasting`, under which
the properties promise something, asks for Connected. The application need not take messages,
connect or disconnect, and the broker need not send. One case is outside `LossNoticed`: with keep-alive off,
a PUBREL whose retry fails at every poll keeps poll() from the read that would find the lost link;
the application sees an error each time. `Incoming` has nothing to retry.

`Stream`: a future that can make progress does, unless it is dropped, and the broker reads, closes
and writes when it can. It need not read while its own answer cannot be written.

## Where the code differs from its documentation

- `ConnectionUnlimited`: "Maximum number of reconnect attempts. `0` means unlimited."
  (config/common.rs). The engine's `connected` is not reset by a loss, its guard refuses CONNECT,
  and poll() gives up after one attempt.
- `KeepAliveFalse`: "Checks if the connection has timed out." (protocol/mod.rs). The ping is due by
  the time of the last packet sent, the timeout by that of the last one received. A client that
  keeps sending what needs no answer never pings, hears nothing, and enters Error on a connection
  that is up. The theorem `NoFalseTimeout` is about clients that do not (`~Unanswered`).
- `Publish5Retry`: "Publishes a message with full MQTT v5.0 properties support." (client.rs). The
  session keeps topic, QoS, retain flag and payload: the retry of a request has no response topic.

Also read in the code, and not given a run:

- `next_pid` returns "the next available Packet ID" (session/mod.rs) without looking at what is
  pending; after 65535 identifiers it may return one in use.
- connect() resumes whatever session the broker says is present, also when its own is new: see
  `footing` above.
- `max_inflight_messages`, "Maximum number of in-flight messages." (config/mod.rs), does not count
  QoS 2 messages between PUBREC and PUBCOMP.
- subscribe_multiple says "Add all subscriptions to session state" (client.rs); all filters of a
  request go under its one identifier, and the last one replaces the others.
- A filter subscribed to twice and unsubscribed once keeps an entry in state Active, "The
  subscription is active." (state.rs), while the broker has dropped it. `Subscriptions` therefore
  checks `ActiveMeansGranted` and `AgreeWhenSettled` with `Resubscribe = FALSE`.
- `max_subscriptions`, "Maximum number of active subscriptions." (config/mod.rs), counts entries in
  state Failed.
- A broker that loses its session is not subscribed to again: connect() looks at session_present
  only to resend, and the active topics of the session stay.
- "The number of reconnections." (state.rs): `reconnect_count` counts connections that ended
  without a reconnection.
- "We need to track that we are awaiting a PUBCOMP." (session/mod.rs): the pubrel is stored only
  after PUBREL was sent with success.
- "Retrieves all pending outgoing `PUBREL` messages that need to be re-sent." (session/mod.rs):
  they are not sent again when a session is resumed, and their retries wait for a second without
  any traffic.
- The trait says of is_connected() "Returns `true` if the transport can send and receive data"; the
  Tokio transport says so until it is closed by its owner, whatever the peer does.
- A mock with nothing to read returns Ok(0), which the packet reader takes for the end of the stream.
- `with_subscription_identifier` turns an identifier out of range into 0.
- A backoff that reaches 0, by a multiplier well below 1 or a maximum of 0, starts over:
  reconnect() takes an interval of 0 for the first attempt.
- The statistics depend on the pair of states of every transition; they drive nothing.
- `connect_timeout_ms`, `enable_auto_ping`, `enable_packet_id_validation`, the jitter of the backoff
  and, but for validate(), `max_packet_size` are used by nothing outside config/; the
  keep-alive interval a server imposes is logged and not used.
- A topic alias of an incoming PUBLISH is not resolved: an application that announced a topic alias
  maximum gets messages with an empty topic.

## Theorems

All for every value of the constants that satisfies the module's assumption (`ConfigAssumption`,
`CadenceAssumption`): any retry policy, any sets of messages and identifiers, any bound on faults.

`ConnectionProofs`
- `TypeCorrect`: `Spec => []TypeOK`.
- `ConnectedAgrees`: `Spec => []ConnectedMeansEngineConnected`. The inductive invariant
  (`Agreement`) adds that a call parked between the handshake and the end of connect() still has
  the engine's flag, and that disconnect() has left `Connected` before it resets the flag.
- `ConnectedToOpenBroker`: `Spec => []ConnectedMeansBrokerOpen`. The invariant (`BothEnds`) speaks
  of the packets in flight: an accepting CONNACK on the way, and a DISCONNECT not yet read.
- `OneConnect`: `Spec => []DoubleConnectNeedsCancellation`, and `NoSessionLeft`:
  `Spec => []DisconnectedMeansBrokerGone`. Their invariant (`Orderly`) speaks of behaviours without
  a dropped future: at each await point it says what the broker has read, what is on its way, and
  that a call which ends outside the handshake leaves no session that the client does not know of.
- `BackoffInStep`: `Grows => (Spec => []BackoffMatchesAttempt)`. The delay of the n-th attempt is a
  recursive function (`Delay`): the initial interval, then scaled and limited once for each attempt.
  The multiplier enters only through `Scaled`, so the theorem holds for 2.0, 1.5 and 1.0 and for
  whatever their products are rounded to. The library's theorems about induction take an operator as
  a parameter; `NumberInduction` states it for a set instead, from the well-foundedness of `<`, and
  with it `DelayEquation` proves that the recursion has a solution. `BackoffStep` is one attempt.
  `Grows` (the maximum is not 0 and no interval above 0 is scaled to 0, unless the initial interval
  is 0) is needed: an interval that falls to 0 counts as none, and the next attempt starts over. A
  multiplier of at least 1, as all presets have, satisfies it; validate() accepts others.

`DeliveryProofs`
- `TypeCorrect`: `Spec => []TypeOK /\ []LoopHasEntries`. The two are proved together: the loops
  index the session by identifiers they collected earlier.
- `InFlightBounded`: `Spec => []InFlightBound`. Only publish() adds an identifier
  (`OnlyPublishAdds`), and it checks the window first.
- `OnePhase`: `Spec => []OnePhasePerPid`. The invariant (`Fresh`) says that before the
  wrap-around the identifiers in use are among those handed out and the next one is new.
- `RetriesTakeTime`: `Spec => []RetriesSpaced`. The invariant (`Spaced`) says that an entry has
  waited for its retries and its age, and one that the current poll is about to retry for that
  retry as well, since before the poll read the clock.
- `PubrelsTracked`: `Spec => []PubcompTracked`.

`DeliveryPromiseProofs`
- `AcknowledgedIsDelivered`: `Spec => []AckedWasDelivered`; `NothingIsForgotten`:
  `Spec => []NothingForgotten`; `Qos2DeliveredOnce`: `Spec => []ExactlyOnce`. One invariant (`Inv`)
  for the three, beside `Typed` and `Fresh`. `Copies` speaks of the packets to the broker: a message
  travels under one identifier, and no copy of it behind its PUBREL. `DeliveredOnce` says that the
  broker remembers a QoS 2 message while a copy may still come. `Ledger` says that a copy, a PUBREL,
  an acknowledgement, the broker's memory and the session's pubrels, where they name an identifier
  that the application has used since the session was last cleared, speak of the message published
  under it, and that the broker has it; it holds until the sessions are estranged. Most steps are
  `Calm`: they add nothing that could break it. publish(), the broker's reading of a PUBLISH, a
  cleared session and a new connection are proved one by one.
- `PromiseIsKept`: `NoReuse => (Spec => KeepsPromise)`. publish() is an `Accept`, the broker's
  reading of a PUBLISH a `Deliver` or nothing, an acknowledgement a `HandOver`, exhausted retries
  and a cleared session an `Abandon`, and every other step changes nothing the promise speaks of.

`SubscriptionsProofs`
- `TypeCorrect`: `Spec => []TypeOK`.
- `Limit`: `Spec => []WithinLimit`. The invariant (`Limited`) adds that the tables are finite. Each
  table grows by one element at a time and only after a test of its size (`EntriesGrowInRoom`,
  `ActiveGrowsInRoom`); no property of identifiers is used, so the limit survives their reuse.
- `ActiveTopicsBacked`: `Spec => []ActiveHasEntry`. The property alone is not inductive: a SUBACK
  that finds an Active entry under its identifier would overwrite it. The invariant
  (`NumberingInv`) says that identifiers are handed out in the order in which the packets travel, so
  that what is under way is about a pending entry or about none. It holds until they wrap around.
- `ActiveIsGranted`: `OneByOne => (Spec => []ActiveMeansGranted)`, and `AgreementWhenSettled`:
  `OneByOne => (Spec => []AgreeWhenSettled)`, where `OneByOne` is one filter per request and none
  subscribed to while it has an entry; without it the code does drift from the broker, see above.
  `AgreementInv` speaks of every filter of which no request failed or was lost: it has one entry at
  most, the last packet about it is of the entry's identifier, or an unsubscribe if there is no
  entry (`LastWord`); subscribes and unsubscribes take turns (`Turns`); and an entry says what the
  broker holds, or the SUBACK under way does (`Truthful`). That active topics never meet the limit
  when a SUBACK arrives follows from `WithinLimit` and one entry per filter.

`IncomingProofs`
- `NewestInOrder`: `Spec => []QueueIsNewest`; `SettledIsHeld`: `Spec => []NoSilentLoss`;
  `DuplicatesBounded`: `Spec => []DuplicatesNeedLostAck`. One invariant (`Inv`) for the three. Its
  part `Exchanges` says that identifiers and messages of what is outstanding are different, that
  each packet on its way belongs to an exchange in its phase, that an exchange has one packet on
  its way at most, and that the client holds, or has let go of, what it acknowledged. `Counted`
  adds that a message which may still arrive although nothing gets lost (`Pending`) has arrived
  no more often than acknowledgements of it were lost. The broker finds an identifier for each
  unsent message by the pigeonhole principle (`FreePids`).

`Publish5Proofs`
- `TypeCorrect`: `Spec => []TypeOK`; `AliasesNeverShared`: `Spec => []AliasesDistinct`;
  `NeverMisrouted`: `Spec => []RoutedAsIntended`; `OnlyTheMaximumRefused`:
  `Spec => []RefusedForAReason`. One invariant (`Inv`): the handler's aliases are the numbers below
  `next_topic_alias`, one per topic; identifiers in use are numbers handed out, no more than
  messages published; every packet in flight names the topic of its message, beside the alias it
  announces.
- `AcknowledgedMeansAnswered`: `Spec => []AckedWasAnswered`. `AnswerInv` adds that a copy under way
  is about the message that waits under its identifier, if one does (`Asked`), and that a PUBACK
  under way under such an identifier follows the broker's answer to that message (`AnswerAcks`): no
  late PUBACK of another message can remove it.

`KeepAliveProofs`
- `TypeCorrect`: `Spec => []TypeOK`.
- `ClientIsHeard`: `Spec => []BrokerHearsClient`. The invariant `Heard` relates the true silence to
  the age by the client's clock, the settings so far and the pings that failed.
- `NoFalseTimeout`: `~Unanswered => (Spec => []TimedOutForAReason)`. `Healthy` says that polls keep
  the age of the last packet sent low, and that on a healthy connection an answer waits to be
  read, is on its way within its delay, or has been read since the last packet was sent.
- `DeathIsNoticed`: `Spec => []DeadLinkNoticed`. `Dead` follows the packets that are still to be
  read after the link died: each of them and each failed ping or retry may postpone the timeout once.

The products `n * Idle` and `n * Back` in the three of `KeepAliveProofs` are hidden behind two operators whose laws
are lemmas, since the prover's arithmetic is linear.

`StreamProofs`
- `SentInOnePiece`: `Spec => []OkIsInStream`. The invariant (`WireInv`) describes all bytes the
  transport ever took: the numbers of their packets never decrease, and up to the first packet cut
  each byte is the next one of its packet or the header of a later packet (`Follows`); the stream
  ends with what the send in progress has written, otherwise with a whole packet (`EndOK`).
- `WholePackets`: `Spec => []WholeUntilCut`. `Framing` says that the broker's frame and the bytes on
  their way are the end of that stream, and that a broker between two packets stands where a
  packet ends in it. No assumption is made about what it reads after the first cut.
- `WholeAnswers`: `Spec => []ReceivedWhole`. The bytes the client holds of a packet, those on their
  way and those the broker has yet to write, taken together, are the answers not received yet
  (`Answering`); reading or writing a byte does not change that sequence (`ByteMoves`).

Every invariant that the runs check is proved. Only model-checked: liveness (`CallsReturn`,
`PublishesResolve`, `PubrelsResolveWhenQuiet`, `PendingResolves`, `OutstandingResolves`,
`LossNoticed`, `SendReturns`), which the prover does not handle.

## Plan

What remains, in this order:

1. Proofs: a weaker condition than `OneByOne` for the agreement of session and broker, with filters
   subscribed to again but never unsubscribed.
2. A composition of the client's parts that share the session and the engine's timers: publishing
   and subscribing take identifiers from one sequence, and every packet sent moves the timer that
   PUBREL retries wait for (`OtherTraffic` stands for the rest in Delivery, `Send` in KeepAlive).

## Not modelled

Encoding and decoding (mqtt-proto is external); error types and their text, which keep no state;
TLS (not wired up); the operating system's and embassy-net's sockets, external, of which `Stream`
has what the transports see; the configuration's builders and presets, which are plain data, and
validate(), a test of constants whose conditions the modules assume; the message counters, which
drive nothing, and the accessors of statistics and of the mock's captured data; `reset_stats` and
`clear_volatile_state`, which nothing calls; main.rs, which is empty. Where a hazard of
PROJECT.json has no property, its note says why.
