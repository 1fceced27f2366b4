------------------------------- MODULE Stream -------------------------------
(***************************************************************************)
(* The byte stream under the packets: send_packet, flush_write_queue and   *)
(* read_from_transport (protocol/mod.rs) over the three transports         *)
(* (transport/tokio.rs, embassy.rs, mock.rs), and a broker that frames     *)
(* what it reads by the length in each packet's header (external).         *)
(*                                                                         *)
(* A packet is the sequence of its bytes <<number, position>>, the byte at *)
(* position 1 being its header.  The calls of the client take it by        *)
(* mutable reference, so one future runs at a time; the application may    *)
(* drop it wherever it waits.  send_packet pushes onto a write queue from  *)
(* which flush_write_queue pops before it first waits: the queue is empty  *)
(* in every state, and the packet being written belongs to the future.     *)
(***************************************************************************)
EXTENDS Integers, Sequences, SequencesExt, FiniteSetsExt

CONSTANTS
    SizeOf,         \* the sizes of the packets the client sends, in their order
    AnswerSize,     \* the size of the broker's answer to each
    Capacity,       \* bytes each direction of the connection can hold
    Kinds,          \* the transports: "tokio", "embassy", "mock"
    \* Bounds of the checked instance.
    MaxDrops,       \* futures dropped
    MaxErrors       \* write errors, and read errors, put into a mock

ASSUME ConfigAssumption ==
    /\ SizeOf \in Seq(Nat \ {0, 1}) /\ AnswerSize \in Nat \ {0, 1} /\ Capacity \in Nat \ {0}
    /\ Kinds \subseteq {"tokio", "embassy", "mock"} /\ Kinds # {}
    /\ MaxDrops \in Nat /\ MaxErrors \in Nat

VARIABLES
    transport,          \* what the transport object keeps
    future,             \* the call in progress: type, and for a send its packet
                        \* and how much of it is written
    packet_state,       \* the bytes of the packet received in part
    link,               \* the connection is up
    out, inn,           \* bytes on their way to the broker and to the client
    patient,            \* the broker reads even while an answer waits to be written
    frame, frames,      \* what the broker has read of a packet, and of packets
    owed,               \* bytes of answers not written yet
    \* Ghosts: packets begun; those whose send returned Ok; the first one cut
    \* after some of its bytes, 0 for none; all bytes the transport took;
    \* packets the client received.
    begun, ok, cut, wire, received,
    drops               \* bounded counter

client == <<transport, future, packet_state>>
broker == <<patient, frame, frames, owed>>
ghosts == <<begun, ok, cut, wire, received>>
vars   == <<client, link, out, inn, broker, ghosts, drops>>

Bytes(number, size) == [i \in 1..size |-> <<number, i>>]
Packet(p) == Bytes(p, SizeOf[p])
Answer(k) == Bytes(k, AnswerSize)

Idle == [type |-> "idle"]
Reading == [type |-> "read"]
Sending(p, written, closing) ==
    [type |-> "send", packet |-> p, written |-> written, closing |-> closing]

-----------------------------------------------------------------------------
(* The transports.  A read or a write returns a number of bytes or Err, and *)
(* leaves the transport changed; where no result is possible it waits.      *)

Err == -1
Result(n, t) == [n |-> n, transport |-> t]

\* An operating system's socket (external): it takes what there is room for,
\* and on a connection that is down nothing or an error.
SocketWrite(left) == IF link THEN 1..Min({left, Capacity - Len(out)}) ELSE {0, Err}
SocketRead == IF inn # <<>> THEN {1} ELSE IF link THEN {} ELSE {0, Err}

\* The stream is an Option that close() takes.
TokioWrite(left) ==
    {Result(n, transport) : n \in IF transport.stream THEN SocketWrite(left) ELSE {Err}}
TokioRead == {Result(n, transport) : n \in IF transport.stream THEN SocketRead ELSE {Err}}

\* The socket is there after close() too: it takes nothing any more, and still
\* gives what arrives.
EmbassyWrite(left) ==
    {Result(n, transport) : n \in IF transport.stream THEN SocketWrite(left) ELSE {0, Err}}
EmbassyRead ==
    {Result(n, transport) : n \in SocketRead \cup (IF transport.stream THEN {} ELSE {0, Err})}

\* Errors come before data, one for each call; a write takes everything, a read
\* that finds nothing returns 0 where a socket waits.
MockWrite(left) ==
    IF transport.loss THEN {Result(Err, [transport EXCEPT !.stream = FALSE])}
    ELSE IF ~transport.stream THEN {Result(Err, transport)}
    ELSE IF transport.write_errors > 0
         THEN {Result(Err, [transport EXCEPT !.write_errors = @ - 1])}
    ELSE {Result(left, transport)}

MockRead ==
    IF transport.loss THEN {Result(Err, [transport EXCEPT !.stream = FALSE])}
    ELSE IF ~transport.stream THEN {Result(Err, transport)}
    ELSE IF transport.read_errors > 0
         THEN {Result(Err, [transport EXCEPT !.read_errors = @ - 1])}
    ELSE IF transport.slow THEN {Result(Err, transport)}
    ELSE {Result(Min({1, Len(inn)}), transport)}

Writes(left) == CASE transport.kind = "tokio" -> TokioWrite(left)
                  [] transport.kind = "embassy" -> EmbassyWrite(left)
                  [] transport.kind = "mock" -> MockWrite(left)
Reads == CASE transport.kind = "tokio" -> TokioRead
           [] transport.kind = "embassy" -> EmbassyRead
           [] transport.kind = "mock" -> MockRead

\* What flush() finds: a socket reports a connection that is down, sooner or later.
MockFlush == transport.stream
Flushes == IF transport.kind = "mock" THEN {MockFlush}
           ELSE IF ~transport.stream THEN {FALSE} ELSE IF link THEN {TRUE} ELSE BOOLEAN

\* A new socket is connected.  A test sets up its mock before the client owns it.
NewSocket(kind) == [kind |-> kind, stream |-> TRUE, loss |-> FALSE, slow |-> FALSE,
                    read_errors |-> 0, write_errors |-> 0]
NewMocks == [kind : {"mock"}, stream : BOOLEAN, loss : BOOLEAN, slow : BOOLEAN,
             read_errors : 0..MaxErrors, write_errors : 0..MaxErrors]

Init ==
    /\ transport \in {NewSocket(kind) : kind \in Kinds \ {"mock"}}
                     \cup (IF "mock" \in Kinds THEN NewMocks ELSE {})
    /\ future = Idle /\ packet_state = <<>>
    /\ link = TRUE /\ out = <<>>
    \* add_incoming_packet(): the mock's broker has answered already.
    /\ inn = IF transport.kind = "mock" THEN Answer(1) \o Answer(2) ELSE <<>>
    /\ patient \in BOOLEAN /\ frame = <<>> /\ frames = <<>> /\ owed = <<>>
    /\ begun = 0 /\ ok = {} /\ cut = 0
    /\ wire = <<>> /\ received = <<>> /\ drops = 0

-----------------------------------------------------------------------------
(* send_packet() and flush_write_queue() *)

\* Any request, an acknowledgement, or the CONNECT of another connect(), which
\* looks at no transport first; closing: the DISCONNECT of disconnect().
SendPacket ==
    /\ future = Idle /\ begun < Len(SizeOf)
    /\ begun' = begun + 1
    /\ \E closing \in BOOLEAN : future' = Sending(begun + 1, 0, closing)
    /\ UNCHANGED <<transport, packet_state, link, out, inn, broker, ok, cut, wire,
                   received, drops>>

Left == SizeOf[future.packet] - future.written

\* A send that ends early: what was written stays in the stream, the rest is gone.
Cut == IF cut = 0 /\ future.written \in 1..(SizeOf[future.packet] - 1) THEN future.packet ELSE cut

\* A write() took some bytes, beginning at the given position of the packet.
Took(r, first, written) ==
    /\ LET bytes == SubSeq(Packet(future.packet), first, first + r.n - 1) IN
       out' = out \o bytes /\ wire' = wire \o bytes
    /\ transport' = r.transport
    /\ future' = [future EXCEPT !.written = written]
    /\ UNCHANGED <<packet_state, link, inn, broker, begun, ok, cut, received, drops>>

\* Mutant: without the loop around write(): some of the packet will do.
Write_Once ==
    /\ future.type = "send" /\ Left > 0
    /\ \E r \in Writes(Left) : r.n > 0 /\ Took(r, future.written + 1, SizeOf[future.packet])

\* Mutant: each write() is given the packet from its start.
Write_FromStart ==
    /\ future.type = "send" /\ Left > 0
    /\ \E r \in Writes(Left) : r.n > 0 /\ Took(r, 1, future.written + r.n)

\* Mutant: waits until the whole rest of the packet has room.
Write_Whole ==
    /\ future.type = "send" /\ Left > 0
    /\ \E r \in Writes(Left) : r.n = Left /\ Took(r, future.written + 1, future.written + r.n)

Write ==
    /\ future.type = "send" /\ Left > 0
    /\ \E r \in Writes(Left) : r.n > 0 /\ Took(r, future.written + 1, future.written + r.n)

\* An error, or a write() that takes nothing: ConnectionLost.
WriteFails ==
    /\ future.type = "send" /\ Left > 0
    /\ \E r \in Writes(Left) : r.n \in {0, Err} /\ transport' = r.transport
    /\ future' = Idle /\ cut' = Cut
    /\ UNCHANGED <<packet_state, link, out, inn, broker, begun, ok, wire, received, drops>>

\* disconnect() closes the transport when its packet is sent; whether close()
\* then succeeds, fails or is dropped, the stream is gone.
Flush ==
    /\ future.type = "send" /\ Left = 0
    /\ \E flushed \in Flushes :
           /\ ok' = IF flushed THEN ok \cup {future.packet} ELSE ok
           /\ transport' = [transport EXCEPT !.stream = @ /\ ~(flushed /\ future.closing)]
    /\ future' = Idle
    /\ UNCHANGED <<packet_state, link, out, inn, broker, begun, cut, wire, received, drops>>

-----------------------------------------------------------------------------
(* read_from_transport(), and futures that are dropped *)

StartRead ==
    /\ future = Idle /\ future' = Reading
    /\ UNCHANGED <<transport, packet_state, link, out, inn, broker, ghosts, drops>>

\* The bytes of a packet are collected in packet_state, which outlives the future.
Read ==
    /\ future = Reading
    /\ \E r \in Reads : r.n > 0 /\ transport' = r.transport
    /\ inn' = Tail(inn)
    /\ LET bytes == Append(packet_state, Head(inn)) IN
       IF Len(bytes) = AnswerSize
       THEN packet_state' = <<>> /\ received' = Append(received, bytes) /\ future' = Idle
       ELSE packet_state' = bytes /\ UNCHANGED <<received, future>>
    /\ UNCHANGED <<link, out, broker, begun, ok, cut, wire, drops>>

\* No bytes are the end of the stream, an error as well.
ReadFails ==
    /\ future = Reading
    /\ \E r \in Reads : r.n \in {0, Err} /\ transport' = r.transport
    /\ future' = Idle
    /\ UNCHANGED <<packet_state, link, out, inn, broker, begun, ok, cut, wire, received, drops>>

\* Mutant: the bytes of the packet received in part belong to the future.
DropFuture_Forgets ==
    /\ future # Idle /\ drops < MaxDrops /\ drops' = drops + 1
    /\ future' = Idle /\ packet_state' = <<>>
    /\ cut' = IF future.type = "send" THEN Cut ELSE cut
    /\ UNCHANGED <<transport, link, out, inn, broker, begun, ok, wire, received>>

DropFuture ==
    /\ future # Idle /\ drops < MaxDrops /\ drops' = drops + 1
    /\ future' = Idle
    /\ cut' = IF future.type = "send" THEN Cut ELSE cut
    /\ UNCHANGED <<transport, packet_state, link, out, inn, broker, begun, ok, wire,
                   received>>

-----------------------------------------------------------------------------
(* The network and the broker (external) *)

Networked == transport.kind # "mock" /\ link

BreakLink ==
    /\ Networked /\ link' = FALSE /\ out' = <<>>
    /\ UNCHANGED <<client, inn, broker, begun, ok, cut, wire, received, drops>>

BrokerReads ==
    /\ Networked /\ out # <<>> /\ (patient \/ owed = <<>>)
    /\ frame # <<>> \/ Head(out)[2] = 1
    /\ out' = Tail(out)
    /\ LET bytes == Append(frame, Head(out)) IN
       IF Len(bytes) = SizeOf[bytes[1][1]]
       THEN /\ frame' = <<>> /\ frames' = Append(frames, bytes)
            /\ owed' = owed \o Answer(Len(frames) + 1)
       ELSE frame' = bytes /\ UNCHANGED <<frames, owed>>
    /\ UNCHANGED <<client, link, inn, patient, ghosts, drops>>

\* Where a header should be there is none: the broker closes the connection.
BrokerCloses ==
    /\ Networked /\ out # <<>> /\ (patient \/ owed = <<>>)
    /\ frame = <<>> /\ Head(out)[2] # 1
    /\ link' = FALSE /\ out' = <<>>
    /\ UNCHANGED <<client, inn, broker, ghosts, drops>>

BrokerWrites ==
    /\ Networked /\ owed # <<>> /\ Len(inn) < Capacity
    /\ inn' = Append(inn, Head(owed)) /\ owed' = Tail(owed)
    /\ UNCHANGED <<client, link, out, patient, frame, frames, ghosts, drops>>

-----------------------------------------------------------------------------

Continue == Write \/ WriteFails \/ Flush \/ Read \/ ReadFails
Client == SendPacket \/ StartRead \/ Continue \/ DropFuture
Broker == BrokerReads \/ BrokerCloses \/ BrokerWrites
Next == Client \/ BreakLink \/ Broker

Spec == Init /\ [][Next]_vars

\* The runtime polls a future that can make progress, unless it is dropped; the
\* broker reads and writes when it can.
FairSpec == Spec /\ WF_vars(Continue) /\ WF_vars(BrokerReads \/ BrokerCloses)
                 /\ WF_vars(BrokerWrites)

-----------------------------------------------------------------------------
(* Properties *)

\* Up to the first packet that a dropped future or an error cut, the broker
\* reads whole packets, in the order in which they were sent, each once: sends
\* that were dropped before their first byte, or after their last, do no harm.
WholeUntilCut ==
    \A i \in DOMAIN frames : (cut = 0 \/ frames[i][1][1] < cut) =>
        /\ frames[i] = Packet(frames[i][1][1])
        /\ i > 1 => frames[i - 1][1][1] < frames[i][1][1]

\* A packet whose send returned Ok is in the stream, in one piece.
OkIsInStream ==
    \A p \in ok : \E i \in 0..(Len(wire) - SizeOf[p]) : SubSeq(wire, i + 1, i + SizeOf[p]) = Packet(p)

\* Polls may be dropped in the middle of a packet: the client receives every
\* answer whole, in order, once.
ReceivedWhole == \A k \in DOMAIN received : received[k] = Answer(k)

\* A send returns, unless client and broker are each waiting for the other to
\* read: the client does not read while it writes, and the broker is one that
\* does not either.
Waiting == future.type = "send" /\ Left > 0
EachWaits == Waiting /\ ~patient /\ Len(out) = Capacity /\ Len(inn) = Capacity /\ owed # <<>>
SendReturns == [](Waiting => <>(~Waiting \/ EachWaits))
=============================================================================
