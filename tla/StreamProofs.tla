---------------------------- MODULE StreamProofs ----------------------------
(***************************************************************************)
(* Theorems of Stream, for all sizes of packets and answers, all           *)
(* capacities, every kind of transport, and any number of dropped futures  *)
(* and errors.                                                             *)
(***************************************************************************)
EXTENDS Stream, SequenceTheorems, TLAPS

Byte == Nat \X Nat

LEMMA Constants ==
    /\ Len(SizeOf) \in Nat /\ AnswerSize \in Nat /\ AnswerSize >= 2 /\ Capacity \in Nat
    /\ \A p \in 1..Len(SizeOf) : SizeOf[p] \in Nat /\ SizeOf[p] >= 2
    /\ Kinds \subseteq {"tokio", "embassy", "mock"} /\ MaxDrops \in Nat /\ MaxErrors \in Nat
BY ConfigAssumption

LEMMA ByteFields == \A a, b \in Nat : <<a, b>> \in Byte /\ <<a, b>>[1] = a /\ <<a, b>>[2] = b
BY DEF Byte

LEMMA ByteParts == \A b \in Byte : b[1] \in Nat /\ b[2] \in Nat /\ b = <<b[1], b[2]>>
BY DEF Byte

LEMMA BytesOf ==
    ASSUME NEW p \in Nat, NEW n \in Nat
    PROVE  /\ Bytes(p, n) \in Seq(Byte) /\ Len(Bytes(p, n)) = n
           /\ \A i \in 1..n : Bytes(p, n)[i] = <<p, i>>
BY DEF Bytes, Byte

\* A packet is known by its bytes.
LEMMA BytesEqual ==
    ASSUME NEW p \in Nat, NEW n \in Nat, NEW s \in Seq(Byte), Len(s) = n,
           \A i \in 1..n : s[i] = <<p, i>>
    PROVE  s = Bytes(p, n)
<1>1. Bytes(p, n) \in Seq(Byte) /\ Len(Bytes(p, n)) = n /\ \A i \in 1..n : Bytes(p, n)[i] = <<p, i>>
  BY BytesOf
<1>2. Len(s) = Len(Bytes(p, n)) /\ \A i \in 1..Len(s) : s[i] = Bytes(p, n)[i]
  BY <1>1
<1> QED BY <1>1, <1>2, SeqEqual

LEMMA MinOfTwo ==
    ASSUME NEW a \in Int, NEW b \in Int
    PROVE  Min({a, b}) \in {a, b} /\ Min({a, b}) <= a /\ Min({a, b}) <= b
<1>1. \E x \in {a, b} : \A y \in {a, b} : x <= y
  <2>1. CASE a <= b
    BY <2>1
  <2>2. CASE b <= a
    BY <2>2
  <2> QED BY <2>1, <2>2
<1> QED BY <1>1 DEF Min

-----------------------------------------------------------------------------
(* Types *)

Transports == [kind : {"tokio", "embassy", "mock"}, stream : BOOLEAN, loss : BOOLEAN,
               slow : BOOLEAN, read_errors : Int, write_errors : Int]

\* The call in progress is about the packet begun last.
FutureOK ==
    \/ future \in {Idle, Reading}
    \/ begun > 0 /\ \E written \in 0..SizeOf[begun], closing \in BOOLEAN :
                        future = Sending(begun, written, closing)

Typed ==
    /\ transport \in Transports /\ FutureOK /\ link \in BOOLEAN
    /\ begun \in 0..Len(SizeOf) /\ ok \subseteq 1..begun /\ cut \in 0..begun
    /\ out \in Seq(Byte) /\ inn \in Seq(Byte) /\ wire \in Seq(Byte)
    /\ frame \in Seq(Byte) /\ owed \in Seq(Byte) /\ packet_state \in Seq(Byte)
    /\ frames \in Seq(Seq(Byte)) /\ received \in Seq(Seq(Byte))

\* A write takes part of what is left at most, and only where the bytes can go.
LEMMA WriteResult ==
    ASSUME Typed, NEW left \in Nat, NEW r \in Writes(left)
    PROVE  /\ r.transport \in Transports /\ r.transport.kind = transport.kind
           /\ r.n > 0 => r.n \in 1..left /\ (transport.kind = "mock" \/ link)
<1>1. transport \in Transports /\ Len(out) \in Nat /\ Capacity \in Nat
  BY Constants DEF Typed
<1>2. ASSUME NEW n, r = Result(n, transport),
             n \in {0, Err} \/ (link /\ n \in 1..Min({left, Capacity - Len(out)}))
      PROVE  /\ r.transport \in Transports /\ r.transport.kind = transport.kind
             /\ r.n > 0 => r.n \in 1..left /\ (transport.kind = "mock" \/ link)
  <2>1. r.n = n /\ r.transport = transport
    BY <1>2 DEF Result
  <2>2. CASE n \in {0, Err}
    BY <1>1, <2>1, <2>2 DEF Err
  <2>3. CASE link /\ n \in 1..Min({left, Capacity - Len(out)})
    <3> DEFINE room == Capacity - Len(out)
    <3>1. room \in Int /\ left \in Int
      BY <1>1
    <3> HIDE DEF room
    <3>2. Min({left, room}) \in {left, room} /\ Min({left, room}) <= left
      BY <3>1, MinOfTwo
    <3>3. Min({left, Capacity - Len(out)}) \in Int /\ Min({left, Capacity - Len(out)}) <= left
      BY <3>1, <3>2 DEF room
    <3> QED BY <1>1, <2>1, <2>3, <3>3
  <2> QED BY <1>2, <2>2, <2>3
<1>3. CASE transport.kind = "tokio"
  BY <1>2, <1>3 DEF Writes, TokioWrite, SocketWrite
<1>4. CASE transport.kind = "embassy"
  BY <1>2, <1>4 DEF Writes, EmbassyWrite, SocketWrite
<1>5. CASE transport.kind = "mock"
  <2>1. r \in MockWrite(left)
    BY <1>5 DEF Writes
  <2> DEFINE closed == [transport EXCEPT !.stream = FALSE]
             failed == [transport EXCEPT !.write_errors = @ - 1]
  <2>2. closed \in Transports /\ closed.kind = "mock" /\ failed \in Transports /\ failed.kind = "mock"
    <3>1. transport.write_errors - 1 \in Int
      BY <1>1 DEF Transports
    <3> QED BY <1>1, <1>5, <3>1 DEF Transports
  <2>3. \/ r = Result(Err, closed) \/ r = Result(Err, failed)
        \/ r = Result(Err, transport) \/ r = Result(left, transport)
    BY <2>1 DEF MockWrite
  <2> HIDE DEF closed, failed
  <2>4. r.n \in {Err, left} /\ r.transport \in Transports /\ r.transport.kind = "mock"
    BY <1>1, <1>5, <2>2, <2>3 DEF Result
  <2> QED BY <1>5, <2>4 DEF Err
<1> QED BY <1>1, <1>3, <1>4, <1>5 DEF Transports

\* A read finds a byte where it returns one.
LEMMA ReadResult ==
    ASSUME Typed, NEW r \in Reads
    PROVE  /\ r.transport \in Transports /\ r.transport.kind = transport.kind
           /\ r.n > 0 => inn # <<>>
<1>1. transport \in Transports /\ Len(inn) \in Nat
  BY DEF Typed
<1>2. ASSUME NEW n, r = Result(n, transport), n \in {0, Err} \/ inn # <<>>
      PROVE  /\ r.transport \in Transports /\ r.transport.kind = transport.kind
             /\ r.n > 0 => inn # <<>>
  BY <1>1, <1>2 DEF Result, Err
<1>3. CASE transport.kind = "tokio"
  BY <1>2, <1>3 DEF Reads, TokioRead, SocketRead
<1>4. CASE transport.kind = "embassy"
  BY <1>2, <1>4 DEF Reads, EmbassyRead, SocketRead
<1>5. CASE transport.kind = "mock"
  <2>1. r \in MockRead
    BY <1>5 DEF Reads
  <2> DEFINE closed == [transport EXCEPT !.stream = FALSE]
             failed == [transport EXCEPT !.read_errors = @ - 1]
  <2>2. closed \in Transports /\ closed.kind = "mock" /\ failed \in Transports /\ failed.kind = "mock"
    <3>1. transport.read_errors - 1 \in Int
      BY <1>1 DEF Transports
    <3> QED BY <1>1, <1>5, <3>1 DEF Transports
  <2>3. \/ r = Result(Err, closed) \/ r = Result(Err, failed)
        \/ r = Result(Err, transport) \/ r = Result(Min({1, Len(inn)}), transport)
    BY <2>1 DEF MockRead
  <2> HIDE DEF closed, failed
  <2>4. /\ r.n \in {Err, Min({1, Len(inn)})} /\ r.transport \in Transports
        /\ r.transport.kind = "mock"
    BY <1>1, <1>5, <2>2, <2>3 DEF Result
  <2>5. Min({1, Len(inn)}) \in Int /\ Min({1, Len(inn)}) <= Len(inn)
    <3>1. 1 \in Int /\ Len(inn) \in Int
      BY <1>1
    <3> QED BY <3>1, MinOfTwo
  <2>6. r.n > 0 => Len(inn) > 0
    BY <1>1, <2>4, <2>5 DEF Err
  <2> QED BY <1>5, <2>4, <2>6
<1> QED BY <1>1, <1>3, <1>4, <1>5 DEF Transports

\* What a send in progress is about.
LEMMA SendingOK ==
    ASSUME Typed, future.type = "send"
    PROVE  /\ future = Sending(begun, future.written, future.closing)
           /\ future.packet = begun /\ future.closing \in BOOLEAN
           /\ begun \in 1..Len(SizeOf) /\ begun \in Nat
           /\ SizeOf[begun] \in Nat /\ SizeOf[begun] >= 2
           /\ future.written \in 0..SizeOf[begun] /\ future.written \in Nat
           /\ Left = SizeOf[begun] - future.written
           /\ Packet(begun) = Bytes(begun, SizeOf[begun])
           /\ future \notin {Idle, Reading}
<1>1. future # Idle /\ future # Reading
  BY DEF Idle, Reading
<1>2. PICK written \in 0..SizeOf[begun], closing \in BOOLEAN : future = Sending(begun, written, closing)
  BY <1>1 DEF Typed, FutureOK
<1>3. future.packet = begun /\ future.written = written /\ future.closing = closing
  BY <1>2 DEF Sending
<1>4. begun \in 1..Len(SizeOf) /\ begun \in Nat
  BY <1>1, Constants DEF Typed, FutureOK
<1> QED BY <1>1, <1>2, <1>3, <1>4, Constants DEF Left, Packet

LEMMA FutureFields ==
    /\ Idle.type = "idle" /\ Reading.type = "read" /\ Idle # Reading
    /\ \A p, written, closing :
           LET sending == Sending(p, written, closing) IN
           /\ sending.type = "send" /\ sending.packet = p /\ sending.written = written
           /\ sending.closing = closing
<1>1. Idle.type = "idle" /\ Reading.type = "read"
  BY DEF Idle, Reading
<1>2. ASSUME NEW p, NEW written, NEW closing
      PROVE  /\ Sending(p, written, closing).type = "send" /\ Sending(p, written, closing).packet = p
             /\ Sending(p, written, closing).written = written
             /\ Sending(p, written, closing).closing = closing
  BY DEF Sending
<1> QED BY <1>1, <1>2

\* The bytes a write() takes are the next ones of the packet.
LEMMA WriteStep ==
    ASSUME Typed, Write
    PROVE  /\ future.type = "send" /\ UNCHANGED <<packet_state, link, inn, broker, begun, ok, cut,
                                                  received, drops>>
           /\ transport' \in Transports /\ transport'.kind = transport.kind
           /\ transport.kind = "mock" \/ link
           /\ \E bytes \in Seq(Byte) :
                  /\ Len(bytes) \in 1..(SizeOf[begun] - future.written)
                  /\ \A i \in 1..Len(bytes) : bytes[i] = <<begun, future.written + i>>
                  /\ out' = out \o bytes /\ wire' = wire \o bytes
                  /\ future' = Sending(begun, future.written + Len(bytes), future.closing)
<1> DEFINE w == future.written
           size == SizeOf[begun]
<1>1. /\ future.type = "send" /\ future = Sending(begun, w, future.closing) /\ future.packet = begun
      /\ begun \in Nat /\ size \in Nat /\ w \in 0..size /\ w \in Nat /\ Left = size - w
      /\ Packet(begun) = Bytes(begun, size)
  BY SendingOK DEF Write
<1>2. PICK r \in Writes(Left) : r.n > 0 /\ Took(r, w + 1, w + r.n)
  BY DEF Write
<1>3. Left \in Nat
  BY <1>1
<1>4. /\ r.transport \in Transports /\ r.transport.kind = transport.kind
      /\ r.n \in 1..Left /\ (transport.kind = "mock" \/ link)
  BY <1>2, <1>3, WriteResult
<1> DEFINE bytes == SubSeq(Bytes(begun, size), w + 1, w + r.n)
<1>5. /\ bytes \in Seq(Byte) /\ Len(bytes) = r.n
      /\ \A i \in 1..r.n : bytes[i] = <<begun, w + i>>
  <2> DEFINE whole == Bytes(begun, size)
             m == w + 1
             n == w + r.n
  <2>1. whole \in Seq(Byte) /\ Len(whole) = size /\ \A i \in 1..size : whole[i] = <<begun, i>>
    BY <1>1, BytesOf
  <2>2. m \in Int /\ n \in Int /\ r.n \in Nat /\ r.n >= 1 /\ m >= 1 /\ n <= size
    BY <1>1, <1>4
  <2>3. \A i \in m..n : i \in 1..size
    BY <1>1, <2>2
  <2>4. \A i \in m..n : whole[i] \in Byte
    BY <1>1, <2>1, <2>3, ByteFields
  <2> HIDE DEF whole
  <2>5. /\ SubSeq(whole, m, n) \in Seq(Byte)
        /\ Len(SubSeq(whole, m, n)) = IF m <= n THEN n - m + 1 ELSE 0
        /\ \A i \in 1..n - m + 1 : SubSeq(whole, m, n)[i] = whole[m + i - 1]
    BY <2>2, <2>4, SubSeqProperties
  <2>6. n - m + 1 = r.n /\ m <= n
    BY <1>1, <2>2
  <2>7. \A i \in 1..r.n : m + i - 1 = w + i /\ w + i \in 1..size
    BY <1>1, <2>2
  <2> QED BY <2>1, <2>5, <2>6, <2>7 DEF whole
<1>6. /\ out' = out \o bytes /\ wire' = wire \o bytes /\ transport' = r.transport
      /\ future' = [future EXCEPT !.written = w + r.n]
      /\ UNCHANGED <<packet_state, link, inn, broker, begun, ok, cut, received, drops>>
  <2>1. w + 1 + r.n - 1 = w + r.n
    BY <1>1, <1>4
  <2>2. SubSeq(Packet(future.packet), w + 1, w + 1 + r.n - 1) = bytes
    BY <1>1, <2>1
  <2> HIDE DEF bytes
  <2> QED BY <1>2, <2>2 DEF Took
<1>7. future' = Sending(begun, w + r.n, future.closing)
  BY <1>1, <1>6 DEF Sending
<1> HIDE DEF bytes
<1> QED BY <1>1, <1>4, <1>5, <1>6, <1>7

LEMMA InitTyped == Init => Typed
<1> SUFFICES ASSUME Init PROVE Typed
  OBVIOUS
<1>1. transport \in Transports
  <2>1. ASSUME NEW kind \in Kinds PROVE NewSocket(kind) \in Transports
    BY Constants DEF NewSocket, Transports
  <2>2. NewMocks \subseteq Transports
    BY Constants DEF NewMocks, Transports
  <2> QED BY <2>1, <2>2 DEF Init
<1>2. inn \in Seq(Byte)
  <2>1. Answer(1) \in Seq(Byte) /\ Answer(2) \in Seq(Byte)
    BY BytesOf, Constants DEF Answer
  <2>2. Answer(1) \o Answer(2) \in Seq(Byte)
    BY <2>1, ConcatProperties
  <2> QED BY <2>2, EmptySeq DEF Init
<1> QED BY <1>1, <1>2, EmptySeq, Constants DEF Init, Typed, FutureOK

LEMMA ClientTyped ==
    ASSUME Typed, Client
    PROVE  Typed'
<1>1. CASE SendPacket
  <2>1. /\ begun' = begun + 1 /\ begun < Len(SizeOf)
        /\ \E closing \in BOOLEAN : future' = Sending(begun + 1, 0, closing)
        /\ UNCHANGED <<transport, packet_state, link, out, inn, broker, ok, cut, wire, received>>
    BY <1>1 DEF SendPacket
  <2>2. begun' \in 1..Len(SizeOf) /\ begun \in Nat /\ SizeOf[begun'] \in Nat
    BY <2>1, Constants DEF Typed
  <2>3. FutureOK'
    BY <2>1, <2>2 DEF FutureOK
  <2>4. begun' \in 0..Len(SizeOf) /\ ok' \subseteq 1..begun' /\ cut' \in 0..begun'
    BY <2>1, <2>2 DEF Typed
  <2> QED BY <2>1, <2>3, <2>4 DEF Typed, broker
<1>2. CASE Write
  <2>1. PICK bytes \in Seq(Byte) :
            /\ Len(bytes) \in 1..(SizeOf[begun] - future.written)
            /\ out' = out \o bytes /\ wire' = wire \o bytes
            /\ future' = Sending(begun, future.written + Len(bytes), future.closing)
    BY <1>2, WriteStep
  <2>2. out' \in Seq(Byte) /\ wire' \in Seq(Byte)
    BY <2>1, ConcatProperties DEF Typed
  <2>3. FutureOK'
    <3>1. future.written + Len(bytes) \in 0..SizeOf[begun] /\ future.closing \in BOOLEAN /\ begun > 0
      BY <1>2, <2>1, SendingOK DEF Write
    <3>2. begun' = begun
      BY <1>2, WriteStep
    <3> QED BY <2>1, <3>1, <3>2 DEF FutureOK
  <2> QED BY <1>2, <2>2, <2>3, WriteStep DEF Typed, broker
<1>3. CASE WriteFails \/ Flush \/ StartRead \/ ReadFails \/ DropFuture
  <2>1. /\ future' \in {Idle, Reading} /\ ok' \subseteq 1..begun /\ cut' \in 0..begun
        /\ transport' \in Transports
        /\ UNCHANGED <<packet_state, link, out, inn, broker, begun, wire, received>>
    <3>1. CASE WriteFails
      <4>1. begun \in 1..Len(SizeOf) /\ future.packet = begun /\ Left \in Nat
        BY <3>1, SendingOK DEF WriteFails
      <4>2. Cut \in 0..begun
        BY <4>1, Constants DEF Cut, Typed
      <4> QED BY <3>1, <4>1, <4>2, WriteResult DEF WriteFails, Typed
    <3>2. CASE Flush
      <4>1. begun \in 1..Len(SizeOf) /\ future.packet = begun
        BY <3>2, SendingOK DEF Flush
      <4>2. ok' \subseteq 1..begun
        BY <3>2, <4>1, Constants DEF Flush, Typed
      <4>3. transport' \in Transports
        <5>1. PICK flushed \in Flushes :
                  transport' = [transport EXCEPT !.stream = @ /\ ~(flushed /\ future.closing)]
          BY <3>2 DEF Flush
        <5>2. \A b \in BOOLEAN : [transport EXCEPT !.stream = b] \in Transports
          BY DEF Typed, Transports
        <5>3. (transport.stream /\ ~(flushed /\ future.closing)) \in BOOLEAN
          OBVIOUS
        <5> QED BY <5>1, <5>2, <5>3
      <4> QED BY <3>2, <4>2, <4>3 DEF Flush, Typed
    <3>3. CASE StartRead
      BY <3>3 DEF StartRead, Typed, ghosts
    <3>4. CASE ReadFails
      BY <3>4, ReadResult DEF ReadFails, Typed
    <3>5. CASE DropFuture
      <4>1. future.type = "send" => Cut \in 0..begun
        <5> SUFFICES ASSUME future.type = "send" PROVE Cut \in 0..begun
          OBVIOUS
        <5>1. begun \in 1..Len(SizeOf) /\ future.packet = begun
          BY SendingOK
        <5> QED BY <5>1, Constants DEF Cut, Typed
      <4> QED BY <3>5, <4>1 DEF DropFuture, Typed
    <3> QED BY <1>3, <3>1, <3>2, <3>3, <3>4, <3>5
  <2> QED BY <2>1 DEF Typed, FutureOK, broker
<1>4. CASE Read
  <2>1. PICK r \in Reads : r.n > 0 /\ transport' = r.transport
    BY <1>4 DEF Read
  <2>2. transport' \in Transports /\ inn # <<>>
    BY <2>1, ReadResult
  <2>3. Head(inn) \in Byte /\ Tail(inn) \in Seq(Byte)
    BY <2>2, HeadTailProperties DEF Typed
  <2>4. Append(packet_state, Head(inn)) \in Seq(Byte)
    BY <2>3, AppendProperties DEF Typed
  <2>5. /\ packet_state' \in Seq(Byte) /\ received' \in Seq(Seq(Byte))
        /\ future' \in {Idle, Reading}
    <3>1. Append(received, Append(packet_state, Head(inn))) \in Seq(Seq(Byte))
      BY <2>4, AppendProperties DEF Typed
    <3> QED BY <1>4, <2>4, <3>1, EmptySeq DEF Read, Typed
  <2> QED BY <1>4, <2>2, <2>3, <2>5 DEF Read, Typed, FutureOK, broker
<1> QED BY <1>1, <1>2, <1>3, <1>4 DEF Client, Continue

LEMMA NetworkTyped ==
    ASSUME Typed, BreakLink \/ Broker
    PROVE  Typed'
<1>1. UNCHANGED <<client, begun, ok, cut, wire, received>>
  BY DEF BreakLink, Broker, BrokerReads, BrokerCloses, BrokerWrites, ghosts
<1>2. /\ out' \in Seq(Byte) /\ inn' \in Seq(Byte) /\ link' \in BOOLEAN
      /\ frame' \in Seq(Byte) /\ owed' \in Seq(Byte) /\ frames' \in Seq(Seq(Byte))
  <2>1. CASE BreakLink \/ BrokerCloses
    BY <2>1, EmptySeq DEF BreakLink, BrokerCloses, broker, Typed
  <2>2. CASE BrokerReads
    <3>1. Head(out) \in Byte /\ Tail(out) \in Seq(Byte)
      BY <2>2, HeadTailProperties DEF BrokerReads, Typed
    <3>2. Append(frame, Head(out)) \in Seq(Byte)
      BY <3>1, AppendProperties DEF Typed
    <3>3. Append(frames, Append(frame, Head(out))) \in Seq(Seq(Byte))
      BY <3>2, AppendProperties DEF Typed
    <3>4. Len(frames) + 1 \in Nat
      BY DEF Typed
    <3>5. Answer(Len(frames) + 1) \in Seq(Byte)
      BY <3>4, BytesOf, Constants DEF Answer
    <3>6. owed \o Answer(Len(frames) + 1) \in Seq(Byte)
      BY <3>5, ConcatProperties DEF Typed
    <3> QED BY <2>2, <3>1, <3>2, <3>3, <3>6, EmptySeq DEF BrokerReads, Typed
  <2>3. CASE BrokerWrites
    <3>1. Head(owed) \in Byte /\ Tail(owed) \in Seq(Byte)
      BY <2>3, HeadTailProperties DEF BrokerWrites, Typed
    <3>2. Append(inn, Head(owed)) \in Seq(Byte)
      BY <3>1, AppendProperties DEF Typed
    <3> QED BY <2>3, <3>1, <3>2 DEF BrokerWrites, Typed
  <2> QED BY <2>1, <2>2, <2>3 DEF Broker
<1> QED BY <1>1, <1>2 DEF Typed, FutureOK, client

LEMMA NextTyped == Typed /\ [Next]_vars => Typed'
<1>1. Typed /\ UNCHANGED vars => Typed'
  BY DEF Typed, FutureOK, vars, client, broker, ghosts
<1> QED BY <1>1, ClientTyped, NetworkTyped DEF Next

-----------------------------------------------------------------------------
(* The bytes the transport took: the packets one after the other, up to the *)
(* first one cut.                                                           *)

Ended(s) == s[Len(s)]
BeforeCut(p) == cut = 0 \/ p < cut

\* Byte b follows byte a: the next one of its packet, or the header of a later one.
Follows(a, b) == IF a[2] < SizeOf[a[1]] THEN b = <<a[1], a[2] + 1>> ELSE b[2] = 1 /\ a[1] < b[1]

WireOK ==
    /\ \A i \in 1..Len(wire) : wire[i][1] \in 1..begun
    /\ \A i, j \in 1..Len(wire) : i < j => wire[i][1] <= wire[j][1]
    /\ \A i \in 1..Len(wire) - 1 : BeforeCut(wire[i][1]) => Follows(wire[i], wire[i + 1])

\* The stream ends with what is written of the packet being sent; otherwise with
\* a whole packet, unless one was cut.
EndOK ==
    /\ future.type = "send" =>
           /\ future.written <= Len(wire)
           /\ \A j \in 1..future.written : wire[Len(wire) - future.written + j] = <<future.packet, j>>
           /\ future.written = 0 /\ wire # <<>> => Ended(wire)[1] < future.packet
    /\ wire # <<>> /\ cut = 0 /\ (future.type = "send" => future.written = 0) =>
           Ended(wire)[2] = SizeOf[Ended(wire)[1]]
    /\ cut # 0 => wire # <<>> /\ cut <= Ended(wire)[1]

InStream(p) == \E i \in 0..(Len(wire) - SizeOf[p]) : \A j \in 1..SizeOf[p] : wire[i + j] = <<p, j>>

WireInv == WireOK /\ EndOK /\ \A p \in ok : InStream(p)

\* The elements of a sequence to which others are added.
LEMMA AddedTo ==
    ASSUME NEW s \in Seq(Byte), NEW t \in Seq(Byte)
    PROVE  /\ s \o t \in Seq(Byte) /\ Len(s \o t) = Len(s) + Len(t)
           /\ Len(s) \in Nat /\ Len(t) \in Nat
           /\ \A i \in 1..Len(s) : (s \o t)[i] = s[i]
           /\ \A j \in 1..Len(t) : (s \o t)[Len(s) + j] = t[j]
<1>1. /\ s \o t \in Seq(Byte) /\ Len(s \o t) = Len(s) + Len(t)
      /\ \A i \in 1..Len(s) + Len(t) : (s \o t)[i] = IF i <= Len(s) THEN s[i] ELSE t[i - Len(s)]
  BY ConcatProperties
<1>2. Len(s) \in Nat /\ Len(t) \in Nat
  BY LenProperties
<1>3. ASSUME NEW i \in 1..Len(s) PROVE (s \o t)[i] = s[i]
  BY <1>1, <1>2
<1>4. ASSUME NEW j \in 1..Len(t) PROVE (s \o t)[Len(s) + j] = t[j]
  <2>1. Len(s) + j \in 1..Len(s) + Len(t) /\ ~(Len(s) + j <= Len(s)) /\ Len(s) + j - Len(s) = j
    BY <1>2
  <2> QED BY <1>1, <2>1
<1> QED BY <1>1, <1>2, <1>3, <1>4

LEMMA LastOf ==
    ASSUME NEW s \in Seq(Byte), s # <<>>
    PROVE  Len(s) \in Nat /\ Len(s) \in 1..Len(s) /\ Ended(s) \in Byte
<1>1. Len(s) \in Nat /\ Len(s) > 0
  BY EmptySeq
<1> QED BY <1>1, ElementOfSeq DEF Ended

\* What is in the stream stays there.
LEMMA StaysInStream ==
    ASSUME Typed, NEW p \in 1..begun, InStream(p), NEW bytes \in Seq(Byte), wire' = wire \o bytes
    PROVE  InStream(p)'
<1>1. SizeOf[p] \in Nat /\ Len(wire) \in Nat
  BY Constants DEF Typed
<1>2. PICK i \in 0..(Len(wire) - SizeOf[p]) : \A j \in 1..SizeOf[p] : wire[i + j] = <<p, j>>
  BY DEF InStream
<1>3. Len(wire') = Len(wire) + Len(bytes) /\ Len(bytes) \in Nat /\ \A k \in 1..Len(wire) : wire'[k] = wire[k]
  BY AddedTo DEF Typed
<1>4. i \in 0..(Len(wire') - SizeOf[p]) /\ \A j \in 1..SizeOf[p] : i + j \in 1..Len(wire)
  BY <1>1, <1>2, <1>3
<1> QED BY <1>2, <1>3, <1>4 DEF InStream

\* Steps that are about nothing in the stream.
LEMMA WireSame ==
    ASSUME WireInv, UNCHANGED <<wire, begun, cut, ok>>,
           UNCHANGED future \/ (future.type # "send" /\ future'.type # "send")
    PROVE  WireInv'
BY DEF WireInv, WireOK, EndOK, InStream, BeforeCut, Follows, Ended

LEMMA WireSendPacket ==
    ASSUME Typed, WireInv, SendPacket
    PROVE  WireInv'
<1>1. /\ begun \in Nat /\ begun' = begun + 1 /\ future.type # "send"
      /\ UNCHANGED <<wire, cut, ok>> /\ wire \in Seq(Byte)
  BY FutureFields DEF SendPacket, Typed
<1>2. future'.type = "send" /\ future'.packet = begun + 1 /\ future'.written = 0
  <2>1. PICK closing \in BOOLEAN : future' = Sending(begun + 1, 0, closing)
    BY DEF SendPacket
  <2> QED BY <2>1, FutureFields
<1>3. Len(wire) \in Nat /\ 1..begun \subseteq 1..begun'
  BY <1>1
<1>4. WireOK'
  BY <1>1, <1>3 DEF WireInv, WireOK, BeforeCut, Follows
<1>5. wire # <<>> => Ended(wire)[1] \in 1..begun
  BY <1>1, LastOf DEF WireInv, WireOK, Ended
<1>6. EndOK'
  BY <1>1, <1>2, <1>3, <1>5 DEF WireInv, EndOK, Ended
<1> QED BY <1>1, <1>4, <1>6 DEF WireInv, InStream

\* The last byte written is the last one of the stream.
LEMMA LastWritten ==
    ASSUME Typed, WireInv, future.type = "send", future.written > 0
    PROVE  wire # <<>> /\ Ended(wire) = <<begun, future.written>>
<1>1. future.written \in Nat /\ future.packet = begun
  BY SendingOK
<1>2. Len(wire) \in Nat /\ future.written <= Len(wire)
  BY DEF Typed, WireInv, EndOK
<1>3. wire[Len(wire) - future.written + future.written] = <<begun, future.written>>
  <2>1. future.written \in 1..future.written
    BY <1>1
  <2> QED BY <1>1, <2>1 DEF WireInv, EndOK
<1>4. Len(wire) - future.written + future.written = Len(wire) /\ Len(wire) > 0
  BY <1>1, <1>2
<1>5. wire # <<>>
  BY <1>4, EmptySeq
<1> QED BY <1>3, <1>4, <1>5 DEF Ended

\* A send that ends.
LEMMA WireSendEnds ==
    ASSUME Typed, WireInv, future.type = "send", future'.type # "send",
           UNCHANGED <<wire, begun>>, cut' = Cut,
           ok' = ok \/ (ok' = ok \cup {begun} /\ future.written = SizeOf[begun])
    PROVE  WireInv'
<1> DEFINE w == future.written
           size == SizeOf[begun]
<1>1. /\ future.packet = begun /\ begun \in Nat /\ begun >= 1 /\ size \in Nat /\ size >= 2
      /\ w \in Nat /\ w <= size /\ wire \in Seq(Byte) /\ Len(wire) \in Nat
  BY SendingOK DEF Typed
<1>2. cut' = IF cut = 0 /\ w \in 1..(size - 1) THEN begun ELSE cut
  BY <1>1 DEF Cut
<1>3. ASSUME NEW p, BeforeCut(p)' PROVE BeforeCut(p)
  BY <1>1, <1>2, <1>3 DEF BeforeCut
<1>4. WireOK'
  BY <1>3 DEF WireInv, WireOK, Follows
<1>5. EndOK'
  <2>1. w > 0 => wire # <<>> /\ Ended(wire) = <<begun, w>>
    BY LastWritten
  <2>2. cut' # 0 => wire # <<>> /\ cut' <= Ended(wire)[1]
    <3>1. CASE cut' = cut
      BY <3>1 DEF WireInv, EndOK
    <3>2. CASE cut' = begun /\ w > 0
      BY <1>1, <2>1, <3>2, ByteFields
    <3> QED BY <1>1, <1>2, <3>1, <3>2
  <2>3. wire # <<>> /\ cut' = 0 => Ended(wire)[2] = SizeOf[Ended(wire)[1]]
    <3> SUFFICES ASSUME wire # <<>>, cut' = 0 PROVE Ended(wire)[2] = SizeOf[Ended(wire)[1]]
      OBVIOUS
    <3>1. cut = 0 /\ (w = 0 \/ w = size)
      BY <1>1, <1>2
    <3>2. CASE w = 0
      BY <3>1, <3>2 DEF WireInv, EndOK
    <3>3. CASE w = size
      BY <1>1, <2>1, <3>3, ByteFields
    <3> QED BY <3>1, <3>2, <3>3
  <2> QED BY <2>2, <2>3 DEF EndOK, Ended
<1>6. \A p \in ok' : InStream(p)'
  <2>1. \A p \in ok : InStream(p)'
    BY DEF WireInv, InStream
  <2>2. w = size => InStream(begun)'
    <3> SUFFICES ASSUME w = size PROVE InStream(begun)
      BY DEF InStream
    <3>1. w <= Len(wire) /\ \A j \in 1..w : wire[Len(wire) - w + j] = <<begun, j>>
      BY <1>1 DEF WireInv, EndOK
    <3>2. Len(wire) - w \in 0..(Len(wire) - size)
      BY <1>1, <3>1
    <3> QED BY <3>1, <3>2 DEF InStream
  <2> QED BY <2>1, <2>2
<1> QED BY <1>4, <1>5, <1>6 DEF WireInv

LEMMA WireWrite ==
    ASSUME Typed, WireInv, Write
    PROVE  WireInv'
<1> DEFINE w == future.written
           size == SizeOf[begun]
           L == Len(wire)
<1>1. /\ future.type = "send" /\ future.packet = begun /\ begun \in Nat /\ begun >= 1
      /\ size \in Nat /\ w \in Nat /\ wire \in Seq(Byte) /\ L \in Nat
  BY SendingOK DEF Typed, Write
<1>2. UNCHANGED <<begun, ok, cut>> /\ cut \in Nat /\ cut <= begun
  BY WriteStep, <1>1 DEF Typed
<1>3. PICK bytes \in Seq(Byte) :
          /\ Len(bytes) \in 1..(size - w)
          /\ \A i \in 1..Len(bytes) : bytes[i] = <<begun, w + i>>
          /\ wire' = wire \o bytes
          /\ future' = Sending(begun, w + Len(bytes), future.closing)
  BY WriteStep
<1> DEFINE n == Len(bytes)
<1>4. /\ wire' \in Seq(Byte) /\ Len(wire') = L + n /\ n \in Nat /\ n >= 1 /\ w + n <= size
      /\ \A i \in 1..L : wire'[i] = wire[i]
  BY <1>1, <1>3, AddedTo
<1>5. \A j \in 1..n : wire'[L + j] = <<begun, w + j>>
  BY <1>1, <1>3, AddedTo
<1>6. /\ future'.type = "send" /\ future'.packet = begun /\ future'.written = w + n
  BY <1>3, FutureFields
<1>7. \A i \in 1..L : wire[i] \in Byte /\ wire[i][1] \in 1..begun
  BY <1>1, ElementOfSeq DEF WireInv, WireOK
<1>8. \A i \in L + 1..L + n : wire'[i] = <<begun, w + (i - L)>> /\ i - L \in 1..n
  <2> TAKE i \in L + 1..L + n
  <2>1. i - L \in 1..n /\ L + (i - L) = i
    BY <1>1, <1>4
  <2> QED BY <1>5, <2>1
<1>9. \A i \in 1..L + n : i \in 1..L \/ i \in L + 1..L + n
  BY <1>1, <1>4
<1>10. w <= L /\ (w > 0 => L > 0 /\ wire[L] = <<begun, w>>)
  BY <1>1, LastWritten, EmptySeq DEF WireInv, EndOK, Ended
<1> HIDE DEF n, w, size, L
<1>11. \A i \in L + 1..L + n : wire'[i][1] = begun /\ wire'[i][2] = w + (i - L)
  <2> TAKE i \in L + 1..L + n
  <2>1. w + (i - L) \in Nat
    BY <1>1, <1>8
  <2> QED BY <1>1, <1>8, <2>1, ByteFields
<1>12. \A i \in 1..L + n : wire'[i][1] \in 1..begun
  BY <1>1, <1>4, <1>7, <1>9, <1>11
<1>13. \A i, j \in 1..L + n : i < j => wire'[i][1] <= wire'[j][1]
  <2> TAKE i, j \in 1..L + n
  <2> SUFFICES ASSUME i < j PROVE wire'[i][1] <= wire'[j][1]
    OBVIOUS
  <2>1. CASE j \in L + 1..L + n
    <3>1. wire'[j][1] = begun /\ wire'[i][1] \in 1..begun
      BY <1>11, <1>12, <2>1
    <3> QED BY <1>1, <3>1
  <2>2. CASE j \in 1..L
    <3>1. i \in 1..L
      BY <1>1, <1>4, <2>2
    <3> QED BY <1>4, <2>2, <3>1 DEF WireInv, WireOK, L
  <2> QED BY <1>9, <2>1, <2>2
<1>14. \A i \in 1..L + n - 1 : BeforeCut(wire'[i][1]) => Follows(wire'[i], wire'[i + 1])
  <2> TAKE i \in 1..L + n - 1
  <2> SUFFICES ASSUME BeforeCut(wire'[i][1]) PROVE Follows(wire'[i], wire'[i + 1])
    OBVIOUS
  <2>1. i \in Nat /\ (i \in 1..L - 1 \/ (i = L /\ L \in 1..L) \/ i \in L + 1..L + n - 1)
    BY <1>1, <1>4
  <2>2. CASE i \in 1..L - 1
    <3>1. i \in 1..L /\ i + 1 \in 1..L
      BY <1>1, <2>2
    <3>2. wire'[i] = wire[i] /\ wire'[i + 1] = wire[i + 1]
      BY <1>4, <3>1
    <3>3. BeforeCut(wire[i][1]) => Follows(wire[i], wire[i + 1])
      BY <2>2 DEF WireInv, WireOK, L
    <3> QED BY <3>2, <3>3
  <2>3. CASE i = L /\ L \in 1..L
    <3>1. wire'[i] = wire[L] /\ wire'[i + 1] = <<begun, w + 1>> /\ wire[L] \in Byte /\ wire[L][1] \in 1..begun
      BY <1>4, <1>5, <1>7, <2>3
    <3>2. CASE w > 0
      <4>1. w < size /\ wire[L][1] = begun /\ wire[L][2] = w
        BY <1>1, <1>4, <1>10, <3>2, ByteFields
      <4> QED BY <3>1, <4>1 DEF Follows, size
    <3>3. CASE w = 0
      <4>1. wire # <<>>
        BY <2>3, <1>1, EmptySeq DEF L
      <4>2. wire[L][1] < begun /\ cut = 0
        <5>1. wire[L][1] < begun
          BY <1>1, <3>3, <4>1 DEF WireInv, EndOK, Ended, L, w
        <5>2. cut # 0 => cut <= wire[L][1]
          BY DEF WireInv, EndOK, Ended, L
        <5>3. BeforeCut(wire[L][1]) /\ wire[L][1] \in Nat
          BY <2>3, <3>1, <1>1
        <5> QED BY <5>1, <5>2, <5>3, <1>2 DEF BeforeCut
      <4>3. wire[L][2] = SizeOf[wire[L][1]]
        BY <1>1, <3>3, <4>1, <4>2 DEF WireInv, EndOK, Ended, L, w
      <4>4. SizeOf[wire[L][1]] \in Nat
        <5>1. wire[L][1] \in 1..Len(SizeOf)
          <6>1. begun \in 0..Len(SizeOf) /\ Len(SizeOf) \in Nat
            BY Constants DEF Typed
          <6> QED BY <3>1, <6>1
        <5> QED BY <5>1, Constants
      <4>5. wire'[i + 1][2] = 1 /\ wire'[i + 1][1] = begun
        BY <1>1, <3>1, <3>3, ByteFields
      <4> QED BY <3>1, <4>2, <4>3, <4>4, <4>5 DEF Follows
    <3> QED BY <1>1, <3>2, <3>3
  <2>4. CASE i \in L + 1..L + n - 1
    <3> DEFINE k == i + 1
    <3>1. i \in L + 1..L + n /\ k \in L + 1..L + n /\ w + (k - L) = (w + (i - L)) + 1
      BY <1>1, <1>4, <2>4
    <3>2. w + (i - L) < size
      BY <1>1, <1>4, <2>4
    <3> HIDE DEF k
    <3>3. wire'[i][1] = begun /\ wire'[i][2] = w + (i - L)
      BY <1>11, <3>1
    <3>4. wire'[k] = <<begun, w + (k - L)>>
      BY <1>8, <3>1
    <3>5. wire'[k] = <<begun, (w + (i - L)) + 1>>
      BY <3>1, <3>4
    <3>6. Follows(wire'[i], wire'[k])
      BY <3>2, <3>3, <3>5 DEF Follows, size
    <3> QED BY <3>6 DEF k
  <2> QED BY <2>1, <2>2, <2>3, <2>4
<1>15. WireOK'
  <2>1. \A i \in 1..Len(wire') : wire'[i][1] \in 1..begun'
    BY <1>2, <1>4, <1>12
  <2>2. \A i, j \in 1..Len(wire') : i < j => wire'[i][1] <= wire'[j][1]
    BY <1>4, <1>13
  <2>3. \A i \in 1..Len(wire') - 1 : BeforeCut(wire'[i][1]) => Follows(wire'[i], wire'[i + 1])
    <3> SUFFICES ASSUME NEW i \in 1..Len(wire') - 1, BeforeCut(wire'[i][1])
                 PROVE  Follows(wire'[i], wire'[i + 1])
      OBVIOUS
    <3>1. i \in 1..L + n - 1
      BY <1>1, <1>4
    <3> QED BY <1>14, <3>1
  <2> QED BY <1>2, <2>1, <2>2, <2>3 DEF WireOK, BeforeCut, Follows
<1>16. EndOK'
  <2>1. w + n <= L + n /\ ~(w + n = 0) /\ L + n \in Nat /\ L + n \in L + 1..L + n
    BY <1>1, <1>4, <1>10
  <2>2. \A j \in 1..w + n : wire'[L + n - (w + n) + j] = <<begun, j>>
    <3> TAKE j \in 1..w + n
    <3>1. CASE j \in 1..w
      <4>1. L + n - (w + n) + j = L - w + j /\ L - w + j \in 1..L
        BY <1>1, <1>4, <1>10, <3>1
      <4>2. wire[L - w + j] = <<begun, j>>
        BY <1>1, <3>1 DEF WireInv, EndOK, L, w
      <4> QED BY <1>4, <4>1, <4>2
    <3>2. CASE j - w \in 1..n
      <4>1. L + n - (w + n) + j = L + (j - w) /\ w + (j - w) = j
        BY <1>1, <1>4
      <4> QED BY <1>5, <3>2, <4>1
    <3>3. j \in 1..w \/ j - w \in 1..n
      BY <1>1, <1>4
    <3> QED BY <3>1, <3>2, <3>3
  <2>3. wire' # <<>> /\ Ended(wire')[1] = begun
    BY <1>4, <1>11, <2>1, <1>1, EmptySeq DEF Ended
  <2>4. \A j \in 1..future'.written : wire'[Len(wire') - future'.written + j] = <<future'.packet, j>>
    <3> SUFFICES ASSUME NEW j \in 1..future'.written
                 PROVE  wire'[Len(wire') - future'.written + j] = <<future'.packet, j>>
      OBVIOUS
    <3>1. wire'[L + n - (w + n) + j] = <<begun, j>>
      BY <1>6, <2>2
    <3>2. Len(wire') - future'.written + j = L + n - (w + n) + j
      <4>1. Len(wire') = L + n /\ future'.written = w + n
        BY <1>4, <1>6
      <4>2. L \in Int /\ n \in Int /\ w \in Int /\ j \in Int
        BY <1>1, <1>4, <4>1
      <4> QED BY <4>1, <4>2
    <3> QED BY <1>6, <3>1, <3>2
  <2>5. future'.written <= Len(wire') /\ ~(future'.written = 0)
    BY <1>4, <1>6, <2>1
  <2> QED BY <1>2, <1>6, <2>3, <2>4, <2>5 DEF EndOK, Ended
<1>17. \A p \in ok' : InStream(p)'
  BY <1>2, <1>3, StaysInStream DEF WireInv, Typed
<1> QED BY <1>15, <1>16, <1>17 DEF WireInv

LEMMA InitWire == Init => WireInv
<1> SUFFICES ASSUME Init PROVE WireInv
  OBVIOUS
<1>1. wire = <<>> /\ Len(wire) = 0 /\ cut = 0 /\ ok = {} /\ future.type # "send"
  BY FutureFields DEF Init
<1> QED BY <1>1 DEF WireInv, WireOK, EndOK

LEMMA NextWire == Typed /\ WireInv /\ [Next]_vars => WireInv'
<1> SUFFICES ASSUME Typed, WireInv, [Next]_vars PROVE WireInv'
  OBVIOUS
<1>1. CASE SendPacket
  BY <1>1, WireSendPacket
<1>2. CASE Write
  BY <1>2, WireWrite
<1>3. CASE WriteFails \/ Flush \/ (DropFuture /\ future.type = "send")
  <2>1. future.type = "send" /\ future' = Idle /\ UNCHANGED <<wire, begun>>
    BY <1>3 DEF WriteFails, Flush, DropFuture
  <2>2. future'.type # "send"
    BY <2>1, FutureFields
  <2>3. /\ future.packet = begun /\ future.written \in Nat /\ SizeOf[begun] \in Nat
        /\ Left = SizeOf[begun] - future.written
    BY <2>1, SendingOK
  <2>4. /\ cut' = Cut
        /\ ok' = ok \/ (ok' = ok \cup {begun} /\ future.written = SizeOf[begun])
    <3>1. CASE WriteFails \/ DropFuture
      BY <2>1, <3>1 DEF WriteFails, DropFuture
    <3>2. CASE Flush
      <4>1. future.written = SizeOf[begun] /\ cut' = cut
        BY <2>3, <3>2 DEF Flush
      <4>2. Cut = cut
        BY <2>3, <4>1 DEF Cut
      <4>3. ok' = ok \/ ok' = ok \cup {begun}
        BY <2>3, <3>2 DEF Flush
      <4> QED BY <4>1, <4>2, <4>3
    <3> QED BY <1>3, <3>1, <3>2
  <2> QED BY <2>1, <2>2, <2>4, WireSendEnds
<1>4. CASE StartRead \/ Read \/ ReadFails \/ (DropFuture /\ future.type # "send")
  <2>1. /\ future.type # "send" /\ future' \in {Idle, Reading}
        /\ UNCHANGED <<wire, begun, cut, ok>>
    <3>1. CASE Read
      BY <3>1, FutureFields DEF Read
    <3> QED BY <1>4, <3>1, FutureFields DEF StartRead, ReadFails, DropFuture, ghosts
  <2>2. future'.type # "send"
    BY <2>1, FutureFields
  <2> QED BY <2>1, <2>2, WireSame
<1>5. CASE BreakLink \/ Broker \/ UNCHANGED vars
  <2>1. UNCHANGED <<wire, begun, cut, ok, future>>
    BY <1>5 DEF BreakLink, Broker, BrokerReads, BrokerCloses, BrokerWrites, vars, client, ghosts
  <2> QED BY <2>1, WireSame
<1> QED BY <1>1, <1>2, <1>3, <1>4, <1>5 DEF Next, Client, Continue

\* A packet whose send_packet() returned Ok is in the stream, in one piece:
\* flush_write_queue() goes on after a write() that took a part, and gives the
\* next one the rest.
THEOREM SentInOnePiece == Spec => []OkIsInStream
<1>1. Init => Typed /\ WireInv
  BY InitTyped, InitWire
<1>2. Typed /\ WireInv /\ [Next]_vars => (Typed /\ WireInv)'
  BY NextTyped, NextWire
<1>3. Typed /\ WireInv => OkIsInStream
  <2> SUFFICES ASSUME Typed, WireInv, NEW p \in ok
               PROVE  \E i \in 0..(Len(wire) - SizeOf[p]) : SubSeq(wire, i + 1, i + SizeOf[p]) = Packet(p)
    BY DEF OkIsInStream
  <2>1. p \in Nat /\ SizeOf[p] \in Nat /\ Len(wire) \in Nat /\ wire \in Seq(Byte)
    BY Constants DEF Typed
  <2>2. PICK i \in 0..(Len(wire) - SizeOf[p]) : \A j \in 1..SizeOf[p] : wire[i + j] = <<p, j>>
    BY DEF WireInv, InStream
  <2> DEFINE m == i + 1
             n == i + SizeOf[p]
  <2>3. m \in Int /\ n \in Int /\ n - m + 1 = SizeOf[p] /\ (m <= n \/ SizeOf[p] = 0)
    BY <2>1
  <2>4. \A k \in m..n : k \in 1..Len(wire)
    BY <2>1, <2>2
  <2>5. \A k \in m..n : wire[k] \in Byte
    BY <2>1, <2>4, ElementOfSeq
  <2> HIDE DEF m, n
  <2>6. /\ SubSeq(wire, m, n) \in Seq(Byte)
        /\ Len(SubSeq(wire, m, n)) = IF m <= n THEN n - m + 1 ELSE 0
        /\ \A k \in 1..n - m + 1 : SubSeq(wire, m, n)[k] = wire[m + k - 1]
    BY <2>3, <2>5, SubSeqProperties
  <2>7. \A k \in 1..SizeOf[p] : m + k - 1 = i + k
    BY <2>1 DEF m
  <2>8. Len(SubSeq(wire, m, n)) = SizeOf[p] /\ \A k \in 1..SizeOf[p] : SubSeq(wire, m, n)[k] = <<p, k>>
    BY <2>1, <2>2, <2>3, <2>6, <2>7
  <2>9. SubSeq(wire, m, n) = Bytes(p, SizeOf[p])
    BY <2>1, <2>6, <2>8, BytesEqual
  <2> QED BY <2>2, <2>9 DEF Packet, m, n
<1> QED BY <1>1, <1>2, <1>3, PTL DEF Spec

-----------------------------------------------------------------------------
(* What the broker reads: it has read the first bytes of the stream, and    *)
(* where no packet was cut, the packets it found end where they end in it.  *)

Done == Len(wire) - Len(out) - Len(frame)

Framing ==
    /\ Done >= 0
    /\ \A j \in 1..Len(frame) : frame[j] = wire[Done + j]
    /\ \A j \in 1..Len(out) : out[j] = wire[Done + Len(frame) + j]
    /\ Done = 0 => frames = <<>>
    /\ Done > 0 /\ BeforeCut(wire[Done][1]) =>
           wire[Done][2] = SizeOf[wire[Done][1]] /\ frames[Len(frames)][1][1] = wire[Done][1]
    /\ frame # <<>> => Len(frame) < SizeOf[frame[1][1]]
    /\ frame # <<>> /\ BeforeCut(frame[1][1]) =>
           \A j \in 1..Len(frame) : frame[j] = <<frame[1][1], j>>

BrokerInv ==
    /\ link /\ transport.kind # "mock" => Framing
    /\ transport.kind = "mock" => frames = <<>>
    /\ WholeUntilCut

\* The first packet cut stays the first one.
LEMMA CutOnce == Typed /\ [Next]_vars => cut' = cut \/ cut = 0
<1> SUFFICES ASSUME [Next]_vars PROVE cut' = cut \/ cut = 0
  OBVIOUS
<1>1. Cut = cut \/ cut = 0
  BY DEF Cut
<1>2. CASE Client
  BY <1>1, <1>2 DEF Client, Continue, SendPacket, Write, Took, WriteFails, Flush, StartRead, Read,
                    ReadFails, DropFuture, ghosts
<1>3. CASE BreakLink \/ Broker \/ UNCHANGED vars
  BY <1>3 DEF BreakLink, Broker, BrokerReads, BrokerCloses, BrokerWrites, vars, ghosts
<1> QED BY <1>2, <1>3 DEF Next

\* Steps of which the broker knows nothing, or after which it reads no more.
LEMMA BrokerSame ==
    ASSUME BrokerInv, UNCHANGED frames, cut' = cut \/ cut = 0, transport'.kind = transport.kind,
           (UNCHANGED <<wire, out, frame, link>>) \/ link' = FALSE
    PROVE  BrokerInv'
<1>1. ASSUME NEW q, BeforeCut(q)' PROVE BeforeCut(q)
  BY <1>1 DEF BeforeCut
<1>2. WholeUntilCut'
  BY DEF BrokerInv, WholeUntilCut
<1>3. CASE link' = FALSE
  BY <1>2, <1>3 DEF BrokerInv
<1>4. CASE UNCHANGED <<wire, out, frame, link>>
  <2>1. Framing => Framing'
    BY <1>1, <1>4 DEF Framing, Done
  <2> QED BY <1>2, <1>4, <2>1 DEF BrokerInv
<1> QED BY <1>3, <1>4

LEMMA BrokerWrite ==
    ASSUME Typed, BrokerInv, Write
    PROVE  BrokerInv'
<1>1. /\ UNCHANGED <<link, broker, cut>> /\ transport'.kind = transport.kind
      /\ transport.kind = "mock" \/ link
  BY WriteStep
<1>2. UNCHANGED <<frame, frames>>
  BY <1>1 DEF broker
<1>3. WholeUntilCut'
  BY <1>1, <1>2 DEF BrokerInv, WholeUntilCut
<1>4. CASE transport.kind = "mock"
  BY <1>1, <1>2, <1>3, <1>4 DEF BrokerInv
<1>5. CASE link /\ transport.kind # "mock"
  <2>1. PICK bytes \in Seq(Byte) : out' = out \o bytes /\ wire' = wire \o bytes
    BY WriteStep
  <2> DEFINE L == Len(wire)
             O == Len(out)
             F == Len(frame)
             n == Len(bytes)
             D == L - O - F
  <2>2. /\ Len(wire') = L + n /\ \A i \in 1..L : wire'[i] = wire[i]
        /\ \A j \in 1..n : wire'[L + j] = bytes[j]
    BY <2>1, AddedTo DEF Typed
  <2>3. /\ Len(out') = O + n /\ \A i \in 1..O : out'[i] = out[i]
        /\ \A j \in 1..n : out'[O + j] = bytes[j]
    BY <2>1, AddedTo DEF Typed
  <2>4. L \in Nat /\ O \in Nat /\ F \in Nat /\ n \in Nat /\ D \in Int
    BY <2>1, AddedTo DEF Typed
  <2>5. /\ Framing /\ Done = D /\ D >= 0
    BY <1>5 DEF BrokerInv, Framing, Done
  <2>6. Done' = D
    BY <1>2, <2>2, <2>3, <2>4 DEF Done
  <2>7. D = L - O - F
    OBVIOUS
  <2> HIDE DEF L, O, F, n, D
  <2>8. \A j \in 1..F : frame[j] = wire'[D + j]
    <3> TAKE j \in 1..F
    <3>1. D + j \in 1..L
      BY <2>4, <2>5, <2>7
    <3>2. frame[j] = wire[D + j]
      BY <2>5 DEF Framing, F
    <3> QED BY <2>2, <3>1, <3>2
  <2>9. \A j \in 1..O + n : out'[j] = wire'[D + F + j]
    <3> TAKE j \in 1..O + n
    <3>1. CASE j \in 1..O
      <4>1. D + F + j \in 1..L
        BY <2>4, <2>5, <2>7, <3>1
      <4>2. out[j] = wire[D + F + j]
        BY <2>5, <3>1 DEF Framing, F, O
      <4> QED BY <2>2, <2>3, <3>1, <4>1, <4>2
    <3>2. CASE j - O \in 1..n
      <4>1. O + (j - O) = j /\ L + (j - O) = D + F + j
        BY <2>4, <2>7
      <4> QED BY <2>2, <2>3, <3>2, <4>1
    <3>3. j \in 1..O \/ j - O \in 1..n
      BY <2>4
    <3> QED BY <3>1, <3>2, <3>3
  <2>10. D > 0 => wire'[D] = wire[D]
    <3>1. D > 0 => D \in 1..L
      BY <2>4, <2>5, <2>7
    <3> QED BY <2>2, <3>1
  <2>11. Framing'
    <3>1. \A j \in 1..Len(frame') : frame'[j] = wire'[Done' + j]
      BY <1>2, <2>6, <2>8 DEF F
    <3>2. \A j \in 1..Len(out') : out'[j] = wire'[Done' + Len(frame') + j]
      BY <1>2, <2>3, <2>6, <2>9 DEF F
    <3>3. \A q : BeforeCut(q)' <=> BeforeCut(q)
      BY <1>1 DEF BeforeCut
    <3> QED BY <1>2, <2>5, <2>6, <2>10, <3>1, <3>2, <3>3 DEF Framing
  <2> QED BY <1>2, <1>3, <1>1, <1>5, <2>11 DEF BrokerInv
<1> QED BY <1>1, <1>4, <1>5

\* The packet with the byte that arrives.
Grown == Append(frame, Head(out))

LEMMA GrownBytes ==
    ASSUME Typed, Framing, out # <<>>
    PROVE  /\ Len(wire) \in Nat /\ Len(frame) \in Nat /\ Done \in Nat /\ Len(out) \in Nat /\ Len(out) > 0
           /\ Done + Len(frame) + 1 <= Len(wire)
           /\ Grown \in Seq(Byte) /\ Len(Grown) = Len(frame) + 1
           /\ \A j \in 1..Len(frame) : Grown[j] = frame[j]
           /\ \A j \in 1..Len(frame) + 1 : Grown[j] = wire[Done + j] /\ Done + j \in 1..Len(wire)
<1>1. /\ Len(wire) \in Nat /\ Len(frame) \in Nat /\ Len(out) \in Nat /\ Len(out) > 0
      /\ frame \in Seq(Byte) /\ out \in Seq(Byte)
  BY EmptySeq DEF Typed
<1>2. Done \in Nat /\ Done + Len(frame) + 1 <= Len(wire)
  BY <1>1 DEF Framing, Done
<1>3. Head(out) = out[1] /\ out[1] \in Byte
  BY <1>1
<1>4. /\ Grown \in Seq(Byte) /\ Len(Grown) = Len(frame) + 1
      /\ \A j \in 1..Len(frame) : Grown[j] = frame[j]
      /\ Grown[Len(frame) + 1] = Head(out)
  BY <1>1, <1>3, AppendProperties DEF Grown
<1>5. ASSUME NEW j \in 1..Len(frame) + 1
      PROVE  Grown[j] = wire[Done + j] /\ Done + j \in 1..Len(wire)
  <2>1. Done + j \in 1..Len(wire)
    BY <1>1, <1>2
  <2>2. CASE j \in 1..Len(frame)
    BY <1>4, <2>1, <2>2 DEF Framing
  <2>3. CASE j = Len(frame) + 1
    <3>1. out[1] = wire[Done + Len(frame) + 1]
      BY <1>1 DEF Framing
    <3>2. Done + j = Done + Len(frame) + 1
      BY <1>1, <1>2, <2>3
    <3> QED BY <1>3, <1>4, <2>1, <2>3, <3>1, <3>2
  <2>4. j \in 1..Len(frame) \/ j = Len(frame) + 1
    BY <1>1
  <2> QED BY <2>2, <2>3, <2>4
<1> QED BY <1>1, <1>2, <1>4, <1>5

\* Up to the first packet cut, what the broker collects is part of one packet.
LEMMA GrownPacket ==
    ASSUME Typed, WireInv, Framing, out # <<>>, frame # <<>> \/ Head(out)[2] = 1,
           BeforeCut(Grown[1][1])
    PROVE  \A j \in 1..Len(frame) + 1 : Grown[j] = <<Grown[1][1], j>>
<1> DEFINE F == Len(frame)
           p == Grown[1][1]
<1>1. /\ F \in Nat /\ Grown \in Seq(Byte) /\ Len(Grown) = F + 1
      /\ \A j \in 1..F : Grown[j] = frame[j]
      /\ \A j \in 1..F + 1 : Grown[j] = wire[Done + j] /\ Done + j \in 1..Len(wire)
      /\ Done \in Nat /\ Len(wire) \in Nat
  BY GrownBytes
<1>2. CASE frame = <<>>
  <2>1. F = 0 /\ Grown = <<Head(out)>>
    BY <1>2 DEF Grown
  <2>2. Grown[1] \in Byte /\ Grown[1][2] = 1
    BY <1>1, <1>2, <2>1, ElementOfSeq
  <2>3. Grown[1] = <<p, 1>>
    BY <2>2, ByteParts
  <2> QED BY <1>1, <2>1, <2>3
<1>3. CASE frame # <<>>
  <2>1. F >= 1 /\ frame[1] = Grown[1]
    BY <1>1, <1>3, EmptySeq DEF Typed
  <2>2. F < SizeOf[p] /\ \A j \in 1..F : frame[j] = <<p, j>>
    BY <1>3, <2>1 DEF Framing
  <2> DEFINE k == Done + F
  <2>3. k \in 1..Len(wire) - 1 /\ k + 1 = Done + (F + 1) /\ F \in 1..F + 1 /\ F + 1 \in 1..F + 1
    <3>1. Done + (F + 1) \in 1..Len(wire)
      BY <1>1
    <3> QED BY <1>1, <2>1, <3>1
  <2>4. wire[k] = <<p, F>>
    BY <1>1, <2>1, <2>2, <2>3
  <2> HIDE DEF k, p
  <2>5. wire[k][1] = p /\ wire[k][2] = F
    BY <2>4
  <2>6. BeforeCut(wire[k][1]) => Follows(wire[k], wire[k + 1])
    BY <2>3 DEF WireInv, WireOK
  <2>7. wire[k + 1] = <<p, F + 1>>
    BY <2>2, <2>5, <2>6 DEF Follows, p
  <2>8. Grown[F + 1] = <<p, F + 1>>
    BY <1>1, <2>3, <2>7 DEF k
  <2>9. ASSUME NEW j \in 1..F + 1 PROVE Grown[j] = <<p, j>>
    <3>1. j \in 1..F \/ j = F + 1
      BY <1>1
    <3> QED BY <1>1, <2>2, <2>8, <3>1
  <2> QED BY <2>9 DEF p
<1> QED BY <1>2, <1>3

LEMMA FrameGrows ==
    ASSUME Typed, WireInv, BrokerInv, BrokerReads, Len(Grown) # SizeOf[Grown[1][1]]
    PROVE  BrokerInv'
<1> DEFINE F == Len(frame)
           p == Grown[1][1]
<1>1. /\ link /\ transport.kind # "mock" /\ Framing /\ WholeUntilCut /\ out # <<>>
      /\ frame # <<>> \/ Head(out)[2] = 1
      /\ out' = Tail(out) /\ frame' = Grown
      /\ UNCHANGED <<frames, wire, cut, link, transport>>
  BY DEF BrokerReads, Networked, BrokerInv, client, ghosts, Grown
<1>2. /\ Len(wire) \in Nat /\ F \in Nat /\ Done \in Nat /\ Len(out) \in Nat /\ Len(out) > 0
      /\ Grown \in Seq(Byte) /\ Len(Grown) = F + 1
      /\ \A j \in 1..F : Grown[j] = frame[j]
      /\ \A j \in 1..F + 1 : Grown[j] = wire[Done + j] /\ Done + j \in 1..Len(wire)
  BY <1>1, GrownBytes
<1>3. Len(out') = Len(out) - 1 /\ \A j \in 1..Len(out') : out'[j] = out[j + 1]
  BY <1>1, HeadTailProperties DEF Typed
<1>4. Done' = Done
  BY <1>1, <1>2, <1>3 DEF Done
<1>5. \A j \in 1..Len(out') : out'[j] = wire[Done + (F + 1) + j]
  <2> TAKE j \in 1..Len(out')
  <2>1. j + 1 \in 1..Len(out) /\ Done + F + (j + 1) = Done + (F + 1) + j
    BY <1>2, <1>3
  <2>2. out[j + 1] = wire[Done + F + (j + 1)]
    BY <1>1, <2>1 DEF Framing
  <2> QED BY <1>3, <2>1, <2>2
<1>6. Len(Grown) < SizeOf[p]
  <2>1. wire[Done + 1] = Grown[1] /\ Done + 1 \in 1..Len(wire)
    BY <1>2
  <2>2. p \in 1..Len(SizeOf)
    <3>1. p \in 1..begun
      BY <2>1 DEF WireInv, WireOK
    <3> QED BY <3>1, Constants DEF Typed
  <2>3. SizeOf[p] \in Nat /\ SizeOf[p] >= 2
    BY <2>2, Constants
  <2>4. CASE frame = <<>>
    BY <1>2, <2>3, <2>4
  <2>5. CASE frame # <<>>
    <3>1. F >= 1 /\ Grown[1] = frame[1]
      BY <1>2, <2>5, EmptySeq DEF Typed
    <3>2. F < SizeOf[p]
      BY <1>1, <2>5, <3>1 DEF Framing
    <3> QED BY <1>2, <2>3, <3>2
  <2> QED BY <2>4, <2>5
<1>7. BeforeCut(p) => \A j \in 1..Len(Grown) : Grown[j] = <<p, j>>
  BY <1>1, <1>2, GrownPacket
<1> HIDE DEF p
<1>8. Framing'
  <2>1. \A j \in 1..Len(frame') : frame'[j] = wire'[Done' + j]
    BY <1>1, <1>2, <1>4
  <2>2. \A j \in 1..Len(out') : out'[j] = wire'[Done' + Len(frame') + j]
    BY <1>1, <1>2, <1>4, <1>5
  <2>3. frame' # <<>> => Len(frame') < SizeOf[frame'[1][1]]
    BY <1>1, <1>6 DEF p
  <2>4. frame' # <<>> /\ BeforeCut(frame'[1][1]) =>
            \A j \in 1..Len(frame') : frame'[j] = <<frame'[1][1], j>>
    BY <1>1, <1>7 DEF p
  <2>5. Done' >= 0 /\ (Done' = 0 => frames' = <<>>)
    BY <1>1, <1>4 DEF Framing
  <2>6. Done' > 0 /\ BeforeCut(wire'[Done'][1]) =>
            wire'[Done'][2] = SizeOf[wire'[Done'][1]] /\ frames'[Len(frames')][1][1] = wire'[Done'][1]
    BY <1>1, <1>4 DEF Framing
  <2>7. \A q : BeforeCut(q)' <=> BeforeCut(q)
    BY <1>1 DEF BeforeCut
  <2> QED BY <2>1, <2>2, <2>3, <2>4, <2>5, <2>6, <2>7 DEF Framing
<1> QED BY <1>1, <1>8 DEF BrokerInv, WholeUntilCut

LEMMA FrameEnds ==
    ASSUME Typed, WireInv, BrokerInv, BrokerReads, Len(Grown) = SizeOf[Grown[1][1]]
    PROVE  BrokerInv'
<1> DEFINE F == Len(frame)
           p == Grown[1][1]
           end == Done + (F + 1)
<1>1. /\ link /\ transport.kind # "mock" /\ Framing /\ WholeUntilCut /\ out # <<>>
      /\ frame # <<>> \/ Head(out)[2] = 1
      /\ out' = Tail(out) /\ frame' = <<>> /\ frames' = Append(frames, Grown)
      /\ UNCHANGED <<wire, cut, link, transport>>
  BY DEF BrokerReads, Networked, BrokerInv, client, ghosts, Grown
<1>2. /\ Len(wire) \in Nat /\ F \in Nat /\ Done \in Nat /\ Len(out) \in Nat /\ Len(out) > 0
      /\ Grown \in Seq(Byte) /\ Len(Grown) = F + 1
      /\ \A j \in 1..F + 1 : Grown[j] = wire[Done + j] /\ Done + j \in 1..Len(wire)
  BY <1>1, GrownBytes
<1>3. Len(out') = Len(out) - 1 /\ \A j \in 1..Len(out') : out'[j] = out[j + 1]
  BY <1>1, HeadTailProperties DEF Typed
<1>4. Len(frame') = 0 /\ Done' = end
  BY <1>1, <1>2, <1>3 DEF Done
<1>5. \A j \in 1..Len(out') : out'[j] = wire[end + 0 + j]
  <2> TAKE j \in 1..Len(out')
  <2>1. j + 1 \in 1..Len(out) /\ Done + F + (j + 1) = end + 0 + j
    BY <1>2, <1>3
  <2>2. out[j + 1] = wire[Done + F + (j + 1)]
    BY <1>1, <2>1 DEF Framing
  <2> QED BY <1>3, <2>1, <2>2
<1>6. /\ Len(frames) \in Nat /\ Len(frames') = Len(frames) + 1
      /\ \A i \in 1..Len(frames) : frames'[i] = frames[i]
      /\ frames'[Len(frames) + 1] = Grown
      /\ frames' \in Seq(Seq(Byte))
  BY <1>1, <1>2, AppendProperties DEF Typed
<1>7. BeforeCut(p) => \A j \in 1..F + 1 : Grown[j] = <<p, j>>
  BY <1>1, GrownPacket
<1>8. /\ wire[Done + 1] = Grown[1] /\ wire[end] = Grown[F + 1]
      /\ Done + 1 \in 1..Len(wire) /\ end \in 1..Len(wire) /\ Done + 1 <= end
  BY <1>2
<1>9. /\ wire[Done + 1][1] = p /\ p \in 1..begun /\ wire[end][1] \in 1..begun
      /\ p <= wire[end][1] /\ begun \in Nat /\ cut \in Nat
  <2>1. wire[Done + 1][1] \in 1..begun /\ wire[end][1] \in 1..begun /\ begun \in Nat /\ cut \in Nat
    <3>1. begun \in Nat /\ cut \in Nat
      BY Constants DEF Typed
    <3> HIDE DEF end
    <3> QED BY <1>8, <3>1 DEF WireInv, WireOK
  <2>2. wire[Done + 1][1] <= wire[end][1]
    <3>1. CASE Done + 1 = end
      BY <2>1, <3>1
    <3>2. CASE Done + 1 < end
      BY <1>8, <3>2 DEF WireInv, WireOK
    <3> QED BY <1>2, <1>8, <3>1, <3>2
  <2> QED BY <1>8, <2>1, <2>2
<1>10. BeforeCut(wire[end][1]) => BeforeCut(p)
  BY <1>9 DEF BeforeCut
<1>11. BeforeCut(p) => wire[end] = <<p, SizeOf[p]>> /\ SizeOf[p] \in Nat
  BY <1>2, <1>7, <1>8
<1> HIDE DEF p, end
<1>12. Framing'
  <2>1. Done' > 0 /\ Done' >= 0 /\ ~(Done' = 0) /\ frame' = <<>>
    BY <1>1, <1>2, <1>4 DEF end
  <2>2. \A j \in 1..Len(out') : out'[j] = wire'[Done' + Len(frame') + j]
    BY <1>1, <1>4, <1>5
  <2>3. \A j \in 1..Len(frame') : frame'[j] = wire'[Done' + j]
    BY <1>4
  <2>4. BeforeCut(wire'[Done'][1]) =>
            wire'[Done'][2] = SizeOf[wire'[Done'][1]] /\ frames'[Len(frames')][1][1] = wire'[Done'][1]
    <3> SUFFICES ASSUME BeforeCut(wire[end][1])
                 PROVE  wire[end][2] = SizeOf[wire[end][1]] /\ frames'[Len(frames')][1][1] = wire[end][1]
      BY <1>1, <1>4
    <3>1. wire[end][1] = p /\ wire[end][2] = SizeOf[p]
      BY <1>10, <1>11
    <3>2. frames'[Len(frames')][1][1] = p
      BY <1>6 DEF p
    <3> QED BY <3>1, <3>2
  <2>5. \A q : BeforeCut(q)' <=> BeforeCut(q)
    BY <1>1 DEF BeforeCut
  <2> QED BY <2>1, <2>2, <2>3, <2>4, <2>5 DEF Framing
<1>13. WholeUntilCut'
  <2> SUFFICES ASSUME NEW i \in DOMAIN frames', cut' = 0 \/ frames'[i][1][1] < cut'
               PROVE  /\ frames'[i] = Packet(frames'[i][1][1])
                      /\ i > 1 => frames'[i - 1][1][1] < frames'[i][1][1]
    BY DEF WholeUntilCut
  <2>1. i \in 1..Len(frames) + 1
    BY <1>6
  <2>2. CASE i \in 1..Len(frames)
    <3>1. frames'[i] = frames[i] /\ (i > 1 => frames'[i - 1] = frames[i - 1])
      <4>1. i > 1 => i - 1 \in 1..Len(frames)
        BY <1>6, <2>2
      <4> QED BY <1>6, <2>2, <4>1
    <3>2. cut = 0 \/ frames[i][1][1] < cut
      BY <1>1, <3>1
    <3>3. i \in DOMAIN frames
      BY <2>2 DEF Typed
    <3> QED BY <1>1, <3>1, <3>2, <3>3 DEF WholeUntilCut
  <2>3. CASE i = Len(frames) + 1
    <3>1. frames'[i] = Grown /\ BeforeCut(p)
      BY <1>1, <1>6, <2>3 DEF BeforeCut, p
    <3>2. Grown = Packet(p)
      <4>1. SizeOf[p] \in Nat /\ p \in Nat /\ Len(Grown) = SizeOf[p]
        BY <1>2, <1>9 DEF p
      <4>2. \A j \in 1..SizeOf[p] : Grown[j] = <<p, j>>
        BY <1>2, <1>7, <3>1, <4>1
      <4>3. Grown = Bytes(p, SizeOf[p])
        BY <1>2, <4>1, <4>2, BytesEqual
      <4> QED BY <4>3 DEF Packet
    <3>3. i > 1 => frames'[i - 1][1][1] < p
      <4> SUFFICES ASSUME i > 1 PROVE frames'[i - 1][1][1] < p
        OBVIOUS
      <4>1. /\ i - 1 = Len(frames) /\ Len(frames) \in 1..Len(frames) /\ frames # <<>>
            /\ frames'[i - 1] = frames[Len(frames)]
        <5>1. i - 1 = Len(frames) /\ Len(frames) \in 1..Len(frames)
          BY <1>6, <2>3
        <5>2. frames # <<>>
          BY <1>6, <5>1, EmptySeq
        <5> QED BY <1>6, <5>1, <5>2
      <4>2. Done > 0 /\ Done \in 1..Len(wire) - 1
        BY <1>1, <1>2, <1>8, <4>1 DEF Framing
      <4>3. wire[Done][1] <= p /\ wire[Done][1] \in 1..begun /\ Done \in 1..Len(wire)
        BY <1>2, <1>8, <1>9, <4>2 DEF WireInv, WireOK
      <4>4. BeforeCut(wire[Done][1])
        BY <1>9, <3>1, <4>3 DEF BeforeCut
      <4>5. wire[Done][2] = SizeOf[wire[Done][1]] /\ frames[Len(frames)][1][1] = wire[Done][1]
        BY <1>1, <4>2, <4>4 DEF Framing
      <4>6. Follows(wire[Done], wire[Done + 1])
        BY <4>2, <4>4 DEF WireInv, WireOK
      <4>7. SizeOf[wire[Done][1]] \in Nat
        <5>1. wire[Done][1] \in 1..Len(SizeOf)
          BY <4>3, Constants DEF Typed
        <5> QED BY <5>1, Constants
      <4>8. wire[Done][1] < p
        BY <1>9, <4>5, <4>6, <4>7 DEF Follows
      <4> QED BY <4>1, <4>5, <4>8
    <3> QED BY <3>1, <3>2, <3>3 DEF p
  <2> QED BY <1>6, <2>1, <2>2, <2>3
<1> QED BY <1>1, <1>12, <1>13 DEF BrokerInv

LEMMA InitBroker == Init => BrokerInv
<1> SUFFICES ASSUME Init PROVE BrokerInv
  OBVIOUS
<1>1. /\ wire = <<>> /\ out = <<>> /\ frame = <<>> /\ frames = <<>>
      /\ Len(wire) = 0 /\ Len(out) = 0 /\ Len(frame) = 0
  BY DEF Init
<1>2. Done = 0
  <2>1. Len(wire) = 0 /\ Len(out) = 0 /\ Len(frame) = 0
    BY <1>1
  <2> QED BY <2>1 DEF Done
<1>3. Framing
  BY <1>1, <1>2 DEF Framing
<1> QED BY <1>1, <1>3 DEF BrokerInv, WholeUntilCut

\* No step makes another kind of transport of the client's.
LEMMA KindKept == Typed /\ [Next]_vars => transport'.kind = transport.kind
<1> SUFFICES ASSUME Typed, [Next]_vars PROVE transport'.kind = transport.kind
  OBVIOUS
<1>1. CASE Write
  BY <1>1, WriteStep
<1>2. CASE WriteFails
  <2>1. Left \in Nat
    BY <1>2, SendingOK DEF WriteFails
  <2> QED BY <1>2, <2>1, WriteResult DEF WriteFails
<1>3. CASE Flush
  BY <1>3 DEF Flush, Typed, Transports
<1>4. CASE Read
  BY <1>4, ReadResult DEF Read
<1>5. CASE ReadFails
  BY <1>5, ReadResult DEF ReadFails
<1>6. CASE SendPacket \/ StartRead \/ DropFuture \/ BreakLink \/ Broker \/ UNCHANGED vars
  BY <1>6 DEF SendPacket, StartRead, DropFuture, BreakLink, Broker, BrokerReads, BrokerCloses,
              BrokerWrites, vars, client
<1> QED BY <1>1, <1>2, <1>3, <1>4, <1>5, <1>6 DEF Next, Client, Continue

LEMMA NextBroker == Typed /\ WireInv /\ BrokerInv /\ [Next]_vars => BrokerInv'
<1> SUFFICES ASSUME Typed, WireInv, BrokerInv, [Next]_vars PROVE BrokerInv'
  OBVIOUS
<1>1. CASE Write
  BY <1>1, BrokerWrite
<1>2. CASE BrokerReads
  BY <1>2, FrameGrows, FrameEnds
<1>3. CASE (Client /\ ~Write) \/ BreakLink \/ BrokerCloses \/ BrokerWrites \/ UNCHANGED vars
  <2>1. UNCHANGED frames /\ (UNCHANGED <<wire, out, frame, link>> \/ link' = FALSE)
    BY <1>3 DEF Client, Continue, SendPacket, WriteFails, Flush, StartRead, Read, ReadFails, DropFuture,
                BreakLink, BrokerCloses, BrokerWrites, vars, broker, ghosts
  <2> QED BY <2>1, CutOnce, KindKept, BrokerSame
<1> QED BY <1>1, <1>2, <1>3 DEF Next, Broker

\* Up to the first packet that a dropped future or a write error cut, the broker
\* reads the packets of send_packet() whole, in the order of the calls, each
\* once.
THEOREM WholePackets == Spec => []WholeUntilCut
<1>1. Init => Typed /\ WireInv /\ BrokerInv
  BY InitTyped, InitWire, InitBroker
<1>2. Typed /\ WireInv /\ BrokerInv /\ [Next]_vars => (Typed /\ WireInv /\ BrokerInv)'
  BY NextTyped, NextWire, NextBroker
<1>3. BrokerInv => WholeUntilCut
  BY DEF BrokerInv
<1> QED BY <1>1, <1>2, <1>3, PTL DEF Spec

-----------------------------------------------------------------------------
(* What the client reads: the bytes it holds of a packet, those on their    *)
(* way and those the broker has yet to write are the answers it has not     *)
(* received, one after the other.                                           *)

Successor(b) == IF b[2] < AnswerSize THEN <<b[1], b[2] + 1>> ELSE <<b[1] + 1, 1>>

\* The bytes of the answers k to n.
Answering(s, k, n) ==
    /\ s = <<>> => k = n + 1
    /\ s # <<>> => s[1] = <<k, 1>> /\ Ended(s) = <<n, AnswerSize>>
    /\ \A i \in 1..Len(s) - 1 : s[i + 1] = Successor(s[i])

Answers == IF transport.kind = "mock" THEN 2 ELSE Len(frames)
Pending == packet_state \o (inn \o owed)

AnswersInv ==
    /\ Len(packet_state) < AnswerSize
    /\ \A j \in 1..Len(packet_state) : packet_state[j] = <<Len(received) + 1, j>>
    /\ Answering(Pending, Len(received) + 1, Answers)
    /\ ReceivedWhole

\* A byte that moves from the head of one sequence to the end of another.
LEMMA ByteMoves ==
    ASSUME NEW s \in Seq(Byte), NEW t \in Seq(Byte), t # <<>>
    PROVE  Append(s, Head(t)) \o Tail(t) = s \o t
<1> DEFINE h == Head(t)
           r == Tail(t)
<1>1. /\ h \in Byte /\ h = t[1] /\ r \in Seq(Byte) /\ Len(r) = Len(t) - 1
      /\ \A i \in 1..Len(r) : r[i] = t[i + 1]
  BY HeadTailProperties
<1>2. Len(t) \in Nat /\ Len(t) > 0 /\ <<h>> \in Seq(Byte) /\ Len(<<h>>) = 1 /\ <<h>>[1] = h
  BY <1>1, EmptySeq
<1> HIDE DEF h, r
<1>3. <<h>> \o r = t
  <2>1. /\ <<h>> \o r \in Seq(Byte) /\ Len(<<h>> \o r) = 1 + Len(r)
        /\ (<<h>> \o r)[1] = h
        /\ \A i \in 1..Len(r) : (<<h>> \o r)[1 + i] = r[i]
    <3>1. \A j \in 1..Len(<<h>>) : (<<h>> \o r)[j] = <<h>>[j]
      BY <1>1, <1>2, AddedTo
    <3>2. /\ <<h>> \o r \in Seq(Byte) /\ Len(<<h>> \o r) = Len(<<h>>) + Len(r)
          /\ \A i \in 1..Len(r) : (<<h>> \o r)[Len(<<h>>) + i] = r[i]
      BY <1>1, <1>2, AddedTo
    <3> QED BY <1>2, <3>1, <3>2
  <2>2. ASSUME NEW i \in 1..Len(t) PROVE (<<h>> \o r)[i] = t[i]
    <3>1. CASE i = 1
      BY <1>1, <2>1, <3>1
    <3>2. CASE i # 1
      <4>1. i - 1 \in 1..Len(r) /\ 1 + (i - 1) = i /\ (i - 1) + 1 = i
        BY <1>1, <1>2, <3>2
      <4> QED BY <1>1, <2>1, <4>1
    <3> QED BY <3>1, <3>2
  <2>3. Len(<<h>> \o r) = Len(t)
    BY <1>1, <1>2, <2>1
  <2> QED BY <2>1, <2>2, <2>3, SeqEqual
<1>4. Append(s, h) = s \o <<h>>
  BY <1>1, AppendIsConcat
<1>5. (s \o <<h>>) \o r = s \o (<<h>> \o r)
  BY <1>1, <1>2, ConcatAssociative
<1> QED BY <1>3, <1>4, <1>5 DEF h, r

LEMMA PendingOK == Typed => Pending \in Seq(Byte) /\ inn \o owed \in Seq(Byte) /\ Answers \in Nat
BY ConcatProperties DEF Typed, Pending, Answers

LEMMA NothingAnswering ==
    ASSUME NEW n \in Nat
    PROVE  Answering(<<>>, n + 1, n)
BY DEF Answering

\* The broker adds an answer.
LEMMA AnswerAdded ==
    ASSUME NEW s \in Seq(Byte), NEW k \in Nat, NEW n \in Nat, Answering(s, k, n)
    PROVE  Answering(s \o Answer(n + 1), k, n + 1) /\ s \o Answer(n + 1) \in Seq(Byte)
<1> DEFINE a == Answer(n + 1)
           L == Len(s)
           u == s \o a
<1>1. n + 1 \in Nat /\ AnswerSize \in Nat /\ AnswerSize >= 2
  BY Constants
<1>2. /\ a \in Seq(Byte) /\ Len(a) = AnswerSize
      /\ \A i \in 1..AnswerSize : a[i] = <<n + 1, i>>
  BY <1>1, BytesOf DEF Answer
<1> HIDE DEF a
<1>3. /\ u \in Seq(Byte) /\ Len(u) = L + AnswerSize /\ L \in Nat
      /\ \A i \in 1..L : u[i] = s[i]
      /\ \A j \in 1..AnswerSize : u[L + j] = a[j]
  BY <1>2, AddedTo
<1> HIDE DEF u, L
<1>4. \A j \in 1..AnswerSize : u[L + j] = <<n + 1, j>>
  BY <1>2, <1>3
<1>5. u # <<>> /\ Ended(u) = <<n + 1, AnswerSize>>
  <2>1. u[L + AnswerSize] = <<n + 1, AnswerSize>>
    BY <1>1, <1>4
  <2> QED BY <1>1, <1>3, <2>1, EmptySeq DEF Ended
<1>6. u[1] = <<k, 1>>
  <2>1. CASE L = 0
    <3>1. s = <<>> /\ k = n + 1
      BY <2>1, EmptySeq DEF Answering, L
    <3>2. u[L + 1] = <<n + 1, 1>> /\ L + 1 = 1
      BY <1>1, <1>4, <2>1
    <3> QED BY <3>1, <3>2
  <2>2. CASE L > 0
    <3>1. s # <<>> /\ 1 \in 1..L
      BY <1>3, <2>2, EmptySeq DEF L
    <3> QED BY <1>3, <3>1 DEF Answering
  <2> QED BY <1>3, <2>1, <2>2
<1>7. ASSUME NEW i \in 1..Len(u) - 1 PROVE u[i + 1] = Successor(u[i])
  <2>1. i \in 1..L - 1 \/ (i = L /\ L \in 1..L) \/ (i - L \in 1..AnswerSize - 1)
    BY <1>1, <1>3
  <2>2. CASE i \in 1..L - 1
    <3>1. i \in 1..L /\ i + 1 \in 1..L
      BY <1>3, <2>2
    <3>2. s[i + 1] = Successor(s[i])
      BY <2>2 DEF Answering, L
    <3> QED BY <1>3, <3>1, <3>2
  <2>3. CASE i = L /\ L \in 1..L
    <3>1. s # <<>>
      BY <1>3, <2>3, EmptySeq DEF L
    <3>2. u[i] = <<n, AnswerSize>>
      BY <1>3, <2>3, <3>1 DEF Answering, Ended, L
    <3>3. u[i][1] = n /\ u[i][2] = AnswerSize
      BY <1>1, <3>2, ByteFields
    <3>4. u[i + 1] = <<n + 1, 1>>
      BY <1>1, <1>4, <2>3
    <3> QED BY <1>1, <3>3, <3>4 DEF Successor
  <2>4. CASE i - L \in 1..AnswerSize - 1
    <3> DEFINE j == i - L
    <3>1. j \in 1..AnswerSize /\ j + 1 \in 1..AnswerSize /\ L + j = i /\ L + (j + 1) = i + 1 /\ j < AnswerSize
      BY <1>1, <1>3, <2>4
    <3> HIDE DEF j
    <3>2. u[L + j] = <<n + 1, j>> /\ u[L + (j + 1)] = <<n + 1, j + 1>>
      BY <1>4, <3>1
    <3>3. u[i] = <<n + 1, j>> /\ u[i + 1] = <<n + 1, j + 1>>
      BY <3>1, <3>2
    <3>4. u[i][1] = n + 1 /\ u[i][2] = j
      BY <1>1, <3>1, <3>3, ByteFields
    <3> QED BY <3>1, <3>3, <3>4 DEF Successor
  <2> QED BY <2>1, <2>2, <2>3, <2>4
<1>8. Answering(u, k, n + 1)
  BY <1>5, <1>6, <1>7 DEF Answering
<1> QED BY <1>3, <1>8 DEF u, a

\* The client takes one.
LEMMA AnswerTaken ==
    ASSUME NEW s \in Seq(Byte), NEW t \in Seq(Byte), NEW k \in Nat, NEW n \in Nat,
           Len(s) = AnswerSize, \A j \in 1..AnswerSize : s[j] = <<k, j>>, Answering(s \o t, k, n)
    PROVE  Answering(t, k + 1, n)
<1> DEFINE u == s \o t
           z == AnswerSize
<1>1. /\ u \in Seq(Byte) /\ Len(u) = z + Len(t) /\ Len(t) \in Nat /\ z \in Nat /\ z >= 2
      /\ \A i \in 1..z : u[i] = s[i]
      /\ \A j \in 1..Len(t) : u[z + j] = t[j]
  BY AddedTo, Constants
<1> HIDE DEF u
<1>2. u # <<>> /\ u[z] = <<k, z>> /\ u[z][1] = k /\ u[z][2] = z
  <2>1. z \in 1..z /\ ~(Len(u) = 0)
    BY <1>1
  <2> QED BY <1>1, <2>1, EmptySeq, ByteFields
<1>3. Ended(u) = <<n, z>> /\ \A i \in 1..Len(u) - 1 : u[i + 1] = Successor(u[i])
  BY <1>2 DEF Answering, u
<1>4. CASE t = <<>>
  <2>1. Len(t) = 0 /\ Len(u) = z
    BY <1>1, <1>4
  <2>2. <<n, z>> = <<k, z>>
    BY <1>2, <1>3, <2>1 DEF Ended
  <2>3. n = k
    BY <2>2
  <2> QED BY <1>4, <2>1, <2>3 DEF Answering
<1>5. CASE t # <<>>
  <2>1. Len(t) >= 1
    BY <1>1, <1>5, EmptySeq
  <2>2. t[1] = <<k + 1, 1>>
    <3>1. z \in 1..Len(u) - 1
      BY <1>1, <2>1
    <3>2. u[z + 1] = <<k + 1, 1>>
      <4>1. u[z + 1] = Successor(u[z])
        BY <1>3, <3>1
      <4>2. ~(u[z][2] < AnswerSize)
        BY <1>1, <1>2
      <4> QED BY <1>2, <4>1, <4>2 DEF Successor
    <3>3. 1 \in 1..Len(t)
      BY <1>1, <2>1
    <3> QED BY <1>1, <3>2, <3>3
  <2>3. Ended(t) = <<n, z>>
    <3>1. u[z + Len(t)] = t[Len(t)]
      <4>1. Len(t) \in 1..Len(t)
        BY <1>1, <2>1
      <4> QED BY <1>1, <4>1
    <3> QED BY <1>1, <1>3, <3>1 DEF Ended
  <2>4. ASSUME NEW i \in 1..Len(t) - 1 PROVE t[i + 1] = Successor(t[i])
    <3>1. z + i \in 1..Len(u) - 1 /\ i \in 1..Len(t) /\ i + 1 \in 1..Len(t) /\ (z + i) + 1 = z + (i + 1)
      BY <1>1
    <3>2. u[(z + i) + 1] = Successor(u[z + i])
      BY <1>3, <3>1
    <3> QED BY <1>1, <3>1, <3>2
  <2> QED BY <1>5, <2>2, <2>3, <2>4 DEF Answering
<1> QED BY <1>4, <1>5

LEMMA InitAnswers == Init => AnswersInv
<1> SUFFICES ASSUME Init PROVE AnswersInv
  OBVIOUS
<1>1. /\ packet_state = <<>> /\ received = <<>> /\ owed = <<>> /\ frames = <<>>
      /\ Len(packet_state) = 0 /\ Len(received) + 1 = 1 /\ Len(frames) = 0
  BY DEF Init
<1>2. inn \in Seq(Byte)
  BY InitTyped DEF Typed
<1>3. Pending = inn
  <2>1. inn \o <<>> = inn /\ <<>> \o inn = inn
    BY <1>2, ConcatEmptySeq
  <2> QED BY <1>1, <2>1 DEF Pending
<1>4. 0 \in Nat /\ 1 \in Nat /\ 0 + 1 = 1 /\ 1 + 1 = 2
  OBVIOUS
<1>5. Answering(<<>>, 1, 0)
  BY <1>4, NothingAnswering
<1>6. Answering(Pending, 1, Answers)
  <2>1. CASE transport.kind = "mock"
    <3> DEFINE a == Answer(1)
               b == Answer(2)
    <3>1. inn = a \o b
      BY <2>1 DEF Init
    <3>2. a \in Seq(Byte)
      BY <1>4, BytesOf, Constants DEF Answer
    <3>3. Answering(<<>> \o a, 1, 1)
      <4>1. <<>> \in Seq(Byte)
        BY EmptySeq
      <4>2. Answering(<<>> \o Answer(0 + 1), 1, 0 + 1)
        BY <1>4, <1>5, <4>1, AnswerAdded
      <4> QED BY <1>4, <4>2
    <3>4. <<>> \o a = a
      BY <3>2, ConcatEmptySeq
    <3>5. Answering(a, 1, 1)
      BY <3>3, <3>4
    <3>6. Answering(a \o Answer(1 + 1), 1, 1 + 1)
      <4> HIDE DEF a
      <4> QED BY <1>4, <3>2, <3>5, AnswerAdded
    <3> QED BY <1>3, <1>4, <2>1, <3>1, <3>6 DEF Answers
  <2>2. CASE transport.kind # "mock"
    <3>1. inn = <<>> /\ Answers = 0
      BY <1>1, <2>2 DEF Init, Answers
    <3> QED BY <1>3, <1>5, <3>1
  <2> QED BY <2>1, <2>2
<1>7. ReceivedWhole
  BY <1>1 DEF ReceivedWhole
<1> QED BY <1>1, <1>6, <1>7, Constants DEF AnswersInv

\* Steps that move no byte to the client.
LEMMA AnswersSame ==
    ASSUME AnswersInv, UNCHANGED <<packet_state, received, inn, owed, frames>>,
           transport'.kind = transport.kind
    PROVE  AnswersInv'
BY DEF AnswersInv, Pending, Answers, ReceivedWhole

LEMMA AnswersBrokerWrites ==
    ASSUME Typed, AnswersInv, BrokerWrites
    PROVE  AnswersInv'
<1>1. /\ inn' = Append(inn, Head(owed)) /\ owed' = Tail(owed) /\ owed # <<>>
      /\ UNCHANGED <<packet_state, received, frames, transport>>
  BY DEF BrokerWrites, client, ghosts
<1>2. inn' \o owed' = inn \o owed
  BY <1>1, ByteMoves DEF Typed
<1> QED BY <1>1, <1>2 DEF AnswersInv, Pending, Answers, ReceivedWhole

LEMMA AnswersBrokerReads ==
    ASSUME Typed, AnswersInv, BrokerReads
    PROVE  AnswersInv'
<1>1. UNCHANGED <<packet_state, received, inn, transport>> /\ transport.kind # "mock"
  BY DEF BrokerReads, client, ghosts, Networked
<1>2. CASE UNCHANGED <<frames, owed>>
  BY <1>1, <1>2, AnswersSame
<1>3. CASE frames' = Append(frames, Grown) /\ owed' = owed \o Answer(Len(frames) + 1)
  <2> DEFINE n == Len(frames)
             a == Answer(n + 1)
             k == Len(received) + 1
  <2>1. n \in Nat /\ k \in Nat /\ n + 1 \in Nat /\ Answers = n
    BY <1>1 DEF Typed, Answers
  <2>2. a \in Seq(Byte)
    BY <2>1, BytesOf, Constants DEF Answer
  <2>3. /\ Pending \in Seq(Byte) /\ inn \o owed \in Seq(Byte)
        /\ packet_state \in Seq(Byte) /\ inn \in Seq(Byte) /\ owed \in Seq(Byte)
    BY PendingOK DEF Typed
  <2> HIDE DEF a
  <2>4. Pending' = Pending \o a
    <3>1. inn \o (owed \o a) = (inn \o owed) \o a
      BY <2>2, <2>3, ConcatAssociative
    <3>2. packet_state \o ((inn \o owed) \o a) = (packet_state \o (inn \o owed)) \o a
      <4> DEFINE x == inn \o owed
      <4>1. packet_state \in Seq(Byte) /\ x \in Seq(Byte) /\ a \in Seq(Byte)
        BY <2>2, <2>3
      <4> HIDE DEF x
      <4>2. (packet_state \o x) \o a = packet_state \o (x \o a)
        BY <4>1, ConcatAssociative
      <4> QED BY <4>2 DEF x
    <3>3. Pending' = packet_state \o (inn \o (owed \o a))
      BY <1>1, <1>3 DEF Pending, a
    <3> QED BY <3>1, <3>2, <3>3 DEF Pending
  <2>5. Answers' = n + 1
    <3>1. Grown \in Seq(Byte)
      <4>1. Head(out) \in Byte
        BY HeadTailProperties DEF BrokerReads, Typed
      <4> QED BY <4>1, AppendProperties DEF Grown, Typed
    <3>2. Len(frames') = n + 1
      BY <1>3, <3>1, AppendProperties DEF Typed
    <3> QED BY <1>1, <3>2 DEF Answers
  <2>6. Answering(Pending, k, n)
    BY <2>1 DEF AnswersInv
  <2> HIDE DEF n, k
  <2>7. Answering(Pending \o a, k, n + 1)
    BY <2>1, <2>3, <2>6, AnswerAdded DEF a
  <2>8. Answering(Pending', Len(received') + 1, Answers')
    BY <1>1, <2>4, <2>5, <2>7 DEF k
  <2> QED BY <1>1, <2>8 DEF AnswersInv, ReceivedWhole
<1> QED BY <1>2, <1>3 DEF BrokerReads, Grown

LEMMA AnswersRead ==
    ASSUME Typed, AnswersInv, Read
    PROVE  AnswersInv'
<1> DEFINE k == Len(received) + 1
           l == Len(packet_state)
           bytes == Append(packet_state, Head(inn))
           rest == Tail(inn) \o owed
<1>1. PICK r \in Reads : r.n > 0 /\ transport' = r.transport
  BY DEF Read
<1>2. transport'.kind = transport.kind /\ inn # <<>>
  BY <1>1, ReadResult
<1>3. UNCHANGED <<owed, frames>> /\ inn' = Tail(inn) /\ Answers' = Answers
  BY <1>2 DEF Read, broker, Answers
<1>4. /\ Head(inn) \in Byte /\ Tail(inn) \in Seq(Byte) /\ inn \in Seq(Byte) /\ owed \in Seq(Byte)
      /\ packet_state \in Seq(Byte) /\ received \in Seq(Seq(Byte)) /\ l \in Nat /\ k \in Nat
      /\ Len(received) \in Nat
  BY <1>2, HeadTailProperties DEF Typed
<1>5. /\ bytes \in Seq(Byte) /\ Len(bytes) = l + 1
      /\ \A j \in 1..l : bytes[j] = packet_state[j]
      /\ bytes[l + 1] = Head(inn)
  BY <1>4, AppendProperties
<1>6. rest \in Seq(Byte)
  BY <1>4, ConcatProperties
<1>7. Pending = bytes \o rest
  <2>1. bytes \o Tail(inn) = packet_state \o inn
    BY <1>2, <1>4, ByteMoves
  <2>2. (bytes \o Tail(inn)) \o owed = bytes \o rest
    <3> DEFINE x == Tail(inn)
    <3>1. bytes \in Seq(Byte) /\ x \in Seq(Byte) /\ owed \in Seq(Byte)
      BY <1>4, <1>5
    <3> HIDE DEF bytes, x
    <3>2. (bytes \o x) \o owed = bytes \o (x \o owed)
      BY <3>1, ConcatAssociative
    <3> QED BY <3>2 DEF x
  <2>3. (packet_state \o inn) \o owed = packet_state \o (inn \o owed)
    <3>1. packet_state \in Seq(Byte) /\ inn \in Seq(Byte) /\ owed \in Seq(Byte)
      BY <1>4
    <3> QED BY <3>1, ConcatAssociative
  <2> QED BY <2>1, <2>2, <2>3 DEF Pending
<1>8. /\ l < AnswerSize /\ Answering(Pending, k, Answers) /\ ReceivedWhole
      /\ \A j \in 1..l : packet_state[j] = <<k, j>>
  BY DEF AnswersInv
<1>9. Pending \in Seq(Byte) /\ Answers \in Nat /\ AnswerSize \in Nat
  BY PendingOK, Constants
<1> HIDE DEF k, l, bytes, rest
<1>10. Len(Pending) = (l + 1) + Len(rest) /\ Len(rest) \in Nat /\ \A j \in 1..l + 1 : Pending[j] = bytes[j]
  BY <1>5, <1>6, <1>7, AddedTo
<1>11. \A j \in 1..l + 1 : bytes[j] = <<k, j>>
  <2>1. \A j \in 1..l : bytes[j] = <<k, j>>
    BY <1>5, <1>8
  <2>2. bytes[l + 1] = <<k, l + 1>>
    <3>1. Pending # <<>> /\ l + 1 \in 1..l + 1
      <4>1. ~(Len(Pending) = 0) /\ l + 1 \in 1..l + 1
        BY <1>4, <1>10
      <4> QED BY <4>1, EmptySeq
    <3>2. CASE l = 0
      <4>1. Pending[1] = <<k, 1>>
        BY <1>8, <3>1 DEF Answering
      <4> QED BY <1>10, <3>1, <3>2, <4>1
    <3>3. CASE l > 0
      <4>1. l \in 1..Len(Pending) - 1 /\ l \in 1..l + 1 /\ l \in 1..l
        BY <1>4, <1>10, <3>3
      <4>2. Pending[l + 1] = Successor(Pending[l])
        BY <1>8, <4>1 DEF Answering
      <4>3. Pending[l] = <<k, l>>
        BY <1>10, <2>1, <4>1
      <4>4. Pending[l][1] = k /\ Pending[l][2] = l
        BY <1>4, <4>3, ByteFields
      <4>5. Pending[l + 1] = <<k, l + 1>>
        BY <1>8, <4>2, <4>4 DEF Successor
      <4> QED BY <1>10, <3>1, <4>5
    <3> QED BY <1>4, <3>2, <3>3
  <2> QED BY <1>4, <2>1, <2>2
<1>12. CASE l + 1 # AnswerSize
  <2>1. packet_state' = bytes /\ UNCHANGED received
    BY <1>5, <1>12 DEF Read, bytes
  <2>2. Pending' = Pending
    BY <1>3, <1>7, <2>1 DEF Pending, rest
  <2>3. Len(packet_state') < AnswerSize
    BY <1>4, <1>5, <1>8, <1>9, <1>12, <2>1
  <2>4. \A j \in 1..Len(packet_state') : packet_state'[j] = <<Len(received') + 1, j>>
    BY <1>5, <1>11, <2>1 DEF k
  <2> QED BY <1>3, <1>8, <2>1, <2>2, <2>3, <2>4 DEF AnswersInv, ReceivedWhole, k
<1>13. CASE l + 1 = AnswerSize
  <2>1. packet_state' = <<>> /\ received' = Append(received, bytes)
    BY <1>5, <1>13 DEF Read, bytes
  <2>2. /\ Len(received') = k /\ received'[k] = bytes
        /\ \A i \in 1..Len(received) : received'[i] = received[i]
        /\ DOMAIN received' = 1..k
    BY <1>4, <1>5, <2>1, AppendProperties DEF k
  <2>3. Pending' = rest
    <3>1. <<>> \o rest = rest
      BY <1>6, ConcatEmptySeq
    <3>2. inn' \o owed' = rest
      BY <1>3 DEF rest
    <3> QED BY <2>1, <3>1, <3>2 DEF Pending
  <2>4. Answering(rest, k + 1, Answers)
    <3>1. Len(bytes) = AnswerSize /\ \A j \in 1..AnswerSize : bytes[j] = <<k, j>>
      BY <1>5, <1>11, <1>13
    <3>2. Answering(bytes \o rest, k, Answers)
      BY <1>7, <1>8
    <3> QED BY <1>4, <1>5, <1>6, <1>9, <3>1, <3>2, AnswerTaken
  <2>5. bytes = Answer(k)
    BY <1>4, <1>5, <1>9, <1>11, <1>13, BytesEqual DEF Answer
  <2>6. ReceivedWhole'
    <3> SUFFICES ASSUME NEW i \in 1..k PROVE received'[i] = Answer(i)
      BY <2>2 DEF ReceivedWhole
    <3>1. CASE i = k
      BY <2>2, <2>5, <3>1
    <3>2. CASE i # k
      <4>1. i \in 1..Len(received)
        BY <1>4, <3>2 DEF k
      <4>2. i \in DOMAIN received
        BY <1>4, <4>1
      <4> QED BY <1>8, <2>2, <4>1, <4>2 DEF ReceivedWhole
    <3> QED BY <3>1, <3>2
  <2>7. Len(packet_state') = 0 /\ 0 < AnswerSize
    BY <2>1, Constants
  <2> QED BY <1>3, <2>1, <2>2, <2>3, <2>4, <2>6, <2>7 DEF AnswersInv
<1> QED BY <1>12, <1>13

LEMMA NextAnswers == Typed /\ AnswersInv /\ [Next]_vars => AnswersInv'
<1> SUFFICES ASSUME Typed, AnswersInv, [Next]_vars PROVE AnswersInv'
  OBVIOUS
<1>1. CASE Read
  BY <1>1, AnswersRead
<1>2. CASE BrokerReads
  BY <1>2, AnswersBrokerReads
<1>3. CASE BrokerWrites
  BY <1>3, AnswersBrokerWrites
<1>4. CASE (Client /\ ~Read) \/ BreakLink \/ BrokerCloses \/ UNCHANGED vars
  <2>1. UNCHANGED <<packet_state, received, inn, owed, frames>>
    BY <1>4 DEF Client, Continue, SendPacket, Write, Took, WriteFails, Flush, StartRead, ReadFails,
                DropFuture, BreakLink, BrokerCloses, vars, client, broker, ghosts
  <2> QED BY <2>1, KindKept, AnswersSame
<1> QED BY <1>1, <1>2, <1>3, <1>4 DEF Next, Broker

\* However often a future of read_from_transport() is dropped in the middle of
\* a packet, the client receives every packet of the broker whole, in order,
\* once: the bytes read so far stay in packet_state.
THEOREM WholeAnswers == Spec => []ReceivedWhole
<1>1. Init => Typed /\ AnswersInv
  BY InitTyped, InitAnswers
<1>2. Typed /\ AnswersInv /\ [Next]_vars => (Typed /\ AnswersInv)'
  BY NextTyped, NextAnswers
<1>3. AnswersInv => ReceivedWhole
  BY DEF AnswersInv
<1> QED BY <1>1, <1>2, <1>3, PTL DEF Spec
=============================================================================
