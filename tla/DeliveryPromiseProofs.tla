----------------------- MODULE DeliveryPromiseProofs -----------------------
(***************************************************************************)
(* Delivery implements DeliveryPromise, and what follows from the          *)
(* invariants behind it: acknowledged messages were delivered, none is     *)
(* forgotten, and QoS 2 is delivered once.  The invariants relate the      *)
(* packets on their way, in both directions, to the session, the broker's  *)
(* memory and what the application has seen.                               *)
(***************************************************************************)
EXTENDS DeliveryProofs

USE DEF history

In(s, x) == \E i \in 1..Len(s) : s[i] = x

\* Packets on their way: a copy of a message, its PUBREL, any acknowledgement.
Copy(p, m) == In(toBroker, Publishing(p, m))
Released(p) == In(toBroker, Packet("PUBREL", p))
Answered(p) == \E i \in 1..Len(toClient) : toClient[i].pid = p

\* No copy of a message travels behind a PUBREL of its identifier.
InOrder(s) == \A i, j \in 1..Len(s), p \in Pids, m \in Msgs :
                  i < j /\ s[i] = Packet("PUBREL", p) => s[j] # Publishing(p, m)

\* The message may still be sent under this identifier, or is on its way.
Carries(p, m) == Copy(p, m) \/ (p \in DOMAIN publishes /\ publishes[p].msg = m)

\* The broker has seen the message of this identifier.
Reached(p) == Released(p) \/ Answered(p) \/ p \in received \/ p \in pubrels

\* A message has one identifier, and once its PUBREL is on the way it is no
\* longer sent.
Copies ==
    /\ \A p, q \in Pids, m \in Msgs : Carries(p, m) /\ Carries(q, m) => p = q
    /\ \A p \in Pids, m \in Msgs : Carries(p, m) => m \in published
    /\ Delivered \subseteq published
    /\ \A p \in Pids : Released(p) => p \notin DOMAIN publishes
    /\ InOrder(toBroker)
    /\ connected => \A p \in Pids : Released(p) => p \in 1..allocated

\* While a delivered QoS 2 message may arrive again the broker remembers it.
DeliveredOnce ==
    /\ \A p \in Pids, m \in Qos2 : Carries(p, m) /\ deliveries[m] > 0 => p \in received
    /\ \A m \in Qos2 : deliveries[m] <= 1

\* Whatever speaks for an identifier speaks for the message that the
\* application published under it.
Ledger ==
    /\ \A p \in DOMAIN publishes : p \in DOMAIN owner /\ owner[p] = publishes[p].msg
    /\ DOMAIN owner \subseteq 1..allocated
    /\ \A p \in DOMAIN owner : owner[p] \in published
    /\ \A p, q \in DOMAIN owner : owner[p] = owner[q] => p = q
    /\ \A p \in DOMAIN owner, m \in Msgs : Copy(p, m) => owner[p] = m
    /\ \A p \in DOMAIN owner : Reached(p) => owner[p] \in Delivered
    /\ footing = "shared" =>
           \A p \in Pids : Reached(p) \/ (\E m \in Msgs : Copy(p, m)) => p \in 1..allocated
    /\ footing = "lost" => ~connected /\ DOMAIN owner = {}
    /\ acked \subseteq Delivered
    /\ published \subseteq Tracked \cup Delivered \cup dropped \cup cleared

\* What holds in every state, and what holds until broker and client are
\* estranged.
Known == Typed /\ Fresh /\ NoReuse /\ Copies
Kept == ~Estranged => Ledger
Inv == Known /\ Kept /\ (~BrokerForgets => DeliveredOnce)

-----------------------------------------------------------------------------
(* Packets in a channel *)

LEMMA Packets ==
    /\ \A p, q, m, n : Publishing(p, m) = Publishing(q, n) <=> p = q /\ m = n
    /\ \A t, u, p, q : Packet(t, p) = Packet(u, q) <=> t = u /\ p = q
    /\ \A t, p, q, m : t # "PUBLISH" => Packet(t, p) # Publishing(q, m)
    /\ \A x \in ToBroker :
           /\ x.pid \in Pids
           /\ x.type = "PUBLISH" => x.msg \in Msgs /\ x = Publishing(x.pid, x.msg)
           /\ x.type = "PUBREL" => x = Packet("PUBREL", x.pid)
<1>1. \A p, q, m, n : Publishing(p, m) = Publishing(q, n) <=> p = q /\ m = n
  <2> SUFFICES ASSUME NEW p, NEW q, NEW m, NEW n, Publishing(p, m) = Publishing(q, n)
               PROVE  p = q /\ m = n
    OBVIOUS
  <2>1. Publishing(p, m).pid = p /\ Publishing(p, m).msg = m
    BY DEF Publishing
  <2>2. Publishing(q, n).pid = q /\ Publishing(q, n).msg = n
    BY DEF Publishing
  <2> QED BY <2>1, <2>2
<1>2. \A t, u, p, q : Packet(t, p) = Packet(u, q) <=> t = u /\ p = q
  <2> SUFFICES ASSUME NEW t, NEW u, NEW p, NEW q, Packet(t, p) = Packet(u, q)
               PROVE  t = u /\ p = q
    OBVIOUS
  <2>1. Packet(t, p).pid = p /\ Packet(t, p).type = t
    BY DEF Packet
  <2>2. Packet(u, q).pid = q /\ Packet(u, q).type = u
    BY DEF Packet
  <2> QED BY <2>1, <2>2
<1>3. \A t, p, q, m : t # "PUBLISH" => Packet(t, p) # Publishing(q, m)
  <2> SUFFICES ASSUME NEW t, NEW p, NEW q, NEW m, Packet(t, p) = Publishing(q, m)
               PROVE  t = "PUBLISH"
    OBVIOUS
  <2>1. Packet(t, p).type = t
    BY DEF Packet
  <2>2. Publishing(q, m).type = "PUBLISH"
    BY DEF Publishing
  <2> QED BY <2>1, <2>2
<1>4. \A x \in ToBroker : /\ x.pid \in Pids
                          /\ x.type = "PUBLISH" => x.msg \in Msgs /\ x = Publishing(x.pid, x.msg)
                          /\ x.type = "PUBREL" => x = Packet("PUBREL", x.pid)
  BY DEF ToBroker, Publishing, Packet
<1> QED BY <1>1, <1>2, <1>3, <1>4

LEMMA Appending ==
    ASSUME NEW S, NEW s \in Seq(S), NEW x \in S
    PROVE  /\ Len(s) \in Nat /\ Len(Append(s, x)) = Len(s) + 1
           /\ \A i \in 1..Len(s) : Append(s, x)[i] = s[i]
           /\ Append(s, x)[Len(s) + 1] = x
  OBVIOUS

LEMMA Taking ==
    ASSUME NEW S, NEW s \in Seq(S), s # <<>>
    PROVE  /\ Len(s) \in Nat \ {0} /\ Len(Tail(s)) = Len(s) - 1
           /\ \A i \in 1..(Len(s) - 1) : Tail(s)[i] = s[i + 1]
           /\ Head(s) = s[1]
  OBVIOUS

LEMMA InAppend ==
    ASSUME NEW S, NEW s \in Seq(S), NEW x \in S
    PROVE  \A y : In(Append(s, x), y) <=> In(s, y) \/ y = x
<1>1. ASSUME NEW y, In(Append(s, x), y) PROVE In(s, y) \/ y = x
  <2>1. PICK i \in 1..(Len(s) + 1) : Append(s, x)[i] = y
    BY <1>1, Appending DEF In
  <2>2. i \in 1..Len(s) \/ i = Len(s) + 1
    BY <2>1, Appending
  <2> QED BY <2>1, <2>2, Appending DEF In
<1>2. ASSUME NEW y, In(s, y) \/ y = x PROVE In(Append(s, x), y)
  <2>1. CASE y = x
    <3>1. Len(s) + 1 \in 1..Len(Append(s, x)) /\ Append(s, x)[Len(s) + 1] = x
      BY Appending
    <3> QED BY <2>1, <3>1 DEF In
  <2>2. CASE In(s, y)
    <3>1. PICK i \in 1..Len(s) : s[i] = y
      BY <2>2 DEF In
    <3>2. i \in 1..Len(Append(s, x)) /\ Append(s, x)[i] = y
      BY <3>1, Appending
    <3> QED BY <3>2 DEF In
  <2> QED BY <1>2, <2>1, <2>2
<1> QED BY <1>1, <1>2

LEMMA InTail ==
    ASSUME NEW S, NEW s \in Seq(S), s # <<>>
    PROVE  In(s, Head(s)) /\ \A y : In(Tail(s), y) => In(s, y)
<1>1. In(s, Head(s))
  BY Taking DEF In
<1>2. ASSUME NEW y, In(Tail(s), y) PROVE In(s, y)
  <2>1. PICK i \in 1..(Len(s) - 1) : Tail(s)[i] = y
    BY <1>2, Taking DEF In
  <2>2. i + 1 \in 1..Len(s) /\ s[i + 1] = y
    BY <2>1, Taking
  <2> QED BY <2>2 DEF In
<1> QED BY <1>1, <1>2

LEMMA InEmpty == (\A y : ~In(<<>>, y)) /\ InOrder(<<>>)
<1>1. 1..Len(<<>>) = {}
  OBVIOUS
<1> QED BY <1>1 DEF In, InOrder

\* A copy may follow any packets but a PUBREL of its identifier.
LEMMA OrderedAppend ==
    ASSUME NEW s \in Seq(ToBroker), NEW x \in ToBroker, InOrder(s),
           \A p \in Pids, m \in Msgs :
               x = Publishing(p, m) => ~In(s, Packet("PUBREL", p))
    PROVE  InOrder(Append(s, x))
<1> SUFFICES ASSUME NEW i \in 1..(Len(s) + 1), NEW j \in 1..(Len(s) + 1),
                    NEW p \in Pids, NEW m \in Msgs,
                    i < j, Append(s, x)[i] = Packet("PUBREL", p),
                    Append(s, x)[j] = Publishing(p, m)
             PROVE  FALSE
  BY Appending DEF InOrder
<1>1. Len(s) \in Nat
  BY Appending
<1>2. i \in 1..Len(s) /\ s[i] = Packet("PUBREL", p)
  BY <1>1, Appending
<1>3. CASE j \in 1..Len(s)
  <2>1. s[j] = Publishing(p, m)
    BY <1>3, Appending
  <2> QED BY <1>2, <1>3, <2>1 DEF InOrder
<1>4. CASE j = Len(s) + 1
  <2>1. x = Publishing(p, m)
    BY <1>4, Appending
  <2> QED BY <1>2, <2>1 DEF In
<1> QED BY <1>1, <1>3, <1>4

LEMMA OrderedTail ==
    ASSUME NEW s \in Seq(ToBroker), s # <<>>, InOrder(s)
    PROVE  /\ InOrder(Tail(s))
           /\ \A p \in Pids, m \in Msgs :
                  Head(s) = Packet("PUBREL", p) => ~In(Tail(s), Publishing(p, m))
<1>1. Len(s) \in Nat \ {0}
  BY Taking
<1>2. ASSUME NEW i \in 1..(Len(s) - 1), NEW j \in 1..(Len(s) - 1),
             NEW p \in Pids, NEW m \in Msgs,
             i < j, Tail(s)[i] = Packet("PUBREL", p), Tail(s)[j] = Publishing(p, m)
      PROVE  FALSE
  <2>1. s[i + 1] = Packet("PUBREL", p) /\ s[j + 1] = Publishing(p, m)
    BY <1>2, Taking
  <2>2. i + 1 \in 1..Len(s) /\ j + 1 \in 1..Len(s) /\ i + 1 < j + 1
    BY <1>1, <1>2
  <2> QED BY <2>1, <2>2 DEF InOrder
<1>3. ASSUME NEW p \in Pids, NEW m \in Msgs,
             Head(s) = Packet("PUBREL", p), In(Tail(s), Publishing(p, m))
      PROVE  FALSE
  <2>1. PICK j \in 1..(Len(s) - 1) : Tail(s)[j] = Publishing(p, m)
    BY <1>3, Taking DEF In
  <2>2. s[1] = Packet("PUBREL", p) /\ s[j + 1] = Publishing(p, m)
    BY <1>3, <2>1, Taking
  <2>3. 1 \in 1..Len(s) /\ j + 1 \in 1..Len(s) /\ 1 < j + 1
    BY <1>1, <2>1
  <2> QED BY <2>2, <2>3 DEF InOrder
<1> QED BY <1>2, <1>3, Taking DEF InOrder

LEMMA Answering ==
    ASSUME TypeOK
    PROVE  /\ \A t \in {"PUBACK", "PUBREC", "PUBCOMP"}, q \in Pids :
                  toClient' = Append(toClient, Packet(t, q)) =>
                      \A p : Answered(p)' <=> Answered(p) \/ p = q
           /\ toClient # <<>> => Head(toClient).pid \in Pids /\ Answered(Head(toClient).pid)
           /\ toClient # <<>> /\ toClient' = Tail(toClient) =>
                  \A p : Answered(p)' => Answered(p)
           /\ toClient' = <<>> => \A p : ~Answered(p)'
<1>0. toClient \in Seq(ToClient)
  BY DEF TypeOK
<1>1. ASSUME NEW t \in {"PUBACK", "PUBREC", "PUBCOMP"}, NEW q \in Pids,
             toClient' = Append(toClient, Packet(t, q)), NEW p
      PROVE  Answered(p)' <=> Answered(p) \/ p = q
  <2>1. Packet(t, q) \in ToClient /\ Packet(t, q).pid = q
    BY PacketTypes DEF Packet
  <2>2. /\ Len(toClient) \in Nat /\ Len(toClient') = Len(toClient) + 1
        /\ \A i \in 1..Len(toClient) : toClient'[i] = toClient[i]
        /\ toClient'[Len(toClient) + 1] = Packet(t, q)
    BY <1>0, <1>1, <2>1, Appending
  <2>3. \A i \in 1..Len(toClient') : i \in 1..Len(toClient) \/ i = Len(toClient) + 1
    BY <2>2
  <2>4. Len(toClient) + 1 \in 1..Len(toClient') /\ 1..Len(toClient) \subseteq 1..Len(toClient')
    BY <2>2
  <2> QED BY <2>1, <2>2, <2>3, <2>4 DEF Answered
<1>2. ASSUME toClient # <<>>
      PROVE  Head(toClient).pid \in Pids /\ Answered(Head(toClient).pid)
  <2>1. Head(toClient) \in ToClient /\ Head(toClient) = toClient[1] /\ 1 \in 1..Len(toClient)
    BY <1>0, <1>2, Taking, TailType
  <2> QED BY <2>1 DEF Answered, ToClient
<1>3. ASSUME toClient # <<>>, toClient' = Tail(toClient), NEW p, Answered(p)'
      PROVE  Answered(p)
  <2>1. PICK i \in 1..(Len(toClient) - 1) : toClient'[i].pid = p
    BY <1>0, <1>3, Taking DEF Answered
  <2>2. toClient[i + 1].pid = p /\ i + 1 \in 1..Len(toClient)
    BY <1>0, <1>3, <2>1, Taking
  <2> QED BY <2>2 DEF Answered
<1>4. ASSUME toClient' = <<>>, NEW p PROVE ~Answered(p)'
  <2>1. 1..Len(toClient') = {}
    BY <1>4
  <2> QED BY <2>1 DEF Answered
<1> QED BY <1>1, <1>2, <1>3, <1>4

-----------------------------------------------------------------------------
(* Steps *)

\* What a call does to a channel when it sends, whatever the outcome.
LEMMA Sending ==
    ASSUME TypeOK, NEW x \in ToBroker, NEW outcome, Send(x, outcome)
    PROVE  \/ toBroker' = toBroker
           \/ toBroker' = Append(toBroker, x) /\ \A y : In(toBroker', y) <=> In(toBroker, y) \/ y = x
<1>1. toBroker \in Seq(ToBroker)
  BY DEF TypeOK
<1>2. \A y : In(Append(toBroker, x), y) <=> In(toBroker, y) \/ y = x
  BY <1>1, InAppend
<1>3. toBroker' = toBroker \/ toBroker' = Append(toBroker, x)
  BY DEF Send
<1> QED BY <1>2, <1>3

\* A step after which no identifier carries, has reached or has acknowledged
\* what it did not before, and nothing is forgotten that was not given up.
Calm ==
    /\ \A p \in Pids, m \in Msgs : Carries(p, m)' => Carries(p, m)
    /\ \A p \in Pids : Released(p)' => Released(p) \/ (p \in 1..allocated /\ p \notin DOMAIN publishes')
    /\ InOrder(toBroker')
    /\ DOMAIN publishes' \subseteq DOMAIN publishes
    /\ \A p \in DOMAIN publishes' : publishes'[p].msg = publishes[p].msg
    /\ allocated' \in Nat /\ allocated <= allocated'
    /\ connected' => connected
    /\ \A p \in received : p \in received' \/ \A m \in Msgs : ~Carries(p, m)'
    /\ \A p \in Pids : Reached(p)' => Reached(p)
    /\ \A p \in DOMAIN publishes :
           publishes[p].msg \in Tracked' \cup dropped' \/ Reached(p)
    /\ dropped \subseteq dropped'
    /\ acked' \subseteq acked \cup {owner[p] : p \in {q \in DOMAIN owner : Reached(q)}}
    /\ UNCHANGED <<published, deliveries, owner, footing, cleared>>

LEMMA CalmCopies ==
    ASSUME Known, Calm
    PROVE  Copies'
<1>1. Delivered' = Delivered
  BY DEF Calm, Delivered
<1>2. \A p \in Pids : Released(p)' => p \notin DOMAIN publishes'
  BY DEF Known, Calm, Copies
<1>3. ASSUME connected', NEW p \in Pids, Released(p)' PROVE p \in 1..allocated'
  <2>1. p \in 1..allocated
    BY <1>3 DEF Known, Calm, Copies
  <2>2. allocated \in 0..MaxAllocated
    BY DEF Known, Typed, TypeOK
  <2> QED BY <2>1, <2>2, ConfigAssumption DEF Calm
<1> QED BY <1>1, <1>2, <1>3 DEF Known, Calm, Copies

LEMMA CalmOnce ==
    ASSUME DeliveredOnce, Calm, Typed
    PROVE  DeliveredOnce'
<1>1. Qos2 \subseteq Msgs
  BY ConfigAssumption
<1> QED BY <1>1 DEF DeliveredOnce, Calm

LEMMA CalmLedger ==
    ASSUME Known, Ledger, Calm
    PROVE  Ledger'
<1>0. /\ Delivered' = Delivered
      /\ DOMAIN publishes \subseteq Pids /\ DOMAIN owner \subseteq Pids
      /\ allocated \in Nat
  BY ConfigAssumption DEF Calm, Delivered, Known, Typed, TypeOK
<1>1. \A p \in DOMAIN publishes' : p \in DOMAIN owner' /\ owner'[p] = publishes'[p].msg
  BY DEF Ledger, Calm
<1>2. 1..allocated \subseteq 1..allocated'
  BY <1>0 DEF Calm
<1>3. \A p \in DOMAIN owner, m \in Msgs : Copy(p, m)' => owner[p] = m
  <2> SUFFICES ASSUME NEW p \in DOMAIN owner, NEW m \in Msgs, Copy(p, m)'
               PROVE  owner[p] = m
    OBVIOUS
  <2>1. Carries(p, m)
    BY <1>0 DEF Calm, Carries
  <2> QED BY <2>1 DEF Carries, Ledger
<1>4. \A p \in DOMAIN owner : Reached(p)' => owner[p] \in Delivered
  BY <1>0 DEF Calm, Ledger
<1>5. ASSUME footing = "shared", NEW p \in Pids, Reached(p)' \/ \E m \in Msgs : Copy(p, m)'
      PROVE  p \in 1..allocated'
  <2>1. CASE Reached(p)'
    BY <1>2, <1>5, <2>1 DEF Calm, Ledger
  <2>2. CASE \E m \in Msgs : Copy(p, m)'
    <3> PICK m \in Msgs : Copy(p, m)'
      BY <2>2
    <3>1. Carries(p, m)
      BY DEF Calm, Carries
    <3>2. CASE Copy(p, m)
      BY <1>2, <1>5, <3>2 DEF Ledger
    <3>3. CASE p \in DOMAIN publishes
      BY <1>2, <3>3 DEF Ledger
    <3> QED BY <3>1, <3>2, <3>3 DEF Carries
  <2> QED BY <1>5, <2>1, <2>2
<1>6. acked' \subseteq Delivered
  BY DEF Calm, Ledger
<1>7. published \subseteq Tracked' \cup Delivered \cup dropped' \cup cleared
  <2> SUFFICES ASSUME NEW m \in published, m \in Tracked
               PROVE  m \in Tracked' \cup Delivered \cup dropped'
    BY DEF Calm, Ledger
  <2>1. PICK p \in DOMAIN publishes : publishes[p].msg = m
    BY DEF Tracked
  <2>2. Reached(p) => m \in Delivered
    BY <2>1 DEF Ledger
  <2> QED BY <2>1, <2>2 DEF Calm
<1>8. footing = "lost" => ~connected' /\ DOMAIN owner = {}
  BY DEF Calm, Ledger
<1> HIDE DEF Ledger, Calm
<1>9. UNCHANGED <<published, deliveries, owner, footing, cleared>>
  BY DEF Calm
<1>10. /\ DOMAIN owner \subseteq 1..allocated
       /\ \A p \in DOMAIN owner : owner[p] \in published
       /\ \A p, q \in DOMAIN owner : owner[p] = owner[q] => p = q
  BY DEF Ledger
<1> QED BY <1>0, <1>1, <1>2, <1>3, <1>4, <1>5, <1>6, <1>7, <1>8, <1>9, <1>10 DEF Ledger

\* Steps that leave the exchanges as they are.
exchanges == <<pubrels, toBroker, toClient, received, published, owner, deliveries, acked,
               dropped, cleared, footing>>
Uneventful ==
    /\ DOMAIN publishes' = DOMAIN publishes
    /\ \A p \in DOMAIN publishes : publishes'[p].msg = publishes[p].msg
    /\ connected' \in {connected, FALSE}
    /\ allocated' \in {allocated, allocated + 1}
    /\ UNCHANGED exchanges

LEMMA UneventfulCalm ==
    ASSUME Known, Uneventful
    PROVE  Calm
<1>1. allocated \in Nat
  BY ConfigAssumption DEF Known, Typed, TypeOK
<1>2. \A p, m : /\ Copy(p, m)' = Copy(p, m) /\ Released(p)' = Released(p)
                /\ Answered(p)' = Answered(p)
  BY DEF Uneventful, exchanges, Copy, Released, Answered
<1>3. \A p, m : Carries(p, m)' => Carries(p, m)
  BY <1>2 DEF Uneventful, Carries
<1>4. \A p : Reached(p)' => Reached(p)
  BY <1>2 DEF Uneventful, exchanges, Reached
<1>5. Tracked' = Tracked
  BY DEF Uneventful, Tracked
<1>6. InOrder(toBroker')
  BY DEF Uneventful, exchanges, Known, Copies
<1>7. \A p \in DOMAIN publishes : publishes[p].msg \in Tracked
  BY DEF Tracked
<1>8. allocated' \in Nat /\ allocated <= allocated'
  BY <1>1 DEF Uneventful
<1>9. /\ DOMAIN publishes' = DOMAIN publishes
      /\ \A p \in DOMAIN publishes' : publishes'[p].msg = publishes[p].msg
      /\ UNCHANGED <<received, dropped, acked, published, deliveries, owner, footing, cleared>>
  BY DEF Uneventful, exchanges
<1>10. connected' => connected
  BY Zenon DEF Uneventful
<1> QED BY <1>2, <1>3, <1>4, <1>5, <1>6, <1>7, <1>8, <1>9, <1>10 DEF Calm

LEMMA UneventfulSteps ==
    ASSUME Known,
           \/ OtherTraffic \/ PollTimesOut \/ StopWaiting \/ ReceiveFails
           \/ ResendDone \/ Tick \/ UNCHANGED vars
           \/ ConnectFails /\ UNCHANGED <<session, ghosts, footing>>
    PROVE  Uneventful
<1> USE DEF session, call, network, ghosts, bounds, exchanges, Uneventful
<1>1. CASE OtherTraffic
  BY <1>1 DEF OtherTraffic, TakePid
<1>2. CASE PollTimesOut
  BY <1>2 DEF PollTimesOut
<1>3. CASE StopWaiting
  BY <1>3 DEF StopWaiting
<1>4. CASE ReceiveFails
  BY <1>4 DEF ReceiveFails
<1>5. CASE ResendDone
  BY <1>5 DEF ResendDone
<1>6. CASE Tick
  <2>1. \A p \in DOMAIN publishes : publishes[p] \in Entries
    BY DEF Known, Typed, TypeOK
  <2>2. \A e \in Entries : Aged(e).msg = e.msg
    BY DEF Entries, Aged
  <2> QED BY <1>6, <2>1, <2>2 DEF Tick
<1>7. CASE UNCHANGED vars
  BY <1>7 DEF vars
<1>8. CASE ConnectFails /\ UNCHANGED <<session, ghosts, footing>>
  BY <1>8 DEF ConnectFails
<1> QED BY <1>1, <1>2, <1>3, <1>4, <1>5, <1>6, <1>7, <1>8

\* A retry or a resend of what the session holds.
Sends ==
    /\ DOMAIN publishes' = DOMAIN publishes
    /\ \A p \in DOMAIN publishes : publishes'[p].msg = publishes[p].msg
    /\ \E x \in ToBroker, outcome \in Outcomes :
           /\ Send(x, outcome)
           /\ \/ \E p \in DOMAIN publishes : x = Publishing(p, publishes[p].msg)
              \/ \E p \in pubrels : x = Packet("PUBREL", p)
    /\ UNCHANGED <<pubrels, connected, allocated, toClient, received, published, owner,
                   deliveries, acked, dropped, cleared, footing>>

LEMMA SendsCalm ==
    ASSUME Known, Sends
    PROVE  Calm
<1> USE DEF Known, Typed
<1>0. /\ toBroker \in Seq(ToBroker) /\ allocated \in Nat
      /\ DOMAIN publishes \subseteq Pids /\ pubrels \subseteq Pids
      /\ \A p \in DOMAIN publishes : publishes[p].msg \in Msgs
  BY ConfigAssumption DEF TypeOK, Entries
<1>1. NoWrap
  BY ConfigAssumption DEF NoReuse, NoWrap, TypeOK
<1>2. PICK x \in ToBroker, outcome \in Outcomes :
          /\ Send(x, outcome)
          /\ \/ \E p \in DOMAIN publishes : x = Publishing(p, publishes[p].msg)
             \/ \E p \in pubrels : x = Packet("PUBREL", p)
  BY DEF Sends
<1>3. CASE toBroker' = toBroker
  <2>1. Uneventful
    BY <1>3 DEF Sends, Uneventful, exchanges
  <2> QED BY <2>1, UneventfulCalm
<1>4. CASE toBroker' = Append(toBroker, x) /\ \A y : In(toBroker', y) <=> In(toBroker, y) \/ y = x
  <2>1. \A p, m : Copy(p, m)' <=> Copy(p, m) \/ x = Publishing(p, m)
    BY <1>4 DEF Copy
  <2>2. \A p : Released(p)' <=> Released(p) \/ x = Packet("PUBREL", p)
    BY <1>4 DEF Released
  <2>3. \A p : Answered(p)' = Answered(p)
    BY DEF Answered, Sends
  <2>4. Tracked' = Tracked
    BY DEF Sends, Tracked
  <2>5. \A p \in DOMAIN publishes : publishes[p].msg \in Tracked
    BY DEF Tracked
  <2>6. CASE \E p \in DOMAIN publishes : x = Publishing(p, publishes[p].msg)
    <3>1. PICK q \in DOMAIN publishes : x = Publishing(q, publishes[q].msg)
      BY <2>6
    <3>2. \A p, m : Copy(p, m)' => Copy(p, m) \/ (p = q /\ m = publishes[q].msg)
      BY <2>1, <3>1, Packets
    <3>3. \A p : Released(p)' => Released(p)
      BY <2>2, <3>1, Packets
    <3>4. \A p, m : Carries(p, m)' => Carries(p, m)
      BY <3>2 DEF Carries, Sends
    <3>5. InOrder(toBroker')
      <4>1. ~In(toBroker, Packet("PUBREL", q))
        BY <1>0 DEF Copies, Released
      <4>2. \A p \in Pids, m \in Msgs : x = Publishing(p, m) => ~In(toBroker, Packet("PUBREL", p))
        <5> SUFFICES ASSUME NEW p \in Pids, NEW m \in Msgs, x = Publishing(p, m)
                     PROVE  ~In(toBroker, Packet("PUBREL", p))
          OBVIOUS
        <5>1. Publishing(p, m) = Publishing(q, publishes[q].msg)
          BY <3>1
        <5>2. p = q
          BY ONLY <5>1, Packets
        <5> QED BY <4>1, <5>2
      <4> QED BY <1>0, <1>4, <4>2, OrderedAppend DEF Copies
    <3>6. \A p : Reached(p)' => Reached(p)
      BY <2>3, <3>3 DEF Reached, Sends
    <3> HIDE DEF Known, Typed
    <3> QED BY <1>0, <2>4, <2>5, <3>3, <3>4, <3>5, <3>6 DEF Calm, Sends
  <2>7. CASE \E p \in pubrels : x = Packet("PUBREL", p)
    <3>1. PICK q \in pubrels : x = Packet("PUBREL", q)
      BY <2>7
    <3>2. q \in 1..allocated /\ q \notin DOMAIN publishes
      BY <1>1 DEF Fresh
    <3>3. \A p, m : x # Publishing(p, m)
      BY <3>1, Packets
    <3>4. \A p, m : Carries(p, m)' => Carries(p, m)
      BY <2>1, <3>3 DEF Carries, Sends
    <3>5. \A p : Released(p)' => Released(p) \/ p = q
      BY <2>2, <3>1, Packets
    <3>6. InOrder(toBroker')
      BY <1>0, <1>4, <3>3, OrderedAppend DEF Copies
    <3>7. \A p : Reached(p)' => Reached(p)
      BY <2>3, <3>1, <3>5 DEF Reached, Sends
    <3> HIDE DEF Known, Typed
    <3> QED BY <1>0, <2>4, <2>5, <3>2, <3>4, <3>5, <3>6, <3>7 DEF Calm, Sends
  <2> QED BY <1>2, <2>6, <2>7
<1> QED BY <1>2, <1>3, <1>4, Sending

LEMMA SendsSteps ==
    ASSUME Known, (\E p \in Pids : RetryPublish(p) \/ ResendPublish(p)) \/ RetryPubrel
    PROVE  Sends \/ Uneventful
<1> USE DEF Known, Typed, session, ghosts
<1>0. /\ DOMAIN publishes \subseteq Pids /\ pubrels \subseteq Pids
      /\ publishes \in [DOMAIN publishes -> Entries]
      /\ \A p \in DOMAIN publishes : publishes[p].msg \in Msgs
  BY DEF TypeOK, Entries
<1>1. ASSUME NEW p \in Pids, RetryPublish(p) PROVE Sends
  <2>1. p \in DOMAIN publishes
    BY <1>1 DEF RetryPublish, LoopHasEntries
  <2>2. /\ DOMAIN publishes' = DOMAIN publishes
        /\ \A q \in DOMAIN publishes : publishes'[q].msg = publishes[q].msg
    BY <1>0, <1>1 DEF RetryPublish, Entries
  <2>3. Publishing(p, publishes[p].msg) \in ToBroker
    BY <1>0, <2>1, PacketTypes
  <2>4. PICK outcome \in Outcomes : Send(Publishing(p, publishes[p].msg), outcome)
    BY <1>1 DEF RetryPublish
  <2> QED BY <1>1, <2>1, <2>2, <2>3, <2>4 DEF RetryPublish, Sends
<1>2. ASSUME NEW p \in Pids, ResendPublish(p) PROVE Sends
  <2>1. p \in DOMAIN publishes
    BY <1>2 DEF ResendPublish, LoopHasEntries
  <2>2. Publishing(p, publishes[p].msg) \in ToBroker
    BY <1>0, <2>1, PacketTypes
  <2>3. PICK outcome \in Outcomes : Send(Publishing(p, publishes[p].msg), outcome)
    BY <1>2 DEF ResendPublish
  <2> QED BY <1>2, <2>1, <2>2, <2>3 DEF ResendPublish, Sends
<1>3. ASSUME RetryPubrel PROVE Sends \/ Uneventful
  <2>1. CASE ~PubrelDue
    BY <1>3, <2>1 DEF RetryPubrel, Uneventful, exchanges
  <2>2. CASE PubrelDue
    <3>1. PICK p \in pubrels, outcome \in Outcomes : Send(Packet("PUBREL", p), outcome)
      BY <1>3, <2>2 DEF RetryPubrel
    <3>2. Packet("PUBREL", p) \in ToBroker
      BY <1>0, PacketTypes
    <3> QED BY <1>3, <3>1, <3>2 DEF RetryPubrel, Sends
  <2> QED BY <2>1, <2>2
<1> QED BY <1>1, <1>2, <1>3

\* HashMap::remove, for what the invariants see of an entry.
LEMMA Removing ==
    ASSUME Known, NEW T, publishes' = Without(publishes, T)
    PROVE  /\ DOMAIN publishes' = DOMAIN publishes \ T
           /\ DOMAIN publishes' \subseteq DOMAIN publishes
           /\ \A p \in DOMAIN publishes' : publishes'[p].msg = publishes[p].msg
           /\ \A p \in DOMAIN publishes : p \notin T => publishes[p].msg \in Tracked'
<1>1. /\ DOMAIN publishes' = DOMAIN publishes \ T
      /\ \A p \in DOMAIN publishes \ T : publishes'[p] = publishes[p]
  BY WithoutPublishes DEF Known, Typed
<1>2. \A p \in DOMAIN publishes : p \notin T => publishes[p].msg \in Tracked'
  BY <1>1 DEF Tracked
<1> QED BY <1>1, <1>2

\* Flow of a step that only takes packets out of the channels.
LEMMA Fewer ==
    ASSUME Known,
           DOMAIN publishes' \subseteq DOMAIN publishes,
           \A p \in DOMAIN publishes' : publishes'[p].msg = publishes[p].msg,
           toBroker' \in {toBroker, <<>>} \/ (toBroker # <<>> /\ toBroker' = Tail(toBroker))
    PROVE  /\ \A p, m : Copy(p, m)' => Copy(p, m)
           /\ \A p : Released(p)' => Released(p)
           /\ \A p, m : Carries(p, m)' => Carries(p, m)
           /\ InOrder(toBroker')
<1>0. toBroker \in Seq(ToBroker) /\ InOrder(toBroker)
  BY DEF Known, Typed, TypeOK, Copies
<1>1. \A y : In(toBroker', y) => In(toBroker, y)
  BY <1>0, InTail, InEmpty
<1>2. InOrder(toBroker')
  BY <1>0, OrderedTail, InEmpty
<1>3. (\A p, m : Copy(p, m)' => Copy(p, m)) /\ (\A p : Released(p)' => Released(p))
  BY <1>1 DEF Copy, Released
<1>4. \A p, m : Carries(p, m)' => Carries(p, m)
  BY <1>3 DEF Carries
<1> QED BY <1>2, <1>3, <1>4

LEMMA PollStartsRetriesCalm ==
    ASSUME Known, PollStartsRetries
    PROVE  Calm
<1> USE DEF session, call, network, ghosts, bounds
<1>1. publishes' = Without(publishes, Exhausted)
  BY DEF PollStartsRetries
<1>2. /\ UNCHANGED <<pubrels, connected, toBroker, toClient, received, published, owner,
                     deliveries, acked, cleared, allocated, footing>>
      /\ dropped' = dropped \cup {publishes[p].msg : p \in Exhausted}
  BY DEF PollStartsRetries
<1>3. /\ DOMAIN publishes' \subseteq DOMAIN publishes
      /\ \A p \in DOMAIN publishes' : publishes'[p].msg = publishes[p].msg
      /\ \A p \in DOMAIN publishes : p \notin Exhausted => publishes[p].msg \in Tracked'
  BY <1>1, Removing
<1>4. /\ \A p : Released(p)' => Released(p)
      /\ \A p, m : Carries(p, m)' => Carries(p, m)
      /\ InOrder(toBroker')
  BY <1>2, <1>3, Fewer
<1>5. \A p : Answered(p)' = Answered(p)
  BY <1>2 DEF Answered
<1>6. \A p : Reached(p)' => Reached(p)
  BY <1>2, <1>4, <1>5 DEF Reached
<1>7. \A p \in DOMAIN publishes : publishes[p].msg \in Tracked' \cup dropped'
  BY <1>2, <1>3
<1>8. allocated' \in Nat /\ allocated <= allocated'
  BY <1>2, ConfigAssumption DEF Known, Typed, TypeOK
<1> QED BY <1>2, <1>3, <1>4, <1>6, <1>7, <1>8 DEF Calm

LEMMA BreakLinkCalm ==
    ASSUME Known, BreakLink
    PROVE  Calm
<1> USE DEF session, call, network, ghosts, bounds
<1>1. /\ UNCHANGED <<publishes, pubrels, connected, toClient, received, published, owner,
                     deliveries, acked, dropped, cleared, allocated, footing>>
      /\ toBroker' = <<>>
  BY DEF BreakLink
<1>2. /\ \A p : Released(p)' => Released(p)
      /\ \A p, m : Carries(p, m)' => Carries(p, m)
      /\ InOrder(toBroker')
  BY <1>1, Fewer
<1>3. \A p : Answered(p)' = Answered(p)
  BY <1>1 DEF Answered
<1>4. \A p : Reached(p)' => Reached(p)
  BY <1>1, <1>2, <1>3 DEF Reached
<1>5. \A p \in DOMAIN publishes : publishes[p].msg \in Tracked'
  BY <1>1 DEF Tracked
<1>6. allocated' \in Nat /\ allocated <= allocated'
  BY <1>1, ConfigAssumption DEF Known, Typed, TypeOK
<1> QED BY <1>1, <1>2, <1>4, <1>5, <1>6 DEF Calm

\* PUBACK and PUBCOMP end an exchange and are reported.
LEMMA AcknowledgedCalm ==
    ASSUME Known, ReceivePuback \/ ReceivePubcomp
    PROVE  Calm
<1> USE DEF session, call, network, ghosts, bounds
<1> DEFINE p == Head(toClient).pid
<1>1. /\ toClient # <<>> /\ toClient' = Tail(toClient)
      /\ publishes' = Without(publishes, {p})
      /\ pubrels' \subseteq pubrels
      /\ acked' = acked \cup {owner[q] : q \in {p} \cap DOMAIN owner}
      /\ UNCHANGED <<connected, toBroker, received, published, owner, deliveries, dropped,
                     cleared, allocated, footing>>
  BY DEF ReceivePuback, ReceivePubcomp, Incoming, Acknowledge
<1>2. p \in Pids /\ Answered(p) /\ \A q : Answered(q)' => Answered(q)
  BY <1>1, Answering DEF Known, Typed
<1>3. /\ DOMAIN publishes' \subseteq DOMAIN publishes
      /\ \A q \in DOMAIN publishes' : publishes'[q].msg = publishes[q].msg
      /\ \A q \in DOMAIN publishes : q # p => publishes[q].msg \in Tracked'
  BY <1>1, Removing
<1>4. /\ \A q : Released(q)' => Released(q)
      /\ \A q, m : Carries(q, m)' => Carries(q, m)
      /\ InOrder(toBroker')
  BY <1>1, <1>3, Fewer
<1>5. \A q : Reached(q)' => Reached(q)
  BY <1>1, <1>2, <1>4 DEF Reached
<1>6. Reached(p)
  BY <1>2 DEF Reached
<1>7. acked' \subseteq acked \cup {owner[q] : q \in {r \in DOMAIN owner : Reached(r)}}
  BY <1>1, <1>6
<1>8. allocated' \in Nat /\ allocated <= allocated'
  BY <1>1, ConfigAssumption DEF Known, Typed, TypeOK
<1> HIDE DEF p
<1> QED BY <1>1, <1>3, <1>4, <1>5, <1>6, <1>7, <1>8 DEF Calm

\* PUBREC moves an exchange on: its identifier was reached, and is released.
LEMMA ReceivePubrecCalm ==
    ASSUME Known, ReceivePubrec
    PROVE  Calm
<1> USE DEF session, call, network, ghosts, bounds
<1> DEFINE p == Head(toClient).pid
<1>1. /\ toClient # <<>> /\ toClient' = Tail(toClient)
      /\ UNCHANGED <<received, published, owner, deliveries, acked, dropped,
                     cleared, allocated, footing>>
  BY DEF ReceivePubrec, Incoming
<1>2. p \in Pids /\ Answered(p) /\ \A q : Answered(q)' => Answered(q)
  BY <1>1, Answering DEF Known, Typed
<1>3. Reached(p)
  BY <1>2 DEF Reached
<1>4. allocated \in Nat /\ allocated' \in Nat /\ allocated <= allocated'
  BY <1>1, ConfigAssumption DEF Known, Typed, TypeOK
<1>5. toBroker \in Seq(ToBroker)
  BY DEF Known, Typed, TypeOK
<1>6. CASE p \notin DOMAIN publishes
  <2>1. UNCHANGED <<publishes, pubrels, connected, toBroker>>
    BY <1>6 DEF ReceivePubrec
  <2>2. /\ \A q : Released(q)' => Released(q)
        /\ \A q, m : Carries(q, m)' => Carries(q, m)
        /\ InOrder(toBroker')
    BY <2>1, Fewer
  <2>3. \A q : Reached(q)' => Reached(q)
    BY <1>1, <1>2, <2>1, <2>2 DEF Reached
  <2>4. \A q \in DOMAIN publishes : publishes[q].msg \in Tracked'
    BY <2>1 DEF Tracked
  <2> HIDE DEF p
  <2> QED BY <1>1, <1>4, <2>1, <2>2, <2>3, <2>4 DEF Calm
<1>7. CASE p \in DOMAIN publishes
  <2>1. /\ publishes' = Without(publishes, {p})
        /\ \E outcome \in Outcomes : Send(Packet("PUBREL", p), outcome)
        /\ pubrels' \subseteq pubrels \cup {p}
    BY <1>7 DEF ReceivePubrec
  <2>2. connected' => connected
    BY <1>7, Zenon DEF ReceivePubrec
  <2>3. /\ DOMAIN publishes' = DOMAIN publishes \ {p}
        /\ DOMAIN publishes' \subseteq DOMAIN publishes
        /\ \A q \in DOMAIN publishes' : publishes'[q].msg = publishes[q].msg
        /\ \A q \in DOMAIN publishes : q # p => publishes[q].msg \in Tracked'
    BY <2>1, Removing
  <2>4. p \in 1..allocated
    <3>1. NoWrap
      BY ConfigAssumption DEF Known, Typed, NoReuse, NoWrap, TypeOK
    <3> QED BY <1>7, <3>1 DEF Known, Fresh
  <2>5. Packet("PUBREL", p) \in ToBroker
    BY <1>2, PacketTypes
  <2>6. \/ toBroker' = toBroker
        \/ /\ toBroker' = Append(toBroker, Packet("PUBREL", p))
           /\ \A y : In(toBroker', y) <=> In(toBroker, y) \/ y = Packet("PUBREL", p)
    BY <2>1, <2>5, Sending DEF Known, Typed
  <2>7. /\ \A q, m : Copy(q, m)' => Copy(q, m)
        /\ \A q : Released(q)' => Released(q) \/ q = p
        /\ InOrder(toBroker')
    <3>1. \A q, m : Packet("PUBREL", p) # Publishing(q, m)
      BY Packets
    <3>2. \A q : Packet("PUBREL", q) = Packet("PUBREL", p) => q = p
      BY Packets
    <3>3. \A q, m : Copy(q, m)' => Copy(q, m)
      BY <2>6, <3>1 DEF Copy
    <3>4. \A q : Released(q)' => Released(q) \/ q = p
      BY <2>6, <3>2 DEF Released
    <3>5. InOrder(toBroker)
      BY DEF Known, Copies
    <3>6. InOrder(toBroker')
      BY <1>5, <2>5, <2>6, <3>1, <3>5, OrderedAppend
    <3> QED BY <3>3, <3>4, <3>6
  <2>8. \A q, m : Carries(q, m)' => Carries(q, m)
    BY <2>3, <2>7 DEF Carries
  <2>9. \A q : Reached(q)' => Reached(q)
    BY <1>1, <1>2, <1>3, <2>1, <2>7 DEF Reached
  <2> HIDE DEF p
  <2> QED BY <1>1, <1>3, <1>4, <2>2, <2>3, <2>4, <2>7, <2>8, <2>9 DEF Calm
<1> QED BY <1>6, <1>7

\* PUBREL ends the broker's part: no copy follows it.
LEMMA BrokerPubrelCalm ==
    ASSUME Known, BrokerPubrel
    PROVE  Calm
<1> USE DEF session, call, network, ghosts, bounds
<1>0. PICK p : p = Head(toBroker).pid
  OBVIOUS
<1>1. /\ toBroker # <<>> /\ Head(toBroker).type = "PUBREL" /\ toBroker' = Tail(toBroker)
      /\ toClient' = Append(toClient, Packet("PUBCOMP", p))
      /\ received' = received \ {p}
      /\ UNCHANGED <<publishes, pubrels, connected, published, owner, deliveries, acked,
                     dropped, cleared, allocated, footing>>
  BY <1>0 DEF BrokerPubrel, BrokerTakes, Reply
<1>2. toBroker \in Seq(ToBroker) /\ InOrder(toBroker)
  BY DEF Known, Typed, TypeOK, Copies
<1>3. p \in Pids /\ Head(toBroker) = Packet("PUBREL", p)
  <2>1. Head(toBroker) \in ToBroker
    BY <1>1, <1>2, TailType
  <2> QED BY <1>0, <1>1, <2>1, Packets
<1>4. Released(p)
  BY <1>1, <1>2, <1>3, InTail DEF Released
<1>5. /\ \A q : Released(q)' => Released(q)
      /\ \A q, m : Carries(q, m)' => Carries(q, m)
      /\ InOrder(toBroker')
  BY <1>1, Fewer
<1>6. \A m \in Msgs : ~Carries(p, m)'
  <2>1. \A m \in Msgs : ~In(Tail(toBroker), Publishing(p, m))
    BY <1>1, <1>2, <1>3, OrderedTail
  <2>2. \A m \in Msgs : ~Copy(p, m)'
    BY <1>1, <2>1 DEF Copy
  <2>3. p \notin DOMAIN publishes'
    BY <1>1, <1>3, <1>4 DEF Known, Copies
  <2> QED BY <2>2, <2>3 DEF Carries
<1>7. \A q : Answered(q)' => Answered(q) \/ q = p
  BY <1>1, <1>3, Answering DEF Known, Typed
<1>8. \A q : Reached(q)' => Reached(q)
  BY <1>1, <1>4, <1>5, <1>7 DEF Reached
<1>9. \A q \in DOMAIN publishes : publishes[q].msg \in Tracked'
  BY <1>1 DEF Tracked
<1>10. allocated' \in Nat /\ allocated <= allocated'
  BY <1>1, ConfigAssumption DEF Known, Typed, TypeOK
<1> QED BY <1>1, <1>5, <1>6, <1>8, <1>9, <1>10 DEF Calm

-----------------------------------------------------------------------------
(* The steps that are not calm: publish() *)

\* What publish() changes: a fresh identifier carries the message.
LEMMA PublishEffect ==
    ASSUME Known, NEW m \in Msgs, Publish(m), NEW pid, pid = nextPid
    PROVE  /\ pid \in Pids /\ pid = allocated + 1 /\ allocated \in Nat /\ allocated' = allocated + 1
           /\ connected /\ m \notin published /\ pid \notin DOMAIN publishes
           /\ DOMAIN publishes' = DOMAIN publishes \cup {pid}
           /\ publishes'[pid].msg = m
           /\ \A q \in DOMAIN publishes : publishes'[q] = publishes[q]
           /\ published' = published \cup {m}
           /\ owner' = Put(owner, pid, m)
           /\ \A q, n : Copy(q, n)' => Copy(q, n) \/ (q = pid /\ n = m)
           /\ \A q, n : Carries(q, n)' => Carries(q, n) \/ (q = pid /\ n = m)
           /\ \A q : Released(q)' <=> Released(q)
           /\ \A q : Answered(q)' <=> Answered(q)
           /\ InOrder(toBroker')
           /\ UNCHANGED <<pubrels, connected, received, deliveries, acked, dropped, cleared, footing>>
<1> USE DEF Known, Typed
<1>1. /\ connected /\ m \notin published /\ TakePid
      /\ publishes' = Put(publishes, pid, NewEntry(m))
      /\ published' = published \cup {m} /\ owner' = Put(owner, pid, m)
      /\ UNCHANGED <<pubrels, connected, toClient, received, deliveries, acked, dropped, cleared, footing>>
  BY DEF Publish, RoomToPublish
<1>2. PICK outcome \in Outcomes : Send(Publishing(pid, m), outcome)
  BY DEF Publish
<1>3. /\ pid \in Pids /\ pid = allocated + 1 /\ allocated \in Nat /\ allocated' = allocated + 1
      /\ NoWrap
  <2>1. allocated' <= MaxPid
    <3>1. allocated' \in 0..MaxAllocated
      BY <1>1, TakePidType
    <3> QED BY <3>1, ConfigAssumption DEF NoReuse
  <2>2. NoWrap /\ nextPid = allocated + 1 /\ allocated' = allocated + 1
    BY <1>1, <2>1, TakePidFresh DEF NoWrap
  <2> QED BY <2>2, ConfigAssumption DEF TypeOK
<1>4. pid \notin DOMAIN publishes /\ pid \notin pubrels
  BY <1>3 DEF Fresh
<1>5. /\ DOMAIN publishes' = DOMAIN publishes \cup {pid}
      /\ publishes'[pid] = NewEntry(m)
      /\ \A q \in DOMAIN publishes : publishes'[q] = publishes[q]
  BY <1>1, <1>4 DEF Put
<1>6. publishes'[pid].msg = m
  BY <1>5 DEF NewEntry
<1>7. ~Released(pid)
  <2>1. pid \notin 1..allocated
    BY <1>3
  <2> QED BY <1>1, <1>3, <2>1 DEF Copies
<1>8. Publishing(pid, m) \in ToBroker /\ toBroker \in Seq(ToBroker)
  BY <1>3, PacketTypes DEF TypeOK
<1>9. \/ toBroker' = toBroker
      \/ /\ toBroker' = Append(toBroker, Publishing(pid, m))
         /\ \A y : In(toBroker', y) <=> In(toBroker, y) \/ y = Publishing(pid, m)
  BY <1>2, <1>8, Sending
<1>10. \A q, n : Copy(q, n)' => Copy(q, n) \/ (q = pid /\ n = m)
  <2>1. \A q, n : Publishing(q, n) = Publishing(pid, m) => q = pid /\ n = m
    BY Packets
  <2> QED BY <1>9, <2>1 DEF Copy
<1>11. \A q : Released(q)' <=> Released(q)
  <2>1. \A q : Packet("PUBREL", q) # Publishing(pid, m)
    BY Packets
  <2> QED BY <1>9, <2>1 DEF Released
<1>12. InOrder(toBroker')
  <2>1. InOrder(toBroker)
    BY DEF Copies
  <2>2. ASSUME NEW q \in Pids, NEW n \in Msgs, Publishing(pid, m) = Publishing(q, n)
        PROVE  ~In(toBroker, Packet("PUBREL", q))
    <3>1. q = pid
      BY <2>2, Packets
    <3> QED BY <1>7, <3>1 DEF Released
  <2> QED BY <1>8, <1>9, <2>1, <2>2, OrderedAppend
<1>13. \A q, n : Carries(q, n)' => Carries(q, n) \/ (q = pid /\ n = m)
  BY <1>5, <1>6, <1>10 DEF Carries
<1>14. \A q : Answered(q)' <=> Answered(q)
  BY <1>1 DEF Answered
<1> QED BY <1>1, <1>3, <1>4, <1>5, <1>6, <1>10, <1>11, <1>12, <1>13, <1>14

LEMMA PublishCopies ==
    ASSUME Known, NEW m \in Msgs, Publish(m)
    PROVE  /\ Copies'
           /\ DeliveredOnce => DeliveredOnce'
           /\ Kept => Kept'
<1>0. PICK pid : pid = nextPid
  OBVIOUS
<1>1. /\ pid \in Pids /\ pid = allocated + 1 /\ allocated \in Nat /\ allocated' = allocated + 1
      /\ connected /\ m \notin published /\ pid \notin DOMAIN publishes
      /\ DOMAIN publishes' = DOMAIN publishes \cup {pid}
      /\ publishes'[pid].msg = m
      /\ \A q \in DOMAIN publishes : publishes'[q] = publishes[q]
      /\ published' = published \cup {m}
      /\ owner' = Put(owner, pid, m)
      /\ \A q, n : Copy(q, n)' => Copy(q, n) \/ (q = pid /\ n = m)
      /\ \A q, n : Carries(q, n)' => Carries(q, n) \/ (q = pid /\ n = m)
      /\ \A q : Released(q)' <=> Released(q)
      /\ \A q : Answered(q)' <=> Answered(q)
      /\ InOrder(toBroker')
      /\ UNCHANGED <<pubrels, connected, received, deliveries, acked, dropped, cleared, footing>>
  BY <1>0, PublishEffect
<1>2. /\ \A p, q \in Pids, n \in Msgs : Carries(p, n) /\ Carries(q, n) => p = q
      /\ \A p \in Pids, n \in Msgs : Carries(p, n) => n \in published
      /\ Delivered \subseteq published
      /\ \A p \in Pids : Released(p) => p \notin DOMAIN publishes /\ p \in 1..allocated
  BY <1>1 DEF Known, Copies
<1>3. pid \notin 1..allocated /\ 1..allocated' = 1..allocated \cup {pid}
  BY <1>1
<1>4. Delivered' = Delivered
  BY <1>1 DEF Delivered
<1>5. Copies'
  <2>1. \A p, q \in Pids, n \in Msgs : Carries(p, n)' /\ Carries(q, n)' => p = q
    BY <1>1, <1>2
  <2>2. \A p \in Pids, n \in Msgs : Carries(p, n)' => n \in published'
    BY <1>1, <1>2
  <2>3. \A p \in Pids : Released(p)' => p \notin DOMAIN publishes' /\ p \in 1..allocated'
    BY <1>1, <1>2, <1>3
  <2> QED BY <1>1, <1>2, <1>4, <2>1, <2>2, <2>3 DEF Copies
<1>6. ASSUME DeliveredOnce PROVE DeliveredOnce'
  <2>1. \A p \in Pids, n \in Qos2 : Carries(p, n)' /\ deliveries[n] > 0 => p \in received
    <3> SUFFICES ASSUME NEW p \in Pids, NEW n \in Qos2, Carries(p, n)', deliveries[n] > 0
                 PROVE  p \in received
      OBVIOUS
    <3>1. n \in Msgs /\ n \in published
      BY <1>2, ConfigAssumption DEF Delivered
    <3>2. Carries(p, n)
      BY <1>1, <3>1
    <3> QED BY <1>6, <3>2 DEF DeliveredOnce
  <2> QED BY <1>1, <1>6, <2>1 DEF DeliveredOnce
<1>7. ASSUME Ledger, ~Estranged PROVE Ledger'
  <2>1. footing = "shared"
    BY <1>1, <1>7 DEF Ledger, Estranged, Known, Typed, TypeOK, Footings
  <2>2. DOMAIN owner \subseteq 1..allocated /\ pid \notin DOMAIN owner
    BY <1>3, <1>7 DEF Ledger
  <2>3. /\ DOMAIN owner' = DOMAIN owner \cup {pid} /\ owner'[pid] = m
        /\ \A q \in DOMAIN owner : owner'[q] = owner[q]
    BY <1>1, <2>2 DEF Put
  <2>4. \A q : Reached(q)' <=> Reached(q)
    BY <1>1 DEF Reached
  <2>5. \A q \in Pids : Reached(q) \/ (\E n \in Msgs : Copy(q, n)) => q \in 1..allocated
    BY <1>7, <2>1 DEF Ledger
  <2>6. \A q \in DOMAIN publishes' : q \in DOMAIN owner' /\ owner'[q] = publishes'[q].msg
    BY <1>1, <1>7, <2>3 DEF Ledger
  <2>7. DOMAIN owner' \subseteq 1..allocated'
    BY <1>3, <2>2, <2>3
  <2>8. \A q \in DOMAIN owner' : owner'[q] \in published'
    BY <1>1, <1>7, <2>3 DEF Ledger
  <2>9. \A p, q \in DOMAIN owner' : owner'[p] = owner'[q] => p = q
    BY <1>1, <1>7, <2>3 DEF Ledger
  <2>10. \A q \in DOMAIN owner', n \in Msgs : Copy(q, n)' => owner'[q] = n
    <3> SUFFICES ASSUME NEW q \in DOMAIN owner', NEW n \in Msgs, Copy(q, n)'
                 PROVE  owner'[q] = n
      OBVIOUS
    <3>1. CASE q = pid
      <4>1. ~Copy(q, n)
        BY <1>1, <1>3, <2>5, <3>1
      <4> QED BY <1>1, <2>3, <3>1, <4>1
    <3>2. CASE q # pid
      BY <1>1, <1>7, <2>3, <3>2 DEF Ledger
    <3> QED BY <3>1, <3>2
  <2>11. \A q \in DOMAIN owner' : Reached(q)' => owner'[q] \in Delivered'
    <3> SUFFICES ASSUME NEW q \in DOMAIN owner', Reached(q)
                 PROVE  owner'[q] \in Delivered
      BY <1>4, <2>4
    <3>1. q # pid
      BY <1>1, <1>3, <2>5
    <3> QED BY <1>7, <2>3, <3>1 DEF Ledger
  <2>12. \A q \in Pids : Reached(q)' \/ (\E n \in Msgs : Copy(q, n)') => q \in 1..allocated'
    BY <1>1, <1>3, <2>4, <2>5
  <2>13. published' \subseteq Tracked' \cup Delivered' \cup dropped' \cup cleared'
    <3>1. m \in Tracked'
      BY <1>1 DEF Tracked
    <3>2. Tracked \subseteq Tracked'
      BY <1>1 DEF Tracked
    <3> QED BY <1>1, <1>4, <1>7, <3>1, <3>2 DEF Ledger
  <2>14. acked' \subseteq Delivered' /\ footing' # "lost"
    BY <1>1, <1>4, <1>7, <2>1 DEF Ledger
  <2> QED BY <2>6, <2>7, <2>8, <2>9, <2>10, <2>11, <2>12, <2>13, <2>14 DEF Ledger
<1> QED BY <1>1, <1>5, <1>6, <1>7 DEF Kept, Estranged

-----------------------------------------------------------------------------
(* The steps that are not calm: the broker takes a PUBLISH *)

LEMMA BrokerPublishCopies ==
    ASSUME Known, BrokerPublish
    PROVE  /\ Copies'
           /\ DeliveredOnce => DeliveredOnce'
           /\ Kept => Kept'
<1> USE DEF session, call, network, ghosts, bounds
<1>0. PICK p, m : p = Head(toBroker).pid /\ m = Head(toBroker).msg
  OBVIOUS
<1>1. /\ toBroker # <<>> /\ Head(toBroker).type = "PUBLISH" /\ toBroker' = Tail(toBroker)
      /\ \E t \in {"PUBACK", "PUBREC"} : toClient' = Append(toClient, Packet(t, p))
      /\ UNCHANGED <<publishes, pubrels, connected, published, owner, acked,
                     dropped, cleared, allocated, footing>>
  BY <1>0 DEF BrokerPublish, BrokerTakes, Reply
<1>2. \/ m \in Qos2 /\ p \in received /\ UNCHANGED <<deliveries, received>>
      \/ m \in Qos2 /\ p \notin received /\ Deliver(m) /\ received' = received \cup {p}
      \/ m \notin Qos2 /\ Deliver(m) /\ UNCHANGED received
  <2>1. IF m \in Qos2
        THEN /\ IF p \in received THEN UNCHANGED deliveries ELSE Deliver(m)
             /\ received' = received \cup {p}
        ELSE Deliver(m) /\ UNCHANGED received
    BY <1>0 DEF BrokerPublish
  <2> QED BY <2>1
<1>3. toBroker \in Seq(ToBroker) /\ InOrder(toBroker)
  BY DEF Known, Typed, TypeOK, Copies
<1>4. p \in Pids /\ m \in Msgs /\ Head(toBroker) = Publishing(p, m)
  <2>1. Head(toBroker) \in ToBroker
    BY <1>1, <1>3, TailType
  <2> QED BY <1>0, <1>1, <2>1, Packets
<1>5. Copy(p, m) /\ Carries(p, m)
  BY <1>1, <1>3, <1>4, InTail DEF Copy, Carries
<1>6. /\ \A q, n : Copy(q, n)' => Copy(q, n)
      /\ \A q : Released(q)' => Released(q)
      /\ \A q, n : Carries(q, n)' => Carries(q, n)
      /\ InOrder(toBroker')
  BY <1>1, Fewer
<1>7. \A q : Reached(q)' => Reached(q) \/ q = p
  <2>1. \A q : Answered(q)' => Answered(q) \/ q = p
    BY <1>1, <1>4, Answering DEF Known, Typed
  <2> QED BY <1>1, <1>2, <1>6, <2>1 DEF Reached
<1>8. /\ deliveries \in [Msgs -> 0..2]
      /\ \A n \in Msgs : n # m => deliveries'[n] = deliveries[n]
      /\ deliveries[m] <= deliveries'[m]
      /\ Deliver(m) => deliveries'[m] > 0 /\ (deliveries[m] = 0 => deliveries'[m] = 1)
  <2>1. deliveries \in [Msgs -> 0..2]
    BY DEF Known, Typed, TypeOK
  <2>2. deliveries[m] \in 0..2
    BY <1>4, <2>1
  <2>3. CASE UNCHANGED deliveries /\ ~Deliver(m)
    BY <2>1, <2>2, <2>3
  <2>4. CASE Deliver(m)
    <3>1. /\ \A n \in Msgs : n # m => deliveries'[n] = deliveries[n]
          /\ deliveries'[m] = IF deliveries[m] < 2 THEN deliveries[m] + 1 ELSE deliveries[m]
      BY <1>4, <2>1, <2>4 DEF Deliver
    <3> QED BY <2>1, <2>2, <3>1
  <2> QED BY <1>2, <2>3, <2>4
<1>9. Delivered \subseteq Delivered' /\ Delivered' \subseteq Delivered \cup {m}
  <2>1. \A n \in Msgs : deliveries[n] > 0 => deliveries'[n] > 0
    <3> SUFFICES ASSUME NEW n \in Msgs, deliveries[n] > 0 PROVE deliveries'[n] > 0
      OBVIOUS
    <3>1. CASE n # m
      BY <1>8, <3>1
    <3>2. CASE n = m /\ Deliver(m)
      BY <1>8, <3>2
    <3>3. CASE n = m /\ UNCHANGED deliveries
      BY <3>3
    <3> QED BY <1>2, <3>1, <3>2, <3>3
  <2>2. \A n \in Msgs : deliveries'[n] > 0 => deliveries[n] > 0 \/ n = m
    BY <1>8
  <2> QED BY <2>1, <2>2 DEF Delivered
<1>10. Copies'
  <2>1. m \in published
    BY <1>4, <1>5 DEF Known, Copies
  <2>2. Delivered' \subseteq published'
    BY <1>1, <1>9, <2>1 DEF Known, Copies
  <2>3. \A q \in Pids : Released(q)' => q \notin DOMAIN publishes'
    BY <1>1, <1>6 DEF Known, Copies
  <2> QED BY <1>1, <1>6, <2>2, <2>3 DEF Known, Copies
<1>11. ASSUME DeliveredOnce PROVE DeliveredOnce'
  <2>1. Qos2 \subseteq Msgs
    BY ConfigAssumption
  <2>2. ASSUME NEW q \in Pids, NEW n \in Qos2, Carries(q, n)', deliveries'[n] > 0
        PROVE  q \in received'
    <3>1. Carries(q, n)
      BY <1>6, <2>2
    <3>2. CASE n = m
      <4>1. q = p
        BY <1>4, <1>5, <2>1, <3>1, <3>2 DEF Known, Copies
      <4> QED BY <1>2, <3>2, <4>1
    <3>3. CASE n # m
      <4>1. q \in received
        BY <1>8, <1>11, <2>1, <2>2, <3>1, <3>3 DEF DeliveredOnce
      <4> QED BY <1>2, <4>1
    <3> QED BY <3>2, <3>3
  <2>3. ASSUME NEW n \in Qos2
        PROVE  deliveries'[n] <= 1
    <3>1. deliveries[n] <= 1 /\ deliveries[n] \in 0..2
      BY <1>8, <1>11, <2>1 DEF DeliveredOnce
    <3>2. CASE n = m /\ p \notin received /\ Deliver(m)
      <4>1. ~(deliveries[m] > 0)
        BY <1>4, <1>5, <1>11, <3>2 DEF DeliveredOnce
      <4>2. deliveries[m] = 0
        BY <3>1, <3>2, <4>1
      <4> QED BY <1>8, <3>2, <4>2
    <3>3. CASE n # m
      BY <1>8, <2>1, <3>1, <3>3
    <3>4. CASE UNCHANGED deliveries
      BY <3>1, <3>4
    <3> QED BY <1>2, <3>2, <3>3, <3>4
  <2> QED BY <2>2, <2>3 DEF DeliveredOnce
<1>12. ASSUME Ledger PROVE Ledger'
  <2>1. \A q \in DOMAIN owner : Reached(q)' => owner[q] \in Delivered'
    <3> SUFFICES ASSUME NEW q \in DOMAIN owner, Reached(q)'
                 PROVE  owner[q] \in Delivered'
      OBVIOUS
    <3>1. CASE Reached(q)
      BY <1>9, <1>12, <3>1 DEF Ledger
    <3>2. CASE q = p
      <4>1. owner[q] = m
        BY <1>4, <1>5, <1>12, <3>2 DEF Ledger
      <4>2. CASE p \in received
        BY <1>9, <1>12, <3>2, <4>2 DEF Ledger, Reached
      <4>3. CASE Deliver(m)
        BY <1>4, <1>8, <4>1, <4>3 DEF Delivered
      <4> QED BY <1>2, <4>2, <4>3
    <3> QED BY <1>7, <3>1, <3>2
  <2>2. ASSUME footing = "shared", NEW q \in Pids, Reached(q)' \/ \E n \in Msgs : Copy(q, n)'
        PROVE  q \in 1..allocated
    <3>1. Reached(q) \/ \E n \in Msgs : Copy(q, n)
      BY <1>4, <1>5, <1>6, <1>7, <2>2
    <3> QED BY <1>12, <2>2, <3>1 DEF Ledger
  <2>3. Tracked' = Tracked
    BY <1>1 DEF Tracked
  <2>4. published' \subseteq Tracked' \cup Delivered' \cup dropped' \cup cleared'
    BY <1>1, <1>9, <1>12, <2>3 DEF Ledger
  <2>5. acked' \subseteq Delivered'
    BY <1>1, <1>9, <1>12 DEF Ledger
  <2>6. \A q \in DOMAIN owner, n \in Msgs : Copy(q, n)' => owner[q] = n
    BY <1>6, <1>12 DEF Ledger
  <2>7. /\ \A q \in DOMAIN publishes : q \in DOMAIN owner /\ owner[q] = publishes[q].msg
        /\ DOMAIN owner \subseteq 1..allocated
        /\ \A q \in DOMAIN owner : owner[q] \in published
        /\ \A q, r \in DOMAIN owner : owner[q] = owner[r] => q = r
        /\ footing = "lost" => ~connected /\ DOMAIN owner = {}
    BY <1>12 DEF Ledger
  <2> QED BY <1>1, <2>1, <2>2, <2>4, <2>5, <2>6, <2>7 DEF Ledger
<1> QED BY <1>1, <1>10, <1>11, <1>12 DEF Kept, Estranged

-----------------------------------------------------------------------------
(* The steps that are not calm: a session is cleared, a connection is made *)

\* A ledger that speaks for no identifier.
LEMMA EmptyLedger ==
    ASSUME Known,
           DOMAIN publishes' = {}, DOMAIN owner' = {},
           footing' = "shared" => \A p \in Pids : ~Reached(p)' /\ \A m \in Msgs : ~Copy(p, m)',
           footing' = "lost" => ~connected',
           acked' \subseteq Delivered',
           published' \subseteq Tracked' \cup Delivered' \cup dropped' \cup cleared'
    PROVE  Ledger'
  BY DEF Ledger

LEMMA Cleared ==
    ASSUME Known, ClearSession
    PROVE  /\ DOMAIN publishes' = {} /\ DOMAIN owner' = {} /\ pubrels' = {}
           /\ Delivered' = Delivered
           /\ Ledger => /\ acked' \subseteq Delivered'
                        /\ published' \subseteq Tracked' \cup Delivered' \cup dropped' \cup cleared'
           /\ UNCHANGED <<published, deliveries, acked, dropped>>
<1>1. Delivered' = Delivered
  BY DEF ClearSession, Delivered
<1> QED BY <1>1 DEF ClearSession, Ledger

LEMMA ClearsCopies ==
    ASSUME Known, (ConnectFails /\ ClearSession /\ LosesFooting) \/ Restart
    PROVE  /\ Copies'
           /\ DeliveredOnce => DeliveredOnce'
           /\ Kept => Kept'
<1>1. /\ ClearSession /\ LosesFooting /\ ~connected' /\ UNCHANGED received
      /\ toBroker' \in {toBroker, <<>>}
  BY DEF ConnectFails, Restart, network
<1>2. /\ DOMAIN publishes' = {} /\ DOMAIN owner' = {} /\ Delivered' = Delivered
      /\ Ledger => /\ acked' \subseteq Delivered'
                   /\ published' \subseteq Tracked' \cup Delivered' \cup dropped' \cup cleared'
      /\ UNCHANGED <<published, deliveries>>
  BY <1>1, Cleared
<1>3. /\ \A q, n : Carries(q, n)' => Carries(q, n)
      /\ InOrder(toBroker')
  BY <1>1, <1>2, Fewer
<1>4. Copies'
  BY <1>1, <1>2, <1>3 DEF Known, Copies
<1>5. DeliveredOnce => DeliveredOnce'
  BY <1>1, <1>2, <1>3, ConfigAssumption DEF DeliveredOnce
<1>6. ASSUME Ledger PROVE Ledger'
  <2>1. footing' # "shared"
    BY <1>1 DEF LosesFooting
  <2> QED BY <1>1, <1>2, <1>6, <2>1, EmptyLedger
<1>7. ~Estranged' => ~Estranged
  BY <1>1 DEF LosesFooting, Estranged
<1> QED BY <1>4, <1>5, <1>6, <1>7 DEF Kept

LEMMA ReconnectCopies ==
    ASSUME Known, Reconnect
    PROVE  /\ Copies'
           /\ DeliveredOnce /\ ~BrokerForgets => DeliveredOnce'
           /\ Kept => Kept'
<1> USE DEF session, ghosts
<1>1. /\ toBroker' = <<>> /\ toClient' = <<>> /\ UNCHANGED <<published, deliveries, acked, dropped>>
      /\ \/ ClearSession /\ received' = {} /\ FindsFooting("shared")
         \/ UNCHANGED <<session, ghosts, received>> /\ FindsFooting("estranged")
         \/ BrokerForgets /\ UNCHANGED <<session, ghosts>> /\ received' = {} /\ FindsFooting("shared")
  BY Cleared DEF Reconnect
<1>2. /\ DOMAIN publishes' \subseteq DOMAIN publishes
      /\ \A p \in DOMAIN publishes' : publishes'[p].msg = publishes[p].msg
      /\ pubrels' \subseteq pubrels
      /\ Delivered' = Delivered
  <2>1. CASE ClearSession
    BY <2>1, Cleared
  <2>2. CASE UNCHANGED <<session, ghosts>>
    BY <2>2 DEF Delivered
  <2> QED BY <1>1, <2>1, <2>2
<1>3. /\ \A q, n : Carries(q, n)' => Carries(q, n)
      /\ InOrder(toBroker')
  BY <1>1, <1>2, Fewer
<1>4. \A p, m : ~Copy(p, m)' /\ ~Released(p)' /\ ~Answered(p)'
  <2>1. \A y : ~In(toBroker', y)
    BY <1>1, InEmpty
  <2>2. \A p : ~Answered(p)'
    BY <1>1, Answering DEF Known, Typed
  <2> QED BY <2>1, <2>2 DEF Copy, Released
<1>5. Copies'
  BY <1>1, <1>2, <1>3, <1>4 DEF Known, Copies
<1>6. ASSUME DeliveredOnce, ~BrokerForgets PROVE DeliveredOnce'
  <2>1. CASE ClearSession
    <3>1. DOMAIN publishes' = {}
      BY <2>1, Cleared
    <3>2. \A p, m : ~Carries(p, m)'
      BY <1>4, <3>1 DEF Carries
    <3> QED BY <1>1, <1>6, <3>2 DEF DeliveredOnce
  <2>2. CASE UNCHANGED received
    BY <1>1, <1>3, <1>6, <2>2, ConfigAssumption DEF DeliveredOnce
  <2> QED BY <1>1, <1>6, <2>1, <2>2
<1>7. ASSUME Ledger, ~Estranged, ~Estranged' PROVE Ledger'
  <2>1. footing \in {"shared", "lost"}
    BY <1>7 DEF Known, Typed, TypeOK, Footings, Estranged
  <2>2. CASE ClearSession /\ received' = {}
    <3>1. /\ DOMAIN publishes' = {} /\ DOMAIN owner' = {} /\ pubrels' = {}
          /\ acked' \subseteq Delivered'
          /\ published' \subseteq Tracked' \cup Delivered' \cup dropped' \cup cleared'
      BY <1>7, <2>2, Cleared
    <3>2. \A p : ~Reached(p)'
      BY <1>4, <2>2, <3>1 DEF Reached
    <3>3. footing' # "lost"
      BY <1>1, <2>1 DEF FindsFooting
    <3> QED BY <1>4, <3>1, <3>2, <3>3, EmptyLedger
  <2>3. CASE UNCHANGED <<session, ghosts>>
    <3>1. footing' = "shared" /\ (footing = "shared" \/ (received' = {} /\ DOMAIN owner = {}))
      BY <1>1, <1>7, <2>1, <2>2, <2>3 DEF FindsFooting, Estranged, Ledger
    <3>2. \A p : Reached(p)' => Reached(p)
      BY <1>1, <1>4, <2>3 DEF Reached
    <3>3. \A p \in Pids : Reached(p)' => p \in 1..allocated
      <4>1. CASE footing = "shared"
        BY <1>7, <3>2, <4>1 DEF Ledger
      <4>2. CASE received' = {}
        <5>1. NoWrap
          BY ConfigAssumption DEF Known, Typed, NoReuse, NoWrap, TypeOK
        <5>2. \A p : Reached(p)' => p \in pubrels
          BY <1>4, <2>3, <4>2 DEF Reached
        <5> QED BY <5>1, <5>2 DEF Known, Fresh
      <4> QED BY <3>1, <4>1, <4>2
    <3>4. Tracked' = Tracked
      BY <2>3 DEF Tracked
    <3> QED BY <1>2, <1>4, <1>7, <2>3, <3>1, <3>2, <3>3, <3>4 DEF Ledger
  <2> QED BY <1>1, <2>2, <2>3
<1>8. Estranged => Estranged'
  BY <1>1 DEF FindsFooting, Estranged
<1> QED BY <1>5, <1>6, <1>7, <1>8 DEF Kept

-----------------------------------------------------------------------------
(* The invariant *)

LEMMA CalmSteps ==
    ASSUME Known, [Next]_vars
    PROVE  \/ Calm
           \/ \E m \in Msgs : Publish(m)
           \/ BrokerPublish
           \/ ConnectFails /\ ClearSession /\ LosesFooting
           \/ Restart \/ Reconnect
<1>1. CASE OtherTraffic \/ PollTimesOut \/ StopWaiting \/ ReceiveFails
           \/ ResendDone \/ Tick \/ UNCHANGED vars
           \/ (ConnectFails /\ UNCHANGED <<session, ghosts, footing>>)
  BY <1>1, UneventfulSteps, UneventfulCalm
<1>2. CASE (\E p \in Pids : RetryPublish(p) \/ ResendPublish(p)) \/ RetryPubrel
  BY <1>2, SendsSteps, SendsCalm, UneventfulCalm
<1>3. CASE PollStartsRetries
  BY <1>3, PollStartsRetriesCalm
<1>4. CASE ReceivePuback \/ ReceivePubcomp
  BY <1>4, AcknowledgedCalm
<1>5. CASE ReceivePubrec
  BY <1>5, ReceivePubrecCalm
<1>6. CASE BreakLink
  BY <1>6, BreakLinkCalm
<1>7. CASE BrokerPubrel
  BY <1>7, BrokerPubrelCalm
<1>8. ConnectFails => \/ ClearSession /\ LosesFooting
                      \/ UNCHANGED <<session, ghosts, footing>>
  BY DEF ConnectFails
<1> QED BY <1>1, <1>2, <1>3, <1>4, <1>5, <1>6, <1>7, <1>8
        DEF Next, Poll, RetryLoop, Receive, Resend, Broker

LEMMA InvNext == Inv /\ [Next]_vars => Inv'
<1> SUFFICES ASSUME Inv, [Next]_vars PROVE Inv'
  OBVIOUS
<1>1. Known /\ Kept /\ (~BrokerForgets => DeliveredOnce)
  BY DEF Inv
<1>2. (Typed /\ Fresh /\ NoReuse)'
  BY <1>1, NextTyped, FreshStep DEF Known, NoReuse
<1>3. Copies' /\ (DeliveredOnce /\ ~BrokerForgets => DeliveredOnce') /\ (Kept => Kept')
  <2>1. CASE Calm
    <3>1. ~Estranged' => ~Estranged
      BY <2>1 DEF Calm, Estranged
    <3> QED BY <1>1, <2>1, <3>1, CalmCopies, CalmOnce, CalmLedger DEF Kept, Known
  <2>2. CASE \E m \in Msgs : Publish(m)
    BY <1>1, <2>2, PublishCopies
  <2>3. CASE BrokerPublish
    BY <1>1, <2>3, BrokerPublishCopies
  <2>4. CASE (ConnectFails /\ ClearSession /\ LosesFooting) \/ Restart
    BY <1>1, <2>4, ClearsCopies
  <2>5. CASE Reconnect
    BY <1>1, <2>5, ReconnectCopies
  <2> QED BY <1>1, <2>1, <2>2, <2>3, <2>4, <2>5, CalmSteps
<1> QED BY <1>1, <1>2, <1>3 DEF Inv, Known

LEMMA InvInit == NoReuse /\ Init => Inv
<1> SUFFICES ASSUME NoReuse, Init PROVE Inv
  OBVIOUS
<1>1. Typed
  BY InitTyped
<1>2. Fresh
  BY DEF Init, Fresh
<1>3. /\ DOMAIN publishes = {} /\ DOMAIN owner = {} /\ toBroker = <<>> /\ toClient = <<>>
      /\ received = {} /\ pubrels = {} /\ published = {} /\ acked = {} /\ connected
      /\ footing = "shared" /\ deliveries = [m \in Msgs |-> 0]
  BY DEF Init
<1>4. (\A p, m : ~Copy(p, m) /\ ~Released(p)) /\ InOrder(toBroker)
  BY <1>3, InEmpty DEF Copy, Released
<1>5. \A p : ~Answered(p)
  <2>1. 1..Len(toClient) = {}
    BY <1>3
  <2> QED BY <2>1 DEF Answered
<1>6. (\A p, m : ~Carries(p, m)) /\ (\A p : ~Reached(p)) /\ Delivered = {}
  BY <1>3, <1>4, <1>5 DEF Carries, Reached, Delivered
<1>7. Copies
  BY <1>3, <1>4, <1>6 DEF Copies
<1>8. DeliveredOnce
  BY <1>3, <1>6, ConfigAssumption DEF DeliveredOnce
<1>9. Ledger
  BY <1>3, <1>4, <1>6 DEF Ledger
<1> QED BY <1>1, <1>2, <1>7, <1>8, <1>9 DEF Inv, Known, Kept

-----------------------------------------------------------------------------
(* What follows from it *)

\* MessageAcknowledged is reported only for a message that the broker has taken
\* over, until the broker resumes a session for a client that lost its own.
THEOREM AcknowledgedIsDelivered == Spec => []AckedWasDelivered
<1>1. Inv => AckedWasDelivered
  BY DEF Inv, Kept, Ledger, AckedWasDelivered
<1>2. CASE NoReuse
  BY <1>1, <1>2, InvInit, InvNext, PTL DEF Spec
<1>3. CASE ~NoReuse
  <2>1. AckedWasDelivered
    BY <1>3 DEF AckedWasDelivered
  <2> QED BY <1>3, <2>1, PTL
<1> QED BY <1>2, <1>3

\* A message that publish() stored is tracked by the session until it is
\* delivered, given up or cleared, short of estrangement.
THEOREM NothingIsForgotten == Spec => []NothingForgotten
<1>1. Inv => NothingForgotten
  BY DEF Inv, Kept, Ledger, NothingForgotten
<1>2. CASE NoReuse
  BY <1>1, <1>2, InvInit, InvNext, PTL DEF Spec
<1>3. CASE ~NoReuse
  <2>1. NothingForgotten
    BY <1>3 DEF NothingForgotten
  <2> QED BY <1>3, <2>1, PTL
<1> QED BY <1>2, <1>3

\* A QoS 2 message is delivered at most once by a broker that keeps its session,
\* through retries, resends, restarts and reconnections.
THEOREM Qos2DeliveredOnce == Spec => []ExactlyOnce
<1>1. Inv => ExactlyOnce
  BY DEF Inv, DeliveredOnce, ExactlyOnce
<1>2. CASE NoReuse
  BY <1>1, <1>2, InvInit, InvNext, PTL DEF Spec
<1>3. CASE ~NoReuse
  <2>1. ExactlyOnce
    BY <1>3 DEF ExactlyOnce
  <2> QED BY <1>3, <2>1, PTL
<1> QED BY <1>2, <1>3

-----------------------------------------------------------------------------
(* The promise, step by step *)

Abandoned == dropped \cup cleared
\* Nothing that DeliveryPromise speaks of changes.
Stutters == UNCHANGED <<published, Tracked, deliveries, acked, Abandoned>>

LEMMA Stuttering ==
    ASSUME Stutters
    PROVE  UNCHANGED Promise!vars
  BY DEF Stutters, Promise!vars, Abandoned

\* Each message has one entry, so removing entries removes their messages.
LEMMA Untracking ==
    ASSUME Known, NEW T, publishes' = Without(publishes, T)
    PROVE  Tracked' = Tracked \ {publishes[p].msg : p \in T \cap DOMAIN publishes}
<1>1. /\ DOMAIN publishes' = DOMAIN publishes \ T
      /\ \A p \in DOMAIN publishes' : publishes'[p].msg = publishes[p].msg
  BY Removing
<1>2. \A p, q \in DOMAIN publishes : publishes[p].msg = publishes[q].msg => p = q
  <2> SUFFICES ASSUME NEW p \in DOMAIN publishes, NEW q \in DOMAIN publishes,
                      publishes[p].msg = publishes[q].msg
               PROVE  p = q
    OBVIOUS
  <2>1. p \in Pids /\ q \in Pids /\ publishes[p].msg \in Msgs
    BY DEF Known, Typed, TypeOK, Entries
  <2>2. Carries(p, publishes[p].msg) /\ Carries(q, publishes[p].msg)
    BY DEF Carries
  <2> QED BY <2>1, <2>2 DEF Known, Copies
<1>3. \A n : n \in Tracked' <=> \E p \in DOMAIN publishes \ T : publishes[p].msg = n
  BY <1>1 DEF Tracked
<1>4. \A n : n \in Tracked <=> \E p \in DOMAIN publishes : publishes[p].msg = n
  BY DEF Tracked
<1> QED BY <1>2, <1>3, <1>4

LEMMA TrackedAreMessages ==
    ASSUME Known
    PROVE  Tracked \subseteq Msgs
  BY DEF Known, Typed, TypeOK, Entries, Tracked

\* Most calm steps are steps of no one but the client, or of the network.
LEMMA StutteringSteps ==
    ASSUME Known,
           Uneventful \/ Sends \/ BreakLink \/ BrokerPubrel
    PROVE  Stutters
<1> USE DEF session, call, network, ghosts, bounds
<1>1. CASE Uneventful \/ Sends
  <2>1. /\ DOMAIN publishes' = DOMAIN publishes
        /\ \A p \in DOMAIN publishes : publishes'[p].msg = publishes[p].msg
        /\ UNCHANGED <<published, deliveries, acked, dropped, cleared>>
    BY <1>1 DEF Uneventful, exchanges, Sends
  <2>2. Tracked' = Tracked
    BY <2>1 DEF Tracked
  <2> QED BY <2>1, <2>2 DEF Stutters, Abandoned
<1>2. CASE BreakLink \/ BrokerPubrel
  <2>1. UNCHANGED <<publishes, published, deliveries, acked, dropped, cleared>>
    BY <1>2 DEF BreakLink, BrokerPubrel, BrokerTakes
  <2> QED BY <2>1 DEF Stutters, Abandoned, Tracked
<1> QED BY <1>1, <1>2

LEMMA PublishAccepts ==
    ASSUME Known, NEW m \in Msgs, Publish(m)
    PROVE  Promise!Accept(m)
<1>0. PICK pid : pid = nextPid
  OBVIOUS
<1>1. /\ m \notin published /\ pid \notin DOMAIN publishes
      /\ DOMAIN publishes' = DOMAIN publishes \cup {pid}
      /\ publishes'[pid].msg = m
      /\ \A q \in DOMAIN publishes : publishes'[q] = publishes[q]
      /\ published' = published \cup {m}
      /\ UNCHANGED <<deliveries, acked, dropped, cleared>>
  BY <1>0, PublishEffect
<1>2. Tracked' = Tracked \cup {m}
  <2>1. \A n : n \in Tracked' <=> \E p \in DOMAIN publishes' : publishes'[p].msg = n
    BY DEF Tracked
  <2>2. \A n : n \in Tracked <=> \E p \in DOMAIN publishes : publishes[p].msg = n
    BY DEF Tracked
  <2>3. \A n : n \in Tracked' <=> n \in Tracked \/ n = m
    BY <1>1, <2>1, <2>2
  <2> QED BY <2>3
<1> QED BY <1>1, <1>2 DEF Promise!Accept

LEMMA PollAbandons ==
    ASSUME Known, PollStartsRetries
    PROVE  \E S \in SUBSET Msgs : Promise!Abandon(S)
<1> USE DEF session, call, network, ghosts, bounds
<1> DEFINE S == {publishes[p].msg : p \in Exhausted}
<1>1. /\ publishes' = Without(publishes, Exhausted) /\ dropped' = dropped \cup S
      /\ UNCHANGED <<published, deliveries, acked, cleared>>
  BY DEF PollStartsRetries
<1>2. Exhausted \cap DOMAIN publishes = Exhausted
  BY DEF Exhausted
<1>3. Tracked' = Tracked \ S
  BY <1>1, <1>2, Untracking
<1>4. S \subseteq Tracked
  BY DEF Exhausted, Tracked
<1>5. S \in SUBSET Msgs
  BY <1>4, TrackedAreMessages
<1>6. (dropped \cup cleared)' = (dropped \cup cleared) \cup S
  BY <1>1
<1> HIDE DEF S
<1>7. Promise!Abandon(S)
  BY <1>1, <1>3, <1>4, <1>6 DEF Promise!Abandon
<1> QED BY <1>5, <1>7

\* session.clear(), wherever it happens.
LEMMA ClearAbandons ==
    ASSUME Known, ClearSession
    PROVE  \E S \in SUBSET Msgs : Promise!Abandon(S)
<1>1. /\ DOMAIN publishes' = {} /\ cleared' = cleared \cup Tracked
      /\ UNCHANGED <<published, deliveries, acked, dropped>>
  BY DEF ClearSession
<1>2. Tracked' = {}
  BY <1>1 DEF Tracked
<1>3. (dropped \cup cleared)' = (dropped \cup cleared) \cup Tracked
  BY <1>1
<1>4. Promise!Abandon(Tracked)
  BY <1>1, <1>2, <1>3 DEF Promise!Abandon
<1> QED BY <1>4, TrackedAreMessages

\* An acknowledgement of whatever kind is for a message the broker has.
LEMMA AnswerHandsOver ==
    ASSUME Known, Ledger, ReceivePuback \/ ReceivePubrec \/ ReceivePubcomp
    PROVE  Stutters \/ \E m \in Msgs : Promise!HandOver(m)
<1> USE DEF session, call, network, ghosts, bounds
<1> DEFINE p == Head(toClient).pid
<1>1. /\ toClient # <<>>
      /\ publishes' = Without(publishes, {p}) \/ (p \notin DOMAIN publishes /\ UNCHANGED publishes)
      /\ acked' \in {acked, acked \cup {owner[q] : q \in {p} \cap DOMAIN owner}}
      /\ UNCHANGED <<published, deliveries, dropped, cleared>>
  BY DEF ReceivePuback, ReceivePubrec, ReceivePubcomp, Incoming, Acknowledge
<1>2. p \in Pids /\ Reached(p)
  BY <1>1, Answering DEF Known, Typed, Reached
<1> HIDE DEF p
<1>3. CASE p \in DOMAIN owner
  <2>1. owner[p] \in Delivered
    BY <1>2, <1>3 DEF Ledger
  <2>2. owner[p] \in Msgs /\ deliveries[owner[p]] > 0
    BY <2>1 DEF Delivered
  <2>3. Tracked' \in {Tracked, Tracked \ {owner[p]}}
    <3>1. CASE p \in DOMAIN publishes
      <4>1. publishes[p].msg = owner[p]
        BY <3>1 DEF Ledger
      <4>2. {publishes[q].msg : q \in {p} \cap DOMAIN publishes} = {owner[p]}
        BY <3>1, <4>1
      <4> QED BY <1>1, <3>1, <4>2, Untracking
    <3>2. CASE p \notin DOMAIN publishes
      <4>1. {publishes[q].msg : q \in {p} \cap DOMAIN publishes} = {}
        BY <3>2
      <4>2. CASE publishes' = Without(publishes, {p})
        BY <4>1, <4>2, Untracking
      <4>3. CASE UNCHANGED publishes
        BY <4>3 DEF Tracked
      <4> QED BY <1>1, <4>2, <4>3
    <3> QED BY <3>1, <3>2
  <2>4. acked' \in {acked, acked \cup {owner[p]}}
    BY <1>1, <1>3
  <2>5. Promise!HandOver(owner[p])
    BY <1>1, <2>2, <2>3, <2>4 DEF Promise!HandOver
  <2> QED BY <2>2, <2>5
<1>4. CASE p \notin DOMAIN owner
  <2>1. p \notin DOMAIN publishes
    BY <1>4 DEF Ledger
  <2>2. {publishes[q].msg : q \in {p} \cap DOMAIN publishes} = {}
    BY <2>1
  <2>3. Tracked' = Tracked
    <3>1. CASE publishes' = Without(publishes, {p})
      BY <2>2, <3>1, Untracking
    <3>2. CASE UNCHANGED publishes
      BY <3>2 DEF Tracked
    <3> QED BY <1>1, <3>1, <3>2
  <2>4. acked' = acked
    BY <1>1, <1>4
  <2> QED BY <1>1, <2>3, <2>4 DEF Stutters, Abandoned
<1> QED BY <1>3, <1>4

LEMMA BrokerDelivers ==
    ASSUME Known, ~BrokerForgets => DeliveredOnce, BrokerPublish
    PROVE  Stutters \/ \E m \in Msgs : Promise!Deliver(m)
<1> USE DEF session, call, network, ghosts, bounds
<1>0. PICK p, m : p = Head(toBroker).pid /\ m = Head(toBroker).msg
  OBVIOUS
<1>1. /\ toBroker # <<>> /\ Head(toBroker).type = "PUBLISH"
      /\ UNCHANGED <<publishes, published, acked, dropped, cleared>>
  BY DEF BrokerPublish, BrokerTakes
<1>2. UNCHANGED deliveries \/ (Deliver(m) /\ (m \in Qos2 => p \notin received))
  BY <1>0 DEF BrokerPublish
<1>3. toBroker \in Seq(ToBroker)
  BY DEF Known, Typed, TypeOK
<1>4. p \in Pids /\ m \in Msgs /\ Head(toBroker) = Publishing(p, m)
  <2>1. Head(toBroker) \in ToBroker
    BY <1>1, <1>3, TailType
  <2> QED BY <1>0, <1>1, <2>1, Packets
<1>5. Carries(p, m)
  BY <1>1, <1>3, <1>4, InTail DEF Copy, Carries
<1>6. Tracked' = Tracked
  BY <1>1 DEF Tracked
<1>7. CASE UNCHANGED deliveries
  BY <1>1, <1>6, <1>7 DEF Stutters, Abandoned
<1>8. CASE Deliver(m) /\ (m \in Qos2 => p \notin received)
  <2>1. m \in published
    BY <1>4, <1>5 DEF Known, Copies
  <2>2. m \in (IF BrokerForgets THEN {} ELSE Qos2) => deliveries[m] = 0
    <3> SUFFICES ASSUME ~BrokerForgets, m \in Qos2 PROVE deliveries[m] = 0
      OBVIOUS
    <3>1. ~(deliveries[m] > 0)
      BY <1>4, <1>5, <1>8 DEF DeliveredOnce
    <3>2. deliveries[m] \in 0..2
      BY <1>4 DEF Known, Typed, TypeOK
    <3> QED BY <3>1, <3>2
  <2>3. Promise!Deliver(m)
    BY <1>1, <1>6, <1>8, <2>1, <2>2 DEF Promise!Deliver, Deliver
  <2> QED BY <1>4, <2>3
<1> QED BY <1>2, <1>7, <1>8

LEMMA StepKeepsPromise ==
    ASSUME Inv, [Next]_vars, ~Estranged
    PROVE  [Promise!Next]_(Promise!vars)
<1>1. Known /\ Ledger /\ (~BrokerForgets => DeliveredOnce)
  BY DEF Inv, Kept
<1>2. CASE OtherTraffic \/ PollTimesOut \/ StopWaiting \/ ReceiveFails
           \/ ResendDone \/ Tick \/ UNCHANGED vars
           \/ (ConnectFails /\ UNCHANGED <<session, ghosts, footing>>)
  BY <1>1, <1>2, UneventfulSteps, StutteringSteps, Stuttering
<1>3. CASE (\E p \in Pids : RetryPublish(p) \/ ResendPublish(p)) \/ RetryPubrel
  BY <1>1, <1>3, SendsSteps, StutteringSteps, Stuttering
<1>4. CASE BreakLink \/ BrokerPubrel
  BY <1>1, <1>4, StutteringSteps, Stuttering
<1>5. CASE PollStartsRetries
  BY <1>1, <1>5, PollAbandons DEF Promise!Next
<1>6. CASE ReceivePuback \/ ReceivePubrec \/ ReceivePubcomp
  BY <1>1, <1>6, AnswerHandsOver, Stuttering DEF Promise!Next
<1>7. CASE BrokerPublish
  BY <1>1, <1>7, BrokerDelivers, Stuttering DEF Promise!Next
<1>8. CASE ClearSession
  BY <1>1, <1>8, ClearAbandons DEF Promise!Next
<1>9. CASE \E m \in Msgs : Publish(m)
  BY <1>1, <1>9, PublishAccepts DEF Promise!Next
<1>10. CASE Reconnect /\ UNCHANGED <<session, ghosts>>
  <2>1. Stutters
    BY <1>10 DEF session, ghosts, Stutters, Tracked, Abandoned
  <2> QED BY <2>1, Stuttering
<1>11. /\ ConnectFails => ClearSession \/ UNCHANGED <<session, ghosts, footing>>
       /\ Restart => ClearSession
       /\ Reconnect => ClearSession \/ UNCHANGED <<session, ghosts>>
  BY DEF ConnectFails, Restart, Reconnect, session, ghosts
<1> QED BY <1>2, <1>3, <1>4, <1>5, <1>6, <1>7, <1>8, <1>9, <1>10, <1>11
        DEF Next, Poll, RetryLoop, Receive, Resend, Broker

\* Broker and client are estranged for good.
LEMMA EstrangedForGood ==
    ASSUME Inv, [Next]_vars, Estranged
    PROVE  Estranged'
<1>1. Known
  BY DEF Inv
<1>2. CASE Calm
  BY <1>2 DEF Calm, Estranged
<1>3. CASE \E m \in Msgs : Publish(m)
  BY <1>1, <1>3, PublishEffect DEF Estranged
<1>4. CASE BrokerPublish
  BY <1>4 DEF BrokerPublish, BrokerTakes, bounds, history, Estranged
<1>5. CASE (ConnectFails /\ ClearSession /\ LosesFooting) \/ Restart
  BY <1>5 DEF Restart, LosesFooting, Estranged
<1>6. CASE Reconnect
  BY <1>6 DEF Reconnect, FindsFooting, ghosts, Estranged
<1> QED BY <1>1, <1>2, <1>3, <1>4, <1>5, <1>6, CalmSteps

\* The client, its session, the network and the broker implement
\* DeliveryPromise while no client hands out an identifier twice, until a
\* broker resumes its session for a client that lost its own.
THEOREM PromiseIsKept == NoReuse => (Spec => KeepsPromise)
<1> SUFFICES ASSUME NoReuse PROVE Spec => KeepsPromise
  OBVIOUS
<1>1. Init => Promise!Init
  BY DEF Init, Promise!Init, Tracked
<1>2. Inv /\ [Next]_vars => [Promise!Next \/ Estranged']_(Promise!vars)
  BY StepKeepsPromise, EstrangedForGood
<1>3. Init => Inv
  BY InvInit
<1> QED BY <1>1, <1>2, <1>3, InvNext, PTL DEF Spec, KeepsPromise
=============================================================================
