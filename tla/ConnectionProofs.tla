-------------------------- MODULE ConnectionProofs --------------------------
(***************************************************************************)
(* Theorems about Connection, for every configuration of the client, every *)
(* number of lost connections and cancelled calls and every channel size.  *)
(***************************************************************************)
EXTENDS Connection, WellFoundedInduction, TLAPS

\* Packets travel in sequences of packets.
LEMMA TailType ==
    ASSUME NEW S, NEW q \in Seq(S), q # <<>>
    PROVE  Tail(q) \in Seq(S) /\ Head(q) \in S
  OBVIOUS

LEMMA AppendType ==
    ASSUME NEW S, NEW q \in Seq(S), NEW x \in S
    PROVE  Append(q, x) \in Seq(S)
  OBVIOUS

LEMMA EmptyType == ASSUME NEW S PROVE <<>> \in Seq(S)
  OBVIOUS

LEMMA Packets ==
    /\ "CONNECT" \in FromClient /\ "DISCONNECT" \in FromClient
    /\ "ACCEPTED" \in FromBroker /\ "RESUMED" \in FromBroker /\ "REFUSED" \in FromBroker
    /\ "DATA" \in FromBroker /\ "BAD" \in FromBroker
  BY DEF FromClient, FromBroker

Stats == [connects: 0..StatCap, disconnects: 0..StatCap,
          reconnects: 0..StatCap, errors: 0..StatCap]

LEMMA CappedType ==
    ASSUME NEW n \in 0..StatCap
    PROVE  Capped(n) \in 0..StatCap
  BY ConfigAssumption DEF Capped

\* The arms of set_connection_state keep every statistic within its cap.
LEMMA CountType ==
    ASSUME NEW s \in Stats, NEW from, NEW to
    PROVE  Count(s, from, to) \in Stats
<1>1. /\ Capped(s.connects) \in 0..StatCap /\ Capped(s.disconnects) \in 0..StatCap
      /\ Capped(s.reconnects) \in 0..StatCap /\ Capped(s.errors) \in 0..StatCap
  BY CappedType DEF Stats
<1>2. CASE from = "Connecting" /\ to = "Connected"
  BY <1>1, <1>2 DEF Count, Stats
<1>3. CASE to = "Disconnected"
  BY <1>1, <1>3 DEF Count, Stats
<1>4. CASE to = "Error"
  BY <1>1, <1>4 DEF Count, Stats
<1>5. CASE ~(from = "Connecting" /\ to = "Connected") /\ to # "Disconnected" /\ to # "Error"
  BY <1>5 DEF Count
<1> QED BY <1>2, <1>3, <1>4, <1>5

LEMMA ZeroInterval == 0 \in Intervals
  BY ConfigAssumption DEF Intervals

LEMMA NextIntervalType ==
    ASSUME interval \in Intervals
    PROVE  NextInterval \in Intervals
<1>1. Scaled[interval] \in Nat
  BY ConfigAssumption
<1>2. Limited(Scaled[interval]) \in Intervals
  BY <1>1, ConfigAssumption DEF Limited, Intervals
<1> QED BY <1>2, ConfigAssumption DEF NextInterval, Intervals

-----------------------------------------------------------------------------

LEMMA InitTypeOK == Init => TypeOK
<1> SUFFICES ASSUME Init PROVE TypeOK
  OBVIOUS
<1>1. toBroker \in Seq(FromClient) /\ toClient \in Seq(FromBroker)
  BY EmptyType DEF Init
<1>2. stats \in [connects: 0..StatCap, disconnects: 0..StatCap,
                reconnects: 0..StatCap, errors: 0..StatCap]
  BY ConfigAssumption DEF Init
<1>3. breaks \in 0..MaxBreaks /\ cancels \in 0..MaxCancels
  BY ConfigAssumption DEF Init
<1> QED BY <1>1, <1>2, <1>3, ZeroInterval DEF Init, TypeOK, States, AwaitPoints, Callers

\* What the ends of the calls have in common.
LEMMA FailedFromType ==
    ASSUME TypeOK, NEW by, FailedFrom("Connecting", by)
    PROVE  connState' \in States /\ stats' \in Stats
<1>1. Count(stats, "Connecting", "Error") \in Stats
  BY CountType DEF TypeOK, Stats
<1>2. Count(Count(stats, "Connecting", "Error"), "Error", "Disconnected") \in Stats
  BY <1>1, CountType
<1> QED BY <1>1, <1>2 DEF FailedFrom, States

LEMMA SetStateType ==
    ASSUME TypeOK, NEW to \in States, SetState(to)
    PROVE  connState' \in States /\ stats' \in Stats
  BY CountType DEF SetState, TypeOK, Stats

LEMMA SendType ==
    ASSUME TypeOK, NEW packet \in FromClient, SendOk(packet)
    PROVE  toBroker' \in Seq(FromClient)
<1>1. Append(toBroker, packet) \in Seq(FromClient)
  BY AppendType DEF TypeOK
<1> QED BY <1>1 DEF SendOk, TypeOK

LEMMA BeginConnectType ==
    ASSUME TypeOK, NEW by \in Callers, BeginConnect(by)
    PROVE  connState' \in States /\ stats' \in Stats /\ pc' \in AwaitPoints /\ caller' \in Callers
  BY FailedFromType, SetStateType
     DEF BeginConnect, Idle, Park, States, AwaitPoints, Callers

\* Type correctness is preserved by every action on its own.
LEMMA NextTypeOK == TypeOK /\ [Next]_vars => TypeOK'
<1> SUFFICES ASSUME TypeOK, [Next]_vars PROVE TypeOK'
  OBVIOUS
<1> USE DEF client, call, network, ghosts, faults, Stats
<1>1. CASE Connect
  BY <1>1, BeginConnectType DEF Connect, TypeOK, Callers
<1>2. CASE SendConnect
  BY <1>2, FailedFromType, SendType, Packets
     DEF SendConnect, SendFails, TypeOK, Idle, Park, AwaitPoints, Callers
<1>3. CASE ConnackAccepted
  <2>1. connState' \in States /\ stats' \in Stats
    BY <1>3, SetStateType DEF ConnackAccepted, States
  <2>2. toClient' \in Seq(FromBroker)
    BY <1>3, TailType DEF ConnackAccepted, TypeOK
  <2>3. pc' \in AwaitPoints /\ caller' \in Callers
    BY <1>3 DEF ConnackAccepted, ConnectDone, TypeOK, Idle, Park, AwaitPoints, Callers
  <2> QED BY <1>3, <2>1, <2>2, <2>3, ZeroInterval DEF ConnackAccepted, TypeOK
<1>4. CASE ConnackRejected
  <2>1. toClient' \in Seq(FromBroker)
    <3>1. toClient # <<>> => Tail(toClient) \in Seq(FromBroker)
      BY TailType DEF TypeOK
    <3> QED BY <1>4, <3>1 DEF ConnackRejected, TypeOK
  <2> QED BY <1>4, <2>1, FailedFromType
          DEF ConnackRejected, TypeOK, Idle, AwaitPoints, Callers
<1>5. CASE Resend
  BY <1>5, SetStateType
     DEF Resend, ConnectDone, TypeOK, Idle, Park, States, AwaitPoints, Callers
<1>6. CASE Reconnect
  BY <1>6, NextIntervalType
     DEF Reconnect, BeginReconnect, Park, TypeOK, AwaitPoints, Callers
<1>7. CASE DelayOver
  BY <1>7, BeginConnectType DEF DelayOver, TypeOK
<1>8. CASE Disconnect
  <2>1. Count(Count(stats, connState, "Disconnecting"), "Disconnecting", "Disconnected") \in Stats
    BY CountType DEF TypeOK
  <2> QED BY <1>8, <2>1, SetStateType
          DEF Disconnect, Park, TypeOK, States, AwaitPoints, Callers
<1>9. CASE SendDisconnect
  <2>1. "Disconnected" \in States
    BY DEF States
  <2>2. connState' \in States /\ stats' \in Stats
    BY <1>9, <2>1, SetStateType DEF SendDisconnect, TypeOK, Stats
  <2>3. toBroker' \in Seq(FromClient) /\ toClient' \in Seq(FromBroker)
    BY <1>9, EmptyType DEF SendDisconnect, SendFails, TypeOK
  <2> QED BY <1>9, <2>2, <2>3
          DEF SendDisconnect, TypeOK, Idle, Park, AwaitPoints, Callers
<1>10. CASE DisconnectDone
  BY <1>10, SetStateType DEF DisconnectDone, TypeOK, Idle, States, AwaitPoints, Callers
<1>11. CASE PollFindsLoss
  <2>1. CASE BeginReconnect("poll") /\ UNCHANGED <<connState, stats>>
    BY <1>11, <2>1, NextIntervalType
       DEF PollFindsLoss, BeginReconnect, Park, TypeOK, AwaitPoints, Callers
  <2>2. CASE SetState("Disconnected") /\ UNCHANGED <<attempt, interval, call>>
    <3>1. connState' \in States /\ stats' \in Stats
      BY <2>2, SetStateType DEF States
    <3> QED BY <1>11, <2>2, <3>1 DEF PollFindsLoss, TypeOK
  <2> QED BY <1>11, <2>1, <2>2 DEF PollFindsLoss
<1>12. CASE PollDisconnected
  BY <1>12, SetStateType DEF PollDisconnected, TypeOK, States
<1>13. CASE PollLive
  BY <1>13 DEF PollLive, Park, TypeOK, AwaitPoints, Callers
<1>14. CASE PollTimers
  BY <1>14, SetStateType DEF PollTimers, Park, Idle, TypeOK, States, AwaitPoints, Callers
<1>15. CASE PollReceive
  <2>1. toClient' \in Seq(FromBroker)
    <3>1. toClient # <<>> => Tail(toClient) \in Seq(FromBroker)
      BY TailType DEF TypeOK
    <3> QED BY <1>15, <3>1 DEF PollReceive, TypeOK
  <2> QED BY <1>15, <2>1, SetStateType DEF PollReceive, Idle, TypeOK, States, AwaitPoints, Callers
<1>16. CASE CancelCall
  <2>1. toBroker' \in Seq(FromClient)
    BY <1>16, SendType, Packets DEF CancelCall, TypeOK
  <2>2. cancels' \in 0..MaxCancels
    BY <1>16, ConfigAssumption DEF CancelCall, TypeOK
  <2> QED BY <1>16, <2>1, <2>2 DEF CancelCall, Idle, TypeOK, AwaitPoints, Callers
<1>17. CASE BreakLink
  <2>1. breaks' \in 0..MaxBreaks
    BY <1>17, ConfigAssumption DEF BreakLink, TypeOK
  <2>2. toBroker' \in Seq(FromClient) /\ toClient' \in Seq(FromBroker)
    BY <1>17, EmptyType DEF BreakLink, TypeOK
  <2> QED BY <1>17, <2>1, <2>2 DEF BreakLink, TypeOK
<1>18. CASE RestoreLink
  BY <1>18, EmptyType DEF RestoreLink, TypeOK
<1>19. CASE BrokerReadsConnect
  <2>1. \A answer \in FromBroker : Append(toClient, answer) \in Seq(FromBroker)
    BY AppendType DEF TypeOK
  <2>2. toBroker # <<>> => Tail(toBroker) \in Seq(FromClient)
    BY TailType DEF TypeOK
  <2>3. toBroker' \in Seq(FromClient) /\ toClient' \in Seq(FromBroker)
    BY <1>19, <2>1, <2>2, EmptyType, Packets DEF BrokerReadsConnect, HangUp, TypeOK
  <2> QED BY <1>19, <2>3 DEF BrokerReadsConnect, HangUp, TypeOK
<1>20. CASE BrokerReadsDisconnect
  BY <1>20, EmptyType DEF BrokerReadsDisconnect, HangUp, TypeOK
<1>21. CASE BrokerSends
  <2>1. toClient' \in Seq(FromBroker)
    BY <1>21, AppendType, Packets DEF BrokerSends, TypeOK
  <2> QED BY <1>21, <2>1 DEF BrokerSends, TypeOK
<1>22. CASE UNCHANGED vars
  BY <1>22 DEF vars, TypeOK
<1> QED
  BY <1>1, <1>2, <1>3, <1>4, <1>5, <1>6, <1>7, <1>8, <1>9, <1>10, <1>11, <1>12, <1>13,
     <1>14, <1>15, <1>16, <1>17, <1>18, <1>19, <1>20, <1>21, <1>22
     DEF Next, ClientCall, ClientStep, Environment, BrokerReads

\* Every variable of the client, the link and the broker keeps its type.
THEOREM TypeCorrect == Spec => []TypeOK
  BY InitTypeOK, NextTypeOK, PTL DEF Spec

-----------------------------------------------------------------------------
(* The client and its engine agree *)

\* The engine's flag is cleared only where disconnect() sends DISCONNECT, and
\* the client has left Connected by then.
LeftConnected == pc = "sendDisconnect" => connState = "Disconnecting"

Agreement == ConnectedMeansEngineConnected /\ LeftConnected

LEMMA InitAgreement == Init => Agreement
  BY DEF Init, Agreement, ConnectedMeansEngineConnected, LeftConnected

\* A failed connect() never ends Connected and never parks at a send.
LEMMA BeginConnectAgreement ==
    ASSUME NEW by, BeginConnect(by)
    PROVE  connState' # "Connected" /\ pc' # "sendDisconnect"
  BY DEF BeginConnect, FailedFrom, SetState, Idle, Park

LEMMA NextAgreement == Agreement /\ [Next]_vars => Agreement'
<1> SUFFICES ASSUME Agreement, [Next]_vars PROVE Agreement'
  OBVIOUS
<1> USE DEF Agreement, ConnectedMeansEngineConnected, LeftConnected,
            client, call, network, ghosts, faults, At, Idle, Park
<1>1. CASE Connect \/ DelayOver
  BY <1>1, BeginConnectAgreement DEF Connect, DelayOver
<1>2. CASE SendConnect \/ ConnackRejected
  BY <1>2 DEF SendConnect, ConnackRejected, FailedFrom
<1>3. CASE ConnackAccepted
  BY <1>3 DEF ConnackAccepted, ConnectDone
<1>4. CASE Resend
  BY <1>4 DEF Resend, ConnectDone, SetState
<1>5. CASE Reconnect \/ PollFindsLoss
  BY <1>5 DEF Reconnect, PollFindsLoss, BeginReconnect, SetState
<1>6. CASE Disconnect
  BY <1>6 DEF Disconnect, SetState
<1>7. CASE SendDisconnect
  BY <1>7 DEF SendDisconnect, SetState
<1>8. CASE DisconnectDone \/ PollDisconnected \/ PollLive
  BY <1>8 DEF DisconnectDone, PollDisconnected, PollLive, SetState
<1>9. CASE PollTimers \/ PollReceive
  BY <1>9 DEF PollTimers, PollReceive, SetState
<1>10. CASE CancelCall
  BY <1>10 DEF CancelCall
<1>11. CASE Environment
  BY <1>11 DEF Environment, BreakLink, RestoreLink, BrokerReads, BrokerReadsConnect,
               BrokerReadsDisconnect, BrokerSends
<1>12. CASE UNCHANGED vars
  BY <1>12 DEF vars
<1> QED
  BY <1>1, <1>2, <1>3, <1>4, <1>5, <1>6, <1>7, <1>8, <1>9, <1>10, <1>11, <1>12
     DEF Next, ClientCall, ClientStep

\* In every behaviour, whichever calls fail or are dropped, a client that
\* reports Connected has an engine that holds the connection.
THEOREM ConnectedAgrees == Spec => []ConnectedMeansEngineConnected
<1>1. Agreement => ConnectedMeansEngineConnected
  BY DEF Agreement
<1> QED BY <1>1, InitAgreement, NextAgreement, PTL DEF Spec

-----------------------------------------------------------------------------
(* The client and the broker agree *)

Accepts == {"ACCEPTED", "RESUMED"}
Answered == \E i \in 1..Len(toClient) : toClient[i] \in Accepts

\* On a link that is up, an accepting CONNACK that was read or is still to be
\* read comes from a broker that holds the session: every way a session ends
\* takes the link with it, and a new link carries nothing over.
BothEnds == link = "up" /\ (handshakeHere \/ Answered) => broker = "open"

\* Reading a packet leaves no answer that was not there.
LEMMA TailAnswers ==
    ASSUME NEW S, NEW q \in Seq(S), q # <<>>,
           NEW i \in 1..Len(Tail(q)), Tail(q)[i] \in Accepts
    PROVE  \E j \in 1..Len(q) : q[j] \in Accepts
<1>1. i + 1 \in 1..Len(q) /\ q[i + 1] = Tail(q)[i]
  OBVIOUS
<1> QED BY <1>1

LEMMA InitBothEnds == Init => BothEnds
  BY DEF Init, BothEnds, Answered

LEMMA NextBothEnds == TypeOK /\ BothEnds /\ [Next]_vars => BothEnds'
<1> SUFFICES ASSUME TypeOK, BothEnds, [Next]_vars PROVE BothEnds'
  OBVIOUS
<1> USE DEF client, call, network, ghosts, faults
<1>1. ASSUME UNCHANGED <<link, broker, toClient, handshakeHere>> PROVE BothEnds'
  BY <1>1 DEF BothEnds, Answered
<1>2. ASSUME link' # "up" PROVE BothEnds'
  BY <1>2 DEF BothEnds
<1>3. ASSUME toClient # <<>>, toClient' = Tail(toClient), UNCHANGED <<link, broker, handshakeHere>>
      PROVE  BothEnds'
  <2>1. Answered' => Answered
    BY <1>3, TailAnswers DEF TypeOK, Answered
  <2> QED BY <1>3, <2>1 DEF BothEnds
<1>4. CASE ConnackAccepted
  <2>1. Len(toClient) \in Nat /\ Len(toClient) >= 1 /\ toClient[1] \in Accepts
    BY <1>4 DEF ConnackAccepted, TypeOK, Accepts
  <2>2. Answered
    BY <2>1 DEF Answered
  <2> QED BY <1>4, <2>2 DEF ConnackAccepted, BothEnds
<1>5. CASE ConnackRejected \/ PollReceive
  BY <1>1, <1>3, <1>5 DEF ConnackRejected, PollReceive
<1>6. CASE SendDisconnect
  BY <1>1, <1>2, <1>6 DEF SendDisconnect, SendFails
<1>7. CASE Connect \/ Reconnect \/ Disconnect \/ PollFindsLoss \/ PollDisconnected \/ PollLive
  BY <1>1, <1>7 DEF Connect, Reconnect, Disconnect, PollFindsLoss, PollDisconnected, PollLive
<1>8. CASE SendConnect \/ Resend \/ DelayOver \/ DisconnectDone \/ PollTimers \/ CancelCall
  BY <1>1, <1>8 DEF SendConnect, Resend, DelayOver, DisconnectDone, PollTimers, CancelCall
<1>9. CASE BreakLink
  BY <1>2, <1>9 DEF BreakLink
<1>10. CASE RestoreLink
  <2>1. toClient' = <<>> /\ handshakeHere' = FALSE
    BY <1>10 DEF RestoreLink
  <2> QED BY <2>1 DEF BothEnds, Answered
<1>11. CASE BrokerReadsConnect
  BY <1>2, <1>11 DEF BrokerReadsConnect, HangUp, BothEnds
<1>12. CASE BrokerReadsDisconnect
  BY <1>2, <1>12 DEF BrokerReadsDisconnect, HangUp
<1>13. CASE BrokerSends
  BY <1>13 DEF BrokerSends, BothEnds
<1>14. CASE UNCHANGED vars
  BY <1>1, <1>14 DEF vars
<1> QED
  BY <1>4, <1>5, <1>6, <1>7, <1>8, <1>9, <1>10, <1>11, <1>12, <1>13, <1>14
     DEF Next, ClientCall, ClientStep, Environment, BrokerReads

\* Whatever calls are made, fail or are dropped, and however often the link is
\* lost and replaced: on the link of its handshake, a client that reports
\* Connected has a broker that accepted it.
THEOREM ConnectedToOpenBroker == Spec => []ConnectedMeansBrokerOpen
<1>1. BothEnds => ConnectedMeansBrokerOpen
  BY DEF BothEnds, ConnectedMeansBrokerOpen
<1> QED BY <1>1, TypeCorrect, InitBothEnds, NextBothEnds, PTL DEF Spec

-----------------------------------------------------------------------------
(* One CONNECT per connection, and no session left behind *)

\* As long as no call was dropped: a connect() in progress has found the engine
\* disconnected; CONNECT is on its way only while connect() waits for the
\* answer, and to a broker without a session; a session the engine does not
\* know of is one whose acceptance is the next packet to be read; and neither
\* disconnect() nor poll()'s reconnect() goes on beside a session.
NoSession == link # "up" \/ broker = "none"
Told == toBroker = <<>> \/ (toBroker = <<"CONNECT">> /\ pc = "awaitConnack" /\ broker = "none")
Known == engineConnected \/ (pc = "awaitConnack" /\ toClient # <<>> /\ Head(toClient) \in Accepts)
Orderly == cancels = 0 =>
    /\ pc \in {"sendConnect", "awaitConnack"} => ~engineConnected /\ connState = "Connecting"
    /\ pc = "close" \/ (pc = "backoff" /\ caller = "poll") => NoSession
    /\ connState = "Disconnected" => NoSession
    /\ link = "up" /\ broker = "none" => toClient = <<>>
    /\ link = "up" => Told
    /\ link = "up" /\ broker = "open" => Known

LEMMA InitOrderly == Init => Orderly
  BY DEF Init, Orderly, NoSession, Told

\* A step of a call that leaves the network alone.
LEMMA CallOrderly ==
    ASSUME TypeOK, Orderly, cancels' = cancels,
           UNCHANGED <<link, toBroker, broker>>,
           link # "up" \/ toClient' = toClient,
           pc # "awaitConnack" \/ link # "up",
           link = "up" /\ broker = "open" => engineConnected',
           pc' \in {"sendConnect", "awaitConnack"} => ~engineConnected' /\ connState' = "Connecting",
           cancels = 0 /\ (pc' = "close" \/ (pc' = "backoff" /\ caller' = "poll")) => NoSession,
           cancels = 0 /\ connState' = "Disconnected" => NoSession
    PROVE  Orderly'
  BY DEF Orderly, NoSession, Told, Known

LEMMA BeginConnectOrderly ==
    ASSUME TypeOK, Orderly, NEW by, BeginConnect(by), pc \in {"idle", "backoff"},
           by = "poll" => pc = "backoff" /\ caller = "poll",
           UNCHANGED <<engineConnected, attempt, interval, network, ghosts, faults>>
    PROVE  Orderly'
<1>1. CASE engineConnected
  <2>1. pc' = "idle" /\ (by = "poll" \/ connState' # "Disconnected")
    BY <1>1 DEF BeginConnect, FailedFrom, Idle
  <2>2. cancels = 0 /\ connState' = "Disconnected" => NoSession
    BY <2>1 DEF Orderly
  <2> QED BY <1>1, <2>1, <2>2, CallOrderly DEF network, faults
<1>2. CASE ~engineConnected
  <2>1. pc' = "sendConnect" /\ connState' = "Connecting"
    BY <1>2 DEF BeginConnect, SetState, Park
  <2>2. cancels = 0 /\ link = "up" => broker # "open" /\ toBroker = <<>>
    BY <1>2 DEF Orderly, Known, Told
  <2> QED BY <1>2, <2>1, <2>2 DEF Orderly, NoSession, Told, Known, network, faults
<1> QED BY <1>1, <1>2

\* A client that is not connected, at a point where no connect() runs.
LEMMA NotConnected ==
    ASSUME TypeOK, Orderly, cancels = 0, ~IsConnected, pc = "idle"
    PROVE  NoSession
  BY DEF TypeOK, Orderly, Known, IsConnected, NoSession

\* What a queue that holds one packet, or none, becomes.
LEMMA LonePacket ==
    ASSUME NEW x
    PROVE  Tail(<<x>>) = <<>> /\ Append(<<>>, x) = <<x>> /\ Head(<<x>>) = x /\ <<x>> # <<>>
<1>1. Append(<<>>, x) = <<x>>
  OBVIOUS
<1>2. Head(<<x>>) = x /\ <<x>> # <<>>
  OBVIOUS
<1>3. Tail(<<x>>) = <<>>
  OBVIOUS
<1> QED BY <1>1, <1>2, <1>3

LEMMA NextOrderly == TypeOK /\ Orderly /\ [Next]_vars => Orderly'
<1> SUFFICES ASSUME TypeOK, Orderly, [Next]_vars PROVE Orderly'
  OBVIOUS
<1> USE DEF client, call, network, ghosts, faults, At, Idle, Park
<1>0. broker \in {"none", "open"} /\ cancels \in Nat
  BY DEF TypeOK
<1>1. CASE Connect
  BY <1>1, BeginConnectOrderly DEF Connect
<1>2. CASE DelayOver
  BY <1>2, BeginConnectOrderly DEF DelayOver
<1>3. CASE SendConnect
  <2>1. CASE SendOk("CONNECT") /\ pc' = "awaitConnack" /\ UNCHANGED <<connState, stats>>
    <3>1. cancels = 0 /\ link = "up" => toBroker = <<>> /\ broker = "none"
      BY <1>0, <1>3 DEF SendConnect, Orderly, Told, Known
    <3>2. cancels = 0 /\ link = "up" => toBroker' = <<"CONNECT">>
      BY <2>1, <3>1 DEF SendOk
    <3>3. pc = "sendConnect" /\ UNCHANGED <<engineConnected, link, toClient, broker, cancels>>
      BY <1>3 DEF SendConnect
    <3> QED BY <2>1, <3>1, <3>2, <3>3 DEF Orderly, NoSession, Told, Known
  <2>2. CASE SendFails /\ pc' = "idle"
    BY <1>3, <2>2 DEF SendConnect, SendFails, Orderly, NoSession
  <2> QED BY <1>3, <2>1, <2>2 DEF SendConnect
<1>4. CASE ConnackAccepted
  <2>1. /\ engineConnected' /\ connState' = "Connected" /\ UNCHANGED <<link, toBroker, broker, cancels>>
        /\ pc' \in {"resend", "timers", "idle"}
        /\ link # "down" /\ toClient # <<>>
    BY <1>4 DEF ConnackAccepted, ConnectDone, SetState
  <2>2. cancels = 0 /\ link = "up" => broker = "open" /\ toBroker = <<>>
    BY <1>0, <2>1 DEF Orderly, Told
  <2> QED BY <2>1, <2>2 DEF Orderly, NoSession, Told, Known
<1>5. CASE ConnackRejected
  <2>1. /\ pc = "awaitConnack" /\ pc' = "idle"
        /\ UNCHANGED <<engineConnected, link, toBroker, broker, cancels>>
        /\ link # "up" \/ (toClient # <<>> /\ Head(toClient) \notin Accepts)
    BY <1>5 DEF ConnackRejected, ReadFails, Accepts
  <2>2. cancels = 0 => link # "up"
    BY <1>0, <2>1 DEF Orderly, Known
  <2> QED BY <2>1, <2>2 DEF Orderly, NoSession
<1>6. CASE Resend
  <2>1. /\ pc = "resend" /\ pc' \in {"timers", "idle"}
        /\ UNCHANGED <<engineConnected, link, toBroker, toClient, broker, cancels>>
        /\ connState' = connState \/ link # "up"
    BY <1>6 DEF Resend, ConnectDone
  <2> QED BY <2>1 DEF Orderly, NoSession, Told, Known
<1>7. CASE Reconnect
  <2>1. /\ pc = "idle" /\ pc' = "backoff" /\ caller' = "reconnect"
        /\ UNCHANGED <<connState, engineConnected, link, toBroker, toClient, broker, cancels>>
    BY <1>7 DEF Reconnect, BeginReconnect
  <2> QED BY <2>1 DEF Orderly, NoSession, Told, Known
<1>8. CASE Disconnect
  <2>1. /\ pc = "idle" /\ UNCHANGED <<engineConnected, link, toBroker, toClient, broker, cancels>>
        /\ \/ engineConnected /\ connState' = "Disconnecting" /\ pc' = "sendDisconnect"
           \/ ~engineConnected /\ connState' = "Disconnected" /\ pc' = "idle"
    BY <1>8 DEF Disconnect, SetState
  <2> QED BY <1>0, <2>1 DEF Orderly, NoSession, Told, Known
<1>9. CASE SendDisconnect
  <2>1. /\ link' # "up" /\ pc' \in {"close", "idle"} /\ cancels' = cancels
    BY <1>9 DEF SendDisconnect, SendFails
  <2> QED BY <2>1 DEF Orderly, NoSession
<1>10. CASE DisconnectDone
  <2>1. /\ pc = "close" /\ pc' = "idle" /\ connState' = "Disconnected"
        /\ UNCHANGED <<engineConnected, link, toBroker, toClient, broker, cancels>>
    BY <1>10 DEF DisconnectDone, SetState
  <2> QED BY <2>1 DEF Orderly, NoSession, Told, Known
<1>11. CASE PollFindsLoss \/ PollDisconnected
  <2>1. /\ pc = "idle" /\ ~IsConnected /\ pc' \in {"idle", "backoff"}
        /\ UNCHANGED <<engineConnected, link, toBroker, toClient, broker, cancels>>
    BY <1>11 DEF PollFindsLoss, PollDisconnected, BeginReconnect
  <2>2. cancels = 0 => NoSession
    BY <2>1, NotConnected
  <2> QED BY <2>1, <2>2 DEF Orderly, NoSession, Told, Known
<1>12. CASE PollLive \/ PollTimers
  <2>1. /\ pc \in {"idle", "timers"} /\ pc' \in {"idle", "timers", "receive"}
        /\ UNCHANGED <<engineConnected, link, toBroker, toClient, broker, cancels>>
        /\ connState' \in {connState, "Error"}
    BY <1>12 DEF PollLive, PollTimers, SetState
  <2> QED BY <2>1 DEF Orderly, NoSession, Told, Known
<1>13. CASE PollReceive
  <2>1. /\ pc = "receive" /\ pc' = "idle"
        /\ UNCHANGED <<engineConnected, link, toBroker, broker, cancels>>
        /\ connState' \in {connState, "Error"}
        /\ toClient # <<>> \/ (toClient' = toClient /\ link # "up")
    BY <1>13 DEF PollReceive, ReadFails, SetState
  <2> QED BY <2>1 DEF Orderly, NoSession, Told, Known
<1>14. CASE CancelCall
  BY <1>0, <1>14 DEF CancelCall, Orderly
<1>15. CASE BreakLink
  BY <1>15 DEF BreakLink, Orderly, NoSession
<1>16. CASE RestoreLink
  BY <1>16 DEF RestoreLink, Orderly, NoSession, Told, Known
<1>17. CASE BrokerReadsConnect
  <2>1. UNCHANGED <<connState, engineConnected, pc, caller, cancels>> /\ link = "up" /\ toBroker # <<>>
    BY <1>17 DEF BrokerReadsConnect
  <2>2. CASE link' = "broken"
    BY <2>1, <2>2 DEF Orderly, NoSession
  <2>3. CASE /\ \E answer \in {"ACCEPTED", "RESUMED"} : toClient' = Append(toClient, answer)
             /\ toBroker' = Tail(toBroker) /\ broker = "none" /\ broker' = "open" /\ UNCHANGED link
    <3>1. PICK answer \in Accepts : toClient' = Append(toClient, answer)
      BY <2>3 DEF Accepts
    <3>2. cancels = 0 => pc = "awaitConnack" /\ toBroker = <<"CONNECT">> /\ toClient = <<>>
      BY <2>1, <2>3 DEF Orderly, Told
    <3>3. cancels = 0 => toBroker' = <<>> /\ toClient' = <<answer>>
      <4> SUFFICES ASSUME cancels = 0 PROVE toBroker' = <<>> /\ toClient' = <<answer>>
        OBVIOUS
      <4>1. toBroker' = Tail(<<"CONNECT">>)
        BY <2>3, <3>2
      <4>2. toClient' = Append(<<>>, answer)
        BY <3>1, <3>2
      <4> QED BY <4>1, <4>2, LonePacket, Zenon
    <3>4. cancels = 0 => toClient' # <<>> /\ Head(toClient') \in Accepts
      BY <3>3, LonePacket, Zenon
    <3>5. cancels = 0 => connState = "Connecting"
      BY <3>2 DEF Orderly
    <3> QED BY <2>1, <2>3, <3>2, <3>3, <3>4, <3>5 DEF Orderly, NoSession, Told, Known
  <2> QED BY <1>17, <2>2, <2>3 DEF BrokerReadsConnect, HangUp
<1>18. CASE BrokerReadsDisconnect
  BY <1>18 DEF BrokerReadsDisconnect, HangUp, Orderly, NoSession
<1>19. CASE BrokerSends
  <2>1. /\ UNCHANGED <<connState, engineConnected, pc, caller, cancels, link, toBroker, broker>>
        /\ broker = "open"
    BY <1>19 DEF BrokerSends
  <2>2. PICK packet \in FromBroker : toClient' = Append(toClient, packet)
    BY <1>19, Packets DEF BrokerSends
  <2>3. toClient # <<>> => toClient' # <<>> /\ Head(toClient') = Head(toClient)
    BY <2>2 DEF TypeOK
  <2> QED BY <2>1, <2>3 DEF Orderly, NoSession, Told, Known
<1>20. CASE UNCHANGED vars
  BY <1>20 DEF vars, Orderly, NoSession, Told, Known
<1> QED
  BY <1>1, <1>2, <1>3, <1>4, <1>5, <1>6, <1>7, <1>8, <1>9, <1>10, <1>11, <1>12, <1>13, <1>14,
     <1>15, <1>16, <1>17, <1>18, <1>19, <1>20
     DEF Next, ClientCall, ClientStep, Environment, BrokerReads

\* No second CONNECT on a network connection, whatever calls are made in
\* whatever order and fail, unless the future of one was dropped.
THEOREM OneConnect == Spec => []DoubleConnectNeedsCancellation
<1>1. TypeOK /\ Orderly => DoubleConnectNeedsCancellation
  BY DEF TypeOK, Orderly, Told, DoubleConnectNeedsCancellation
<1> QED BY <1>1, TypeCorrect, InitOrderly, NextOrderly, PTL DEF Spec

\* No session is left behind at the broker by a client that reports
\* Disconnected, unless the future of a call was dropped.
THEOREM NoSessionLeft == Spec => []DisconnectedMeansBrokerGone
<1>1. TypeOK /\ Orderly => DisconnectedMeansBrokerGone
  BY DEF TypeOK, Orderly, NoSession, DisconnectedMeansBrokerGone
<1> QED BY <1>1, TypeCorrect, InitOrderly, NextOrderly, PTL DEF Spec

-----------------------------------------------------------------------------
(* The delays of reconnect() *)

\* Induction over the numbers, for the set of those that have a property.
LEMMA NumberInduction ==
    ASSUME NEW S, 0 \in S, \A n \in Nat : n \in S => n + 1 \in S
    PROVE  Nat \subseteq S
<1> DEFINE R == OpToRel(<, Nat)
           T == Nat \ S
<1>1. SUFFICES ASSUME T # {} PROVE FALSE
  OBVIOUS
<1>2. IsWellFoundedOn(R, Nat)
  BY NatLessThanWellFounded
<1>3. \A x, y \in Nat : x < y => <<x, y>> \in R
  BY DEF OpToRel
<1> HIDE DEF R
<1>4. PICK x \in T : \A y \in T : ~(<<y, x>> \in R)
  BY <1>1, <1>2, WFMin
<1>5. x \in Nat /\ x # 0
  OBVIOUS
<1>6. x - 1 \in Nat /\ x - 1 < x /\ (x - 1) + 1 = x
  BY <1>5
<1>7. x - 1 \notin S
  BY <1>5, <1>6
<1> QED BY <1>3, <1>4, <1>5, <1>6, <1>7

LEMMA DelayAfterType ==
    ASSUME NEW n, NEW d \in Intervals
    PROVE  DelayAfter(n, d) \in Intervals
<1>1. Scaled[d] \in Nat
  BY ConfigAssumption
<1>2. Limited(Scaled[d]) \in Intervals
  BY <1>1, ConfigAssumption DEF Limited, Intervals
<1> QED BY <1>2, ConfigAssumption DEF DelayAfter, Intervals

\* Every recursion over the numbers has a solution; this is the one of Delay.
LEMMA DelayEquation == Delay = [k \in Nat |-> IF k = 0 THEN 0 ELSE DelayAfter(k, Delay[k - 1])]
<1> DEFINE Is(f, n) == /\ f \in [0..n -> Intervals] /\ f[0] = 0
                       /\ \A k \in 1..n : f[k] = DelayAfter(k, f[k - 1])
           S == {n \in Nat : \E f : Is(f, n)}
           U == {n \in Nat : \A f, g : Is(f, n) /\ Is(g, n) => f[n] = g[n]}
<1>1. 0 \in S
  <2> DEFINE f == [k \in 0..0 |-> 0]
  <2>1. Is(f, 0)
    BY ZeroInterval
  <2> HIDE DEF Is, f
  <2> QED BY <2>1
<1>2. ASSUME NEW n \in Nat, n \in S PROVE n + 1 \in S
  <2>1. PICK f : Is(f, n)
    BY <1>2
  <2> DEFINE g == [k \in 0..n + 1 |-> IF k = n + 1 THEN DelayAfter(n + 1, f[n]) ELSE f[k]]
  <2>2. f[n] \in Intervals /\ DelayAfter(n + 1, f[n]) \in Intervals
    BY <2>1, DelayAfterType
  <2>3. \A k \in 0..n + 1 : k # n + 1 => k \in 0..n
    OBVIOUS
  <2>4. g \in [0..n + 1 -> Intervals]
    BY <2>1, <2>2, <2>3
  <2>5. g[0] = 0 /\ \A k \in 1..n : g[k] = f[k] /\ g[k - 1] = f[k - 1]
    BY <2>1
  <2>6. g[n + 1] = DelayAfter(n + 1, f[n]) /\ g[n] = f[n]
    BY <2>1
  <2> HIDE DEF g
  <2>7. \A k \in 1..n + 1 : g[k] = DelayAfter(k, g[k - 1])
    <3> TAKE k \in 1..n + 1
    <3>1. CASE k \in 1..n
      BY <2>1, <2>5, <3>1
    <3>2. CASE k = n + 1
      <4>1. k - 1 = n
        BY <3>2
      <4> QED BY <2>6, <3>2, <4>1
    <3> QED BY <3>1, <3>2
  <2>8. Is(g, n + 1)
    BY <2>4, <2>5, <2>7
  <2> HIDE DEF Is
  <2> QED BY <2>8
<1>3. Nat \subseteq S
  <2> HIDE DEF S
  <2> QED BY <1>1, <1>2, NumberInduction
<1>4. 0 \in U
  OBVIOUS
<1>5. ASSUME NEW n \in Nat, n \in U PROVE n + 1 \in U
  <2> SUFFICES ASSUME NEW f, NEW g, Is(f, n + 1), Is(g, n + 1) PROVE f[n + 1] = g[n + 1]
    <3> HIDE DEF Is
    <3> QED OBVIOUS
  <2> DEFINE r(h) == [k \in 0..n |-> h[k]]
  <2>1. ASSUME NEW h, Is(h, n + 1) PROVE Is(r(h), n) /\ r(h)[n] = h[n] /\ h[n + 1] = DelayAfter(n + 1, h[n])
    <3>1. \A k \in 0..n : k \in 0..n + 1
      OBVIOUS
    <3>2. r(h) \in [0..n -> Intervals] /\ r(h)[n] = h[n] /\ r(h)[0] = 0
      BY <2>1, <3>1
    <3>3. \A k \in 1..n : k \in 1..n + 1 /\ k \in 0..n /\ k - 1 \in 0..n
      OBVIOUS
    <3>4. \A k \in 1..n : r(h)[k] = DelayAfter(k, r(h)[k - 1])
      BY <2>1, <3>3
    <3>5. n + 1 \in 1..n + 1 /\ (n + 1) - 1 = n
      OBVIOUS
    <3>6. h[n + 1] = DelayAfter(n + 1, h[n])
      BY <2>1, <3>5
    <3> QED BY <3>2, <3>4, <3>6
  <2>2. r(f)[n] = r(g)[n]
    <3> HIDE DEF Is, r
    <3> QED BY <1>5, <2>1
  <2> HIDE DEF Is, r
  <2> QED BY <2>1, <2>2
<1>6. Nat \subseteq U
  <2> HIDE DEF U
  <2> QED BY <1>4, <1>5, NumberInduction
<1> DEFINE F(n) == CHOOSE f : Is(f, n)
           p == [n \in Nat |-> F(n)[n]]
<1>7. \A n \in Nat : Is(F(n), n)
  <2> HIDE DEF Is
  <2> QED BY <1>3
<1>8. p = [k \in Nat |-> IF k = 0 THEN 0 ELSE DelayAfter(k, p[k - 1])]
  <2>1. p[0] = 0
    BY <1>7
  <2>2. ASSUME NEW k \in Nat, k # 0 PROVE p[k] = DelayAfter(k, p[k - 1])
    <3> DEFINE f == F(k)
               g == F(k - 1)
               h == [j \in 0..k - 1 |-> f[j]]
    <3>1. k - 1 \in Nat /\ k \in 1..k
      BY <2>2
    <3>2. Is(f, k) /\ Is(g, k - 1)
      BY <1>7, <3>1
    <3>3. p[k] = f[k] /\ p[k - 1] = g[k - 1]
      BY <3>1
    <3> HIDE DEF F, f, g, p
    <3>4. f[k] = DelayAfter(k, f[k - 1])
      BY <3>1, <3>2
    <3>5. \A j \in 0..k - 1 : j \in 0..k
      BY <3>1
    <3>6. \A j \in 1..k - 1 : j \in 1..k /\ j \in 0..k - 1 /\ j - 1 \in 0..k - 1
      BY <3>1
    <3>7. Is(h, k - 1) /\ h[k - 1] = f[k - 1]
      BY <3>1, <3>2, <3>5, <3>6
    <3>8. h[k - 1] = g[k - 1]
      <4> HIDE DEF Is, h
      <4> QED BY <1>6, <3>1, <3>2, <3>7
    <3> QED BY <3>3, <3>4, <3>7, <3>8
  <2> HIDE DEF F, Is
  <2>3. \A k \in Nat : p[k] = IF k = 0 THEN 0 ELSE DelayAfter(k, p[k - 1])
    <3> HIDE DEF p
    <3> QED BY <2>1, <2>2
  <2> DEFINE q == [k \in Nat |-> IF k = 0 THEN 0 ELSE DelayAfter(k, p[k - 1])]
  <2>4. DOMAIN p = Nat /\ DOMAIN q = Nat /\ p = [k \in Nat |-> p[k]] /\ q = [k \in Nat |-> q[k]]
    OBVIOUS
  <2>5. \A k \in Nat : q[k] = p[k]
    <3> HIDE DEF p
    <3> QED BY <2>3
  <2> HIDE DEF p, q
  <2>6. p = q
    BY <2>4, <2>5
  <2> QED BY <2>6 DEF q
<1> HIDE DEF p
<1>9. \E f : f = [k \in Nat |-> IF k = 0 THEN 0 ELSE DelayAfter(k, f[k - 1])]
  BY <1>8
<1> QED BY <1>9 DEF Delay

LEMMA DelayValues ==
    /\ Delay[0] = 0
    /\ \A n \in Nat : Delay[n] \in Intervals /\ Delay[n + 1] = DelayAfter(n + 1, Delay[n])
<1>1. Delay[0] = 0
  BY DelayEquation
<1>2. ASSUME NEW n \in Nat PROVE Delay[n + 1] = DelayAfter(n + 1, Delay[n])
  <2>1. n + 1 \in Nat /\ n + 1 # 0 /\ (n + 1) - 1 = n
    OBVIOUS
  <2> QED BY <2>1, DelayEquation
<1> DEFINE S == {n \in Nat : Delay[n] \in Intervals}
<1>3. 0 \in S
  BY <1>1, ZeroInterval
<1>4. ASSUME NEW n \in Nat, n \in S PROVE n + 1 \in S
  BY <1>2, <1>4, DelayAfterType
<1>5. Nat \subseteq S
  <2> HIDE DEF S
  <2> QED BY <1>3, <1>4, NumberInduction
<1> QED BY <1>1, <1>2, <1>5

\* A delay that is scaled down to 0, or limited to 0, is what reconnect() takes
\* for an attempt that has had no delay yet.  A multiplier of 1 or more does not
\* scale a delay to 0: the product of two numbers from 1 on is not below 1, nor
\* does f32 round it or `as u32` cut it to less.
Grows ==
    \/ InitialInterval = 0
    \/ MaxInterval > 0 /\ \A d \in Intervals \ {0} : Scaled[d] > 0

\* From the first attempt on there is a delay, unless none is asked for.
LEMMA DelayPositive ==
    ASSUME Grows, InitialInterval # 0
    PROVE  \A n \in Nat \ {0} : Delay[n] # 0
<1> DEFINE S == {n \in Nat : n # 0 => Delay[n] # 0}
<1>1. 0 \in S
  OBVIOUS
<1>2. ASSUME NEW n \in Nat, n \in S PROVE n + 1 \in S
  <2>1. Delay[n] \in Intervals /\ Delay[n + 1] = DelayAfter(n + 1, Delay[n])
    BY DelayValues
  <2>2. CASE n = 0
    BY <2>1, <2>2 DEF DelayAfter
  <2>3. CASE n # 0
    <3>1. Delay[n] # 0 /\ n + 1 # 1
      BY <1>2, <2>3
    <3>2. Scaled[Delay[n]] > 0 /\ MaxInterval > 0
      BY <2>1, <3>1 DEF Grows
    <3> QED BY <2>1, <3>1, <3>2 DEF DelayAfter, Limited
  <2> QED BY <2>2, <2>3
<1>3. Nat \subseteq S
  <2> HIDE DEF S
  <2> QED BY <1>1, <1>2, NumberInduction
<1> QED BY <1>3

\* Without an initial interval there is never a delay.
LEMMA DelayNone ==
    ASSUME InitialInterval = 0
    PROVE  \A n \in Nat : Delay[n] = 0
<1> DEFINE S == {n \in Nat : Delay[n] = 0}
<1>1. 0 \in S
  BY DelayValues
<1>2. ASSUME NEW n \in Nat, n \in S PROVE n + 1 \in S
  <2>1. Delay[n] = 0 /\ Delay[n + 1] = DelayAfter(n + 1, Delay[n])
    BY <1>2, DelayValues
  <2>2. Limited(0) = 0
    BY ConfigAssumption DEF Limited
  <2> QED BY <2>1, <2>2, ConfigAssumption DEF DelayAfter
<1>3. Nat \subseteq S
  <2> HIDE DEF S
  <2> QED BY <1>1, <1>2, NumberInduction
<1> QED BY <1>3

\* One more attempt: the rule of reconnect() for the next interval, which knows
\* the interval and not the number of the attempt.
LEMMA BackoffStep ==
    ASSUME Grows, NEW n \in Nat, interval = Delay[n]
    PROVE  NextInterval = Delay[n + 1]
<1>1. Delay[n + 1] = DelayAfter(n + 1, interval)
  BY DelayValues
<1>2. CASE n = 0
  <2>1. interval = 0
    BY <1>2, DelayValues
  <2> QED BY <1>1, <1>2, <2>1 DEF NextInterval, DelayAfter
<1>3. CASE n # 0 /\ InitialInterval # 0
  <2>1. interval # 0 /\ n + 1 # 1
    BY <1>3, DelayPositive
  <2> QED BY <1>1, <2>1 DEF NextInterval, DelayAfter
<1>4. CASE InitialInterval = 0
  <2>1. interval = 0 /\ Delay[n + 1] = 0
    BY <1>4, DelayNone
  <2> QED BY <1>4, <2>1 DEF NextInterval
<1> QED BY <1>2, <1>3, <1>4

BackoffInv == attempt \in Nat /\ BackoffMatchesAttempt

LEMMA NextBackoff == Grows /\ BackoffInv /\ [Next]_vars => BackoffInv'
<1> SUFFICES ASSUME Grows, BackoffInv, [Next]_vars PROVE BackoffInv'
  OBVIOUS
<1>1. CASE attempt' = attempt + 1 /\ interval' = NextInterval
  <2>1. NextInterval = Delay[attempt + 1]
    BY BackoffStep DEF BackoffInv, BackoffMatchesAttempt
  <2>2. interval' = Delay[attempt']
    BY <1>1, <2>1
  <2> QED BY <1>1, <2>2 DEF BackoffInv, BackoffMatchesAttempt
<1>2. CASE attempt' = 0 /\ interval' = 0
  BY <1>2, DelayValues DEF BackoffInv, BackoffMatchesAttempt
<1>3. CASE UNCHANGED <<attempt, interval>>
  BY <1>3 DEF BackoffInv, BackoffMatchesAttempt
<1>4. CASE Reconnect \/ PollFindsLoss
  BY <1>1, <1>3, <1>4 DEF Reconnect, PollFindsLoss, BeginReconnect
<1>5. CASE ConnackAccepted
  BY <1>2, <1>5 DEF ConnackAccepted
<1>6. CASE Connect \/ Disconnect \/ PollDisconnected \/ PollLive \/ SendConnect \/ ConnackRejected
  BY <1>3, <1>6 DEF Connect, Disconnect, PollDisconnected, PollLive, SendConnect, ConnackRejected, client
<1>7. CASE Resend \/ DelayOver \/ SendDisconnect \/ DisconnectDone \/ PollTimers \/ PollReceive
  BY <1>3, <1>7 DEF Resend, DelayOver, SendDisconnect, DisconnectDone, PollTimers, PollReceive
<1>8. CASE CancelCall \/ Environment \/ UNCHANGED vars
  BY <1>3, <1>8 DEF CancelCall, Environment, BreakLink, RestoreLink, BrokerReads, BrokerReadsConnect,
                    BrokerReadsDisconnect, BrokerSends, client, vars
<1> QED BY <1>4, <1>5, <1>6, <1>7, <1>8 DEF Next, ClientCall, ClientStep

\* However reconnect() calls fail, are dropped in their delay or succeed, the
\* delay of the next one is the one its number calls for.
THEOREM BackoffInStep == Grows => (Spec => []BackoffMatchesAttempt)
<1> SUFFICES ASSUME Grows PROVE Spec => []BackoffMatchesAttempt
  OBVIOUS
<1>1. Init => BackoffInv
  BY DelayValues DEF Init, BackoffInv, BackoffMatchesAttempt
<1>2. BackoffInv /\ [Next]_vars => BackoffInv'
  BY NextBackoff
<1>3. BackoffInv => BackoffMatchesAttempt
  BY DEF BackoffInv
<1> QED BY <1>1, <1>2, <1>3, PTL DEF Spec
=============================================================================
