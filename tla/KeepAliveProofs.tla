--------------------------- MODULE KeepAliveProofs ---------------------------
(***************************************************************************)
(* Theorems about KeepAlive: whatever the keep-alive interval, the cadence *)
(* of the application, the delay of the broker, the number of failing      *)
(* pings and the settings of the clock, a client that polls often enough   *)
(* is heard, gives up only for a reason, and notices a dead link.          *)
(***************************************************************************)
EXTENDS KeepAlive, TLAPS

\* The time n failing pings can cost, and n settings of the clock can hide.
Waits(n) == n * Idle
Backs(n) == n * Back

LEMMA Numbers ==
    /\ Park \in Nat /\ Idle \in Nat /\ Delay \in Nat /\ Back \in Nat
    /\ MaxFaults \in Nat /\ MaxSettings \in Nat /\ MaxBuffer \in Nat \ {0}
    /\ SetBack \in Nat /\ SetBack = Backs(MaxSettings) /\ Slack \in Nat
<1>1. /\ Park \in Nat /\ Idle \in Nat /\ Delay \in Nat /\ Back \in Nat
      /\ MaxFaults \in Nat /\ MaxSettings \in Nat /\ MaxBuffer \in Nat \ {0}
  BY CadenceAssumption
<1>2. MaxSettings * Back \in Nat
  BY <1>1
<1>3. (Park + Idle) * (1 + MaxFaults) \in Nat
  BY <1>1
<1> QED BY <1>1, <1>2, <1>3 DEF SetBack, Slack, Backs

LEMMA WaitsGrow ==
    ASSUME NEW n \in Nat
    PROVE  Waits(n) \in Nat /\ Waits(n + 1) = Waits(n) + Idle
  BY Numbers DEF Waits

LEMMA WaitsBounded ==
    ASSUME NEW n \in Nat, NEW m \in Nat, n <= m
    PROVE  Waits(n) <= Waits(m)
<1>1. (m - n) * Idle \in Nat
  BY Numbers
<1>2. m * Idle = n * Idle + (m - n) * Idle
  BY Numbers
<1> QED BY <1>1, <1>2, Numbers DEF Waits

LEMMA BacksGrow ==
    ASSUME NEW n \in Nat
    PROVE  Backs(n) \in Nat /\ Backs(n + 1) = Backs(n) + Back
  BY Numbers DEF Backs

LEMMA BacksBounded ==
    ASSUME NEW n \in Nat, n <= MaxSettings
    PROVE  Backs(n) <= SetBack
<1>1. (MaxSettings - n) * Back \in Nat
  BY Numbers
<1>2. MaxSettings * Back = n * Back + (MaxSettings - n) * Back
  BY Numbers
<1> QED BY <1>1, <1>2, Numbers DEF Backs

\* The cadence leaves room for all failing pings, the answer and one more wait.
LEMMA SlackSuffices ==
    Park + Waits(MaxFaults) + Idle + Idle + Delay + SetBack <= Slack
<1>1. (Park + Idle) * (1 + MaxFaults) = Park + Idle + Park * MaxFaults + MaxFaults * Idle
  BY Numbers
<1>2. Park * MaxFaults \in Nat /\ MaxFaults * Idle \in Nat
  BY Numbers
<1> QED BY <1>1, <1>2, Numbers DEF Slack, Waits

LEMMA Halves ==
    ASSUME NEW k \in Intervals
    PROVE  /\ k \in Nat /\ Timeout(k) \in Nat /\ k <= Timeout(k)
           /\ k # 0 => k + Slack <= Timeout(k)
<1>1. k \in Nat /\ (k # 0 => 2 * Slack < k)
  BY CadenceAssumption
<1>2. k \div 2 \in Nat /\ k <= 2 * (k \div 2) + 1
  BY <1>1
<1> QED BY <1>1, <1>2, Numbers DEF Timeout

-----------------------------------------------------------------------------
(* Types *)

\* Setting the clock back is all that makes an age negative.
Typed == TypeOK /\ -Backs(settings) <= sentAge /\ -Backs(settings) <= receivedAge

LEMMA Known ==
    ASSUME Typed
    PROVE  /\ interval \in Intervals /\ interval \in Nat /\ interval <= Timeout(interval)
           /\ Timeout(interval) \in Nat
           /\ Oldest \in Nat /\ Oldest = Timeout(interval) + SetBack /\ SetBack \in Nat
           /\ sentAge \in Int /\ sentAge <= Oldest /\ receivedAge \in Int /\ receivedAge <= Oldest
           /\ silence \in Nat /\ deadFor \in Nat /\ waited \in Nat
           /\ pc = "idle" => waited <= Idle
           /\ pc = "receive" => waited <= Park
           /\ pc \in {"idle", "receive"} /\ toClient \in 0..MaxBuffer
           /\ faults \in 0..MaxFaults /\ settings \in 0..MaxSettings
           /\ Waits(faults) \in Nat /\ Waits(faults + 1) = Waits(faults) + Idle
           /\ Backs(settings) \in Nat /\ Backs(settings + 1) = Backs(settings) + Back
           /\ Backs(settings) <= SetBack
<1>1. interval \in Intervals /\ faults \in 0..MaxFaults /\ settings \in 0..MaxSettings
  BY DEF Typed, TypeOK
<1>2. interval \in Nat /\ Timeout(interval) \in Nat /\ interval <= Timeout(interval)
  BY <1>1, Halves
<1>3. Oldest \in Nat /\ Oldest = Timeout(interval) + SetBack /\ SetBack \in Nat
  BY <1>2, Numbers DEF Oldest
<1>4. faults \in Nat /\ settings \in Nat /\ settings <= MaxSettings
  BY <1>1, Numbers
<1>5. /\ Waits(faults) \in Nat /\ Waits(faults + 1) = Waits(faults) + Idle
      /\ Backs(settings) \in Nat /\ Backs(settings + 1) = Backs(settings) + Back
      /\ Backs(settings) <= SetBack
  BY <1>4, WaitsGrow, BacksGrow, BacksBounded
<1>6. /\ sentAge \in Int /\ sentAge <= Oldest /\ receivedAge \in Int /\ receivedAge <= Oldest
      /\ silence \in Nat /\ deadFor \in Nat /\ toClient \in 0..MaxBuffer
  BY <1>3 DEF Typed, TypeOK
<1>7. /\ pc \in {"idle", "receive"} /\ waited \in Nat
      /\ pc = "idle" => waited <= Idle
      /\ pc = "receive" => waited <= Park
  BY Numbers DEF Typed, TypeOK
<1> QED BY <1>1, <1>2, <1>3, <1>5, <1>6, <1>7

LEMMA InitTyped == Init => Typed
<1> SUFFICES ASSUME Init PROVE Typed
  OBVIOUS
<1>1. interval \in Intervals /\ Timeout(interval) \in Nat
  BY Halves DEF Init
<1>2. Oldest \in Nat
  BY <1>1, Numbers DEF Oldest
<1>3. Backs(0) = 0
  BY Numbers DEF Backs
<1>4. 0 \in -SetBack..Oldest /\ 0 \in 0..Idle /\ 0 \in 0..MaxBuffer
      /\ 0 \in 0..MaxFaults /\ 0 \in 0..MaxSettings
  BY <1>2, Numbers
<1>5. TypeOK
  BY <1>1, <1>4 DEF Init, TypeOK
<1> QED BY <1>3, <1>5 DEF Init, Typed

\* Every step but SetClock leaves the clock alone, and no step the interval.
LEMMA Constant ==
    ASSUME [Next]_vars
    PROVE  /\ interval' = interval /\ Timeout(interval)' = Timeout(interval) /\ Oldest' = Oldest
           /\ SetClock \/ settings' = settings
<1>1. interval' = interval /\ (SetClock \/ settings' = settings)
  BY DEF Next, Poll, World, PollTimesOut, PollPings, PollReads, PollRetriesFail, Receive, StopWaiting,
         Send, Tick, SetClock, BrokerAnswers, BrokerSends, LinkDies, vars
<1> QED BY <1>1 DEF Oldest

LEMMA NextTyped ==
    ASSUME Typed, [Next]_vars
    PROVE  Typed'
<1> DEFINE Requests == {Nobody} \cup {{n} : n \in 0..Delay}
<1>1. Nobody \in Requests /\ {0} \in Requests /\ request \in Requests
  BY Numbers DEF Typed, TypeOK, Nobody
<1> HIDE DEF Requests
<1>2. /\ state \in {"Connected", "Error"} /\ link \in {"up", "dead"}
      /\ timedOut \in BOOLEAN /\ healthy \in BOOLEAN
      /\ waited \in 0..(IF pc = "idle" THEN Idle ELSE Park)
      /\ sentAge \in -SetBack..Oldest /\ receivedAge \in -SetBack..Oldest
      /\ -Backs(settings) <= sentAge /\ -Backs(settings) <= receivedAge
  BY DEF Typed, TypeOK
<1> SUFFICES
      /\ state' \in {"Connected", "Error"} /\ pc' \in {"idle", "receive"}
      /\ waited' \in 0..(IF pc' = "idle" THEN Idle ELSE Park)
      /\ sentAge' \in -SetBack..Oldest /\ receivedAge' \in -SetBack..Oldest
      /\ link' \in {"up", "dead"} /\ request' \in Requests /\ toClient' \in 0..MaxBuffer
      /\ silence' \in Nat /\ deadFor' \in Nat /\ timedOut' \in BOOLEAN /\ healthy' \in BOOLEAN
      /\ faults' \in 0..MaxFaults /\ settings' \in 0..MaxSettings
      /\ -Backs(settings)' <= sentAge' /\ -Backs(settings)' <= receivedAge'
  BY Known, Constant DEF Typed, TypeOK, Requests
<1>3. CASE PollTimesOut
  BY <1>1, <1>2, <1>3, Known, Numbers DEF PollTimesOut
<1>4. CASE PollPings
  BY <1>1, <1>2, <1>4, Known, Numbers DEF PollPings, Leaves
<1>5. CASE PollReads
  BY <1>1, <1>2, <1>5, Known, Numbers DEF PollReads, Leaves
<1>6. CASE Receive
  <2>1. toClient' = toClient - 1 /\ toClient > 0 /\ receivedAge' = 0 /\ waited' = 0 /\ pc' = "idle"
    BY <1>6 DEF Receive
  <2>2. toClient' \in 0..MaxBuffer /\ waited' \in 0..Idle /\ receivedAge' \in -SetBack..Oldest
    BY <2>1, Known, Numbers
  <2>3. settings' = settings /\ -Backs(settings) <= 0
    BY <1>6, Known DEF Receive
  <2> QED BY <1>1, <1>2, <1>6, <2>1, <2>2, <2>3, Known DEF Receive
<1>7. CASE StopWaiting
  BY <1>1, <1>2, <1>7, Known, Numbers DEF StopWaiting
<1>8. CASE Send
  BY <1>1, <1>2, <1>8, Known, Numbers DEF Send, Leaves
<1>9. CASE Tick
  <2>1. request' \in Requests
    <3>1. CASE request = Nobody
      BY <1>1, <1>9, <3>1 DEF Tick, Nobody
    <3>2. CASE request # Nobody
      <4>1. PICK n \in 0..Delay : request = {n}
        BY <1>1, <3>2 DEF Requests
      <4>2. n < Delay /\ request' = {n + 1}
        BY <1>9, <4>1 DEF Tick
      <4> QED BY <4>1, <4>2, Numbers DEF Requests
    <3> QED BY <3>1, <3>2
  <2>2. waited' \in 0..(IF pc' = "idle" THEN Idle ELSE Park)
    BY <1>2, <1>9, Known, Numbers DEF Tick
  <2>3. /\ sentAge' \in -SetBack..Oldest /\ -Backs(settings)' <= sentAge'
        /\ receivedAge' \in -SetBack..Oldest /\ -Backs(settings)' <= receivedAge'
    BY <1>2, <1>9, Known, Numbers DEF Tick, Older
  <2>4. silence' \in Nat /\ deadFor' \in Nat
    BY <1>9, Known DEF Tick, Counted
  <2> QED BY <1>2, <1>9, <2>1, <2>2, <2>3, <2>4, Known DEF Tick
<1>10. CASE SetClock
  <2>1. PICK d \in Settings :
            /\ sentAge' = IF sentAge + d > Oldest THEN Oldest ELSE sentAge + d
            /\ receivedAge' = IF receivedAge + d > Oldest THEN Oldest ELSE receivedAge + d
            /\ healthy' = (healthy /\ d < 0)
    BY <1>10 DEF SetClock
  <2>2. d \in Int /\ -Back <= d
    BY CadenceAssumption
  <2>3. settings' = settings + 1 /\ settings' \in 0..MaxSettings /\ Backs(settings') <= SetBack
    BY <1>10, Known, Numbers, BacksBounded DEF SetClock
  <2>4. Backs(settings)' = Backs(settings) + Back
    BY <2>3, Known
  <2>5. /\ sentAge' \in -SetBack..Oldest /\ -Backs(settings)' <= sentAge'
        /\ receivedAge' \in -SetBack..Oldest /\ -Backs(settings)' <= receivedAge'
    BY <1>2, <2>1, <2>2, <2>3, <2>4, Known, Numbers
  <2>6. healthy' \in BOOLEAN
    BY <2>1
  <2> QED BY <1>1, <1>2, <1>10, <2>3, <2>5, <2>6, Known DEF SetClock
<1>11. CASE BrokerAnswers
  BY <1>1, <1>2, <1>11, Known, Numbers DEF BrokerAnswers
<1>12. CASE BrokerSends
  BY <1>1, <1>2, <1>12, Known, Numbers DEF BrokerSends
<1>13. CASE LinkDies
  BY <1>1, <1>2, <1>13, Known, Numbers DEF LinkDies
<1>14. CASE UNCHANGED vars
  BY <1>1, <1>2, <1>14, Known DEF vars
<1>15. CASE PollRetriesFail
  BY <1>1, <1>2, <1>15, Known, Numbers DEF PollRetriesFail, Leaves
<1> QED BY <1>3, <1>4, <1>5, <1>6, <1>7, <1>8, <1>9, <1>10, <1>11, <1>12, <1>13, <1>14, <1>15
        DEF Next, Poll, World

\* TypeOK is an invariant.
THEOREM TypeCorrect == Spec => []TypeOK
<1>1. Spec => []Typed
  BY InitTyped, NextTyped, PTL DEF Spec
<1>2. Typed => TypeOK
  BY DEF Typed
<1> QED BY <1>1, <1>2, PTL

-----------------------------------------------------------------------------
(* The broker hears the client *)

\* How long ago the last poll() tested the timers and sent, or found it too early.
Since == IF pc = "receive" THEN waited ELSE Park + Waits(faults) + waited

\* The age of the last packet by the clock, unless it is at its cap, is short
\* of the truth by the settings at most; and the truth is what a poll() found
\* below the interval, plus the time since.
Heard ==
    /\ \/ sentAge >= Timeout(interval) + SetBack - Backs(settings)
       \/ silence <= sentAge + Backs(settings)
    /\ state = "Connected" => silence < interval + Backs(settings) + Since

LEMMA HeardKept ==
    ASSUME Typed, Heard, interval # 0, [Next]_vars
    PROVE  Heard'
<1>1. /\ -Backs(settings) <= sentAge /\ Backs(settings) \in Nat /\ Waits(faults) \in Nat
      /\ interval \in Nat /\ interval <= Timeout(interval) /\ Timeout(interval) \in Nat
      /\ interval' = interval /\ Timeout(interval)' = Timeout(interval)
  BY Known, Constant DEF Typed
<1>2. CASE PollTimesOut
  BY <1>1, <1>2 DEF PollTimesOut, Heard
<1>3. CASE PollPings \/ PollRetriesFail
  <2>1. /\ pc = "idle" /\ waited' = 0 /\ settings' = settings /\ state' = state
        /\ Backs(settings)' = Backs(settings)
    BY <1>3 DEF PollPings, PollRetriesFail
  <2>2. CASE state # "Connected" /\ UNCHANGED <<pc, sentAge, request, silence, faults>>
    BY <1>1, <2>1, <2>2 DEF Heard
  <2>3. CASE Leaves(TRUE) /\ sentAge' = 0 /\ pc' = "receive" /\ UNCHANGED faults
    BY <1>1, <2>1, <2>3 DEF Heard, Leaves, Since
  <2>4. CASE /\ faults' = faults + 1 /\ UNCHANGED <<pc, sentAge>>
             /\ Leaves(TRUE) \/ UNCHANGED <<silence, request>>
    <3>1. Waits(faults)' = Waits(faults) + Idle /\ waited <= Idle /\ waited \in Nat
      BY <2>1, <2>4, Known
    <3>2. silence' = silence \/ silence' = 0
      BY <2>4 DEF Leaves
    <3> QED BY <1>1, <2>1, <2>4, <3>1, <3>2, Known, Numbers DEF Heard, Since
  <2>5. CASE Leaves(TRUE) /\ sentAge' = 0 /\ UNCHANGED pc /\ faults' = faults + 1
    <3>1. Waits(faults)' \in Nat
      BY <1>1, <2>5, Known, Numbers
    <3> QED BY <1>1, <2>1, <2>5, <3>1, Known, Numbers DEF Heard, Leaves, Since
  <2> QED BY <1>3, <2>2, <2>3, <2>4, <2>5 DEF PollPings, PollRetriesFail
<1>4. CASE PollReads
  <2>1. /\ pc' = "receive" /\ waited' = 0 /\ sentAge < interval /\ settings' = settings
        /\ Backs(settings)' = Backs(settings)
    BY <1>1, <1>4, Known DEF PollReads, ShouldSendKeepAlive
  <2>2. silence <= sentAge + Backs(settings)
    BY <1>1, <2>1, Known DEF Heard
  <2>3. \/ sentAge' = sentAge /\ silence' = silence
        \/ sentAge' = 0 /\ silence' = 0
    BY <1>4 DEF PollReads, Leaves
  <2> QED BY <1>1, <2>1, <2>2, <2>3, Known DEF Heard, Since
<1>5. CASE Receive
  <2>1. waited <= Park /\ pc = "receive" /\ pc' = "idle" /\ waited' = 0
    BY <1>5, Known DEF Receive
  <2>2. UNCHANGED <<sentAge, silence, settings, faults>> /\ (state' = "Connected" => state = "Connected")
    BY <1>5 DEF Receive
  <2> QED BY <1>1, <2>1, <2>2, Known, Numbers DEF Heard, Since
<1>6. CASE StopWaiting
  <2>1. waited <= Park /\ pc = "receive" /\ pc' = "idle" /\ waited' = 0
    BY <1>6, Known DEF StopWaiting
  <2>2. UNCHANGED <<sentAge, silence, settings, faults, state>>
    BY <1>6 DEF StopWaiting
  <2> QED BY <1>1, <2>1, <2>2, Known, Numbers DEF Heard, Since
<1>7. CASE Send
  <2>1. sentAge' = 0 /\ silence' = 0 /\ UNCHANGED <<settings, faults, pc, waited>> /\ pc = "idle"
    BY <1>7 DEF Send, Leaves
  <2> QED BY <1>1, <2>1, Known, Numbers DEF Heard, Since
<1>8. CASE Tick
  <2>1. /\ sentAge' = (IF sentAge < Oldest THEN sentAge + 1 ELSE sentAge)
        /\ silence' <= silence + 1 /\ silence' \in Nat /\ waited' = waited + 1
    BY <1>8, Known DEF Tick, Older, Counted
  <2>2. UNCHANGED <<settings, faults, pc, state>>
    BY <1>8 DEF Tick
  <2> QED BY <1>1, <2>1, <2>2, Known, Numbers DEF Heard, Since
<1>9. CASE SetClock
  <2>1. PICK d \in Settings : sentAge' = IF sentAge + d > Oldest THEN Oldest ELSE sentAge + d
    BY <1>9 DEF SetClock
  <2>2. d \in Int /\ -Back <= d
    BY CadenceAssumption
  <2>3. Backs(settings)' = Backs(settings) + Back /\ UNCHANGED <<silence, faults, pc, state, waited>>
    BY <1>9, Known DEF SetClock
  <2> QED BY <1>1, <2>1, <2>2, <2>3, Known, Numbers DEF Heard, Since
<1>10. CASE BrokerAnswers \/ BrokerSends \/ LinkDies \/ UNCHANGED vars
  <2>1. UNCHANGED <<interval, sentAge, silence, settings, faults, pc, state, waited>>
    BY <1>10 DEF BrokerAnswers, BrokerSends, LinkDies, vars
  <2> QED BY <2>1 DEF Heard, Since
<1> QED BY <1>2, <1>3, <1>4, <1>5, <1>6, <1>7, <1>8, <1>9, <1>10 DEF Next, Poll, World

\* A connected client is silent for less than the timeout by which the broker
\* would give it up, however often its clock is set and its pings fail.
THEOREM ClientIsHeard == Spec => []BrokerHearsClient
<1> DEFINE Inv == Typed /\ (interval # 0 => Heard)
<1>1. Init => Inv
  <2> SUFFICES ASSUME Init PROVE Inv
    OBVIOUS
  <2>1. Typed
    BY InitTyped
  <2> QED BY <2>1, Known, Numbers DEF Init, Heard, Since
<1>2. Inv /\ [Next]_vars => Inv'
  <2> SUFFICES ASSUME Inv, [Next]_vars PROVE Inv'
    OBVIOUS
  <2> QED BY NextTyped, HeardKept, Constant
<1>3. Inv => BrokerHearsClient
  <2> SUFFICES ASSUME Inv, interval # 0, state = "Connected" PROVE silence < Timeout(interval)
    BY DEF BrokerHearsClient
  <2>1. Waits(faults) <= Waits(MaxFaults) /\ Waits(MaxFaults) \in Nat
    BY WaitsBounded, WaitsGrow, Known, Numbers
  <2>2. interval + Slack <= Timeout(interval)
    BY Halves, Known
  <2>3. silence < interval + Backs(settings) + Since
    BY DEF Heard
  <2>4. Since <= Park + Waits(faults) + Idle /\ Since \in Nat
    BY Known, Numbers DEF Since
  <2> QED BY <2>1, <2>2, <2>3, <2>4, SlackSuffices, Known, Numbers
<1> QED BY <1>1, <1>2, <1>3, PTL DEF Spec

-----------------------------------------------------------------------------
(* A timeout has a reason *)

\* The age of the last packet received, if all goes well: after each packet sent
\* an answer is on its way or waits to be read, and before one is sent that age
\* is no more than the age of the last packet sent, which polls keep low.
Due == interval + Park + Waits(faults) + Idle + Backs(settings)
Answered ==
    \/ toClient > 0 /\ receivedAge < Due + Delay + (IF pc = "receive" THEN Idle ELSE waited)
    \/ toClient = 0 /\ request # Nobody /\ \A n \in request : receivedAge < Due + n
    \/ toClient = 0 /\ request = Nobody /\ receivedAge <= sentAge + Backs(settings)
Healthy == healthy =>
    /\ state = "Connected" /\ ~timedOut /\ link = "up"
    /\ interval # 0 => sentAge < interval + Since /\ Answered

LEMMA Requests ==
    ASSUME Typed
    PROVE  request = Nobody \/ \E n \in 0..Delay : request = {n}
  BY DEF Typed, TypeOK

\* A healthy connection has not timed out.
LEMMA InTime ==
    ASSUME Typed, Healthy, healthy
    PROVE  ~IsConnectionTimeout
<1> SUFFICES ASSUME interval # 0 PROVE receivedAge < Timeout(interval)
  BY Known DEF IsConnectionTimeout
<1>1. Waits(faults) <= Waits(MaxFaults) /\ Waits(MaxFaults) \in Nat
  BY WaitsBounded, WaitsGrow, Known, Numbers
<1>2. interval + Slack <= Timeout(interval)
  BY Halves, Known
<1>3. sentAge < interval + Park + Waits(faults) + Idle
  BY Known, Numbers DEF Healthy, Since
<1>4. receivedAge < Due + Delay + Idle
  <2>1. CASE request = Nobody
    BY <1>3, <2>1, Known, Numbers DEF Healthy, Answered, Due
  <2>2. CASE request # Nobody
    <3>1. PICK n \in 0..Delay : request = {n}
      BY <2>2, Requests
    <3> QED BY <3>1, Known, Numbers DEF Healthy, Answered, Due, Nobody
  <2> QED BY <2>1, <2>2
<1> QED BY <1>1, <1>2, <1>4, SlackSuffices, Known, Numbers DEF Due

\* Whatever leaves a healthy client is answered, so that the age of the last
\* packet sent matters no longer.
LEMMA LeavesAnswered ==
    ASSUME Typed, Healthy, healthy, interval # 0, pc = "idle", Leaves(TRUE),
           UNCHANGED <<interval, receivedAge, toClient, settings>>,
           \/ faults' = faults /\ (pc' = "receive" \/ (pc' = "idle" /\ waited' = waited))
           \/ faults' = faults + 1 /\ pc' = "idle" /\ waited' = 0
    PROVE  Answered'
<1>1. Waits(faults)' = Waits(faults) \/ Waits(faults)' = Waits(faults) + Idle
  BY Known
<1>2. Due' = Due \/ Due' = Due + Idle
  BY <1>1, Known, Numbers DEF Due
<1>3. Due' = Due + Idle \/ faults' = faults
  BY Known, Numbers DEF Due
<1>4. Due \in Nat /\ waited <= Idle
  BY Known, Numbers DEF Due
<1>5. CASE toClient > 0
  <2>1. receivedAge < Due + Delay + waited
    BY <1>5 DEF Healthy, Answered
  <2> QED BY <1>2, <1>3, <1>4, <1>5, <2>1, Known, Numbers DEF Answered
<1>6. CASE toClient = 0 /\ request # Nobody
  <2>1. request' = request /\ \A n \in request : receivedAge < Due + n
    BY <1>6 DEF Healthy, Answered, Leaves
  <2>2. PICK n \in 0..Delay : request = {n}
    BY <1>6, Requests
  <2>3. receivedAge' < Due' + n
    BY <1>2, <1>4, <2>1, <2>2, Known, Numbers
  <2> QED BY <1>6, <2>1, <2>2, <2>3 DEF Answered
<1>7. CASE toClient = 0 /\ request = Nobody
  <2>1. request' = {0}
    BY <1>7 DEF Leaves, Healthy
  <2>2. receivedAge <= sentAge + Backs(settings) /\ sentAge < interval + Since
    BY <1>7 DEF Healthy, Answered
  <2>3. receivedAge < Due + 0
    BY <1>4, <2>2, Known, Numbers DEF Due, Since
  <2>4. receivedAge' < Due' + 0
    BY <1>2, <1>4, <2>3, Known, Numbers
  <2> QED BY <1>7, <2>1, <2>4 DEF Answered, Nobody
<1> QED BY <1>5, <1>6, <1>7, Known

LEMMA HealthyKept ==
    ASSUME Typed, Healthy, ~Unanswered, [Next]_vars
    PROVE  Healthy'
<1> SUFFICES ASSUME healthy' PROVE Healthy'
  BY DEF Healthy
<1>1. healthy /\ ~LinkDies
  <2>1. SetClock => healthy
    BY DEF SetClock
  <2>2. healthy' # healthy => SetClock \/ Receive \/ LinkDies
    BY DEF Next, Poll, World, PollTimesOut, PollPings, PollReads, PollRetriesFail, StopWaiting, Send, Tick,
           BrokerAnswers, BrokerSends, vars
  <2>3. ~LinkDies /\ (Receive => healthy)
    BY DEF LinkDies, Receive
  <2> QED BY <2>1, <2>2, <2>3
<1>2. /\ state = "Connected" /\ ~timedOut /\ link = "up" /\ ~IsConnectionTimeout
      /\ interval # 0 => sentAge < interval + Since /\ Answered
  BY <1>1, InTime DEF Healthy
<1>3. state' = "Connected" /\ timedOut' = timedOut /\ link' = "up" /\ interval' = interval
  <2>1. ~PollTimesOut
    BY <1>2 DEF PollTimesOut
  <2>2. Receive => state' = state /\ timedOut' = timedOut /\ link' = link
    BY DEF Receive
  <2>3. timedOut' = timedOut /\ link' = link /\ state' = state
    BY <1>1, <2>1, <2>2 DEF Next, Poll, World, PollPings, PollReads, PollRetriesFail, StopWaiting, Send, Tick,
           SetClock, BrokerAnswers, BrokerSends, vars
  <2> QED BY <1>2, <2>3, Constant
<1> SUFFICES ASSUME interval # 0 PROVE sentAge' < interval + Since' /\ Answered'
  BY <1>2, <1>3 DEF Healthy
<1>4. /\ sentAge < interval + Since /\ Answered /\ -Backs(settings) <= sentAge
      /\ Due \in Nat /\ 0 < interval /\ -Backs(settings) <= receivedAge
  BY <1>2, Known, Numbers DEF Due, Typed
<1>5. CASE PollPings \/ PollRetriesFail
  <2>1. pc = "idle" /\ waited' = 0 /\ waited <= Idle /\ waited \in Nat
    BY <1>5, Known DEF PollPings, PollRetriesFail
  <2>2. UNCHANGED <<interval, receivedAge, toClient, settings>>
    BY <1>5, Constant DEF PollPings, PollRetriesFail
  <2>3. CASE Leaves(TRUE) /\ sentAge' = 0 /\ pc' = "receive" /\ UNCHANGED faults
    <3>1. faults' = faults /\ (pc' = "receive" \/ (pc' = "idle" /\ waited' = waited))
      BY <2>3
    <3>2. Answered'
      BY <1>1, <2>1, <2>2, <2>3, <3>1, LeavesAnswered
    <3>3. sentAge' < interval + Since'
      BY <1>4, <2>1, <2>3, Known DEF Since
    <3> QED BY <3>2, <3>3
  <2>4. CASE Leaves(TRUE) /\ faults' = faults + 1 /\ UNCHANGED <<pc, sentAge>>
    <3>1. Answered'
      BY <1>1, <2>1, <2>2, <2>4, LeavesAnswered
    <3>2. Waits(faults)' = Waits(faults) + Idle
      BY <2>4, Known
    <3> QED BY <1>3, <1>4, <2>1, <2>4, <3>1, <3>2, Known, Numbers DEF Since
  <2>5. CASE UNCHANGED <<silence, request>> /\ faults' = faults + 1 /\ UNCHANGED <<pc, sentAge>>
    <3>1. Waits(faults)' = Waits(faults) + Idle
      BY <2>5, Known
    <3>2. Due' = Due + Idle
      BY <2>2, <3>1, Known, Numbers DEF Due
    <3>3. Answered'
      <4>1. CASE request = Nobody
        BY <1>4, <2>1, <2>2, <2>5, <3>2, <4>1, Known, Numbers DEF Answered
      <4>2. CASE request # Nobody
        <5>1. PICK n \in 0..Delay : request = {n}
          BY <4>2, Requests
        <5> QED BY <1>4, <2>1, <2>2, <2>5, <3>2, <5>1, Known, Numbers DEF Answered, Nobody
      <4> QED BY <4>1, <4>2
    <3> QED BY <1>3, <1>4, <2>1, <2>5, <3>1, <3>3, Known, Numbers DEF Since
  <2>6. CASE Leaves(TRUE) /\ sentAge' = 0 /\ faults' = faults + 1 /\ UNCHANGED pc
    <3>1. Answered'
      BY <1>1, <2>1, <2>2, <2>6, LeavesAnswered
    <3>2. Waits(faults)' \in Nat
      BY <2>6, Known, Numbers
    <3> QED BY <1>3, <1>4, <2>1, <2>6, <3>1, <3>2, Known, Numbers DEF Since
  <2> QED BY <1>2, <1>5, <2>3, <2>4, <2>5, <2>6 DEF PollPings, PollRetriesFail
<1>6. CASE PollReads
  <2>1. /\ pc = "idle" /\ pc' = "receive" /\ waited' = 0 /\ sentAge < interval
        /\ UNCHANGED <<interval, receivedAge, toClient, settings, faults>>
    BY <1>6, Constant, Known DEF PollReads, ShouldSendKeepAlive
  <2>2. sentAge' = sentAge \/ sentAge' = 0
    BY <1>6 DEF PollReads
  <2>3. sentAge' < interval + Since'
    BY <1>4, <2>1, <2>2, Known, Numbers DEF Since
  <2>4. CASE sentAge' = 0 /\ Leaves(TRUE)
    <3>1. faults' = faults /\ (pc' = "receive" \/ (pc' = "idle" /\ waited' = waited))
      BY <2>1
    <3>2. UNCHANGED <<interval, receivedAge, toClient, settings>>
      BY <2>1
    <3>3. Answered'
      BY <1>1, <2>1, <2>4, <3>1, <3>2, LeavesAnswered
    <3> QED BY <2>3, <3>3
  <2>5. CASE UNCHANGED <<sentAge, silence, request>>
    <3>1. Due' = Due
      BY <2>1 DEF Due
    <3>2. waited <= Idle
      BY <2>1, Known
    <3> QED BY <1>4, <2>1, <2>3, <2>5, <3>1, <3>2, Known, Numbers DEF Answered
  <2> QED BY <1>6, <2>4, <2>5 DEF PollReads
<1>7. CASE Receive
  <2>1. /\ pc = "receive" /\ pc' = "idle" /\ waited' = 0 /\ receivedAge' = 0
        /\ toClient' = toClient - 1 /\ toClient > 0
        /\ UNCHANGED <<interval, sentAge, settings, faults, request>>
    BY <1>7 DEF Receive
  <2>2. sentAge' < interval + Since'
    BY <1>3, <1>4, <2>1, Known, Numbers DEF Since
  <2>3. Due' = Due /\ 0 < Due /\ toClient' \in Nat
    BY <1>4, <2>1, Known, Numbers DEF Due
  <2>4. \A n \in request : n \in Nat
    BY Requests DEF Nobody
  <2>5. 0 <= sentAge + Backs(settings)
    BY <1>4, Known
  <2>6. Backs(settings)' = Backs(settings)
    BY <2>1
  <2>7. \A n \in request : 0 < Due + n
    BY <2>3, <2>4, <1>4
  <2>8. 0 < Due + Delay + 0
    BY <2>3, <1>4, Numbers
  <2>9. Answered'
    <3>1. CASE toClient' > 0
      BY <2>1, <2>3, <2>8, <3>1 DEF Answered
    <3>2. CASE toClient' = 0
      BY <2>1, <2>3, <2>5, <2>6, <2>7, <3>2 DEF Answered
    <3> QED BY <2>3, <3>1, <3>2
  <2> QED BY <2>2, <2>9
<1>8. CASE StopWaiting
  <2>1. /\ pc = "receive" /\ pc' = "idle" /\ waited' = 0 /\ toClient = 0 /\ waited <= Park
        /\ UNCHANGED <<interval, sentAge, receivedAge, settings, faults, request, toClient>>
    BY <1>8, Known DEF StopWaiting
  <2>2. sentAge' < interval + Since' /\ Due' = Due
    BY <1>3, <1>4, <2>1, Known, Numbers DEF Since, Due
  <2>3. Answered'
    BY <1>4, <2>1, <2>2 DEF Answered
  <2> QED BY <2>2, <2>3
<1>9. CASE Send
  <2>1. /\ pc = "idle" /\ sentAge' = 0 /\ Leaves(TRUE)
        /\ UNCHANGED <<interval, receivedAge, toClient, settings, faults, pc, waited>>
    BY <1>9 DEF Send
  <2>2. Answered'
    BY <1>1, <2>1, LeavesAnswered
  <2> QED BY <1>3, <1>4, <2>1, <2>2, Known, Numbers DEF Since
<1>10. CASE Tick
  <2>1. /\ waited' = waited + 1 /\ UNCHANGED <<interval, settings, faults, pc, toClient>>
        /\ pc = "receive" => toClient = 0
        /\ request' = {since + 1 : since \in request}
        /\ sentAge' = (IF sentAge < Oldest THEN sentAge + 1 ELSE sentAge)
        /\ receivedAge' = (IF receivedAge < Oldest THEN receivedAge + 1 ELSE receivedAge)
    BY <1>10 DEF Tick, Older
  <2>2. sentAge' < interval + Since'
    BY <1>3, <1>4, <2>1, Known, Numbers DEF Since
  <2>3. Due' = Due /\ Backs(settings)' = Backs(settings)
    BY <2>1 DEF Due
  <2>4. CASE toClient > 0
    <3>1. pc = "idle" /\ pc' = "idle"
      BY <2>1, <2>4, Known
    <3>2. receivedAge < Due + Delay + waited
      BY <1>4, <2>4, <3>1 DEF Answered
    <3>3. receivedAge' < Due' + Delay + waited'
      BY <1>4, <2>1, <2>3, <3>2, Known, Numbers
    <3>4. Answered'
      BY <2>1, <2>4, <3>1, <3>3 DEF Answered
    <3> QED BY <2>2, <3>4
  <2>5. CASE toClient = 0 /\ request # Nobody
    <3>1. PICK n \in 0..Delay : request = {n}
      BY <2>5, Requests
    <3>2. request' = {n + 1} /\ receivedAge < Due + n
      BY <1>4, <2>1, <2>5, <3>1 DEF Answered
    <3>3. receivedAge' < Due' + (n + 1)
      BY <1>4, <2>1, <2>3, <3>2, Known, Numbers
    <3> QED BY <2>1, <2>2, <2>5, <3>2, <3>3 DEF Answered, Nobody
  <2>6. CASE toClient = 0 /\ request = Nobody
    <3>1. request' = Nobody
      BY <2>1, <2>6 DEF Nobody
    <3>2. receivedAge' <= sentAge' + Backs(settings)
      BY <1>4, <2>1, <2>6, Known, Numbers DEF Answered
    <3> QED BY <2>1, <2>2, <2>3, <2>6, <3>1, <3>2 DEF Answered
  <2> QED BY <2>2, <2>4, <2>5, <2>6, Known
<1>11. CASE SetClock
  <2>1. PICK d \in Settings :
            /\ sentAge' = IF sentAge + d > Oldest THEN Oldest ELSE sentAge + d
            /\ receivedAge' = IF receivedAge + d > Oldest THEN Oldest ELSE receivedAge + d
            /\ healthy' = (healthy /\ d < 0)
    BY <1>11 DEF SetClock
  <2>2. d \in Int /\ d < 0
    BY <2>1, CadenceAssumption
  <2>3. sentAge' = sentAge + d /\ receivedAge' = receivedAge + d
    BY <2>1, <2>2, Known
  <2>4. /\ UNCHANGED <<interval, faults, pc, waited, toClient, request>>
        /\ Backs(settings)' = Backs(settings) + Back
    BY <1>11, Known DEF SetClock
  <2>5. Due' = Due + Back
    BY <2>4, Known, Numbers DEF Due
  <2>6. sentAge' < interval + Since'
    BY <1>4, <2>2, <2>3, <2>4, Known, Numbers DEF Since
  <2>7. CASE request = Nobody
    BY <1>4, <2>2, <2>3, <2>4, <2>5, <2>6, <2>7, Known, Numbers DEF Answered
  <2>8. CASE request # Nobody
    <3>1. PICK n \in 0..Delay : request = {n}
      BY <2>8, Requests
    <3> QED BY <1>4, <2>2, <2>3, <2>4, <2>5, <2>6, <3>1, Known, Numbers DEF Answered, Nobody
  <2> QED BY <2>7, <2>8
<1>12. CASE BrokerAnswers \/ BrokerSends
  <2>1. /\ UNCHANGED <<interval, faults, pc, waited, settings, sentAge, receivedAge>>
        /\ toClient' > 0
    <3>1. toClient' = toClient + 1 \/ (toClient' = toClient /\ ~(toClient < MaxBuffer))
      BY <1>12 DEF BrokerAnswers, BrokerSends
    <3>2. toClient' > 0
      BY <3>1, Known, Numbers
    <3> QED BY <1>12, <3>2 DEF BrokerAnswers, BrokerSends
  <2>2. sentAge' < interval + Since' /\ Due' = Due
    BY <1>4, <2>1 DEF Since, Due
  <2>3. receivedAge < Due + Delay + (IF pc = "receive" THEN Idle ELSE waited)
    <3>1. CASE request = Nobody
      BY <1>4, <3>1, Known, Numbers DEF Answered, Since, Due
    <3>2. CASE request # Nobody
      <4>1. PICK n \in 0..Delay : request = {n}
        BY <3>2, Requests
      <4> QED BY <1>4, <4>1, Known, Numbers DEF Answered, Nobody
    <3> QED BY <3>1, <3>2
  <2>4. Answered'
    BY <2>1, <2>2, <2>3 DEF Answered
  <2> QED BY <2>2, <2>4
<1>13. CASE UNCHANGED vars
  <2>1. UNCHANGED <<interval, faults, pc, waited, settings, sentAge, receivedAge, toClient, request>>
    BY <1>13 DEF vars
  <2> QED BY <1>4, <2>1 DEF Since, Answered, Due
<1>14. ~PollTimesOut
  BY <1>2 DEF PollTimesOut
<1> QED BY <1>1, <1>3, <1>5, <1>6, <1>7, <1>8, <1>9, <1>10, <1>11, <1>12, <1>13, <1>14
        DEF Next, Poll, World

\* A client that polls at the cadence, and sends what is answered, gives up no
\* connection on which nothing went wrong.
THEOREM NoFalseTimeout == ~Unanswered => (Spec => []TimedOutForAReason)
<1> SUFFICES ASSUME ~Unanswered PROVE Spec => []TimedOutForAReason
  OBVIOUS
<1> DEFINE Inv == Typed /\ Healthy /\ (timedOut => interval # 0)
<1>1. Init => Inv
  <2> SUFFICES ASSUME Init PROVE Inv
    OBVIOUS
  <2>1. Typed
    BY InitTyped
  <2>2. interval # 0 => sentAge < interval + Since /\ Answered
    BY <2>1, Known, Numbers DEF Init, Since, Answered
  <2> QED BY <2>1, <2>2 DEF Init, Healthy
<1>2. Inv /\ [Next]_vars => Inv'
  <2> SUFFICES ASSUME Inv, [Next]_vars PROVE Inv'
    OBVIOUS
  <2>1. timedOut' = timedOut \/ PollTimesOut
    BY DEF Next, Poll, World, PollPings, PollReads, PollRetriesFail, Receive, StopWaiting, Send, Tick,
           SetClock, BrokerAnswers, BrokerSends, LinkDies, vars
  <2>2. timedOut' => interval' # 0
    BY <2>1, Constant DEF PollTimesOut, IsConnectionTimeout
  <2> QED BY <2>2, NextTyped, HealthyKept
<1>3. Inv => TimedOutForAReason
  BY DEF Healthy, TimedOutForAReason
<1> QED BY <1>1, <1>2, <1>3, PTL DEF Spec

-----------------------------------------------------------------------------
(* A dead link is noticed *)

\* How long the link can have been dead when the next packet received before its
\* end is read; what the age of the last one says after that; and what a poll()
\* found that did not time out, plus the time since.
Draining == Waits(MaxBuffer - toClient) + Waits(faults)
Drained == Waits(MaxBuffer) + Waits(faults)
WhileBuffered == deadFor <= Draining + (IF pc = "receive" THEN Idle ELSE waited)
AfterBuffered ==
    /\ deadFor < Timeout(interval) + Backs(settings) + Drained
                    + (IF pc = "receive" THEN waited ELSE Park + waited)
    /\ \/ receivedAge >= Timeout(interval) + SetBack - Backs(settings)
       \/ deadFor <= receivedAge + Backs(settings) + Drained
Dead ==
    /\ link = "up" => deadFor = 0
    /\ link = "dead" => request = Nobody
    /\ link = "dead" /\ state = "Connected" =>
           /\ toClient > 0 => WhileBuffered
           /\ toClient = 0 => AfterBuffered

LEMMA DrainGrows ==
    ASSUME Typed
    PROVE  /\ Drained \in Nat /\ Draining \in Nat
           /\ toClient > 0 => /\ toClient - 1 \in Nat
                              /\ Waits(MaxBuffer - (toClient - 1)) = Waits(MaxBuffer - toClient) + Idle
           /\ toClient = 0 => Draining = Drained
<1>1. MaxBuffer \in Nat /\ toClient \in 0..MaxBuffer /\ MaxBuffer - toClient \in Nat
  BY Known, Numbers
<1>2. Waits(MaxBuffer) \in Nat /\ Waits(MaxBuffer - toClient) \in Nat
      /\ Waits((MaxBuffer - toClient) + 1) = Waits(MaxBuffer - toClient) + Idle
  BY <1>1, WaitsGrow
<1>3. MaxBuffer - (toClient - 1) = (MaxBuffer - toClient) + 1
  BY <1>1
<1>4. toClient = 0 => MaxBuffer - toClient = MaxBuffer
  BY <1>1
<1> QED BY <1>1, <1>2, <1>3, <1>4, Known, Numbers DEF Drained, Draining

\* A poll() that does not time out renews the bound.
LEMMA PollRenews ==
    ASSUME Typed, Dead, link = "dead", state = "Connected", toClient = 0,
           receivedAge < Timeout(interval)
    PROVE  deadFor < Timeout(interval) + Backs(settings) + Drained
  BY DrainGrows, Known, Numbers DEF Dead, AfterBuffered

LEMMA DeadKept ==
    ASSUME Typed, Dead, interval # 0, [Next]_vars
    PROVE  Dead'
<1>1. /\ interval' = interval /\ Timeout(interval)' = Timeout(interval)
      /\ 0 < Timeout(interval) /\ Timeout(interval) \in Nat
      /\ -Backs(settings) <= receivedAge /\ link \in {"up", "dead"}
  BY Known, Constant DEF Typed, TypeOK
<1>2. CASE PollTimesOut
  BY <1>2 DEF PollTimesOut, Dead
<1>3. CASE PollPings \/ PollRetriesFail
  <2>1. /\ pc = "idle" /\ waited' = 0 /\ waited <= Idle /\ receivedAge < Timeout(interval)
        /\ UNCHANGED <<settings, state, receivedAge, link, toClient, deadFor>>
        /\ link = "dead" => request' = request
    BY <1>3, Known DEF PollPings, PollRetriesFail, IsConnectionTimeout, Leaves
  <2>2. CASE state # "Connected"
    BY <2>1, <2>2 DEF Dead
  <2>3. CASE link = "up"
    BY <2>1, <2>3 DEF Dead
  <2>4. CASE link = "dead" /\ state = "Connected"
    <3>1. \/ faults' = faults /\ pc' = "receive"
          \/ faults' = faults + 1 /\ pc' = "idle"
      BY <1>3, <2>1, <2>4 DEF PollPings, PollRetriesFail
    <3>2. \/ Waits(faults)' = Waits(faults) /\ pc' = "receive"
          \/ Waits(faults)' = Waits(faults) + Idle /\ pc' = "idle"
      BY <3>1, Known
    <3>3. \/ Draining' = Draining /\ Drained' = Drained /\ pc' = "receive"
          \/ Draining' = Draining + Idle /\ Drained' = Drained + Idle /\ pc' = "idle"
      <4>1. Waits(MaxBuffer - toClient) \in Nat /\ Waits(MaxBuffer) \in Nat
        BY Known, Numbers, WaitsGrow
      <4> QED BY <2>1, <3>2, <4>1, Known, Numbers DEF Draining, Drained
    <3>4. CASE toClient > 0
      <4>1. deadFor <= Draining + waited
        BY <2>1, <2>4, <3>4 DEF Dead, WhileBuffered
      <4>2. WhileBuffered'
        BY <2>1, <3>3, <4>1, DrainGrows, Known, Numbers DEF WhileBuffered
      <4> QED BY <2>1, <2>4, <3>4, <4>2 DEF Dead
    <3>5. CASE toClient = 0
      <4>1. deadFor < Timeout(interval) + Backs(settings) + Drained
        BY <2>1, <2>4, <3>5, PollRenews
      <4>2. \/ receivedAge >= Timeout(interval) + SetBack - Backs(settings)
            \/ deadFor <= receivedAge + Backs(settings) + Drained
        BY <2>4, <3>5 DEF Dead, AfterBuffered
      <4>3. AfterBuffered'
        BY <1>1, <2>1, <3>3, <4>1, <4>2, DrainGrows, Known, Numbers DEF AfterBuffered
      <4> QED BY <2>1, <2>4, <3>5, <4>3 DEF Dead
    <3> QED BY <3>4, <3>5, Known
  <2> QED BY <1>1, <2>2, <2>3, <2>4
<1>4. CASE PollReads
  <2>1. /\ pc = "idle" /\ pc' = "receive" /\ waited' = 0 /\ waited <= Idle
        /\ receivedAge < Timeout(interval)
        /\ UNCHANGED <<settings, state, receivedAge, link, toClient, deadFor, faults>>
        /\ link = "dead" => request' = request
    BY <1>4, Known DEF PollReads, IsConnectionTimeout, Leaves
  <2>2. Draining' = Draining /\ Drained' = Drained
    BY <2>1 DEF Draining, Drained
  <2>3. CASE state # "Connected" \/ link = "up"
    BY <2>1, <2>3 DEF Dead
  <2>4. CASE link = "dead" /\ state = "Connected" /\ toClient > 0
    <3>1. deadFor <= Draining + waited
      BY <2>1, <2>4 DEF Dead, WhileBuffered
    <3>2. WhileBuffered'
      BY <2>1, <2>2, <3>1, DrainGrows, Known, Numbers DEF WhileBuffered
    <3> QED BY <2>1, <2>4, <3>2 DEF Dead
  <2>5. CASE link = "dead" /\ state = "Connected" /\ toClient = 0
    <3>1. deadFor < Timeout(interval) + Backs(settings) + Drained
      BY <2>1, <2>5, PollRenews
    <3>2. \/ receivedAge >= Timeout(interval) + SetBack - Backs(settings)
          \/ deadFor <= receivedAge + Backs(settings) + Drained
      BY <2>5 DEF Dead, AfterBuffered
    <3>3. AfterBuffered'
      BY <1>1, <2>1, <2>2, <3>1, <3>2, DrainGrows, Known, Numbers DEF AfterBuffered
    <3> QED BY <2>1, <2>5, <3>3 DEF Dead
  <2> QED BY <1>1, <2>3, <2>4, <2>5, Known
<1>5. CASE Receive
  <2>1. /\ pc = "receive" /\ pc' = "idle" /\ waited' = 0 /\ receivedAge' = 0
        /\ toClient > 0 /\ toClient' = toClient - 1
        /\ UNCHANGED <<settings, link, deadFor, faults, request>>
        /\ state' = "Connected" => state = "Connected"
    BY <1>5 DEF Receive
  <2>2. Draining' = Draining + Idle /\ Drained' = Drained
    <3>1. Waits(MaxBuffer - toClient) \in Nat
      BY Known, Numbers, WaitsGrow
    <3> QED BY <2>1, <3>1, DrainGrows, Known, Numbers DEF Draining, Drained
  <2>3. toClient' = 0 => Draining' = Drained'
    BY <2>1, Numbers DEF Draining, Drained
  <2>4. CASE link = "dead" /\ state' = "Connected"
    <3>1. deadFor <= Draining + Idle
      BY <2>1, <2>4 DEF Dead, WhileBuffered
    <3>2. WhileBuffered'
      BY <2>1, <2>2, <3>1, DrainGrows, Known, Numbers DEF WhileBuffered
    <3>3. toClient' = 0 => AfterBuffered'
      BY <1>1, <2>1, <2>2, <2>3, <3>1, DrainGrows, Known, Numbers DEF AfterBuffered
    <3> QED BY <2>1, <2>4, <3>2, <3>3 DEF Dead
  <2> QED BY <1>1, <2>1, <2>4 DEF Dead
<1>6. CASE StopWaiting
  <2>1. /\ pc = "receive" /\ pc' = "idle" /\ waited' = 0 /\ waited <= Park /\ toClient = 0
        /\ UNCHANGED <<settings, link, deadFor, faults, request, state, toClient, receivedAge>>
    BY <1>6, Known DEF StopWaiting
  <2>2. Drained' = Drained
    BY <2>1 DEF Drained
  <2>3. AfterBuffered => AfterBuffered'
    BY <1>1, <2>1, <2>2, DrainGrows, Known, Numbers DEF AfterBuffered
  <2> QED BY <2>1, <2>3 DEF Dead
<1>7. CASE Send \/ BrokerAnswers \/ BrokerSends
  <2>1. /\ UNCHANGED <<settings, link, deadFor, faults, state, receivedAge, pc, waited>>
        /\ link = "dead" /\ request = Nobody => request' = request /\ toClient' = toClient
    BY <1>7 DEF Send, Leaves, BrokerAnswers, BrokerSends
  <2>2. CASE link = "up"
    BY <2>1, <2>2 DEF Dead
  <2>3. CASE link = "dead"
    <3>1. request' = request /\ toClient' = toClient
      BY <2>1, <2>3 DEF Dead
    <3>2. Drained' = Drained /\ Draining' = Draining
      BY <2>1, <3>1 DEF Drained, Draining
    <3> QED BY <1>1, <2>1, <2>3, <3>1, <3>2 DEF Dead, WhileBuffered, AfterBuffered
  <2> QED BY <1>1, <2>2, <2>3
<1>8. CASE Tick
  <2>1. /\ waited' = waited + 1 /\ UNCHANGED <<settings, faults, pc, toClient, link, state>>
        /\ pc = "receive" => toClient = 0
        /\ request' = {since + 1 : since \in request}
        /\ receivedAge' = (IF receivedAge < Oldest THEN receivedAge + 1 ELSE receivedAge)
        /\ deadFor' = (IF link = "dead" THEN Counted(deadFor) ELSE 0)
    BY <1>8 DEF Tick, Older
  <2>2. Draining' = Draining /\ Drained' = Drained /\ Backs(settings)' = Backs(settings)
    BY <2>1 DEF Draining, Drained
  <2>3. link = "dead" => deadFor' <= deadFor + 1 /\ deadFor' \in Nat
    BY <2>1, Known DEF Counted
  <2>4. request = Nobody => request' = Nobody
    BY <2>1 DEF Nobody
  <2>5. CASE link = "dead" /\ toClient > 0 /\ WhileBuffered
    <3>1. WhileBuffered'
      BY <2>1, <2>2, <2>3, <2>5, DrainGrows, Known, Numbers DEF WhileBuffered
    <3> QED BY <2>1, <2>4, <2>5, <3>1 DEF Dead
  <2>6. CASE link = "dead" /\ toClient = 0 /\ AfterBuffered
    <3>1. AfterBuffered'
      BY <1>1, <2>1, <2>2, <2>3, <2>6, DrainGrows, Known, Numbers DEF AfterBuffered
    <3> QED BY <2>1, <2>4, <2>6, <3>1 DEF Dead
  <2>7. CASE link = "up" \/ state # "Connected"
    BY <1>1, <2>1, <2>4, <2>7 DEF Dead
  <2> QED BY <1>1, <2>5, <2>6, <2>7, Known DEF Dead
<1>9. CASE SetClock
  <2>1. PICK d \in Settings :
            receivedAge' = IF receivedAge + d > Oldest THEN Oldest ELSE receivedAge + d
    BY <1>9 DEF SetClock
  <2>2. d \in Int /\ -Back <= d
    BY CadenceAssumption
  <2>3. /\ Backs(settings)' = Backs(settings) + Back
        /\ UNCHANGED <<faults, pc, state, waited, link, deadFor, request, toClient>>
    BY <1>9, Known DEF SetClock
  <2>4. Draining' = Draining /\ Drained' = Drained
    BY <2>3 DEF Draining, Drained
  <2>5. WhileBuffered => WhileBuffered'
    BY <2>3, <2>4 DEF WhileBuffered
  <2>6. AfterBuffered => AfterBuffered'
    BY <1>1, <2>1, <2>2, <2>3, <2>4, DrainGrows, Known, Numbers DEF AfterBuffered
  <2> QED BY <2>3, <2>5, <2>6 DEF Dead
<1>10. CASE LinkDies
  <2>1. /\ link = "up" /\ link' = "dead" /\ request' = Nobody
        /\ UNCHANGED <<settings, deadFor, faults, state, receivedAge, pc, waited, toClient>>
    BY <1>10 DEF LinkDies
  <2>2. deadFor = 0 /\ Draining' = Draining /\ Drained' = Drained
    BY <2>1 DEF Dead, Draining, Drained
  <2>3. WhileBuffered'
    BY <2>1, <2>2, DrainGrows, Known, Numbers DEF WhileBuffered
  <2>4. AfterBuffered'
    BY <1>1, <2>1, <2>2, DrainGrows, Known, Numbers DEF AfterBuffered
  <2> QED BY <2>1, <2>3, <2>4 DEF Dead
<1>11. CASE UNCHANGED vars
  BY <1>1, <1>11 DEF vars, Dead, WhileBuffered, AfterBuffered, Draining, Drained
<1> QED BY <1>2, <1>3, <1>4, <1>5, <1>6, <1>7, <1>8, <1>9, <1>10, <1>11 DEF Next, Poll, World

\* However the clock is set and pings fail, a client does not stay Connected on
\* a dead link for longer than the timeout, what it had still to read, and a poll.
THEOREM DeathIsNoticed == Spec => []DeadLinkNoticed
<1> DEFINE Inv == Typed /\ (interval # 0 => Dead)
<1>1. Init => Inv
  BY InitTyped DEF Init, Dead
<1>2. Inv /\ [Next]_vars => Inv'
  <2> SUFFICES ASSUME Inv, [Next]_vars PROVE Inv'
    OBVIOUS
  <2> QED BY NextTyped, DeadKept, Constant
<1>3. Inv => DeadLinkNoticed
  <2> SUFFICES ASSUME Inv, interval # 0, state = "Connected"
               PROVE  deadFor < Timeout(interval) + (MaxBuffer + MaxFaults + 1) * Idle + Park + SetBack
    BY DEF DeadLinkNoticed
  <2>1. /\ Waits(faults) <= Waits(MaxFaults) /\ Waits(MaxFaults) \in Nat
        /\ Waits(MaxBuffer) \in Nat /\ MaxBuffer - toClient \in Nat
        /\ Waits(MaxBuffer - toClient) \in Nat /\ Waits(MaxBuffer - toClient) <= Waits(MaxBuffer)
    <3>1. /\ MaxBuffer - toClient \in Nat /\ MaxBuffer \in Nat /\ MaxBuffer - toClient <= MaxBuffer
          /\ faults \in Nat /\ MaxFaults \in Nat /\ faults <= MaxFaults
      BY Known, Numbers
    <3>2. Waits(faults) <= Waits(MaxFaults) /\ Waits(MaxBuffer - toClient) <= Waits(MaxBuffer)
      BY <3>1, WaitsBounded
    <3>3. Waits(MaxFaults) \in Nat /\ Waits(MaxBuffer) \in Nat /\ Waits(MaxBuffer - toClient) \in Nat
      BY <3>1, WaitsGrow
    <3> QED BY <3>1, <3>2, <3>3
  <2>2. (MaxBuffer + MaxFaults + 1) * Idle = Waits(MaxBuffer) + Waits(MaxFaults) + Idle
    BY Numbers DEF Waits
  <2>3. 0 < Timeout(interval) /\ link \in {"up", "dead"}
    BY Known DEF Typed, TypeOK
  <2>4. CASE link = "up"
    BY <2>1, <2>2, <2>3, <2>4, Known, Numbers DEF Dead
  <2>5. CASE link = "dead" /\ toClient > 0
    <3>1. WhileBuffered
      BY <2>5 DEF Dead
    <3> QED BY <2>1, <2>2, <2>3, <3>1, Known, Numbers DEF WhileBuffered, Draining
  <2>6. CASE link = "dead" /\ toClient = 0
    <3>1. AfterBuffered
      BY <2>6 DEF Dead
    <3> QED BY <2>1, <2>2, <2>3, <3>1, Known, Numbers DEF AfterBuffered, Drained
  <2> QED BY <2>3, <2>4, <2>5, <2>6, Known
<1> QED BY <1>1, <1>2, <1>3, PTL DEF Spec
=============================================================================
