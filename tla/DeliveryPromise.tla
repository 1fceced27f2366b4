-------------------------- MODULE DeliveryPromise --------------------------
(***************************************************************************)
(* What publishing with QoS 1 and QoS 2 promises the application: a        *)
(* message is acknowledged only after the broker has delivered it, only    *)
(* accepted messages are delivered, a message in Once at most once, and no *)
(* message leaves the client's care undelivered unless it is abandoned     *)
(* (given up after its retries, or cleared with the session).              *)
(***************************************************************************)
EXTENDS Integers

CONSTANTS Msgs, Once

VARIABLES accepted, held, deliveries, acked, abandoned

vars == <<accepted, held, deliveries, acked, abandoned>>

\* The client takes charge of a message.
Accept(m) ==
    /\ m \notin accepted
    /\ accepted' = accepted \cup {m} /\ held' = held \cup {m}
    /\ UNCHANGED <<deliveries, acked, abandoned>>

Deliver(m) ==
    /\ m \in accepted /\ (m \in Once => deliveries[m] = 0)
    /\ deliveries' = [deliveries EXCEPT ![m] = IF @ < 2 THEN @ + 1 ELSE @]
    /\ UNCHANGED <<accepted, held, acked, abandoned>>

\* The client stops holding a message the broker has, and may report it.
HandOver(m) ==
    /\ deliveries[m] > 0
    /\ held' \in {held, held \ {m}}
    /\ acked' \in {acked, acked \cup {m}}
    /\ UNCHANGED <<accepted, deliveries, abandoned>>

Abandon(S) ==
    /\ S \subseteq held
    /\ held' = held \ S /\ abandoned' = abandoned \cup S
    /\ UNCHANGED <<accepted, deliveries, acked>>

Init ==
    /\ accepted = {} /\ held = {} /\ deliveries = [m \in Msgs |-> 0]
    /\ acked = {} /\ abandoned = {}

Next ==
    \/ \E m \in Msgs : Accept(m) \/ Deliver(m) \/ HandOver(m)
    \/ \E S \in SUBSET Msgs : Abandon(S)

Spec == Init /\ [][Next]_vars
=============================================================================
