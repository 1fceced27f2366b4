----------------------------- MODULE MCDelivery -----------------------------
(* Delivery for TLC: two or three messages, two of them QoS 2.              *)
EXTENDS Delivery

CONSTANTS m1, m2, m3
TwoMessages == {m1, m2}
ThreeMessages == {m1, m2, m3}
=============================================================================
