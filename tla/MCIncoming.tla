----------------------------- MODULE MCIncoming -----------------------------
(* Incoming for TLC: three messages, one of each QoS; version 3 with and    *)
(* without a clean session, version 5 with and without an expiry interval,  *)
(* a receive maximum, a will, and topic aliases.                            *)
EXTENDS Incoming

CONSTANTS m1, m2, m3, none
ThreeMessages == {m1, m2, m3}
OneOfEachQos == [m \in ThreeMessages |-> IF m = m1 THEN {1} ELSE IF m = m2 THEN {2} ELSE {0}]

Plain == [version |-> 3, clean |-> FALSE, will |-> {}, session_expiry |-> {},
          receive_maximum |-> {}, alias_maximum |-> {}]
FourConfigs ==
    {[Plain EXCEPT !.will = {"will"}],
     [Plain EXCEPT !.clean = TRUE],
     [Plain EXCEPT !.version = 5, !.session_expiry = {"long"}, !.receive_maximum = {1}, !.will = {"will"}],
     [Plain EXCEPT !.version = 5, !.receive_maximum = {1}, !.alias_maximum = {1}]}
=============================================================================
