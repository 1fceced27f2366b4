---------------------------- MODULE MCConnection ----------------------------
(* Connection for TLC: a backoff by the factor 1.5 of                       *)
(* ClientConfig::server_application, which cuts off fractions.              *)
EXTENDS Connection

OneAndAHalf == [n \in 0..5 |-> (3 * n) \div 2]
=============================================================================
