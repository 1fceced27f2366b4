------------------------------ MODULE MCStream ------------------------------
(* Stream for TLC: packets of two and three bytes.                         *)
EXTENDS Stream

ThreePackets == <<2, 2, 3>>
=============================================================================
