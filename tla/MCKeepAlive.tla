---------------------------- MODULE MCKeepAlive ----------------------------
(* KeepAlive for TLC: a clock that is set a little.                        *)
EXTENDS KeepAlive

OneBackTwoForward == {-1, 2}
=============================================================================
