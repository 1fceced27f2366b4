----------------------------- MODULE MCPublish5 -----------------------------
(* Publish5 for TLC: three messages, two of them to the same topic.        *)
EXTENDS Publish5

TopicsTUT == <<"t", "u", "t">>
=============================================================================
