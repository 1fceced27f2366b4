--------------------------- MODULE MCSubscriptions ---------------------------
(* Subscriptions for TLC: two topic filters.                               *)
EXTENDS Subscriptions, TLC

CONSTANTS f1, f2
TwoFilters == {f1, f2}
Symmetry == Permutations(TwoFilters)
=============================================================================
