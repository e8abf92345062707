---------------------------- MODULE MCColdStart ----------------------------
(* One peer that is a bootstrap target, a participant, or both.            *)
EXTENDS ColdStart, TLC

CONSTANTS p, l1, l2

\* An advertisement offers everything, or circuits alone.
Offers == {[endpoints |-> Kind, relay |-> TRUE], [endpoints |-> {"circuit"}, relay |-> FALSE]}

\* Bound: connections of the peer and dials under way, together.
Few == Cardinality(links[p]) + Cardinality(dials[p]) <= 2

\* Listeners are alike.
Listeners == Permutations({l1, l2})
=============================================================================
