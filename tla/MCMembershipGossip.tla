------------------------- MODULE MCMembershipGossip -------------------------
(***************************************************************************)
(* Instances of MembershipGossip.                                          *)
(***************************************************************************)
EXTENDS MembershipGossip

CONSTANT Host

\* One peer owns every room.
HostedByOne == [r \in Room |-> Host]
=============================================================================
