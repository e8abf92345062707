-------------------------- MODULE MCRoomDirectory --------------------------
(***************************************************************************)
(* Instances of RoomDirectory.                                             *)
(***************************************************************************)
EXTENDS RoomDirectory

\* What the remote owners announce: every room, open or locked.
Open ==
  {[room |-> r, owner |-> p, protected |-> FALSE, revision |-> 1] : r \in Room, p \in Remote}
Locked == {[a EXCEPT !.protected = TRUE] : a \in Open}

\* Every snapshot with one of two revisions.
TwoRevisions == [peer : Remote, revision : 1..2, rooms : SUBSET Room]

\* Peers that entered every room and stay; one of them was in no room before.
Settled ==
  [peer : Remote, revision : {2}, rooms : {Room}]
    \cup [peer : {CHOOSE p \in Remote : TRUE}, revision : {1}, rooms : {{}}]
=============================================================================
