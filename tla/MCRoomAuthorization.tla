------------------------ MODULE MCRoomAuthorization ------------------------
(***************************************************************************)
(* Instance of RoomAuthorization.  Request ids are interchangeable, so are *)
(* the passwords, and so are the identities the owner may take.            *)
(***************************************************************************)
EXTENDS RoomAuthorization, TLC

Interchangeable ==
  Permutations(JoinId) \cup Permutations(Password) \cup Permutations(Incarnation)
=============================================================================
