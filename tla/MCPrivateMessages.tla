------------------------- MODULE MCPrivateMessages -------------------------
(***************************************************************************)
(* Instances of PrivateMessages.                                           *)
(***************************************************************************)
EXTENDS PrivateMessages

CONSTANTS Alice, Bob

\* Which nickname the first session has makes no difference, only who has the same.
FirstIsAlice == [p \in Peer |-> IF p = 1 THEN {Alice} ELSE {Alice, Bob}]
SameNick == [p \in Peer |-> {Alice}]
=============================================================================
