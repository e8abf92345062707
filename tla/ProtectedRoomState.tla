------------------------- MODULE ProtectedRoomState -------------------------
(***************************************************************************)
(* The owner's side of one room (ProtectedRoomState, room_password_state.rs*)
(* and the lookups of SecureControlRuntime around it).  A room state is a  *)
(* record                                                                  *)
(*   revision  the authorization revision, 1 when the room is created      *)
(*   password  what the verifier accepts, NoPassword without a verifier    *)
(*   grants    the peers holding a grant.  update_password clears them and *)
(*             authorize_join stamps the current revision, so a grant that *)
(*             is stored is a grant for `revision`; its expiry is the      *)
(*             operation GrantExpired                                      *)
(*   attempts  the limiter's count for each peer in the current window     *)
(***************************************************************************)
EXTENDS Naturals

CONSTANTS
  Peer,
  Password,      \* passwords validate_room_password accepts
  NoPassword,    \* an open room
  MaxAttempts    \* ROOM_AUTH_MAX_ATTEMPTS (5)

ASSUME PasswordAssumption == NoPassword \notin Password /\ MaxAttempts \in Nat \ {0}

RoomState ==
  [revision : Nat \ {0}, password : Password \cup {NoPassword},
   grants : SUBSET Peer, attempts : [Peer -> 0..MaxAttempts]]

NewRoom(pw) ==
  [revision |-> 1, password |-> pw, grants |-> {}, attempts |-> [p \in Peer |-> 0]]

IsProtected(s) == s.password # NoPassword

\* Mutant of PasswordUpdated: a new password keeps the grants of the old one.
PasswordUpdatedKeeping(s, pw) ==
  IF pw = NoPassword /\ ~IsProtected(s) THEN s
  ELSE [s EXCEPT !.revision = @ + 1, !.password = pw]

\* update_password by the owner: opening an open room changes nothing, any other
\* update takes a revision and forgets every grant, the same password included.
PasswordUpdated(s, pw) ==
  IF pw = NoPassword /\ ~IsProtected(s) THEN s
  ELSE [s EXCEPT !.revision = @ + 1, !.password = pw, !.grants = {}]

(***************************************************************************)
(* authorize_join.  The attempt is counted before the password is looked   *)
(* at, and not at all for the owner or an open room.                       *)
(***************************************************************************)
JoinVerdict(s, owner, p, pw) ==
  IF p = owner \/ ~IsProtected(s) THEN "Open"
  ELSE IF s.attempts[p] >= MaxAttempts THEN "RateLimited"
  ELSE IF pw # s.password THEN "InvalidPassword"
  ELSE "Granted"

JoinAuthorized(s, owner, p, pw) ==
  LET verdict == JoinVerdict(s, owner, p, pw)
  IN  [s EXCEPT !.attempts[p] = IF verdict \in {"InvalidPassword", "Granted"} THEN @ + 1 ELSE @,
                !.grants      = IF verdict = "Granted" THEN @ \cup {p} ELSE @]

\* The response says `granted` for a grant and for a room that needs none.
Grants(verdict) == verdict \in {"Open", "Granted"}

\* Mutant of IsAuthorized: any grant of the room will do.
AnyGrant(s, owner, p) == p = owner \/ ~IsProtected(s) \/ s.grants # {}

IsAuthorized(s, owner, p) == p = owner \/ ~IsProtected(s) \/ p \in s.grants

\* is_valid_for refuses a grant after ROOM_ACCESS_GRANT_TTL_SECS; prune drops it.
GrantExpired(s, p) == [s EXCEPT !.grants = @ \ {p}]

\* WindowRateLimiter.allow starts a new window ROOM_AUTH_WINDOW_SECS after the first
\* attempt of the last one.
WindowPassed(s, p) == [s EXCEPT !.attempts[p] = 0]
=============================================================================
