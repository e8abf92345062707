------------------------- MODULE RoomAuthorization -------------------------
(***************************************************************************)
(* One locked room and everybody who wants in: the owner's node with its   *)
(* ProtectedRoomState, the other nodes with the entry of the room in their *)
(* table and their SecureControlClient, and what travels between them: the *)
(* announcements, which GossipSub delivers late, repeated, out of order or *)
(* never, and the room-join requests of the secure-control channel with    *)
(* their responses.  RoomDirectory has all the rooms of one node; here is  *)
(* what two ends of one room may come to believe of each other.            *)
(*                                                                         *)
(* A node that stops or crashes keeps no lock and no identity: network_task*)
(* makes a key when it starts.  Its user may give the room the same title, *)
(* hence the same id, under the new identity.                              *)
(***************************************************************************)
EXTENDS ProtectedRoomState

CONSTANTS
  Incarnation,      \* the identities the owner's node takes, one after the other
  TheRoom,          \* the room's id, a slug of its title
  NoRoom,           \* no entry in a node's table
  JoinId,           \* request ids
  MaxLockRevision   \* bound: the password changes up to this revision

\* What an announcement says of the room, and of whom it is
LockData == [owner : Incarnation, protected : BOOLEAN, revision : Nat \ {0}]

ASSUME AuthorizationAssumption ==
  Incarnation \subseteq Peer /\ NoRoom \notin LockData /\ MaxLockRevision \in Nat

Client == INSTANCE SecureControlClient

Joiner == Peer \ Incarnation

VARIABLES
  owner,      \* the owner's present identity
  former,     \* its former ones
  lock,       \* the owner's state of the room
  announced,  \* every announcement of the room; the present one by each heartbeat
  table,      \* [Joiner -> what the node's table says of the room]
  client,     \* [Joiner -> the node's SecureControlClient]
  asked,      \* join requests on their way to the owner
  answered,   \* join responses on their way back
  tried,      \* auxiliary: <<peer, owner, password>> of every request ever sent
  lapsed      \* auxiliary: peers whose last grant at the present revision ran out

vars == <<owner, former, lock, announced, table, client, asked, answered, tried, lapsed>>

\* What an action of a joining node, and one of the owner, leaves alone.
ownerVars == <<owner, former, lock, announced, lapsed>>
joinerVars == <<table, client, tried>>

Announced(o, s) == [owner |-> o, protected |-> IsProtected(s), revision |-> s.revision]

Join(c, id) ==
  [id |-> id, room |-> TheRoom, owner |-> table[c].owner, revision |-> table[c].revision]

Init ==
  /\ owner \in Incarnation /\ former = {}
  /\ \E pw \in Password \cup {NoPassword} : lock = NewRoom(pw)
  /\ announced = {Announced(owner, lock)}
  /\ table = [c \in Joiner |-> NoRoom]
  /\ client = [c \in Joiner |-> Client!NewClient]
  /\ asked = {} /\ answered = {}
  /\ tried = {} /\ lapsed = {}

-----------------------------------------------------------------------------
(***************************************************************************)
(* The owner.                                                              *)
(***************************************************************************)
UpdatePassword(pw) ==
  /\ lock.revision < MaxLockRevision
  /\ lock' = PasswordUpdated(lock, pw)
  /\ announced' = announced \cup {Announced(owner, lock')}
  /\ lapsed' = {}
  /\ UNCHANGED <<owner, former, asked, answered, joinerVars>>

\* The node stops or crashes, starts as o and makes the room again.
Restart(o, pw) ==
  /\ o \notin former \cup {owner}
  /\ owner' = o /\ former' = former \cup {owner}
  /\ lock' = NewRoom(pw)
  /\ announced' = announced \cup {Announced(o, lock')}
  /\ lapsed' = {}
  /\ UNCHANGED <<asked, answered, joinerVars>>

\* handle_inbound_control_request: the response does not say what revision it is for.
OnJoinRequest(q) ==
  LET verdict == JoinVerdict(lock, owner, q.peer, q.password)
  IN  /\ q.owner = owner
      /\ asked' = asked \ {q}
      /\ lock' = JoinAuthorized(lock, owner, q.peer, q.password)
      /\ answered' = answered \cup {[peer |-> q.peer, id |-> q.id, granted |-> Grants(verdict)]}
      /\ lapsed' = IF verdict = "Granted" THEN lapsed \ {q.peer} ELSE lapsed
      /\ UNCHANGED <<owner, former, announced, joinerVars>>

GrantExpires(c) ==
  /\ c \in lock.grants
  /\ lock' = GrantExpired(lock, c)
  /\ lapsed' = lapsed \cup {c}
  /\ UNCHANGED <<owner, former, announced, asked, answered, joinerVars>>

WindowPasses(c) ==
  /\ lock.attempts[c] > 0
  /\ lock' = WindowPassed(lock, c)
  /\ UNCHANGED <<owner, former, announced, asked, answered, lapsed, joinerVars>>

-----------------------------------------------------------------------------
(***************************************************************************)
(* A joining node.                                                         *)
(***************************************************************************)
\* WireEvent::RoomCreate: the table takes it from the owner it has, the client only if it
\* may observe it.
OnRoomCreate(c, a) ==
  /\ table[c] # NoRoom => table[c].owner = a.owner
  /\ table' = [table EXCEPT ![c] = a]
  /\ client' = [client EXCEPT ![c] = Client!ObserveRoom(@, TheRoom, a)]
  /\ UNCHANGED <<asked, answered, tried, ownerVars>>

\* NetworkCommand::AuthorizeRoomEntry: the table's revision must be the observed one.
AuthorizeRoomEntry(c, id, pw) ==
  /\ table[c] # NoRoom
  /\ table[c].protected
  /\ \A x \in asked \cup answered \cup client[c].pending : x.id # id
  /\ Client!StillCurrent(client[c], Join(c, id))
  /\ client' = [client EXCEPT ![c] = Client!TrackJoin(@, Join(c, id))]
  /\ asked' = asked \cup {[peer |-> c, id |-> id, owner |-> table[c].owner, password |-> pw]}
  /\ tried' = tried \cup {<<c, table[c].owner, pw>>}
  /\ UNCHANGED <<table, answered, ownerVars>>

OnJoinResponse(c, x) ==
  /\ x.peer = c
  /\ client' = [client EXCEPT ![c] = Client!JoinAnswered(@, x.id, x.granted)]
  /\ answered' = answered \ {x}
  /\ UNCHANGED <<table, asked, tried, ownerVars>>

\* OutboundFailure: the request timed out or its connection broke, before the owner took
\* it or after; a request that is still on its way stays there, a response is dropped.
OnJoinFailure(c, id) ==
  /\ \E x \in asked \cup answered : x.peer = c /\ x.id = id
  /\ client' = [client EXCEPT ![c] = Client!CancelPending(@, id)]
  /\ answered' = {x \in answered : x.id # id}
  /\ asked' \in {asked, {x \in asked : x.id # id}}
  /\ UNCHANGED <<table, tried, ownerVars>>

\* The RoomClose and Goodbye of an owner that stopped forget the room; the end of its
\* presence lease, after a crash or a long silence, forgets only its entry.
OnRoomClosed(c) ==
  /\ table[c] # NoRoom
  /\ table[c].owner \in former
  /\ table' = [table EXCEPT ![c] = NoRoom]
  /\ client' = [client EXCEPT ![c] = Client!ForgetRooms(@, {TheRoom})]
  /\ UNCHANGED <<asked, answered, tried, ownerVars>>

PresenceLeaseExpires(c) ==
  /\ table[c] # NoRoom
  /\ table' = [table EXCEPT ![c] = NoRoom]
  /\ UNCHANGED <<client, asked, answered, tried, ownerVars>>

-----------------------------------------------------------------------------
OwnerStep ==
  \/ \E pw \in Password \cup {NoPassword} :
       UpdatePassword(pw) \/ \E o \in Incarnation : Restart(o, pw)
  \/ \E q \in asked : OnJoinRequest(q)
  \/ \E c \in Joiner : GrantExpires(c) \/ WindowPasses(c)

JoinerStep(c) ==
  \/ \E a \in announced : OnRoomCreate(c, a)
  \/ \E id \in JoinId, pw \in Password : AuthorizeRoomEntry(c, id, pw)
  \/ \E x \in answered : OnJoinResponse(c, x)
  \/ \E id \in JoinId : OnJoinFailure(c, id)
  \/ OnRoomClosed(c)
  \/ PresenceLeaseExpires(c)

Next == OwnerStep \/ \E c \in Joiner : JoinerStep(c)

Spec == Init /\ [][Next]_vars

-----------------------------------------------------------------------------
(***************************************************************************)
(* Properties.                                                             *)
(***************************************************************************)
\* Every variable holds a value of its type.
TypeOK ==
  /\ owner \in Incarnation /\ former \subseteq Incarnation \ {owner}
  /\ lock \in RoomState
  /\ announced \subseteq LockData
  /\ table \in [Joiner -> LockData \cup {NoRoom}]
  /\ asked \subseteq [peer : Joiner, id : JoinId, owner : Incarnation, password : Password]
  /\ answered \subseteq [peer : Joiner, id : JoinId, granted : BOOLEAN]
  /\ tried \subseteq Joiner \X Incarnation \X Password
  /\ lapsed \subseteq Joiner

\* The node's client remembers the room under the owner it has now, or not at all.  It
\* remembers a former one when that owner's presence lease ran out at the node.
UpToDate(c) ==
  TheRoom \in DOMAIN client[c].observed => client[c].observed[TheRoom].owner = owner

\* A node that takes itself for authorized at the owner's present revision was granted
\* entry at that revision, and has nothing to fear but the grant's expiry: neither a
\* response that crosses a password change nor an announcement delivered late makes it
\* believe otherwise.  (The response carries no revision; the client remembers the one it
\* asked under.)
AuthorizedMeansGranted ==
  \A c \in Joiner :
    UpToDate(c) /\ IsProtected(lock) /\ Client!JoinedAt(client[c], TheRoom, lock.revision)
      => c \in lock.grants \cup lapsed

\* Whoever holds a grant has sent the present password to the present owner, not one that
\* it replaced.
GrantedKnewPassword == \A c \in lock.grants : <<c, owner, lock.password>> \in tried

\* The owner's lock is what it admitted: its limiter, its revision and its grants.
GrantsAreEarned == TypeOK /\ GrantedKnewPassword

\* A node whose table shows the owner's present lock can ask to enter, or need not: what
\* its client observed earlier, which no late announcement overwrites as it overwrites the
\* table, never bars it from the room, unless it was observed of a former owner.
CurrentRoomCanBeJoined ==
  \A c \in Joiner :
    UpToDate(c) /\ table[c] = Announced(owner, lock) =>
      IF IsProtected(lock) THEN \A id \in JoinId : Client!StillCurrent(client[c], Join(c, id))
      ELSE Client!RoomAuthorized(client[c], TheRoom, c)
=============================================================================
