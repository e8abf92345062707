----------------------- MODULE RoomMembershipRuntime -----------------------
(***************************************************************************)
(* The value kept by RoomMembershipRuntime (room_membership_runtime.rs),   *)
(* with LocalRoomMembershipState and the checks on a received snapshot     *)
(* (room_membership_wire.rs).  A runtime is a record                       *)
(*   self             local_peer                                           *)
(*   known            known_rooms, the rooms announced and not closed      *)
(*   revision, rooms  the local membership, published as a snapshot        *)
(*   remote           the tracker of everybody else                        *)
(* The adapters above it (desktop, network, live, application, production) *)
(* pass these operations through; where they decide something, the         *)
(* operation says so.                                                      *)
(***************************************************************************)
EXTENDS RoomMembershipTracker

CONSTANTS
  MaxRuntimeRooms,  \* MAX_RUNTIME_ROOMS (256)
  NoSnapshot        \* Option::None of what an operation publishes

ASSUME RuntimeLimits == MaxRuntimeRooms \in Nat

Snapshot == [peer : Peer, revision : Nat \ {0}, rooms : SUBSET Room]

NewRuntime(n) ==
  [self |-> n, known |-> {}, revision |-> 0, rooms |-> {}, remote |-> EmptyTracker]

TotalCount(m, r) ==
  MemberCount(m.remote, r) + (IF r \in m.rooms THEN 1 ELSE 0)

CurrentSnapshot(m) == [peer |-> m.self, revision |-> m.revision, rooms |-> m.rooms]

\* Mutant of Heartbeat: nothing is repeated by a peer that is in no room.
HeartbeatOfMembers(m) == IF m.rooms = {} THEN NoSnapshot ELSE CurrentSnapshot(m)

\* heartbeat_event: the committed snapshot again, nothing before the first one.
Heartbeat(m) == IF m.revision = 0 THEN NoSnapshot ELSE CurrentSnapshot(m)

\* register_room fails only on a new room when the registry is full.
CanRegister(m, r) == r \in m.known \/ Cardinality(m.known) < MaxRuntimeRooms

Registered(m, r) == [m EXCEPT !.known = @ \cup {r}]

(***************************************************************************)
(* replace_rooms: a different set of rooms takes the next revision, the    *)
(* same set takes none and publishes nothing.                              *)
(***************************************************************************)
LocalReplaced(m, next) ==
  IF m.rooms = next THEN m ELSE [m EXCEPT !.revision = @ + 1, !.rooms = next]

\* set_local_rooms refuses a room that is not known, or too many rooms.
CanEnter(m, next) == next \subseteq m.known /\ Cardinality(next) <= MaxRoomsPerPeer

\* The snapshot an operation hands out, if it took a revision.
Published(before, after) ==
  IF after.revision = before.revision THEN NoSnapshot ELSE CurrentSnapshot(after)

LocalChanges(before, after) ==
  (before.rooms \ after.rooms) \cup (after.rooms \ before.rooms)

(***************************************************************************)
(* apply_remote_snapshot on a snapshot whose claimed peer is its           *)
(* authenticated source: never the local peer's own, no unknown room, and  *)
(* then the tracker's verdict.                                             *)
(***************************************************************************)
RemoteVerdict(m, s) ==
  IF s.peer = m.self THEN "LoopbackSnapshot"
  ELSE IF s.revision = 0 THEN "InvalidRevision"
  ELSE IF Cardinality(s.rooms) > MaxRoomsPerPeer THEN "TooManyRooms"
  ELSE IF ~(s.rooms \subseteq m.known) THEN "UnknownRoomId"
  ELSE SnapshotVerdict(m.remote, s.peer, s.revision, s.rooms)

\* The verdicts that are Ok(..): the sender's lease is renewed for each.
Accepted(verdict) == verdict \in {"Applied", "Duplicate", "Stale", "Conflict"}

RemoteApplied(m, s) ==
  IF Accepted(RemoteVerdict(m, s))
  THEN [m EXCEPT !.remote = ApplySnapshot(@, s.peer, s.revision, s.rooms)] ELSE m

RemoteChanges(m, s) ==
  IF Accepted(RemoteVerdict(m, s))
  THEN ChangedRooms(m.remote, s.peer, s.revision, s.rooms) ELSE {}

\* remove_remote_peer: final disconnect, Goodbye and presence expiry.
PeerDeparted(m, p) ==
  IF p = m.self THEN m ELSE [m EXCEPT !.remote = RemovePeer(@, p)]

DepartureChanges(m, p) == IF p = m.self THEN {} ELSE RoomsOf(m.remote, p)

\* Mutant of RoomsClosed: the registry keeps what was closed.
RoomsClosedKnown(m, R) ==
  LET closing == R \cap m.known
      left    == LocalReplaced(m, m.rooms \ closing)
  IN  [left EXCEPT !.remote = RemoveRooms(@, closing)]

(***************************************************************************)
(* close_room for each known room of R, as the handlers loop over the rooms*)
(* of a peer: the local peer leaves first, with a new revision if it was   *)
(* in, then the members and the room itself are forgotten.  The desktop    *)
(* adapter puts the local peer in one room at most, so the loop takes one  *)
(* revision at most.                                                       *)
(***************************************************************************)
RoomsClosed(m, R) ==
  LET closing == R \cap m.known
      left    == LocalReplaced(m, m.rooms \ closing)
  IN  [left EXCEPT !.remote = RemoveRooms(@, closing), !.known = @ \ closing]

-----------------------------------------------------------------------------
RuntimeTyped(m) ==
  /\ DOMAIN m = {"self", "known", "revision", "rooms", "remote"}
  /\ m.self \in Peer
  /\ m.known \subseteq Room
  /\ m.revision \in Nat
  /\ m.rooms \subseteq Room
  /\ TrackerTyped(m.remote)

\* Nobody is a member of a room that is not known, and the local peer is not
\* among the remote members it would be counted with twice.
MembersOfKnownRooms(m) ==
  /\ m.rooms \subseteq m.known
  /\ DOMAIN m.remote.rooms \subseteq m.known
  /\ m.self \notin DOMAIN m.remote.peers
=============================================================================
