-------------------------- MODULE MembershipGossip --------------------------
(***************************************************************************)
(* The membership runtimes of several nodes and the GossipSub messages     *)
(* between them: the announcements of rooms and the membership snapshots.  *)
(* RoomDirectory has one node and an arbitrary environment; here every node*)
(* runs the code, so what one shows can be compared with what another did. *)
(*                                                                         *)
(* A published snapshot may be delivered at any time, late, repeatedly or  *)
(* never; every eight seconds each node publishes its current one again,   *)
(* and each owner its rooms, under fresh message ids.  A node never comes  *)
(* back after it stopped: network_task makes a new identity when it starts.*)
(***************************************************************************)
EXTENDS RoomMembershipRuntime

CONSTANTS
  RoomOwner,    \* [Room -> Peer], the peer that may create the room
  MaxRevision   \* bound: a node stops switching rooms before this revision

ASSUME GossipAssumption ==
  /\ RoomOwner \in [Room -> Peer] /\ MaxRevision \in Nat
  /\ NoSnapshot \notin Snapshot \cup [revision : Nat \ {0}, rooms : SUBSET Room]

VARIABLES
  bridge,     \* [Peer -> the node's membership runtime]
  published   \* the snapshots ever published

vars == <<bridge, published>>

RoomsOwnedBy(o) == {r \in Room : RoomOwner[r] = o}

Init ==
  /\ bridge = [n \in Peer |-> NewRuntime(n)]
  /\ published = {}

\* apply_membership_effects publishes what the bridge hands out.
Becomes(n, after) ==
  /\ bridge' = [bridge EXCEPT ![n] = after]
  /\ published' = published \cup ({Published(bridge[n], after)} \ {NoSnapshot})

-----------------------------------------------------------------------------
\* NetworkCommand::CreateRoom, which enters the room it makes.
CreateRoom(n, r) ==
  /\ r \in RoomsOwnedBy(n) \ bridge[n].known
  /\ CanRegister(bridge[n], r)
  /\ bridge[n].revision + 1 < MaxRevision
  /\ Becomes(n, LocalReplaced(Registered(bridge[n], r), {r}))

\* NetworkCommand::EnterRoom; target is {} for "world".
EnterRoom(n, target) ==
  /\ target # bridge[n].rooms /\ CanEnter(bridge[n], target)
  /\ bridge[n].revision + 1 < MaxRevision
  /\ Becomes(n, LocalReplaced(bridge[n], target))

\* An announcement of r, which its owner has made and repeats.
OnRoomCreate(n, r) ==
  /\ n # RoomOwner[r] /\ r \in bridge[RoomOwner[r]].known
  /\ CanRegister(bridge[n], r)
  /\ Becomes(n, Registered(bridge[n], r))

OnSnapshot(n, s) ==
  /\ Accepted(RemoteVerdict(bridge[n], s))
  /\ Becomes(n, RemoteApplied(bridge[n], s))

\* The heartbeat of p reaches n.
OnHeartbeat(n, p) ==
  /\ Heartbeat(bridge[p]) # NoSnapshot
  /\ OnSnapshot(n, Heartbeat(bridge[p]))

\* ConnectionClosed with no connection left, and the end of a membership lease.
OnConnectionClosed(n, p) ==
  /\ n # p
  /\ Becomes(n, PeerDeparted(bridge[n], p))

\* Nothing of the presence of o reached n for PRESENCE_TTL_SECS.
PresenceLeaseExpires(n, o) ==
  /\ n # o
  /\ Becomes(n, RoomsClosed(PeerDeparted(bridge[n], o), RoomsOwnedBy(o)))

-----------------------------------------------------------------------------
NodeStep(n) ==
  \/ \E r \in Room : CreateRoom(n, r) \/ OnRoomCreate(n, r)
  \/ \E target \in {{}} \cup {{r} : r \in Room} : EnterRoom(n, target)
  \/ \E s \in published : OnSnapshot(n, s)
  \/ \E p \in Peer : OnConnectionClosed(n, p) \/ PresenceLeaseExpires(n, p)

Next == \E n \in Peer : NodeStep(n)

Spec == Init /\ [][Next]_vars

\* The heartbeats never stop, so what they carry keeps arriving at every node that is
\* connected.
FairSpec ==
  /\ Spec
  /\ \A n, p \in Peer : WF_vars(OnHeartbeat(n, p))
  /\ \A n \in Peer, r \in Room : WF_vars(OnRoomCreate(n, r))

-----------------------------------------------------------------------------
(***************************************************************************)
(* Properties.                                                             *)
(***************************************************************************)
\* Every variable holds a value of its type.
TypeOK ==
  /\ \A n \in Peer : RuntimeTyped(bridge[n]) /\ bridge[n].self = n
  /\ published \subseteq Snapshot

\* The view n has of p in its tracker: its own local rooms for itself.
ViewOf(n, p) ==
  IF n = p
  THEN IF bridge[n].revision = 0 THEN NoSnapshot
       ELSE [revision |-> bridge[n].revision, rooms |-> bridge[n].rooms]
  ELSE IF p \in DOMAIN bridge[n].remote.peers THEN bridge[n].remote.peers[p]
  ELSE NoSnapshot

View == INSTANCE MembershipView WITH
  NoView <- NoSnapshot,
  past   <- published,
  view   <- [n \in Peer |-> [p \in Peer |-> ViewOf(n, p)]],
  count  <- [n \in Peer |-> [r \in Room |-> TotalCount(bridge[n], r)]]

\* The runtimes, with their trackers, reverse index, counters and revision checks, keep
\* what MembershipView promises: views of others are their commitments, only move
\* forward while they are held, and what is shown is their number.
KeepsView == View!Spec

\* Whatever the order in which snapshots, announcements, disconnects and expiries met, n
\* counts p in no room that p had not committed to at the revision n has of it.
ViewIsCommitted ==
  \A n \in Peer : \A p \in DOMAIN bridge[n].remote.peers :
    \E s \in published :
      /\ s.peer = p /\ s.revision = bridge[n].remote.peers[p].revision
      /\ bridge[n].remote.peers[p].rooms \subseteq s.rooms

\* The runtimes keep their shape, and what each counts was committed to.
ViewsAreSound == TypeOK /\ ViewIsCommitted

\* n shows p in the rooms where p is, as far as n knows them.
Agree(n, p) ==
  \A r \in bridge[n].known : p \in MembersOf(bridge[n].remote, r) <=> r \in bridge[p].rooms

\* n has closed a room since it had its view of p: the view names less than p committed
\* to at that revision.
Narrowed(n, p) ==
  \E q \in DOMAIN bridge[n].remote.peers \cap {p} :
    [peer |-> q, revision |-> bridge[n].remote.peers[q].revision,
     rooms |-> bridge[n].remote.peers[q].rooms] \notin published

LosesOwners(n) == []<><<\E o \in Peer : PresenceLeaseExpires(n, o)>>_vars

\* Two nodes come to agree again and again on where one of them is, whatever was lost,
\* repeated or reordered on the way and however often they disconnect, unless one keeps
\* losing owners' presence or has closed a room its view of the other still named.
Converges ==
  \A n, p \in Peer : n # p => LosesOwners(n) \/ []<>(Agree(n, p) \/ Narrowed(n, p))
=============================================================================
