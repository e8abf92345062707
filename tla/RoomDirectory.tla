--------------------------- MODULE RoomDirectory ---------------------------
(***************************************************************************)
(* The rooms of one running node: the part of network_task (lib.rs) that   *)
(* keeps the table of rooms, the membership bridge, the presence of others,*)
(* the locks of the node's own rooms and its client of other rooms' locks. *)
(*                                                                         *)
(* network_task is one task: each arm of its select! loop runs to its end  *)
(* before the next, so a handler is one action.  What it is given is       *)
(* anything the authenticated network may deliver: any announcement or     *)
(* snapshot a remote peer ever publishes, in any order, late, repeated or  *)
(* never.  Time is not modelled: a lease may run out whenever it is held.  *)
(***************************************************************************)
EXTENDS RoomMembershipRuntime

CONSTANTS
  Self,              \* local_peer
  Password, NoPassword, MaxAttempts,   \* see ProtectedRoomState
  Announcement,      \* the WireEvent::RoomCreate the remote owners ever publish
  RemoteSnapshot,    \* the WireEvent::MembershipSnapshot of the remote peers
  MaxRoomsPerOwner,  \* MAX_ROOMS_PER_OWNER (16)
  MaxRoomsTotal,     \* MAX_ROOMS_TOTAL (256)
  JoinId,            \* request ids of the node's own joins
  MaxLocalRevision,  \* bound: the node stops switching rooms before this revision
  MaxLockRevision    \* bound: own rooms' passwords change up to this revision

Owner  == INSTANCE ProtectedRoomState
Client == INSTANCE SecureControlClient

Remote == Peer \ {Self}

\* An honest owner gives a room one lock flag per revision.
Consistent(announcements) ==
  \A a, b \in announcements :
    a.room = b.room /\ a.owner = b.owner /\ a.revision = b.revision
      => a.protected = b.protected

ASSUME DirectoryAssumption ==
  /\ Self \in Peer
  /\ Announcement \subseteq
       [room : Room, owner : Remote, protected : BOOLEAN, revision : Nat \ {0}]
  /\ Consistent(Announcement)
  /\ RemoteSnapshot \subseteq [peer : Remote, revision : Nat \ {0}, rooms : SUBSET Room]
  /\ NoPassword \notin Password /\ MaxAttempts \in Nat \ {0}
  /\ MaxRoomsPerOwner \in Nat /\ MaxRoomsTotal \in Nat
  /\ MaxLocalRevision \in Nat /\ MaxLockRevision \in Nat

VARIABLES
  membership,  \* the membership bridge's runtime
  rooms,       \* rooms: room -> [owner, protected, revision, users]
  owned,       \* owned_rooms: the copies re-announced by the heartbeat
  locks,       \* secure_runtime.protected_rooms
  client,      \* secure_client
  joins,       \* pending_room_authorizations: the joins whose caller waits
  present,     \* the keys of peers: whose presence lease runs
  seen,        \* the keys of membership_seen: whose membership lease runs
  aged         \* those of seen whose last renewal is some time ago

vars == <<membership, rooms, owned, locks, client, joins, present, seen, aged>>

RoomInfo == [owner : Peer, protected : BOOLEAN, revision : Nat \ {0}, users : Nat]

Init ==
  /\ membership = NewRuntime(Self)
  /\ rooms = [r \in {} |-> 0]
  /\ owned = [r \in {} |-> 0]
  /\ locks = [r \in {} |-> 0]
  /\ client = Client!NewClient
  /\ joins = {}
  /\ present = {}
  /\ seen = {}
  /\ aged = {}

-----------------------------------------------------------------------------
OwnedBy(p) == {r \in DOMAIN rooms : rooms[r].owner = p}

\* Mutant of Admitted: whoever announces a known room has it.
AdmittedToAnyOwner(r, p) ==
  \/ r \in DOMAIN rooms
  \/ /\ Cardinality(OwnedBy(p)) < MaxRoomsPerOwner
     /\ Cardinality(DOMAIN rooms) < MaxRoomsTotal

\* room_create_admission.
Admitted(r, p) ==
  IF r \in DOMAIN rooms THEN rooms[r].owner = p
  ELSE /\ Cardinality(OwnedBy(p)) < MaxRoomsPerOwner
       /\ Cardinality(DOMAIN rooms) < MaxRoomsTotal

\* Mutant of Counted: the number of the other members, of which there may be none.
CountedOthers(table, after, changed) ==
  [r \in DOMAIN table |->
     IF r \in changed THEN [table[r] EXCEPT !.users = TotalCount(after, r) - 1] ELSE table[r]]

\* apply_membership_effects: the rooms the bridge reports as changed take the count
\* it reports, when they are in the table.
Counted(table, after, changed) ==
  [r \in DOMAIN table |->
     IF r \in changed THEN [table[r] EXCEPT !.users = TotalCount(after, r)] ELSE table[r]]

\* What a room's table entry says of its lock, the form the client observes it in.
Lock(info) == [owner |-> info.owner, protected |-> info.protected, revision |-> info.revision]

Put(f, k, v) == Client!With(f, k, v)

Drop(f, K) == Client!WithoutAll(f, K)

-----------------------------------------------------------------------------
(***************************************************************************)
(* Commands of the local user.                                             *)
(***************************************************************************)
\* NetworkCommand::EnterRoom; target is {} for "world".
EnterRoom(target) ==
  /\ \A r \in target : Client!RoomAuthorized(client, r, Self)
  /\ CanEnter(membership, target)
  /\ membership.revision + 1 < MaxLocalRevision
  /\ membership' = LocalReplaced(membership, target)
  /\ rooms' = Counted(rooms, membership', LocalChanges(membership, membership'))
  /\ UNCHANGED <<owned, locks, client, joins, present, seen, aged>>

\* NetworkCommand::CreateRoom: admitted like a remote room, and entered.
CreateRoom(r, pw) ==
  LET lock  == Owner!NewRoom(pw)
      after == LocalReplaced(Registered(membership, r), {r})
      info  == [owner |-> Self, protected |-> Owner!IsProtected(lock),
                revision |-> lock.revision, users |-> TotalCount(after, r)]
  IN  /\ Admitted(r, Self)
      /\ r \notin DOMAIN locks
      /\ CanRegister(membership, r) /\ MaxRoomsPerPeer > 0
      /\ membership.revision + 1 < MaxLocalRevision
      /\ membership' = after
      /\ locks' = Put(locks, r, lock)
      /\ owned' = Put(owned, r, info)
      /\ rooms' = Counted(Put(rooms, r, info), after, LocalChanges(membership, after))
      /\ client' = Client!ObserveRoom(client, r, Lock(info))
      /\ UNCHANGED <<joins, present, seen, aged>>

(***************************************************************************)
(* NetworkCommand::UpdateRoomPassword.  The table takes the copy kept in   *)
(* owned_rooms, with the count that copy has had since the room was made.  *)
(***************************************************************************)
UpdateRoomPassword(r, pw) ==
  /\ r \in DOMAIN owned
  /\ locks[r].revision < MaxLockRevision
  /\ LET lock == Owner!PasswordUpdated(locks[r], pw)
         info == [owned[r] EXCEPT !.protected = Owner!IsProtected(lock),
                                  !.revision  = lock.revision]
     IN  /\ locks' = [locks EXCEPT ![r] = lock]
         /\ owned' = [owned EXCEPT ![r] = info]
         /\ rooms' = Put(rooms, r, info)
         /\ client' = Client!ObserveRoom(client, r, Lock(info))
  /\ UNCHANGED <<membership, joins, present, seen, aged>>

\* NetworkCommand::AuthorizeRoomEntry, when it has to ask the owner.
AuthorizeRoomEntry(r, id) ==
  /\ r \in DOMAIN rooms
  /\ rooms[r].protected /\ rooms[r].owner # Self
  /\ id \notin joins
  /\ LET join == [id |-> id, room |-> r, owner |-> rooms[r].owner,
                  revision |-> rooms[r].revision]
     IN  /\ Client!StillCurrent(client, join)
         /\ client' = Client!TrackJoin(client, join)
  /\ joins' = joins \cup {id}
  /\ UNCHANGED <<membership, rooms, owned, locks, present, seen, aged>>

-----------------------------------------------------------------------------
(***************************************************************************)
(* The secure-control channel.                                             *)
(***************************************************************************)
\* The answer to one of the node's joins, and its failure or timeout.
OnJoinResponse(id, granted) ==
  /\ id \in joins
  /\ client' = Client!JoinAnswered(client, id, granted)
  /\ joins' = joins \ {id}
  /\ UNCHANGED <<membership, rooms, owned, locks, present, seen, aged>>

OnJoinFailure(id) ==
  /\ id \in joins
  /\ client' = Client!CancelPending(client, id)
  /\ joins' = joins \ {id}
  /\ UNCHANGED <<membership, rooms, owned, locks, present, seen, aged>>

\* A remote peer asks to join one of the node's rooms.
OnJoinRequest(p, r, pw) ==
  /\ r \in DOMAIN locks
  /\ locks' = [locks EXCEPT ![r] = Owner!JoinAuthorized(@, Self, p, pw)]
  /\ UNCHANGED <<membership, rooms, owned, client, joins, present, seen, aged>>

\* A grant's twelve hours, or a limiter window, come to their end.
GrantExpires(p, r) ==
  /\ r \in DOMAIN locks /\ p \in locks[r].grants
  /\ locks' = [locks EXCEPT ![r] = Owner!GrantExpired(@, p)]
  /\ UNCHANGED <<membership, rooms, owned, client, joins, present, seen, aged>>

WindowPasses(p, r) ==
  /\ r \in DOMAIN locks /\ locks[r].attempts[p] > 0
  /\ locks' = [locks EXCEPT ![r] = Owner!WindowPassed(@, p)]
  /\ UNCHANGED <<membership, rooms, owned, client, joins, present, seen, aged>>

-----------------------------------------------------------------------------
(***************************************************************************)
(* GossipSub messages whose payload identity is their authenticated source.*)
(***************************************************************************)
OnPresence(p) ==
  /\ present' = present \cup {p}
  /\ UNCHANGED <<membership, rooms, owned, locks, client, joins, seen, aged>>

\* Mutant of Departed: the changed counts are not written to the table.
DepartedUncounted(p) ==
  /\ membership' = RoomsClosed(PeerDeparted(membership, p), OwnedBy(p))
  /\ rooms' = Drop(rooms, OwnedBy(p))

\* The departure of p as the membership bridge and the table see it, and the closing
\* of the rooms p owned.
Departed(p) ==
  LET gone == PeerDeparted(membership, p)
      left == Counted(rooms, gone, DepartureChanges(membership, p))
  IN  /\ membership' = RoomsClosed(gone, OwnedBy(p))
      /\ rooms' = Drop(left, OwnedBy(p))

LeaseDropped(p) == seen' = seen \ {p} /\ aged' = aged \ {p}

OnGoodbye(p) ==
  /\ Departed(p)
  /\ client' = Client!ForgetRooms(client, OwnedBy(p))
  /\ present' = present \ {p}
  /\ LeaseDropped(p)
  /\ UNCHANGED <<owned, locks, joins>>

\* A snapshot that names one of the node's locked rooms without a grant is dropped
\* whole; an accepted one renews its sender's lease, even when it changes nothing.
OnSnapshot(s) ==
  /\ \A r \in s.rooms \cap DOMAIN owned :
       owned[r].protected => Owner!IsAuthorized(locks[r], Self, s.peer)
  /\ Accepted(RemoteVerdict(membership, s))
  /\ membership' = RemoteApplied(membership, s)
  /\ rooms' = Counted(rooms, membership', RemoteChanges(membership, s))
  /\ seen' = seen \cup {s.peer}
  /\ aged' = aged \ {s.peer}
  /\ UNCHANGED <<owned, locks, client, joins, present>>

\* The table takes an admitted announcement whether or not the client observes it.
OnRoomCreate(a) ==
  LET info == [owner |-> a.owner, protected |-> a.protected, revision |-> a.revision,
               users |-> TotalCount(membership, a.room)]
  IN  /\ Admitted(a.room, a.owner)
      /\ CanRegister(membership, a.room)
      /\ membership' = Registered(membership, a.room)
      /\ client' = Client!ObserveRoom(client, a.room, Lock(info))
      /\ rooms' = Put(rooms, a.room, info)
      /\ UNCHANGED <<owned, locks, joins, present, seen, aged>>

OnRoomClose(r, p) ==
  /\ r \in OwnedBy(p)
  /\ membership' = RoomsClosed(membership, {r})
  /\ rooms' = Drop(rooms, {r})
  /\ client' = Client!ForgetRooms(client, {r})
  /\ UNCHANGED <<owned, locks, joins, present, seen, aged>>

-----------------------------------------------------------------------------
(***************************************************************************)
(* The swarm and the cleanup tick.  One tick may expire several peers; it  *)
(* treats them one after the other, as several of these steps would.       *)
(***************************************************************************)
\* ConnectionClosed with no connection left: the membership goes, presence stays.
OnConnectionClosed(p) ==
  /\ membership' = PeerDeparted(membership, p)
  /\ rooms' = Counted(rooms, membership', DepartureChanges(membership, p))
  /\ LeaseDropped(p)
  /\ UNCHANGED <<owned, locks, client, joins, present>>

\* Time goes by after the renewal of p's membership lease; the next renewal undoes it.
LeaseAges(p) ==
  /\ p \in seen \ aged
  /\ aged' = aged \cup {p}
  /\ UNCHANGED <<membership, rooms, owned, locks, client, joins, present, seen>>

\* Mutant of MembershipLeaseExpires: the lease goes, the membership stays.
LeaseForgotten(p) ==
  /\ p \in aged
  /\ LeaseDropped(p)
  /\ UNCHANGED <<membership, rooms, owned, locks, client, joins, present>>

\* The cleanup tick finds a lease older than PRESENCE_TTL_SECS.
MembershipLeaseExpires(p) ==
  /\ p \in aged
  /\ OnConnectionClosed(p)

\* Unlike Goodbye and RoomClose, this closes the rooms without telling the client.
PresenceLeaseExpires(p) ==
  /\ p \in present
  /\ Departed(p)
  /\ present' = present \ {p}
  /\ UNCHANGED <<owned, locks, client, joins, seen, aged>>

-----------------------------------------------------------------------------
LocalStep ==
  \/ \E target \in {{}} \cup {{r} : r \in Room} : EnterRoom(target)
  \/ \E r \in Room, pw \in Password \cup {NoPassword} :
       CreateRoom(r, pw) \/ UpdateRoomPassword(r, pw)
  \/ \E r \in Room, id \in JoinId : AuthorizeRoomEntry(r, id)
  \/ \E id \in JoinId : OnJoinResponse(id, TRUE) \/ OnJoinResponse(id, FALSE) \/ OnJoinFailure(id)

\* What arrives from p.
FromPeer(p) ==
  \/ OnPresence(p)
  \/ OnGoodbye(p)
  \/ \E s \in {x \in RemoteSnapshot : x.peer = p} : OnSnapshot(s)
  \/ \E a \in {x \in Announcement : x.owner = p} : OnRoomCreate(a)
  \/ \E r \in Room : OnRoomClose(r, p)
  \/ \E r \in Room, pw \in Password : OnJoinRequest(p, r, pw)

TimerStep(p) ==
  \/ LeaseAges(p)
  \/ MembershipLeaseExpires(p)
  \/ PresenceLeaseExpires(p)
  \/ \E r \in Room : GrantExpires(p, r) \/ WindowPasses(p, r)

Next ==
  \/ LocalStep
  \/ \E p \in Remote : FromPeer(p) \/ OnConnectionClosed(p) \/ TimerStep(p)

Spec == Init /\ [][Next]_vars

\* Time goes by after every renewal, and the cleanup tick, which fires every eight seconds,
\* finds a lease that is never renewed again.  One that is renewed again and again need not
\* expire: each renewal disables the expiry.
FairSpec ==
  Spec /\ \A p \in Remote : WF_vars(LeaseAges(p)) /\ WF_vars(MembershipLeaseExpires(p))

-----------------------------------------------------------------------------
(***************************************************************************)
(* Properties.                                                             *)
(***************************************************************************)
\* Every variable holds a value of its type.
TypeOK ==
  /\ RuntimeTyped(membership) /\ membership.self = Self
  /\ DOMAIN rooms \subseteq Room /\ rooms \in [DOMAIN rooms -> RoomInfo]
  /\ DOMAIN owned \subseteq Room /\ owned \in [DOMAIN owned -> RoomInfo]
  /\ DOMAIN locks = DOMAIN owned /\ locks \in [DOMAIN locks -> Owner!RoomState]
  /\ joins \subseteq JoinId
  /\ present \subseteq Remote
  /\ seen \subseteq Remote /\ aged \subseteq seen

\* The per-peer sets, the per-room index and the counter of the tracker, which
\* apply_snapshot, remove_peer and remove_room update one after the other, describe the
\* same memberships, and stay within the limits the tracker is built with.
MembershipConsistent ==
  /\ IndexMatches(membership.remote)
  /\ CounterMatches(membership.remote)
  /\ WithinLimits(membership.remote)

\* The bridge's registry and the task's table, filled and emptied by separate calls with
\* a limit each, hold the same rooms, and nobody is counted in a room outside them.
RegistryIsTable ==
  /\ membership.known = DOMAIN rooms
  /\ MembersOfKnownRooms(membership)

\* A peer that is counted anywhere has a membership lease, so its silence is noticed
\* (membership_seen is kept beside the tracker by the snapshot, Goodbye, connection and
\* cleanup handlers).
LeaseCoversMembers == DOMAIN membership.remote.peers \subseteq seen

CountIsRight(r) == r \in DOMAIN rooms /\ rooms[r].users = TotalCount(membership, r)

\* Only the owner's password update may leave the table with a wrong count for a room (the
\* one its copy in owned_rooms has from the day the room was made, lib.rs:3698): every other
\* handler writes a right one for a new room, and for the rooms whose members it changes,
\* though it learns of these from what the bridge reports.
CountsKept ==
  [][\A r \in DOMAIN rooms' : r \notin DOMAIN rooms \/ CountIsRight(r) =>
       CountIsRight(r)' \/ \E pw \in Password \cup {NoPassword} : UpdateRoomPassword(r, pw)]_vars

\* No sequence of announcements, departures and own commands takes one of the node's own
\* rooms out of the table, gives it to somebody else or closes it with its owner.
OwnerKeepsRoom ==
  /\ \A r \in DOMAIN owned : r \in DOMAIN rooms /\ rooms[r].owner = Self
  /\ \A p \in Remote : OwnedBy(p) \cap DOMAIN owned = {}

\* docs/ROOM_SECURITY.md: the first accepted owner of an active room keeps it until the
\* room is closed, so no single step replaces the owner of a room in the table.
OwnerOnlyChangesByClosing ==
  [][\A r \in DOMAIN rooms \cap DOMAIN rooms' : rooms'[r].owner = rooms[r].owner]_vars

\* Nobody joins a locked room of the node without holding a grant at that moment.  The
\* lock the handlers test is the copy in owned_rooms, the grants are in secure_runtime.
LockedRoomAdmitsGranted ==
  [][\A r \in DOMAIN locks : Owner!IsProtected(locks[r]) =>
       MembersOf(membership'.remote, r) \ MembersOf(membership.remote, r)
         \subseteq locks[r].grants]_vars

\* A peer from which nothing is heard any more is eventually counted nowhere.
SilentPeersUncounted ==
  \A p \in Remote :
    []<><<FromPeer(p)>>_vars \/ <>[](p \notin DOMAIN membership.remote.peers)

\* What renews p's lease without saying that p is in r.
RenewedWithout(p, r) == \E s \in RemoteSnapshot : s.peer = p /\ r \notin s.rooms /\ OnSnapshot(s)

\* A member that a password change has left without a grant is eventually out of the
\* owner's count, since its heartbeats are dropped and do not renew its lease.  It stays
\* only as long as it keeps repeating a snapshot that leaves the room out and is too old, or
\* in conflict, to take it out: lib.rs:4591 renews the lease on every Ok verdict.
UngrantedMembersLeave ==
  \A p \in Remote, r \in Room :
    \/ []<>(r \notin DOMAIN locks \/ Owner!IsAuthorized(locks[r], Self, p))
    \/ []<><<RenewedWithout(p, r)>>_vars
    \/ <>[](p \notin MembersOf(membership.remote, r))

\* Nobody is counted for ever without saying something: neither the silent, nor the
\* unauthorized whose heartbeats are refused.
CountsDrain == SilentPeersUncounted /\ UngrantedMembersLeave

(***************************************************************************)
(* What the documentation says and the handlers do not keep: a run shows   *)
(* how.                                                                    *)
(***************************************************************************)
\* docs/SECURE_ROOMS_PRIVATE_CHAT.md: "The owner remains authorized without entering its
\* own password."
OwnerIsAuthorized == \A r \in DOMAIN owned : Client!RoomAuthorized(client, r, Self)
=============================================================================
