----------------------- MODULE RoomMembershipTracker -----------------------
(***************************************************************************)
(* The value kept by RoomMembershipTracker (room_membership.rs) and what   *)
(* its methods compute.  A tracker is a record                             *)
(*   peers        a partial function: tracked peer -> [revision, rooms]    *)
(*   rooms        the reverse index: room -> its members, no empty entry   *)
(*   memberships  the counter of (peer, room) pairs the limit is about     *)
(* The two maps and the counter are updated separately by the code; that   *)
(* they keep describing one relation is what has to be shown.              *)
(* There is no state here: RoomDirectory and MembershipGossip hold         *)
(* trackers in their variables.                                            *)
(***************************************************************************)
EXTENDS Naturals, FiniteSets

CONSTANTS
  Peer,             \* canonical libp2p peer identities
  Room,             \* identifiers valid_temporary_room_id accepts
  MaxRoomsPerPeer,  \* MAX_MEMBERSHIP_ROOMS_PER_PEER (64)
  MaxMemberships,   \* MAX_TRACKED_MEMBERSHIPS (16384)
  MaxPeers          \* MAX_TRACKED_MEMBERSHIP_PEERS (2048)

\* Identifiers are bounded strings, so there are finitely many.
ASSUME FiniteIdentities == IsFiniteSet(Peer) /\ IsFiniteSet(Room)

ASSUME TrackerLimits ==
  /\ MaxRoomsPerPeer \in Nat
  /\ MaxMemberships \in Nat
  /\ MaxPeers \in Nat

EmptyTracker ==
  [peers |-> [p \in {} |-> 0], rooms |-> [r \in {} |-> {}], memberships |-> 0]

RoomsOf(t, p) == IF p \in DOMAIN t.peers THEN t.peers[p].rooms ELSE {}

MembersOf(t, r) == IF r \in DOMAIN t.rooms THEN t.rooms[r] ELSE {}

MemberCount(t, r) == Cardinality(MembersOf(t, r))

\* usize::saturating_sub.
Monus(a, b) == IF a > b THEN a - b ELSE 0

(***************************************************************************)
(* The two loops of apply_snapshot over the index: p leaves the rooms in   *)
(* `removed`, whose entry goes when it becomes empty, and joins those in   *)
(* `added`.  The counter moves only for a member really taken out or put   *)
(* in.                                                                     *)
(***************************************************************************)
Reindexed(t, p, removed, added) ==
  LET members == [r \in DOMAIN t.rooms \cup added |->
                    (MembersOf(t, r) \ {q \in {p} : r \in removed})
                      \cup {q \in {p} : r \in added}]
  IN  [r \in {x \in DOMAIN members : x \in removed => members[x] # {}} |-> members[r]]

Recounted(t, p, removed, added) ==
  Monus(t.memberships, Cardinality({r \in removed : p \in MembersOf(t, r)}))
    + Cardinality({r \in added : p \notin MembersOf(t, r)})

\* The counter apply_snapshot projects before it changes anything.
Projected(t, p, next) ==
  LET retained == RoomsOf(t, p) \cap next
  IN  Monus(t.memberships, Cardinality(RoomsOf(t, p)) - Cardinality(retained))
        + (Cardinality(next) - Cardinality(retained))

\* Mutant of Replaced: the rooms that a snapshot no longer names are kept.
ReplacedKeeping(t, p, rev, next) ==
  [peers       |-> [q \in DOMAIN t.peers \cup {p} |->
                      IF q = p THEN [revision |-> rev, rooms |-> RoomsOf(t, p) \cup next]
                               ELSE t.peers[q]],
   rooms       |-> Reindexed(t, p, {}, next),
   memberships |-> Recounted(t, p, {}, next)]

\* The mutation of apply_snapshot, reached once every check has passed.
Replaced(t, p, rev, next) ==
  LET removed == RoomsOf(t, p) \ next
      added   == next \ RoomsOf(t, p)
  IN  [peers       |-> [q \in DOMAIN t.peers \cup {p} |->
                          IF q = p THEN [revision |-> rev, rooms |-> next]
                                   ELSE t.peers[q]],
       rooms       |-> Reindexed(t, p, removed, added),
       memberships |-> Recounted(t, p, removed, added)]

\* Mutant of SnapshotVerdict: an older revision is not told from a newer one.
VerdictWithoutStale(t, p, rev, next) ==
  LET tracked == p \in DOMAIN t.peers
  IN  IF rev = 0 THEN "InvalidRevision"
      ELSE IF ~(next \subseteq Room) \/ Cardinality(next) > MaxRoomsPerPeer THEN "BadRooms"
      ELSE IF tracked /\ rev = t.peers[p].revision
           THEN IF t.peers[p].rooms = next THEN "Duplicate" ELSE "Conflict"
      ELSE IF Projected(t, p, next) > MaxMemberships THEN "CapacityExceeded"
      ELSE "Applied"

(***************************************************************************)
(* What apply_snapshot answers, in the order the code checks.  The         *)
(* received list is the set `next` of its identifiers: a list that repeats *)
(* one is refused like a list that names an invalid one ("BadRooms").      *)
(***************************************************************************)
SnapshotVerdict(t, p, rev, next) ==
  LET tracked == p \in DOMAIN t.peers
      current == t.peers[p]
  IN  IF rev = 0 THEN "InvalidRevision"
      ELSE IF ~tracked /\ Cardinality(DOMAIN t.peers) >= MaxPeers THEN "CapacityExceeded"
      ELSE IF ~(next \subseteq Room) \/ Cardinality(next) > MaxRoomsPerPeer THEN "BadRooms"
      ELSE IF tracked /\ rev < current.revision THEN "Stale"
      ELSE IF tracked /\ rev = current.revision
           THEN IF current.rooms = next THEN "Duplicate" ELSE "Conflict"
      ELSE IF Projected(t, p, next) > MaxMemberships THEN "CapacityExceeded"
      ELSE "Applied"

ApplySnapshot(t, p, rev, next) ==
  IF SnapshotVerdict(t, p, rev, next) = "Applied" THEN Replaced(t, p, rev, next) ELSE t

\* The rooms whose count apply_snapshot reports as changed.
ChangedRooms(t, p, rev, next) ==
  IF SnapshotVerdict(t, p, rev, next) = "Applied"
  THEN (RoomsOf(t, p) \ next) \cup (next \ RoomsOf(t, p)) ELSE {}

\* Mutant of RemovePeer: the reverse index is forgotten.
RemovePeerUnindexed(t, p) ==
  [peers       |-> [q \in DOMAIN t.peers \ {p} |-> t.peers[q]],
   rooms       |-> t.rooms,
   memberships |-> Recounted(t, p, RoomsOf(t, p), {})]

\* remove_peer forgets the peer with its revision, and its memberships.
RemovePeer(t, p) ==
  [peers       |-> [q \in DOMAIN t.peers \ {p} |-> t.peers[q]],
   rooms       |-> Reindexed(t, p, RoomsOf(t, p), {}),
   memberships |-> Recounted(t, p, RoomsOf(t, p), {})]

\* remove_room for each room of R: out of the index and out of its members' sets.  The
\* members stay tracked, with the revision they had.
RemoveRooms(t, R) ==
  [peers       |-> [q \in DOMAIN t.peers |->
                      [t.peers[q] EXCEPT !.rooms = @ \ {r \in R : q \in MembersOf(t, r)}]],
   rooms       |-> [r \in DOMAIN t.rooms \ R |-> t.rooms[r]],
   memberships |-> Monus(t.memberships,
                         Cardinality({x \in Peer \X R : x[1] \in MembersOf(t, x[2])}))]

-----------------------------------------------------------------------------
(***************************************************************************)
(* What a tracker must satisfy.                                            *)
(***************************************************************************)
TrackerTyped(t) ==
  /\ DOMAIN t = {"peers", "rooms", "memberships"}
  /\ DOMAIN t.peers \subseteq Peer
  /\ t.peers \in [DOMAIN t.peers -> [revision : Nat \ {0}, rooms : SUBSET Room]]
  /\ DOMAIN t.rooms \subseteq Room
  /\ t.rooms \in [DOMAIN t.rooms -> SUBSET Peer]
  /\ t.memberships \in Nat

\* The index holds exactly the members the per-peer sets name, and no room
\* without members.
IndexMatches(t) ==
  /\ \A r \in Room : MembersOf(t, r) = {p \in DOMAIN t.peers : r \in t.peers[p].rooms}
  /\ \A r \in DOMAIN t.rooms : t.rooms[r] # {}

Pairs(t) == {x \in (DOMAIN t.peers) \X Room : x[2] \in t.peers[x[1]].rooms}

\* The counter is the number of pairs, so the limit bounds what is stored.
CounterMatches(t) == t.memberships = Cardinality(Pairs(t))

WithinLimits(t) ==
  /\ t.memberships <= MaxMemberships
  /\ Cardinality(DOMAIN t.peers) <= MaxPeers
  /\ \A p \in DOMAIN t.peers : Cardinality(t.peers[p].rooms) <= MaxRoomsPerPeer
=============================================================================
