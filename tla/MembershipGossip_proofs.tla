---------------------- MODULE MembershipGossip_proofs ----------------------
(***************************************************************************)
(* Theorems about MembershipGossip: whatever the order in which snapshots, *)
(* announcements, disconnects and expiries meet, each node holds of each   *)
(* other one a set of rooms it committed to, and the runtimes implement    *)
(* MembershipView, for every set of peers and rooms and every limit.       *)
(*                                                                         *)
(* Every action replaces one node's runtime by an operation of it.  What   *)
(* such an operation may do to the node and its views is Evolves; each     *)
(* operation is shown to do no more, and both theorems follow from that.   *)
(***************************************************************************)
EXTENDS MembershipGossip, RoomMembership_proofs

\* What the runtime m has of p: ViewOf as a function of the runtime alone.
Seen(m, p) ==
  IF m.self = p
  THEN IF m.revision = 0 THEN NoSnapshot ELSE [revision |-> m.revision, rooms |-> m.rooms]
  ELSE IF p \in DOMAIN m.remote.peers THEN m.remote.peers[p] ELSE NoSnapshot

\* A runtime is sound, and is in no room before its first revision.
NodeSound(m) == RuntimeSound(m) /\ (m.revision = 0 => m.rooms = {})

\* The view of somebody else narrowed, at the revision it had.
Narrows(old, new) == new.revision = old.revision /\ new.rooms \subseteq old.rooms

Commitment(p, view) == [peer |-> p, revision |-> view.revision, rooms |-> view.rooms]

\* Every view of the others that `after` has is one that `before` had, perhaps narrowed,
\* or a later commitment among those made.
ViewsFollow(before, after, made) ==
  \A p \in DOMAIN after.remote.peers :
    \/ /\ p \in DOMAIN before.remote.peers
       /\ Narrows(before.remote.peers[p], after.remote.peers[p])
    \/ /\ Commitment(p, after.remote.peers[p]) \in made
       /\ p \in DOMAIN before.remote.peers =>
            after.remote.peers[p].revision > before.remote.peers[p].revision

\* The local rooms change only with the next revision.
LocalFollows(before, after) ==
  \/ after.revision = before.revision /\ after.rooms = before.rooms
  \/ after.revision = before.revision + 1

\* What an operation may make of a runtime.
Evolves(before, after, made) ==
  /\ NodeSound(after) /\ after.self = before.self
  /\ LocalFollows(before, after)
  /\ ViewsFollow(before, after, made)

-----------------------------------------------------------------------------
(***************************************************************************)
(* The operations.                                                         *)
(***************************************************************************)
\* What a sound runtime has of the others is a revision and a set of rooms.
LEMMA ViewsTyped ==
  ASSUME NEW m, NodeSound(m), NEW p \in DOMAIN m.remote.peers
  PROVE  /\ p \in Peer /\ p # m.self
         /\ m.remote.peers[p] \in [revision : Nat \ {0}, rooms : SUBSET Room]
BY DEF NodeSound, RuntimeSound, RuntimeTyped, TrackerTyped, MembersOfKnownRooms

\* A runtime whose tracker did not change follows whatever was committed.
LEMMA SameViewsFollow ==
  ASSUME NEW before, NEW after, NEW made, after.remote = before.remote
  PROVE  ViewsFollow(before, after, made)
BY DEF ViewsFollow, Narrows

\* A step after one that only registered a room or lost views evolves from the start too.
LEMMA EvolvesAfter ==
  ASSUME NEW a, NEW b, NEW c, NEW made,
         Evolves(b, c, made),
         b.self = a.self, b.revision = a.revision, b.rooms = a.rooms,
         DOMAIN b.remote.peers \subseteq DOMAIN a.remote.peers,
         \A p \in DOMAIN b.remote.peers : b.remote.peers[p] = a.remote.peers[p],
         \A p \in DOMAIN c.remote.peers :
           /\ p \in DOMAIN b.remote.peers
           /\ Narrows(b.remote.peers[p], c.remote.peers[p])
  PROVE  Evolves(a, c, made)
<1>1. NodeSound(c) /\ c.self = a.self
  BY DEF Evolves
<1>2. LocalFollows(a, c)
  BY DEF Evolves, LocalFollows
<1>3. ViewsFollow(a, c, made)
  BY DEF ViewsFollow
<1> QED
  BY <1>1, <1>2, <1>3 DEF Evolves

\* A registered room changes neither the local rooms nor a view.
LEMMA RegisteredEvolves ==
  ASSUME NEW m, NodeSound(m), NEW r \in Room, NEW made
  PROVE  Evolves(m, Registered(m, r), made)
<1> DEFINE n == Registered(m, r)
<1>1. /\ RuntimeSound(n)
      /\ n.self = m.self /\ n.remote = m.remote
      /\ n.rooms = m.rooms /\ n.revision = m.revision
  BY RegisteredSound DEF NodeSound
<1> HIDE DEF n
<1>2. NodeSound(n) /\ LocalFollows(m, n) /\ ViewsFollow(m, n, made)
  BY <1>1, SameViewsFollow DEF NodeSound, LocalFollows
<1> QED
  BY <1>1, <1>2 DEF Evolves, n

\* Another set of local rooms takes the next revision, the same set takes none.
LEMMA LocalReplacedRevision ==
  ASSUME NEW m, NodeSound(m), NEW next \in SUBSET m.known
  PROVE  /\ LocalFollows(m, LocalReplaced(m, next))
         /\ NodeSound(LocalReplaced(m, next))
<1> DEFINE n == LocalReplaced(m, next)
<1>1. RuntimeSound(n) /\ n.rooms = next
  BY LocalReplacedSound DEF NodeSound
<1>2. m.revision \in Nat /\ m.rooms \subseteq Room /\ "revision" \in DOMAIN m
  BY DEF NodeSound, RuntimeSound, RuntimeTyped
<1>3. CASE m.rooms = next
  <2>1. n = m
    BY <1>3 DEF LocalReplaced
  <2> QED
    BY <2>1 DEF LocalFollows
<1>4. CASE m.rooms # next
  <2>1. n.revision = m.revision + 1
    BY <1>2, <1>4 DEF LocalReplaced
  <2> HIDE DEF n
  <2>2. LocalFollows(m, n) /\ NodeSound(n)
    BY <1>1, <1>2, <2>1 DEF LocalFollows, NodeSound
  <2> QED
    BY <2>2 DEF n
<1> QED
  BY <1>3, <1>4

\* Switching the local rooms changes no view of the others.
LEMMA LocalReplacedEvolves ==
  ASSUME NEW m, NodeSound(m), NEW next \in SUBSET m.known, NEW made
  PROVE  Evolves(m, LocalReplaced(m, next), made)
<1> DEFINE n == LocalReplaced(m, next)
<1>1. n.self = m.self /\ n.remote = m.remote
  BY LocalReplacedSound DEF NodeSound
<1>2. LocalFollows(m, n) /\ NodeSound(n)
  BY LocalReplacedRevision
<1> HIDE DEF n
<1>3. ViewsFollow(m, n, made)
  BY <1>1, SameViewsFollow
<1> QED
  BY <1>1, <1>2, <1>3 DEF Evolves, n

\* An accepted snapshot replaces the view of its sender only when it is newer.
LEMMA RemoteAppliedEvolves ==
  ASSUME NEW m, NodeSound(m), NEW made, NEW s \in made, s \in Snapshot
  PROVE  Evolves(m, RemoteApplied(m, s), made)
<1> DEFINE n == RemoteApplied(m, s)
           u == ApplySnapshot(m.remote, s.peer, s.revision, s.rooms)
<1>1. RuntimeSound(n) /\ n.self = m.self /\ n.rooms = m.rooms
  BY RemoteAppliedSound DEF NodeSound
<1>2. n.revision = m.revision /\ (n.remote = m.remote \/ n.remote = u)
  BY DEF RemoteApplied, NodeSound, RuntimeSound, RuntimeTyped
<1>3. ViewsFollow(m, n, made)
  <2>1. CASE n.remote = m.remote
    BY <2>1, SameViewsFollow
  <2>2. CASE n.remote = u /\ SnapshotVerdict(m.remote, s.peer, s.revision, s.rooms) = "Applied"
    <3>1. /\ DOMAIN u.peers = DOMAIN m.remote.peers \cup {s.peer}
          /\ u.peers[s.peer] = [revision |-> s.revision, rooms |-> s.rooms]
          /\ \A q \in DOMAIN m.remote.peers \ {s.peer} : u.peers[q] = m.remote.peers[q]
      BY <2>2 DEF ApplySnapshot, Replaced
    <3>2. ASSUME s.peer \in DOMAIN m.remote.peers
          PROVE  s.revision > m.remote.peers[s.peer].revision
      <4>1. m.remote.peers[s.peer].revision \in Nat
        BY <3>2, ViewsTyped
      <4>2. s.revision \in Nat
        BY DEF Snapshot
      <4>3. /\ ~(s.revision < m.remote.peers[s.peer].revision)
            /\ s.revision # m.remote.peers[s.peer].revision
        BY <2>2, <3>2 DEF SnapshotVerdict
      <4> QED
        BY <4>1, <4>2, <4>3
    <3>3. Commitment(s.peer, u.peers[s.peer]) = s
      BY <3>1 DEF Commitment, Snapshot
    <3> HIDE DEF u
    <3> QED
      BY <2>2, <3>1, <3>2, <3>3 DEF ViewsFollow, Narrows
  <2>3. CASE n.remote = u /\ SnapshotVerdict(m.remote, s.peer, s.revision, s.rooms) # "Applied"
    <3>1. n.remote = m.remote
      BY <2>3 DEF ApplySnapshot
    <3> QED
      BY <3>1, SameViewsFollow
  <2> QED
    BY <1>2, <2>1, <2>2, <2>3
<1> HIDE DEF n
<1>4. NodeSound(n) /\ LocalFollows(m, n)
  BY <1>1, <1>2 DEF NodeSound, LocalFollows
<1> QED
  BY <1>1, <1>3, <1>4 DEF Evolves, n

\* A departure loses one view and changes nothing else.
LEMMA PeerDepartedKeeps ==
  ASSUME NEW m, NodeSound(m), NEW p \in Peer
  PROVE  LET n == PeerDeparted(m, p)
         IN  /\ NodeSound(n)
             /\ n.self = m.self /\ n.revision = m.revision /\ n.rooms = m.rooms
             /\ n.known = m.known
             /\ DOMAIN n.remote.peers \subseteq DOMAIN m.remote.peers
             /\ \A q \in DOMAIN n.remote.peers : n.remote.peers[q] = m.remote.peers[q]
<1> DEFINE n == PeerDeparted(m, p)
<1>1. /\ RuntimeSound(n)
      /\ n.self = m.self /\ n.known = m.known /\ n.rooms = m.rooms
      /\ DOMAIN n.remote.peers = DOMAIN m.remote.peers \ {p}
  BY PeerDepartedSound DEF NodeSound
<1>2. n.revision = m.revision /\ (n.remote = m.remote \/ n.remote = RemovePeer(m.remote, p))
  BY DEF PeerDeparted, NodeSound, RuntimeSound, RuntimeTyped
<1> HIDE DEF n
<1>3. \A q \in DOMAIN n.remote.peers : n.remote.peers[q] = m.remote.peers[q]
  BY <1>1, <1>2 DEF RemovePeer
<1>4. NodeSound(n)
  BY <1>1, <1>2 DEF NodeSound
<1> QED
  BY <1>1, <1>2, <1>3, <1>4 DEF n

\* So a departure evolves the runtime.
LEMMA PeerDepartedEvolves ==
  ASSUME NEW m, NodeSound(m), NEW p \in Peer, NEW made
  PROVE  Evolves(m, PeerDeparted(m, p), made)
<1> DEFINE n == PeerDeparted(m, p)
<1>1. /\ NodeSound(n)
      /\ n.self = m.self /\ n.revision = m.revision /\ n.rooms = m.rooms
      /\ DOMAIN n.remote.peers \subseteq DOMAIN m.remote.peers
      /\ \A q \in DOMAIN n.remote.peers : n.remote.peers[q] = m.remote.peers[q]
  BY PeerDepartedKeeps
<1> HIDE DEF n
<1>2. LocalFollows(m, n)
  BY <1>1 DEF LocalFollows
<1>3. ViewsFollow(m, n, made)
  BY <1>1 DEF ViewsFollow, Narrows
<1> QED
  BY <1>1, <1>2, <1>3 DEF Evolves, n

\* Closing rooms only narrows the views, and takes one revision when the local peer left.
LEMMA RoomsClosedEvolves ==
  ASSUME NEW m, NodeSound(m), NEW R, NEW made
  PROVE  LET n == RoomsClosed(m, R)
         IN  /\ Evolves(m, n, made)
             /\ \A q \in DOMAIN n.remote.peers :
                  /\ q \in DOMAIN m.remote.peers
                  /\ Narrows(m.remote.peers[q], n.remote.peers[q])
<1> DEFINE closing == R \cap m.known
           left    == LocalReplaced(m, m.rooms \ closing)
           u       == RemoveRooms(m.remote, closing)
           n       == RoomsClosed(m, R)
<1>1. /\ RuntimeSound(n) /\ n.self = m.self
      /\ DOMAIN n.remote.peers = DOMAIN m.remote.peers
  BY RoomsClosedSound DEF NodeSound
<1>2. m.rooms \ closing \in SUBSET m.known
  BY DEF NodeSound, RuntimeSound, MembersOfKnownRooms
<1>3. /\ LocalFollows(m, left) /\ NodeSound(left) /\ left.remote = m.remote
  BY <1>2, LocalReplacedRevision, LocalReplacedSound DEF NodeSound
<1>4. n = [left EXCEPT !.remote = RemoveRooms(@, closing), !.known = @ \ closing]
  BY DEF RoomsClosed
<1> HIDE DEF left, n
<1>5. n.revision = left.revision /\ n.rooms = left.rooms /\ n.remote = u
  BY <1>3, <1>4 DEF NodeSound, RuntimeSound, RuntimeTyped
<1>6. LocalFollows(m, n) /\ NodeSound(n)
  BY <1>1, <1>3, <1>5 DEF LocalFollows, NodeSound
<1>7. ASSUME NEW q \in DOMAIN n.remote.peers
      PROVE  q \in DOMAIN m.remote.peers /\ Narrows(m.remote.peers[q], n.remote.peers[q])
  <2>1. q \in DOMAIN m.remote.peers
    BY <1>1, <1>7
  <2>2. m.remote.peers[q] \in [revision : Nat \ {0}, rooms : SUBSET Room]
    BY <2>1, ViewsTyped
  <2>3. n.remote.peers[q] =
          [m.remote.peers[q] EXCEPT !.rooms = @ \ {r \in closing : q \in MembersOf(m.remote, r)}]
    BY <1>5, <2>1 DEF RemoveRooms
  <2> QED
    BY <2>1, <2>2, <2>3 DEF Narrows
<1>8. ViewsFollow(m, n, made)
  BY <1>7 DEF ViewsFollow
<1> QED
  BY <1>1, <1>6, <1>7, <1>8 DEF Evolves, n
-----------------------------------------------------------------------------
(***************************************************************************)
(* The inductive invariant.                                                *)
(***************************************************************************)
\* Each node's runtime is sound and is its own.
NodesAreSound ==
  /\ DOMAIN bridge = Peer
  /\ \A n \in Peer : NodeSound(bridge[n]) /\ bridge[n].self = n

\* A node has published each revision it took, and none it has yet to take.
RevisionsArePublished ==
  \A n \in Peer :
    /\ bridge[n].revision # 0 => CurrentSnapshot(bridge[n]) \in published
    /\ \A s \in published : s.peer = n => s.revision <= bridge[n].revision

Inv ==
  /\ NodesAreSound /\ published \subseteq Snapshot
  /\ RevisionsArePublished /\ ViewIsCommitted

\* Each step replaces one node's runtime by one that evolves from it.
LEMMA StepEvolves ==
  ASSUME Inv, NEW n \in Peer, NodeStep(n)
  PROVE  \E after : Becomes(n, after) /\ Evolves(bridge[n], after, published)
<1> DEFINE m == bridge[n]
<1>1. NodeSound(m) /\ m.self = n
  BY DEF Inv, NodesAreSound
<1>2. m.known \in SUBSET Room
  BY <1>1 DEF NodeSound, RuntimeSound, RuntimeTyped
<1>3. ASSUME NEW r \in Room, CreateRoom(n, r)
      PROVE  \E after : Becomes(n, after) /\ Evolves(m, after, published)
  <2> DEFINE b == Registered(m, r)
             c == LocalReplaced(b, {r})
  <2>1. /\ RuntimeSound(b)
        /\ b.self = m.self /\ b.known = m.known \cup {r} /\ b.remote = m.remote
        /\ b.rooms = m.rooms /\ b.revision = m.revision
    BY <1>1, RegisteredSound DEF NodeSound
  <2>2. Becomes(n, c)
    BY <1>3 DEF CreateRoom
  <2> HIDE DEF b
  <2>3. NodeSound(b)
    BY <1>1, <2>1 DEF NodeSound
  <2>4. {r} \in SUBSET b.known
    BY <2>1
  <2>5. Evolves(b, c, published)
    BY <2>3, <2>4, LocalReplacedEvolves
  <2>6. c.remote = b.remote
    BY <2>3, <2>4, LocalReplacedSound DEF NodeSound
  <2> HIDE DEF c
  <2>7. ASSUME NEW p \in DOMAIN c.remote.peers
        PROVE  p \in DOMAIN b.remote.peers /\ Narrows(b.remote.peers[p], c.remote.peers[p])
    BY <2>6 DEF Narrows
  <2>8. Evolves(m, c, published)
    BY <2>1, <2>5, <2>7, EvolvesAfter
  <2> QED
    BY <2>2, <2>8
<1>4. ASSUME NEW r \in Room, OnRoomCreate(n, r)
      PROVE  \E after : Becomes(n, after) /\ Evolves(m, after, published)
  BY <1>1, <1>4, RegisteredEvolves DEF OnRoomCreate
<1>5. ASSUME NEW target, EnterRoom(n, target)
      PROVE  \E after : Becomes(n, after) /\ Evolves(m, after, published)
  <2>1. target \in SUBSET m.known
    BY <1>5 DEF EnterRoom, CanEnter
  <2> QED
    BY <1>1, <1>5, <2>1, LocalReplacedEvolves DEF EnterRoom
<1>6. ASSUME NEW s \in published, OnSnapshot(n, s)
      PROVE  \E after : Becomes(n, after) /\ Evolves(m, after, published)
  <2>1. s \in Snapshot
    BY DEF Inv
  <2> QED
    BY <1>1, <1>6, <2>1, RemoteAppliedEvolves DEF OnSnapshot
<1>7. ASSUME NEW p \in Peer, OnConnectionClosed(n, p)
      PROVE  \E after : Becomes(n, after) /\ Evolves(m, after, published)
  BY <1>1, <1>7, PeerDepartedEvolves DEF OnConnectionClosed
<1>8. ASSUME NEW p \in Peer, PresenceLeaseExpires(n, p)
      PROVE  \E after : Becomes(n, after) /\ Evolves(m, after, published)
  <2> DEFINE b == PeerDeparted(m, p)
             c == RoomsClosed(b, RoomsOwnedBy(p))
  <2>1. Becomes(n, c)
    BY <1>8 DEF PresenceLeaseExpires
  <2>2. /\ NodeSound(b)
        /\ b.self = m.self /\ b.revision = m.revision /\ b.rooms = m.rooms
        /\ DOMAIN b.remote.peers \subseteq DOMAIN m.remote.peers
        /\ \A q \in DOMAIN b.remote.peers : b.remote.peers[q] = m.remote.peers[q]
    BY <1>1, PeerDepartedKeeps
  <2> HIDE DEF b
  <2>3. /\ Evolves(b, c, published)
        /\ \A q \in DOMAIN c.remote.peers :
             q \in DOMAIN b.remote.peers /\ Narrows(b.remote.peers[q], c.remote.peers[q])
    BY <2>2, RoomsClosedEvolves
  <2> HIDE DEF c
  <2>4. Evolves(m, c, published)
    BY <2>2, <2>3, EvolvesAfter
  <2> QED
    BY <2>1, <2>4
<1> QED
  BY <1>3, <1>4, <1>5, <1>6, <1>7, <1>8 DEF NodeStep

\* What such a step publishes: the new revision of the node, if it took one.
LEMMA BecomesPublishes ==
  ASSUME Inv, NEW n \in Peer, NEW after,
         Becomes(n, after), Evolves(bridge[n], after, published)
  PROVE  /\ NodeSound(bridge[n]) /\ NodeSound(after) /\ after.self = n
         /\ bridge'[n] = after /\ DOMAIN bridge' = Peer
         /\ \A m \in Peer \ {n} : bridge'[m] = bridge[m]
         /\ after.revision = bridge[n].revision =>
              after.rooms = bridge[n].rooms /\ published' = published
         /\ after.revision # bridge[n].revision =>
              /\ after.revision = bridge[n].revision + 1
              /\ CurrentSnapshot(after) \in Snapshot
              /\ published' = published \cup {CurrentSnapshot(after)}
<1>1. /\ NodeSound(bridge[n]) /\ bridge[n].self = n /\ DOMAIN bridge = Peer
      /\ NodeSound(after) /\ after.self = n
  BY DEF Inv, NodesAreSound, Evolves
<1>2. /\ bridge'[n] = after /\ DOMAIN bridge' = Peer
      /\ \A m \in Peer \ {n} : bridge'[m] = bridge[m]
  BY <1>1 DEF Becomes
<1>3. after.revision \in Nat /\ bridge[n].revision \in Nat /\ after.rooms \subseteq Room
  BY <1>1 DEF NodeSound, RuntimeSound, RuntimeTyped
<1>4. ASSUME after.revision = bridge[n].revision
      PROVE  after.rooms = bridge[n].rooms /\ published' = published
  <2>1. after.rooms = bridge[n].rooms
    BY <1>3, <1>4 DEF Evolves, LocalFollows
  <2>2. Published(bridge[n], after) = NoSnapshot
    BY <1>4 DEF Published
  <2> QED
    BY <2>1, <2>2 DEF Becomes
<1>5. ASSUME after.revision # bridge[n].revision
      PROVE  /\ after.revision = bridge[n].revision + 1
             /\ CurrentSnapshot(after) \in Snapshot
             /\ published' = published \cup {CurrentSnapshot(after)}
  <2>1. after.revision = bridge[n].revision + 1
    BY <1>5 DEF Evolves, LocalFollows
  <2>2. CurrentSnapshot(after) \in Snapshot
    BY <1>1, <1>3, <2>1 DEF CurrentSnapshot, Snapshot
  <2>3. CurrentSnapshot(after) # NoSnapshot
    BY <2>2, GossipAssumption
  <2>4. Published(bridge[n], after) = CurrentSnapshot(after)
    BY <1>5 DEF Published
  <2> QED
    BY <2>1, <2>2, <2>3, <2>4 DEF Becomes
<1> QED
  BY <1>1, <1>2, <1>4, <1>5

\* The commitments made stay, and what is new is of the node that steps.
LEMMA PublishedGrows ==
  ASSUME Inv, NEW n \in Peer, NEW after,
         Becomes(n, after), Evolves(bridge[n], after, published)
  PROVE  /\ published \subseteq published' /\ published' \subseteq Snapshot
         /\ \A s \in published' \ published : s.peer = n /\ s.revision = after.revision
<1>1. CurrentSnapshot(after).peer = n /\ CurrentSnapshot(after).revision = after.revision
  BY BecomesPublishes DEF CurrentSnapshot
<1>2. published \subseteq Snapshot
  BY DEF Inv
<1>3. CASE after.revision = bridge[n].revision
  BY <1>2, <1>3, BecomesPublishes
<1>4. CASE after.revision # bridge[n].revision
  BY <1>1, <1>2, <1>4, BecomesPublishes
<1> QED
  BY <1>3, <1>4

\* The invariant is kept by every runtime that evolves.
LEMMA BecomesInv ==
  ASSUME Inv, NEW n \in Peer, NEW after,
         Becomes(n, after), Evolves(bridge[n], after, published)
  PROVE  Inv'
<1>1. /\ NodeSound(after) /\ after.self = n
      /\ bridge'[n] = after /\ DOMAIN bridge' = Peer
      /\ \A m \in Peer \ {n} : bridge'[m] = bridge[m]
  BY BecomesPublishes
<1>2. /\ published \subseteq published' /\ published' \subseteq Snapshot
      /\ \A s \in published' \ published : s.peer = n /\ s.revision = after.revision
  BY PublishedGrows
<1>3. NodesAreSound'
  BY <1>1 DEF Inv, NodesAreSound
<1>4. ASSUME NEW m \in Peer
      PROVE  /\ bridge'[m].revision # 0 => CurrentSnapshot(bridge'[m]) \in published'
             /\ \A s \in published' : s.peer = m => s.revision <= bridge'[m].revision
  <2>1. CASE m # n
    BY <1>1, <1>2, <2>1 DEF Inv, RevisionsArePublished
  <2>2. CASE m = n
    <3>1. after.revision \in Nat /\ bridge[n].revision \in Nat
      BY BecomesPublishes DEF NodeSound, RuntimeSound, RuntimeTyped
    <3>2. bridge[n].self = n
      BY DEF Inv, NodesAreSound
    <3>3. CASE after.revision = bridge[n].revision
      <4>1. CurrentSnapshot(after) = CurrentSnapshot(bridge[n]) /\ published' = published
        BY <1>1, <3>2, <3>3, BecomesPublishes DEF CurrentSnapshot
      <4> QED
        BY <1>1, <2>2, <3>3, <4>1 DEF Inv, RevisionsArePublished
    <3>4. CASE after.revision # bridge[n].revision
      <4>1. after.revision = bridge[n].revision + 1 /\ CurrentSnapshot(after) \in published'
        BY <3>4, BecomesPublishes
      <4>2. ASSUME NEW s \in published', s.peer = n PROVE s.revision <= after.revision
        <5>1. s \in Snapshot
          BY <1>2
        <5>2. CASE s \in published
          <6>1. s.revision <= bridge[n].revision
            BY <4>2, <5>2 DEF Inv, RevisionsArePublished
          <6>2. s.revision \in Nat
            BY <5>1 DEF Snapshot
          <6> QED
            BY <3>1, <4>1, <6>1, <6>2
        <5>3. CASE s \notin published
          BY <1>2, <3>1, <5>3
        <5> QED
          BY <5>2, <5>3
      <4> QED
        BY <1>1, <2>2, <4>1, <4>2
    <3> QED
      BY <3>3, <3>4
  <2> QED
    BY <2>1, <2>2
<1>5. RevisionsArePublished'
  BY <1>4 DEF RevisionsArePublished
<1>6. ASSUME NEW m \in Peer, NEW p \in DOMAIN bridge'[m].remote.peers
      PROVE  \E s \in published' :
               /\ s.peer = p /\ s.revision = bridge'[m].remote.peers[p].revision
               /\ bridge'[m].remote.peers[p].rooms \subseteq s.rooms
  <2>1. CASE m # n
    BY <1>1, <1>2, <2>1 DEF Inv, ViewIsCommitted
  <2>2. CASE m = n
    <3>1. p \in DOMAIN after.remote.peers
      BY <1>1, <1>6, <2>2
    <3>2. CASE /\ p \in DOMAIN bridge[n].remote.peers
               /\ Narrows(bridge[n].remote.peers[p], after.remote.peers[p])
      <4>1. PICK s \in published :
              /\ s.peer = p /\ s.revision = bridge[n].remote.peers[p].revision
              /\ bridge[n].remote.peers[p].rooms \subseteq s.rooms
        BY <3>2 DEF Inv, ViewIsCommitted
      <4> QED
        BY <1>1, <1>2, <2>2, <3>2, <4>1 DEF Narrows
    <3>3. CASE Commitment(p, after.remote.peers[p]) \in published
      BY <1>1, <1>2, <2>2, <3>3 DEF Commitment
    <3> QED
      BY <3>1, <3>2, <3>3 DEF Evolves, ViewsFollow
  <2> QED
    BY <2>1, <2>2
<1>7. ViewIsCommitted'
  BY <1>6 DEF ViewIsCommitted
<1> QED
  BY <1>2, <1>3, <1>5, <1>7 DEF Inv

\* The invariant holds at the start.
LEMMA InitInv == Init => Inv
<1> SUFFICES ASSUME Init PROVE Inv
  OBVIOUS
<1>1. ASSUME NEW n \in Peer
      PROVE  /\ NodeSound(bridge[n]) /\ bridge[n].self = n /\ bridge[n].revision = 0
             /\ DOMAIN bridge[n].remote.peers = {}
  <2>1. /\ NewRuntime(n).revision = 0 /\ NewRuntime(n).rooms = {}
        /\ DOMAIN NewRuntime(n).remote.peers = {}
    BY DEF NewRuntime, EmptyTracker
  <2>2. RuntimeSound(NewRuntime(n)) /\ NewRuntime(n).self = n
    BY NewRuntimeSound
  <2>3. bridge[n] = NewRuntime(n)
    BY DEF Init
  <2> QED
    BY <2>1, <2>2, <2>3 DEF NodeSound
<1>2. NodesAreSound
  BY <1>1 DEF Init, NodesAreSound
<1> QED
  BY <1>1, <1>2 DEF Init, Inv, RevisionsArePublished, ViewIsCommitted

\* Every step keeps the invariant.
LEMMA NextInv == Inv /\ [Next]_vars => Inv'
<1> SUFFICES ASSUME Inv, [Next]_vars PROVE Inv'
  OBVIOUS
<1>1. CASE Next
  <2>1. PICK n \in Peer : NodeStep(n)
    BY <1>1 DEF Next
  <2> QED
    BY <2>1, StepEvolves, BecomesInv
<1>2. CASE UNCHANGED vars
  BY <1>2 DEF vars, Inv, NodesAreSound, RevisionsArePublished, ViewIsCommitted
<1> QED
  BY <1>1, <1>2

\* Every reachable state has sound runtimes, published revisions and committed views.
THEOREM MembershipGossipInvariant == Spec => []Inv
<1> QED
  BY InitInv, NextInv, PTL DEF Spec

\* No order of messages and expiries makes a node count a peer in a room it had not
\* committed to at the revision the node has of it.
THEOREM ViewsStaySound == Spec => []ViewsAreSound
<1>1. Inv => ViewsAreSound
  BY DEF Inv, NodesAreSound, NodeSound, RuntimeSound, ViewsAreSound, TypeOK
<1> QED
  BY <1>1, MembershipGossipInvariant, PTL
-----------------------------------------------------------------------------
(***************************************************************************)
(* The runtimes implement MembershipView.                                  *)
(***************************************************************************)
\* The views of MembershipView as a function of the runtimes.
LEMMA ViewIsSeen ==
  ASSUME NodesAreSound, NEW n \in Peer, NEW p \in Peer
  PROVE  ViewOf(n, p) = Seen(bridge[n], p)
BY DEF NodesAreSound, ViewOf, Seen

\* A runtime shows in each room the number of peers it has there, itself included.
LEMMA CountIsShown ==
  ASSUME NEW m, NodeSound(m), NEW r \in Room
  PROVE  TotalCount(m, r) = Cardinality({p \in Peer : r \in View!RoomsIn(Seen(m, p))})
<1> DEFINE others == MembersOf(m.remote, r)
           seen   == {p \in Peer : r \in View!RoomsIn(Seen(m, p))}
<1>1. /\ m.self \in Peer /\ m.revision \in Nat /\ m.rooms \subseteq Room
      /\ m.self \notin DOMAIN m.remote.peers /\ DOMAIN m.remote.peers \subseteq Peer
      /\ others = {p \in DOMAIN m.remote.peers : r \in m.remote.peers[p].rooms}
  BY DEF NodeSound, RuntimeSound, RuntimeTyped, TrackerSound, TrackerTyped, IndexMatches,
         MembersOfKnownRooms
<1>2. ASSUME NEW p \in Peer, p # m.self
      PROVE  p \in seen <=> p \in others
  <2>1. CASE p \in DOMAIN m.remote.peers
    <3>1. m.remote.peers[p] # NoSnapshot
      BY <2>1, ViewsTyped, GossipAssumption
    <3> QED
      BY <1>1, <1>2, <2>1, <3>1 DEF Seen, View!RoomsIn
  <2>2. CASE p \notin DOMAIN m.remote.peers
    BY <1>1, <1>2, <2>2 DEF Seen, View!RoomsIn
  <2> QED
    BY <2>1, <2>2
<1>3. m.self \in seen <=> r \in m.rooms
  <2>1. CASE m.revision = 0
    BY <1>1, <2>1 DEF NodeSound, Seen, View!RoomsIn
  <2>2. CASE m.revision # 0
    <3>1. [revision |-> m.revision, rooms |-> m.rooms] # NoSnapshot
      BY <1>1, <2>2, GossipAssumption
    <3> QED
      BY <1>1, <2>2, <3>1 DEF Seen, View!RoomsIn
  <2> QED
    BY <2>1, <2>2
<1>4. others \subseteq Peer /\ m.self \notin others /\ IsFiniteSet(others)
      /\ Cardinality(others) \in Nat
  <2>1. others \subseteq Peer /\ m.self \notin others
    BY <1>1
  <2> QED
    BY <2>1, FiniteIdentities, FS_Subset, FS_CardinalityType
<1> HIDE DEF others, seen
<1>5. CASE r \in m.rooms
  <2>1. seen = others \cup {m.self}
    BY <1>1, <1>2, <1>3, <1>4, <1>5 DEF seen
  <2>2. Cardinality(seen) = Cardinality(others) + 1
    BY <1>4, <2>1, FS_AddElement
  <2> QED
    BY <1>5, <2>2 DEF TotalCount, MemberCount, others, seen
<1>6. CASE r \notin m.rooms
  <2>1. seen = others
    BY <1>1, <1>2, <1>3, <1>4, <1>6 DEF seen
  <2>2. Cardinality(seen) = Cardinality(others) + 0
    BY <1>4, <2>1
  <2> QED
    BY <1>6, <2>2 DEF TotalCount, MemberCount, others, seen
<1> QED
  BY <1>5, <1>6

\* What each node shows, of the runtimes and of the views.
ShownCounts == [n \in Peer |-> [r \in Room |-> TotalCount(bridge[n], r)]]

Views == [n \in Peer |-> [p \in Peer |-> ViewOf(n, p)]]

\* The counts of sound runtimes are those of their views.
LEMMA CountsAreShown ==
  ASSUME NEW b, \A n \in Peer : NodeSound(b[n]),
         NEW v, \A n, p \in Peer : v[n][p] = Seen(b[n], p)
  PROVE  [n \in Peer |-> [r \in Room |-> TotalCount(b[n], r)]] = View!Shown(v)
<1> DEFINE Number(n, r) == Cardinality({p \in Peer : r \in View!RoomsIn(v[n][p])})
<1>1. ASSUME NEW n \in Peer, NEW r \in Room
      PROVE  TotalCount(b[n], r) = Number(n, r)
  <2>1. {p \in Peer : r \in View!RoomsIn(v[n][p])}
          = {p \in Peer : r \in View!RoomsIn(Seen(b[n], p))}
    OBVIOUS
  <2> QED
    BY <2>1, CountIsShown
<1>2. View!Shown(v) = [n \in Peer |-> [r \in Room |-> Number(n, r)]]
  BY Zenon DEF View!Shown, Cardinality, View!Cardinality
<1> HIDE DEF Number
<1> QED
  BY <1>1, <1>2

\* The runtimes start as MembershipView does: nothing committed, seen or shown.
LEMMA InitView == Init => View!Init
<1> SUFFICES ASSUME Init PROVE View!Init
  OBVIOUS
<1>1. NodesAreSound
  BY InitInv DEF Inv
<1>2. ASSUME NEW n \in Peer, NEW p \in Peer PROVE ViewOf(n, p) = NoSnapshot
  <2>1. bridge[n].revision = 0 /\ DOMAIN bridge[n].remote.peers = {}
    BY DEF Init, NewRuntime, EmptyTracker
  <2> QED
    BY <2>1 DEF ViewOf
<1>3. Views = [n \in Peer |-> [p \in Peer |-> NoSnapshot]]
  BY <1>2 DEF Views
<1>4. ShownCounts = View!Shown(Views)
  <2>1. \A n, p \in Peer : Views[n][p] = Seen(bridge[n], p)
    BY <1>1, ViewIsSeen DEF Views
  <2> QED
    BY <1>1, <2>1, CountsAreShown DEF NodesAreSound, ShownCounts
<1>5. published = {}
  BY DEF Init
<1> QED
  BY <1>3, <1>4, <1>5 DEF View!Init, Views, ShownCounts

\* What a node has of each peer after a step is what it had, or one of the moves that
\* MembershipView allows.
LEMMA ViewsMove ==
  ASSUME Inv, NEW n \in Peer, NEW after,
         Becomes(n, after), Evolves(bridge[n], after, published),
         NEW p \in Peer
  PROVE  LET old == Seen(bridge[n], p)
             new == Seen(after, p)
         IN  new = old \/ View!Moves(p, old, new, published')
<1> DEFINE old == Seen(bridge[n], p)
           new == Seen(after, p)
<1>1. /\ NodeSound(bridge[n]) /\ bridge[n].self = n
      /\ NodeSound(after) /\ after.self = n
      /\ published \subseteq published'
  BY BecomesPublishes, PublishedGrows DEF Inv, NodesAreSound
<1>2. CASE p = n
  <2>1. /\ after.revision \in Nat /\ bridge[n].revision \in Nat
        /\ after.rooms \subseteq Room /\ bridge[n].rooms \subseteq Room
    BY <1>1 DEF NodeSound, RuntimeSound, RuntimeTyped
  <2>2. CASE after.revision = bridge[n].revision
    <3>1. after.rooms = bridge[n].rooms
      BY <2>2, BecomesPublishes
    <3> QED
      BY <1>1, <1>2, <2>2, <3>1 DEF Seen
  <2>3. CASE after.revision # bridge[n].revision
    <3>1. after.revision = bridge[n].revision + 1 /\ CurrentSnapshot(after) \in published'
      BY <2>3, BecomesPublishes
    <3>2. new = [revision |-> after.revision, rooms |-> after.rooms]
      BY <1>1, <1>2, <2>1, <3>1 DEF Seen
    <3>3. new # NoSnapshot
      BY <2>1, <3>1, <3>2, GossipAssumption
    <3>4. [peer |-> p, revision |-> new.revision, rooms |-> new.rooms] \in published'
      BY <1>1, <1>2, <3>1, <3>2 DEF CurrentSnapshot
    <3>5. old # NoSnapshot => new.revision > old.revision
      BY <1>1, <1>2, <2>1, <3>1, <3>2 DEF Seen
    <3> QED
      BY <3>3, <3>4, <3>5 DEF View!Moves
  <2> QED
    BY <2>2, <2>3
<1>3. CASE p # n /\ p \notin DOMAIN after.remote.peers
  BY <1>1, <1>3 DEF Seen, View!Moves
<1>4. CASE p # n /\ p \in DOMAIN after.remote.peers
  <2>1. new = after.remote.peers[p] /\ new # NoSnapshot
    BY <1>1, <1>4, ViewsTyped, GossipAssumption DEF Seen
  <2>2. CASE p \in DOMAIN bridge[n].remote.peers /\ Narrows(bridge[n].remote.peers[p], new)
    <3>1. old = bridge[n].remote.peers[p] /\ old # NoSnapshot
      BY <1>1, <1>4, <2>2, ViewsTyped, GossipAssumption DEF Seen
    <3> QED
      BY <2>1, <2>2, <3>1 DEF Narrows, View!Moves
  <2>3. CASE /\ Commitment(p, new) \in published
             /\ p \in DOMAIN bridge[n].remote.peers =>
                  new.revision > bridge[n].remote.peers[p].revision
    <3>1. old # NoSnapshot => new.revision > old.revision
      BY <1>1, <1>4, <2>3 DEF Seen
    <3> QED
      BY <1>1, <2>1, <2>3, <3>1 DEF Commitment, View!Moves
  <2> QED
    BY <1>4, <2>1, <2>2, <2>3 DEF Evolves, ViewsFollow
<1> QED
  BY <1>2, <1>3, <1>4

\* What a node publishes is a commitment later than those it made before.
LEMMA PublishesCommit ==
  ASSUME Inv, NEW n \in Peer, NEW after,
         Becomes(n, after), Evolves(bridge[n], after, published)
  PROVE  \/ published' = published
         \/ \E R \in SUBSET Room, rev \in {1} \cup {x.revision + 1 : x \in published} :
              LET s == [peer |-> n, revision |-> rev, rooms |-> R]
              IN  View!Commits(n, s) /\ published' = published \cup {s}
<1>1. CASE after.revision = bridge[n].revision
  BY <1>1, BecomesPublishes
<1>2. CASE after.revision # bridge[n].revision
  <2> DEFINE s == CurrentSnapshot(after)
  <2>1. /\ after.revision = bridge[n].revision + 1 /\ after.self = n
        /\ published' = published \cup {s}
        /\ NodeSound(after) /\ NodeSound(bridge[n])
    BY <1>2, BecomesPublishes
  <2>2. after.rooms \in SUBSET Room /\ after.revision \in Nat /\ bridge[n].revision \in Nat
    BY <2>1 DEF NodeSound, RuntimeSound, RuntimeTyped
  <2>3. s = [peer |-> n, revision |-> after.revision, rooms |-> after.rooms]
    BY <2>1 DEF CurrentSnapshot
  <2>4. after.revision \in {1} \cup {x.revision + 1 : x \in published}
    <3>1. CASE bridge[n].revision = 0
      BY <2>1, <3>1
    <3>2. CASE bridge[n].revision # 0
      <4>1. CurrentSnapshot(bridge[n]) \in published
        BY <3>2 DEF Inv, RevisionsArePublished
      <4> QED
        BY <2>1, <4>1 DEF CurrentSnapshot
    <3> QED
      BY <3>1, <3>2
  <2>5. ASSUME NEW x \in published, x.peer = n PROVE x.revision < after.revision
    <3>1. x.revision <= bridge[n].revision /\ x.revision \in Nat
      BY <2>5 DEF Inv, RevisionsArePublished, Snapshot
    <3> QED
      BY <2>1, <2>2, <3>1
  <2>6. View!Commits(n, s)
    BY <2>3, <2>5 DEF View!Commits
  <2> QED
    BY <2>1, <2>2, <2>3, <2>4, <2>6
<1> QED
  BY <1>1, <1>2

\* Each step of a node is one that MembershipView allows it.
LEMMA StepView ==
  ASSUME Inv, NEW n \in Peer, NEW after,
         Becomes(n, after), Evolves(bridge[n], after, published)
  PROVE  View!Step(n)
<1>1. Inv'
  BY BecomesInv
<1>2. NodesAreSound /\ NodesAreSound'
  BY <1>1 DEF Inv
<1>3. /\ bridge'[n] = after /\ DOMAIN bridge' = Peer
      /\ \A m \in Peer \ {n} : bridge'[m] = bridge[m]
  BY BecomesPublishes
<1>4. ASSUME NEW m \in Peer, NEW p \in Peer
      PROVE  Views[m][p] = Seen(bridge[m], p) /\ Views'[m][p] = Seen(bridge'[m], p)
  <2>1. ViewOf(m, p) = Seen(bridge[m], p)
    BY <1>2, ViewIsSeen
  <2>2. ViewOf(m, p)' = Seen(bridge'[m], p)
    BY <1>2 DEF NodesAreSound, ViewOf, Seen
  <2> QED
    BY <2>1, <2>2 DEF Views
<1>5. ASSUME NEW m \in Peer \ {n} PROVE Views'[m] = Views[m]
  <2>1. \A p \in Peer : ViewOf(m, p)' = ViewOf(m, p)
    BY <1>3 DEF ViewOf
  <2> QED
    BY <2>1 DEF Views
<1>6. ASSUME NEW p \in Peer
      PROVE  Views'[n][p] = Views[n][p] \/ View!Moves(p, Views[n][p], Views'[n][p], published')
  BY <1>3, <1>4, ViewsMove
<1>7. ShownCounts' = View!Shown(Views')
  <2>1. \A m \in Peer : NodeSound(bridge'[m])
    BY <1>2 DEF NodesAreSound
  <2> QED
    BY <1>4, <2>1, CountsAreShown DEF ShownCounts
<1> QED
  BY <1>5, <1>6, <1>7, PublishesCommit DEF View!Step, Views, ShownCounts

\* The runtimes, with their trackers, indexes, counters and revision checks, implement
\* MembershipView: views are commitments, move only forward, and are counted as shown.
THEOREM RuntimesKeepView == Spec => KeepsView
<1>1. Inv /\ [Next]_vars => [View!Next]_View!vars
  <2> SUFFICES ASSUME Inv, [Next]_vars PROVE [View!Next]_View!vars
    OBVIOUS
  <2>1. CASE Next
    <3>1. PICK n \in Peer : NodeStep(n)
      BY <2>1 DEF Next
    <3>2. PICK after : Becomes(n, after) /\ Evolves(bridge[n], after, published)
      BY <3>1, StepEvolves
    <3> QED
      BY <3>2, StepView DEF View!Next
  <2>2. CASE UNCHANGED vars
    BY <2>2 DEF vars, View!vars, ViewOf
  <2> QED
    BY <2>1, <2>2
<1> QED
  BY <1>1, InitView, MembershipGossipInvariant, PTL DEF Spec, KeepsView, View!Spec
=============================================================================
