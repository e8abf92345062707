----------------------- MODULE RoomMembership_proofs -----------------------
(***************************************************************************)
(* Lemmas about the operations of RoomMembershipTracker and of             *)
(* RoomMembershipRuntime: each keeps the peers' sets, the rooms' index and *)
(* the counter in agreement and within the limits, and nobody in a room    *)
(* that is not known, for every set of peers and rooms and every limit.    *)
(***************************************************************************)
EXTENDS RoomMembershipRuntime, FiniteSetTheorems, TLAPS

TrackerSound(t) ==
  TrackerTyped(t) /\ IndexMatches(t) /\ CounterMatches(t) /\ WithinLimits(t)

\* The empty tracker is typed, indexed, counted and within its limits.
LEMMA EmptyTrackerSound == TrackerSound(EmptyTracker)
<1> DEFINE t == EmptyTracker
<1>1. DOMAIN t.peers = {} /\ DOMAIN t.rooms = {} /\ t.memberships = 0
  BY DEF EmptyTracker
<1>2. TrackerTyped(t)
  BY <1>1 DEF EmptyTracker, TrackerTyped
<1>3. IndexMatches(t)
  BY <1>1 DEF IndexMatches, MembersOf
<1>4. Pairs(t) = {}
  BY <1>1 DEF Pairs
<1>5. CounterMatches(t)
  BY <1>1, <1>4, FS_EmptySet DEF CounterMatches
<1>6. WithinLimits(t)
  BY <1>1, FS_EmptySet, TrackerLimits DEF WithinLimits
<1> QED
  BY <1>2, <1>3, <1>5, <1>6 DEF TrackerSound

\* The sets a tracker holds are finite, so counting them is arithmetic on naturals.
LEMMA TrackerFinite ==
  ASSUME NEW t, TrackerTyped(t)
  PROVE  /\ IsFiniteSet(DOMAIN t.peers)
         /\ IsFiniteSet(Pairs(t))
         /\ \A p \in Peer : IsFiniteSet(RoomsOf(t, p)) /\ RoomsOf(t, p) \subseteq Room
<1>1. IsFiniteSet(DOMAIN t.peers)
  BY FiniteIdentities, FS_Subset DEF TrackerTyped
<1>2. Pairs(t) \subseteq (DOMAIN t.peers) \X Room
  BY DEF Pairs
<1>3. IsFiniteSet(Pairs(t))
  <2>1. IsFiniteSet((DOMAIN t.peers) \X Room)
    BY <1>1, FiniteIdentities, FS_Product
  <2> QED
    BY <2>1, <1>2, FS_Subset
<1>4. ASSUME NEW p \in Peer
      PROVE  IsFiniteSet(RoomsOf(t, p)) /\ RoomsOf(t, p) \subseteq Room
  <2>1. RoomsOf(t, p) \subseteq Room
    BY DEF RoomsOf, TrackerTyped
  <2> QED
    BY <2>1, FiniteIdentities, FS_Subset
<1> QED
  BY <1>1, <1>3, <1>4

\* A product with one peer has as many pairs as rooms.
LEMMA RowCardinality ==
  ASSUME NEW p, NEW R \in SUBSET Room
  PROVE  /\ IsFiniteSet(R) /\ Cardinality(R) \in Nat
         /\ IsFiniteSet({p} \X R)
         /\ Cardinality({p} \X R) = Cardinality(R)
<1>1. IsFiniteSet(R) /\ Cardinality(R) \in Nat
  BY FiniteIdentities, FS_Subset, FS_CardinalityType
<1>2. IsFiniteSet({p}) /\ Cardinality({p}) = 1
  BY FS_Singleton
<1>3. IsFiniteSet({p} \X R) /\ Cardinality({p} \X R) = 1 * Cardinality(R)
  BY <1>1, <1>2, FS_Product
<1> QED
  BY <1>1, <1>3

-----------------------------------------------------------------------------
\* p can leave `removed` and join `added`: it is in every room of the first and in none of
\* the second.
Moves(t, p, removed, added) ==
  /\ TrackerTyped(t) /\ IndexMatches(t)
  /\ p \in Peer
  /\ removed \subseteq RoomsOf(t, p)
  /\ added \subseteq Room /\ added \cap RoomsOf(t, p) = {}

\* The members u has once p left `removed` and joined `added` in t.
MembersMoved(t, p, removed, added, u) ==
  \A r \in Room : MembersOf(u, r) = IF r \in removed THEN MembersOf(t, r) \ {p}
                                    ELSE IF r \in added THEN MembersOf(t, r) \cup {p}
                                    ELSE MembersOf(t, r)

PairsMoved(t, p, removed, added, u) ==
  Pairs(u) = (Pairs(t) \ ({p} \X removed)) \cup ({p} \X added)

IndexTyped(u) ==
  /\ DOMAIN u.rooms \subseteq Room
  /\ u.rooms \in [DOMAIN u.rooms -> SUBSET Peer]
  /\ \A r \in DOMAIN u.rooms : u.rooms[r] # {}

\* The index after p left `removed` and joined `added` says of every room what it said,
\* with p taken out of or put into exactly those rooms, and has no empty entry.
LEMMA ReindexedMembers ==
  ASSUME NEW t, NEW p, NEW removed, NEW added, Moves(t, p, removed, added),
         NEW w, w.rooms = Reindexed(t, p, removed, added)
  PROVE  IndexTyped(w) /\ MembersMoved(t, p, removed, added, w)
<1> USE DEF Moves
<1> DEFINE u == Reindexed(t, p, removed, added)
           members == [r \in DOMAIN t.rooms \cup added |->
                         (MembersOf(t, r) \ {q \in {p} : r \in removed})
                           \cup {q \in {p} : r \in added}]
<1>1. /\ DOMAIN u = {x \in DOMAIN t.rooms \cup added : x \in removed => members[x] # {}}
      /\ \A r \in DOMAIN u : u[r] = members[r]
  BY DEF Reindexed
<1>2. \A r \in DOMAIN t.rooms \cup added :
        members[r] = IF r \in removed THEN MembersOf(t, r) \ {p}
                     ELSE IF r \in added THEN MembersOf(t, r) \cup {p}
                     ELSE MembersOf(t, r)
  OBVIOUS
<1>3. DOMAIN t.rooms \subseteq Room /\ \A r \in Room : MembersOf(t, r) \subseteq Peer
  BY DEF TrackerTyped, MembersOf
<1>0. removed \subseteq Room
  BY TrackerFinite
<1>4. \A r \in DOMAIN t.rooms : MembersOf(t, r) = t.rooms[r] /\ t.rooms[r] # {}
  BY DEF MembersOf, IndexMatches
<1>5. \A r \in DOMAIN u : u[r] # {}
  <2> SUFFICES ASSUME NEW r \in DOMAIN u PROVE u[r] # {}
    OBVIOUS
  <2>1. CASE r \in removed
    BY <2>1, <1>1
  <2>2. CASE r \notin removed /\ r \in added
    BY <2>2, <1>1, <1>2
  <2>3. CASE r \notin removed /\ r \notin added
    BY <2>3, <1>1, <1>2, <1>4
  <2> QED
    BY <2>1, <2>2, <2>3
<1>6. DOMAIN u \subseteq Room
  BY <1>1, <1>3
<1>7. u \in [DOMAIN u -> SUBSET Peer]
  <2>1. \A r \in DOMAIN u : u[r] \subseteq Peer
    <3> SUFFICES ASSUME NEW r \in DOMAIN u PROVE u[r] \subseteq Peer
      OBVIOUS
    <3>1. r \in Room /\ r \in DOMAIN t.rooms \cup added /\ u[r] = members[r]
      BY <1>1, <1>6
    <3>2. MembersOf(t, r) \subseteq Peer /\ p \in Peer
      BY <3>1, <1>3
    <3>3. members[r] \subseteq MembersOf(t, r) \cup {p}
      BY <3>1, <1>2
    <3> QED
      BY <3>1, <3>2, <3>3
  <2>2. u = [r \in DOMAIN u |-> u[r]]
    BY DEF Reindexed
  <2> QED
    BY <2>1, <2>2
<1>8. ASSUME NEW r \in Room
      PROVE  (IF r \in DOMAIN u THEN u[r] ELSE {})
               = IF r \in removed THEN MembersOf(t, r) \ {p}
                 ELSE IF r \in added THEN MembersOf(t, r) \cup {p}
                 ELSE MembersOf(t, r)
  <2>1. CASE r \in DOMAIN u
    BY <2>1, <1>1, <1>2
  <2>2. CASE r \notin DOMAIN u /\ r \in DOMAIN t.rooms \cup added
    BY <2>2, <1>1, <1>2
  <2>3. CASE r \notin DOMAIN t.rooms \cup added
    <3>1. MembersOf(t, r) = {} /\ r \notin DOMAIN u
      BY <2>3, <1>1 DEF MembersOf
    <3> QED
      BY <3>1, <2>3
  <2> QED
    BY <2>1, <2>2, <2>3
<1>9. u = w.rooms
  OBVIOUS
<1> HIDE DEF u
<1> QED
  BY <1>5, <1>6, <1>7, <1>8, <1>9 DEF IndexTyped, MembersMoved, MembersOf

\* The counter follows the pairs when p leaves `removed`, all rooms it was in, and joins
\* `added`, none of which it was in.
LEMMA RecountedPairs ==
  ASSUME NEW t, NEW p, NEW removed, NEW added, Moves(t, p, removed, added),
         CounterMatches(t),
         NEW u, PairsMoved(t, p, removed, added, u)
  PROVE  /\ Cardinality(Pairs(u)) = Recounted(t, p, removed, added)
         /\ Cardinality(removed) \in Nat /\ Cardinality(added) \in Nat
         /\ Cardinality(removed) <= t.memberships
         /\ Cardinality(Pairs(u)) = t.memberships - Cardinality(removed) + Cardinality(added)
<1> USE DEF Moves
<1> DEFINE out == {p} \X removed
           in  == {p} \X added
<1>1. removed \subseteq Room /\ removed \in SUBSET Room
  BY TrackerFinite
<1>2. /\ IsFiniteSet(removed) /\ Cardinality(removed) \in Nat
      /\ IsFiniteSet(out) /\ Cardinality(out) = Cardinality(removed)
      /\ IsFiniteSet(added) /\ Cardinality(added) \in Nat
      /\ IsFiniteSet(in) /\ Cardinality(in) = Cardinality(added)
  BY <1>1, RowCardinality
<1>3. out \subseteq Pairs(t)
  BY <1>1 DEF Pairs, RoomsOf
<1>4. in \cap Pairs(t) = {}
  BY DEF Pairs, RoomsOf
<1>5. IsFiniteSet(Pairs(t)) /\ t.memberships \in Nat
  BY TrackerFinite DEF TrackerTyped
<1>6. Cardinality(out) <= t.memberships
  BY <1>3, <1>5, FS_Subset DEF CounterMatches
<1>7. /\ IsFiniteSet(Pairs(t) \ out)
      /\ Cardinality(Pairs(t) \ out) = t.memberships - Cardinality(out)
  <2>1. Pairs(t) \cap out = out
    BY <1>3
  <2>2. /\ IsFiniteSet(Pairs(t) \ out)
        /\ Cardinality(Pairs(t) \ out) = Cardinality(Pairs(t)) - Cardinality(Pairs(t) \cap out)
    BY <1>5, FS_Difference
  <2> HIDE DEF out
  <2> QED
    BY <2>1, <2>2 DEF CounterMatches
<1>8. Cardinality(Pairs(u)) = t.memberships - Cardinality(removed) + Cardinality(added)
  <2>1. (Pairs(t) \ out) \cap in = {}
    BY <1>4
  <2>2. Cardinality((Pairs(t) \ out) \cup in)
          = Cardinality(Pairs(t) \ out) + Cardinality(in) - Cardinality({})
    BY <2>1, <1>7, <1>2, FS_Union
  <2>3. Pairs(u) = (Pairs(t) \ out) \cup in
    BY DEF PairsMoved
  <2>4. Cardinality({}) = 0
    BY FS_EmptySet
  <2>5. Cardinality(Pairs(u)) = Cardinality(Pairs(t) \ out) + Cardinality(in) - 0
    BY <2>2, <2>3, <2>4
  <2>6. /\ Cardinality(Pairs(t) \ out) = t.memberships - Cardinality(removed)
        /\ Cardinality(in) = Cardinality(added)
    BY <1>7, <1>2
  <2>7. Cardinality(removed) \in Nat /\ Cardinality(added) \in Nat
    BY <1>2
  <2> HIDE DEF out, in
  <2> QED
    BY <2>5, <2>6, <2>7, <1>5
<1>9. {r \in removed : p \in MembersOf(t, r)} = removed
  <2>1. \A r \in removed : r \in Room /\ p \in DOMAIN t.peers /\ r \in t.peers[p].rooms
    BY <1>1 DEF RoomsOf
  <2> QED
    BY <2>1 DEF IndexMatches
<1>10. {r \in added : p \notin MembersOf(t, r)} = added
  <2>1. \A r \in added : p \in DOMAIN t.peers => r \notin t.peers[p].rooms
    BY DEF RoomsOf
  <2> QED
    BY <2>1 DEF IndexMatches
<1>11. Recounted(t, p, removed, added)
         = t.memberships - Cardinality(removed) + Cardinality(added)
  <2>1. Recounted(t, p, removed, added)
          = Monus(t.memberships, Cardinality(removed)) + Cardinality(added)
    BY <1>9, <1>10 DEF Recounted
  <2>2. Monus(t.memberships, Cardinality(removed)) = t.memberships - Cardinality(removed)
    BY <1>2, <1>5, <1>6 DEF Monus
  <2> QED
    BY <2>1, <2>2
<1> QED
  BY <1>2, <1>6, <1>8, <1>11
-----------------------------------------------------------------------------
\* A snapshot that passed every check leaves the tracker sound: this is where the counter
\* that apply_snapshot projects is shown to be the counter its loops arrive at.
LEMMA ReplacedSound ==
  ASSUME NEW t, TrackerSound(t),
         NEW p \in Peer, NEW rev \in Nat \ {0}, NEW next \in SUBSET Room,
         SnapshotVerdict(t, p, rev, next) = "Applied"
  PROVE  TrackerSound(Replaced(t, p, rev, next))
<1> DEFINE removed == RoomsOf(t, p) \ next
           added   == next \ RoomsOf(t, p)
           u       == Replaced(t, p, rev, next)
<1>1. /\ TrackerTyped(t) /\ IndexMatches(t) /\ CounterMatches(t) /\ WithinLimits(t)
      /\ RoomsOf(t, p) \subseteq Room /\ removed \subseteq Room /\ added \subseteq Room
      /\ removed \subseteq RoomsOf(t, p) /\ removed \cap added = {}
  BY TrackerFinite DEF TrackerSound
<1>2. /\ u.rooms = Reindexed(t, p, removed, added)
      /\ u.memberships = Recounted(t, p, removed, added)
      /\ DOMAIN u.peers = DOMAIN t.peers \cup {p}
      /\ u.peers[p] = [revision |-> rev, rooms |-> next]
      /\ \A q \in DOMAIN t.peers \ {p} : u.peers[q] = t.peers[q]
      /\ u.peers = [q \in DOMAIN u.peers |-> u.peers[q]]
      /\ DOMAIN u = {"peers", "rooms", "memberships"}
  BY DEF Replaced
<1>3. Pairs(u) = (Pairs(t) \ ({p} \X removed)) \cup ({p} \X added)
  <2>1. ASSUME NEW q, NEW r
        PROVE  <<q, r>> \in Pairs(u)
                 <=> <<q, r>> \in (Pairs(t) \ ({p} \X removed)) \cup ({p} \X added)
    <3>1. <<q, r>> \in Pairs(u) <=> /\ q \in DOMAIN t.peers \cup {p} /\ r \in Room
                                    /\ r \in IF q = p THEN next ELSE t.peers[q].rooms
      BY <1>2 DEF Pairs
    <3>2. <<q, r>> \in Pairs(t)
            <=> q \in DOMAIN t.peers /\ r \in Room /\ r \in t.peers[q].rooms
      BY DEF Pairs
    <3>3. q = p => (<<q, r>> \in Pairs(t) <=> r \in Room /\ r \in RoomsOf(t, p))
      BY <3>2 DEF RoomsOf
    <3>4. CASE q = p
      BY <3>1, <3>3, <3>4, <1>1
    <3>5. CASE q # p
      BY <3>1, <3>2, <3>5
    <3> QED
      BY <3>4, <3>5
  <2>2. Pairs(u) \subseteq (DOMAIN u.peers) \X Room /\ Pairs(t) \subseteq (DOMAIN t.peers) \X Room
    BY DEF Pairs
  <2> HIDE DEF u, removed, added
  <2> QED
    BY <2>1, <2>2
<1>4. /\ Cardinality(Pairs(u)) = u.memberships
      /\ u.memberships = t.memberships - Cardinality(removed) + Cardinality(added)
      /\ Cardinality(removed) \in Nat /\ Cardinality(added) \in Nat
      /\ Cardinality(removed) <= t.memberships
      /\ t.memberships \in Nat
  <2>1. Moves(t, p, removed, added) /\ PairsMoved(t, p, removed, added, u) /\ CounterMatches(t)
    BY <1>1, <1>3 DEF Moves, PairsMoved
  <2>2. t.memberships \in Nat
    BY <1>1 DEF TrackerTyped
  <2> HIDE DEF u, removed, added
  <2>3. /\ Cardinality(Pairs(u)) = Recounted(t, p, removed, added)
        /\ Cardinality(removed) \in Nat /\ Cardinality(added) \in Nat
        /\ Cardinality(removed) <= t.memberships
        /\ Cardinality(Pairs(u)) = t.memberships - Cardinality(removed) + Cardinality(added)
    BY <2>1, RecountedPairs
  <2> QED
    BY <2>2, <2>3, <1>2
<1>5. u.memberships = Projected(t, p, next)
  <2> DEFINE retained == RoomsOf(t, p) \cap next
  <2>1. IsFiniteSet(RoomsOf(t, p)) /\ IsFiniteSet(next)
    BY <1>1, FiniteIdentities, FS_Subset
  <2>2. Cardinality(RoomsOf(t, p) \ next) = Cardinality(RoomsOf(t, p)) - Cardinality(RoomsOf(t, p) \cap next)
    BY <2>1, FS_Difference
  <2>3. Cardinality(next \ RoomsOf(t, p)) = Cardinality(next) - Cardinality(next \cap RoomsOf(t, p))
    BY <2>1, FS_Difference
  <2>4. next \cap RoomsOf(t, p) = retained
    OBVIOUS
  <2>5. /\ Cardinality(removed) = Cardinality(RoomsOf(t, p)) - Cardinality(retained)
        /\ Cardinality(added) = Cardinality(next) - Cardinality(retained)
    BY <2>2, <2>3, <2>4
  <2>6. Projected(t, p, next) = Monus(t.memberships, Cardinality(removed)) + Cardinality(added)
    BY <2>5 DEF Projected
  <2>7. Monus(t.memberships, Cardinality(removed)) = t.memberships - Cardinality(removed)
    BY <1>4 DEF Monus
  <2> QED
    BY <2>6, <2>7, <1>4
<1>6. /\ next \subseteq Room /\ Cardinality(next) <= MaxRoomsPerPeer
      /\ p \notin DOMAIN t.peers => ~(Cardinality(DOMAIN t.peers) >= MaxPeers)
      /\ ~(Projected(t, p, next) > MaxMemberships)
  <2>1. /\ ~(~(next \subseteq Room) \/ Cardinality(next) > MaxRoomsPerPeer)
        /\ ~(p \notin DOMAIN t.peers /\ Cardinality(DOMAIN t.peers) >= MaxPeers)
        /\ ~(Projected(t, p, next) > MaxMemberships)
    BY DEF SnapshotVerdict
  <2>2. IsFiniteSet(next) /\ Cardinality(next) \in Nat
    BY RowCardinality
  <2> QED
    BY <2>1, <2>2, TrackerLimits
<1>7. IndexTyped(u) /\ MembersMoved(t, p, removed, added, u)
  <2>1. Moves(t, p, removed, added) /\ u.rooms = Reindexed(t, p, removed, added)
    BY <1>1, <1>2 DEF Moves
  <2> HIDE DEF u, removed, added
  <2> QED
    BY <2>1, ReindexedMembers
<1>8. TrackerTyped(u)
  <2>1. DOMAIN u.peers \subseteq Peer
    BY <1>1, <1>2 DEF TrackerTyped
  <2>2. \A q \in DOMAIN u.peers : u.peers[q] \in [revision : Nat \ {0}, rooms : SUBSET Room]
    <3>1. u.peers[p] \in [revision : Nat \ {0}, rooms : SUBSET Room]
      BY <1>2
    <3>2. \A q \in DOMAIN t.peers : t.peers[q] \in [revision : Nat \ {0}, rooms : SUBSET Room]
      BY <1>1 DEF TrackerTyped
    <3> HIDE DEF u
    <3> QED
      BY <3>1, <3>2, <1>2
  <2>3. u.memberships \in Nat
    <3> HIDE DEF u, removed, added
    <3> QED
      BY <1>4
  <2> HIDE DEF u
  <2> QED
    BY <2>1, <2>2, <2>3, <1>2, <1>7 DEF TrackerTyped, IndexTyped
<1>9. IndexMatches(u)
  <2> SUFFICES ASSUME NEW r \in Room
               PROVE  MembersOf(u, r) = {q \in DOMAIN u.peers : r \in u.peers[q].rooms}
    BY <1>7 DEF IndexMatches, IndexTyped
  <2>1. MembersOf(t, r) = {q \in DOMAIN t.peers : r \in t.peers[q].rooms}
    BY <1>1 DEF IndexMatches
  <2>2. p \in MembersOf(t, r) <=> r \in RoomsOf(t, p)
    BY <2>1 DEF RoomsOf
  <2>3. {q \in DOMAIN u.peers : r \in u.peers[q].rooms}
          = (MembersOf(t, r) \ {p}) \cup {q \in {p} : r \in next}
    <3> HIDE DEF u
    <3> QED
      BY <2>1, <1>2
  <2>4. MembersOf(u, r) = (MembersOf(t, r) \ {p}) \cup {q \in {p} : r \in next}
    <3>1. MembersOf(u, r) = IF r \in removed THEN MembersOf(t, r) \ {p}
                            ELSE IF r \in added THEN MembersOf(t, r) \cup {p}
                            ELSE MembersOf(t, r)
      BY <1>7 DEF MembersMoved
    <3> HIDE DEF u
    <3> QED
      BY <3>1, <2>2
  <2> QED
    BY <2>3, <2>4
<1>10. WithinLimits(u)
  <2>1. u.memberships <= MaxMemberships
    <3>1. Projected(t, p, next) \in Nat
      BY <1>4, <1>5
    <3> QED
      BY <3>1, <1>5, <1>6, TrackerLimits
  <2>2. Cardinality(DOMAIN u.peers) <= MaxPeers
    <3>1. IsFiniteSet(DOMAIN t.peers) /\ Cardinality(DOMAIN t.peers) \in Nat
      BY <1>1, TrackerFinite, FS_CardinalityType
    <3>2. CASE p \in DOMAIN t.peers
      <4>1. DOMAIN u.peers = DOMAIN t.peers
        BY <1>2, <3>2
      <4> QED
        BY <4>1, <1>1 DEF WithinLimits
    <3>3. CASE p \notin DOMAIN t.peers
      <4>1. Cardinality(DOMAIN t.peers \cup {p}) = Cardinality(DOMAIN t.peers) + 1
        BY <3>1, <3>3, FS_AddElement
      <4>2. ~(Cardinality(DOMAIN t.peers) >= MaxPeers)
        BY <1>6, <3>3
      <4> QED
        BY <4>1, <4>2, <3>1, <1>2, TrackerLimits
    <3> QED
      BY <3>2, <3>3
  <2>3. \A q \in DOMAIN u.peers : Cardinality(u.peers[q].rooms) <= MaxRoomsPerPeer
    <3>1. \A q \in DOMAIN t.peers : Cardinality(t.peers[q].rooms) <= MaxRoomsPerPeer
      BY <1>1 DEF WithinLimits
    <3> QED
      BY <3>1, <1>2, <1>6
  <2> QED
    BY <2>1, <2>2, <2>3 DEF WithinLimits
<1> QED
  BY <1>4, <1>8, <1>9, <1>10 DEF TrackerSound, CounterMatches

\* apply_snapshot keeps the tracker sound whatever it answers.
LEMMA ApplySnapshotSound ==
  ASSUME NEW t, TrackerSound(t),
         NEW p \in Peer, NEW rev \in Nat \ {0}, NEW next \in SUBSET Room
  PROVE  TrackerSound(ApplySnapshot(t, p, rev, next))
<1>1. CASE SnapshotVerdict(t, p, rev, next) = "Applied"
  BY <1>1, ReplacedSound DEF ApplySnapshot
<1>2. CASE SnapshotVerdict(t, p, rev, next) # "Applied"
  BY <1>2 DEF ApplySnapshot
<1> QED
  BY <1>1, <1>2
-----------------------------------------------------------------------------
\* remove_peer keeps the tracker sound: the index and the counter lose exactly what the
\* peer's set named.
LEMMA RemovePeerSound ==
  ASSUME NEW t, TrackerSound(t), NEW p \in Peer
  PROVE  /\ TrackerSound(RemovePeer(t, p))
         /\ \A r \in Room : MembersOf(RemovePeer(t, p), r) = MembersOf(t, r) \ {p}
<1> DEFINE removed == RoomsOf(t, p)
           u       == RemovePeer(t, p)
<1>1. /\ TrackerTyped(t) /\ IndexMatches(t) /\ CounterMatches(t) /\ WithinLimits(t)
      /\ removed \subseteq Room
  BY TrackerFinite DEF TrackerSound
<1>2. /\ u.rooms = Reindexed(t, p, removed, {})
      /\ u.memberships = Recounted(t, p, removed, {})
      /\ DOMAIN u.peers = DOMAIN t.peers \ {p}
      /\ \A q \in DOMAIN u.peers : u.peers[q] = t.peers[q]
      /\ u.peers = [q \in DOMAIN u.peers |-> u.peers[q]]
      /\ DOMAIN u = {"peers", "rooms", "memberships"}
  BY DEF RemovePeer
<1>3. Moves(t, p, removed, {})
  BY <1>1 DEF Moves
<1>4. PairsMoved(t, p, removed, {}, u)
  <2>1. ASSUME NEW q, NEW r
        PROVE  <<q, r>> \in Pairs(u) <=> <<q, r>> \in Pairs(t) \ ({p} \X removed)
    <3>1. <<q, r>> \in Pairs(u) <=> /\ q \in DOMAIN t.peers /\ q # p /\ r \in Room
                                    /\ r \in t.peers[q].rooms
      BY <1>2 DEF Pairs
    <3>2. <<q, r>> \in Pairs(t)
            <=> q \in DOMAIN t.peers /\ r \in Room /\ r \in t.peers[q].rooms
      BY DEF Pairs
    <3>3. q = p => (<<q, r>> \in Pairs(t) => r \in removed)
      BY <3>2 DEF RoomsOf
    <3> QED
      BY <3>1, <3>2, <3>3
  <2>2. Pairs(u) \subseteq (DOMAIN u.peers) \X Room /\ Pairs(t) \subseteq (DOMAIN t.peers) \X Room
    BY DEF Pairs
  <2> HIDE DEF u, removed
  <2> QED
    BY <2>1, <2>2 DEF PairsMoved
<1>5. /\ Cardinality(Pairs(u)) = u.memberships
      /\ u.memberships \in Nat /\ u.memberships <= t.memberships
  <2>1. t.memberships \in Nat
    BY <1>1 DEF TrackerTyped
  <2> HIDE DEF u, removed
  <2>2. /\ Cardinality(Pairs(u)) = Recounted(t, p, removed, {})
        /\ Cardinality(removed) \in Nat
        /\ Cardinality(removed) <= t.memberships
        /\ Cardinality(Pairs(u)) = t.memberships - Cardinality(removed) + Cardinality({})
    BY <1>1, <1>3, <1>4, RecountedPairs
  <2>3. Cardinality({}) = 0
    BY FS_EmptySet
  <2> QED
    BY <2>1, <2>2, <2>3, <1>2
<1>6. IndexTyped(u) /\ MembersMoved(t, p, removed, {}, u)
  <2> HIDE DEF u, removed
  <2> QED
    BY <1>2, <1>3, ReindexedMembers
<1>7. \A r \in Room : MembersOf(u, r) = MembersOf(t, r) \ {p}
  <2> SUFFICES ASSUME NEW r \in Room PROVE MembersOf(u, r) = MembersOf(t, r) \ {p}
    OBVIOUS
  <2>1. p \in MembersOf(t, r) => r \in removed
    BY <1>1 DEF IndexMatches, RoomsOf
  <2> HIDE DEF u, removed
  <2> QED
    BY <2>1, <1>6 DEF MembersMoved
<1>8. TrackerTyped(u)
  <2>1. DOMAIN u.peers \subseteq Peer
        /\ \A q \in DOMAIN u.peers : u.peers[q] \in [revision : Nat \ {0}, rooms : SUBSET Room]
    BY <1>1, <1>2 DEF TrackerTyped
  <2> HIDE DEF u
  <2> QED
    BY <2>1, <1>2, <1>5, <1>6 DEF TrackerTyped, IndexTyped
<1>9. IndexMatches(u)
  <2> SUFFICES ASSUME NEW r \in Room
               PROVE  MembersOf(u, r) = {q \in DOMAIN u.peers : r \in u.peers[q].rooms}
    BY <1>6 DEF IndexMatches, IndexTyped
  <2>1. MembersOf(t, r) = {q \in DOMAIN t.peers : r \in t.peers[q].rooms}
    BY <1>1 DEF IndexMatches
  <2> HIDE DEF u
  <2> QED
    BY <2>1, <1>2, <1>7
<1>10. WithinLimits(u)
  <2>1. u.memberships <= MaxMemberships
    BY <1>1, <1>5, TrackerLimits DEF WithinLimits, TrackerTyped
  <2>2. Cardinality(DOMAIN u.peers) <= MaxPeers
    <3>1. DOMAIN u.peers \subseteq DOMAIN t.peers
      BY <1>2
    <3>2. IsFiniteSet(DOMAIN t.peers) /\ IsFiniteSet(DOMAIN u.peers)
          /\ Cardinality(DOMAIN u.peers) <= Cardinality(DOMAIN t.peers)
      BY <3>1, <1>1, TrackerFinite, FS_Subset
    <3>3. Cardinality(DOMAIN u.peers) \in Nat /\ Cardinality(DOMAIN t.peers) \in Nat
      BY <3>2, FS_CardinalityType
    <3>4. Cardinality(DOMAIN t.peers) <= MaxPeers
      BY <1>1 DEF WithinLimits
    <3> HIDE DEF u
    <3> QED
      BY <3>2, <3>3, <3>4, TrackerLimits
  <2>3. \A q \in DOMAIN u.peers : Cardinality(u.peers[q].rooms) <= MaxRoomsPerPeer
    BY <1>1, <1>2 DEF WithinLimits
  <2> QED
    BY <2>1, <2>2, <2>3 DEF WithinLimits
<1> QED
  BY <1>5, <1>7, <1>8, <1>9, <1>10 DEF TrackerSound, CounterMatches

\* remove_room, for every room of R, keeps the tracker sound and leaves nobody in those
\* rooms; the members stay tracked.
LEMMA RemoveRoomsSound ==
  ASSUME NEW t, TrackerSound(t), NEW R \in SUBSET Room
  PROVE  /\ TrackerSound(RemoveRooms(t, R))
         /\ DOMAIN RemoveRooms(t, R).rooms = DOMAIN t.rooms \ R
         /\ DOMAIN RemoveRooms(t, R).peers = DOMAIN t.peers
<1> DEFINE u   == RemoveRooms(t, R)
           out == {x \in Peer \X R : x[1] \in MembersOf(t, x[2])}
<1>1. TrackerTyped(t) /\ IndexMatches(t) /\ CounterMatches(t) /\ WithinLimits(t)
  BY DEF TrackerSound
<1>2. ASSUME NEW q, NEW r \in Room
      PROVE  q \in MembersOf(t, r) <=> q \in DOMAIN t.peers /\ r \in t.peers[q].rooms
  BY <1>1 DEF IndexMatches
<1>3. /\ DOMAIN u.peers = DOMAIN t.peers
      /\ \A q \in DOMAIN t.peers :
           /\ u.peers[q].revision = t.peers[q].revision
           /\ u.peers[q].rooms = t.peers[q].rooms \ R
           /\ u.peers[q] \in [revision : Nat \ {0}, rooms : SUBSET Room]
      /\ u.peers = [q \in DOMAIN u.peers |-> u.peers[q]]
  <2>1. ASSUME NEW q \in DOMAIN t.peers
        PROVE  /\ u.peers[q].revision = t.peers[q].revision
               /\ u.peers[q].rooms = t.peers[q].rooms \ R
               /\ u.peers[q] \in [revision : Nat \ {0}, rooms : SUBSET Room]
    <3>1. t.peers[q] \in [revision : Nat \ {0}, rooms : SUBSET Room]
      BY <1>1 DEF TrackerTyped
    <3>2. u.peers[q] = [t.peers[q] EXCEPT !.rooms = @ \ {r \in R : q \in MembersOf(t, r)}]
      BY DEF RemoveRooms
    <3>3. t.peers[q].rooms \ {r \in R : q \in MembersOf(t, r)} = t.peers[q].rooms \ R
      BY <1>2
    <3> HIDE DEF u
    <3> QED
      BY <3>1, <3>2, <3>3
  <2> QED
    BY <2>1 DEF RemoveRooms
<1>4. /\ DOMAIN u.rooms = DOMAIN t.rooms \ R
      /\ \A r \in DOMAIN u.rooms : u.rooms[r] = t.rooms[r]
      /\ u.rooms = [r \in DOMAIN u.rooms |-> u.rooms[r]]
      /\ u.memberships = Monus(t.memberships, Cardinality(out))
      /\ DOMAIN u = {"peers", "rooms", "memberships"}
  BY DEF RemoveRooms
<1>5. /\ out \subseteq Pairs(t)
      /\ Pairs(u) = Pairs(t) \ out
  <2>1. ASSUME NEW q, NEW r
        PROVE  /\ <<q, r>> \in out => <<q, r>> \in Pairs(t)
               /\ <<q, r>> \in Pairs(u) <=> <<q, r>> \in Pairs(t) \ out
    <3>1. <<q, r>> \in Pairs(t)
            <=> q \in DOMAIN t.peers /\ r \in Room /\ r \in t.peers[q].rooms
      BY DEF Pairs
    <3>2. <<q, r>> \in Pairs(u)
            <=> q \in DOMAIN t.peers /\ r \in Room /\ r \in t.peers[q].rooms /\ r \notin R
      BY <1>3 DEF Pairs
    <3>3. <<q, r>> \in out <=> q \in Peer /\ r \in R /\ q \in MembersOf(t, r)
      OBVIOUS
    <3>4. DOMAIN t.peers \subseteq Peer
      BY <1>1 DEF TrackerTyped
    <3> HIDE DEF out, u
    <3> QED
      BY <3>1, <3>2, <3>3, <3>4, <1>2
  <2>2. /\ Pairs(u) \subseteq (DOMAIN u.peers) \X Room /\ Pairs(t) \subseteq (DOMAIN t.peers) \X Room
        /\ out \subseteq Peer \X R
    BY DEF Pairs
  <2> HIDE DEF out, u
  <2> QED
    BY <2>1, <2>2
<1>6. /\ Cardinality(Pairs(u)) = u.memberships
      /\ u.memberships \in Nat /\ u.memberships <= t.memberships
  <2>1. IsFiniteSet(Pairs(t)) /\ t.memberships \in Nat /\ t.memberships = Cardinality(Pairs(t))
    BY <1>1, TrackerFinite DEF TrackerTyped, CounterMatches
  <2>2. IsFiniteSet(out) /\ Cardinality(out) <= Cardinality(Pairs(t))
    BY <2>1, <1>5, FS_Subset
  <2>3. Cardinality(out) \in Nat
    BY <2>2, FS_CardinalityType
  <2>4. Cardinality(Pairs(t) \ out) = Cardinality(Pairs(t)) - Cardinality(Pairs(t) \cap out)
    BY <2>1, FS_Difference
  <2>5. Pairs(t) \cap out = out
    BY <1>5
  <2>6. Monus(t.memberships, Cardinality(out)) = t.memberships - Cardinality(out)
    BY <2>1, <2>2, <2>3 DEF Monus
  <2>7. Cardinality(Pairs(u)) = t.memberships - Cardinality(out)
    BY <2>1, <2>4, <2>5, <1>5
  <2>8. u.memberships = t.memberships - Cardinality(out)
    BY <2>6, <1>4
  <2>9. Cardinality(out) <= t.memberships
    BY <2>1, <2>2
  <2> HIDE DEF out, u
  <2> QED
    BY <2>1, <2>3, <2>7, <2>8, <2>9
<1>7. TrackerTyped(u)
  <2>1. /\ DOMAIN t.peers \subseteq Peer /\ DOMAIN t.rooms \subseteq Room
        /\ \A r \in DOMAIN t.rooms : t.rooms[r] \in SUBSET Peer
    BY <1>1 DEF TrackerTyped
  <2> HIDE DEF out, u
  <2> QED
    BY <2>1, <1>3, <1>4, <1>6 DEF TrackerTyped
<1>8. IndexMatches(u)
  <2>1. \A r \in DOMAIN u.rooms : u.rooms[r] # {}
    BY <1>1, <1>4 DEF IndexMatches
  <2>2. ASSUME NEW r \in Room
        PROVE  MembersOf(u, r) = {q \in DOMAIN u.peers : r \in u.peers[q].rooms}
    <3>1. MembersOf(u, r) = IF r \in R THEN {} ELSE MembersOf(t, r)
      BY <1>4 DEF MembersOf
    <3>2. MembersOf(t, r) = {q \in DOMAIN t.peers : r \in t.peers[q].rooms}
      BY <1>1 DEF IndexMatches
    <3> HIDE DEF u
    <3> QED
      BY <3>1, <3>2, <1>3
  <2> QED
    BY <2>1, <2>2 DEF IndexMatches
<1>9. WithinLimits(u)
  <2>1. u.memberships <= MaxMemberships
    BY <1>1, <1>6, TrackerLimits DEF WithinLimits, TrackerTyped
  <2>2. Cardinality(DOMAIN u.peers) <= MaxPeers
    BY <1>1, <1>3 DEF WithinLimits
  <2>3. ASSUME NEW q \in DOMAIN u.peers
        PROVE  Cardinality(u.peers[q].rooms) <= MaxRoomsPerPeer
    <3>1. /\ t.peers[q].rooms \subseteq Room /\ u.peers[q].rooms \subseteq t.peers[q].rooms
          /\ Cardinality(t.peers[q].rooms) <= MaxRoomsPerPeer
      BY <1>1, <1>3 DEF WithinLimits, TrackerTyped
    <3>2. IsFiniteSet(t.peers[q].rooms)
      BY <3>1, FiniteIdentities, FS_Subset
    <3>3. IsFiniteSet(u.peers[q].rooms)
          /\ Cardinality(u.peers[q].rooms) <= Cardinality(t.peers[q].rooms)
      BY <3>1, <3>2, FS_Subset
    <3>4. Cardinality(u.peers[q].rooms) \in Nat /\ Cardinality(t.peers[q].rooms) \in Nat
      BY <3>2, <3>3, FS_CardinalityType
    <3> HIDE DEF u
    <3> QED
      BY <3>1, <3>3, <3>4, TrackerLimits
  <2> QED
    BY <2>1, <2>2, <2>3 DEF WithinLimits
<1> QED
  BY <1>3, <1>4, <1>6, <1>7, <1>8, <1>9 DEF TrackerSound, CounterMatches
-----------------------------------------------------------------------------
RuntimeSound(m) ==
  RuntimeTyped(m) /\ TrackerSound(m.remote) /\ MembersOfKnownRooms(m)

\* A room of the index has a member, whose own set names it.
LEMMA IndexedRoomHasMember ==
  ASSUME NEW t, TrackerTyped(t), IndexMatches(t), NEW r \in DOMAIN t.rooms
  PROVE  r \in Room /\ \E q \in DOMAIN t.peers : r \in t.peers[q].rooms
<1>1. r \in Room /\ t.rooms[r] # {} /\ MembersOf(t, r) = t.rooms[r]
  BY DEF TrackerTyped, IndexMatches, MembersOf
<1>2. MembersOf(t, r) = {q \in DOMAIN t.peers : r \in t.peers[q].rooms}
  BY <1>1 DEF IndexMatches
<1> QED
  BY <1>1, <1>2

\* Conversely a room that a tracked peer names is in the index.
LEMMA NamedRoomIsIndexed ==
  ASSUME NEW t, TrackerTyped(t), IndexMatches(t),
         NEW q \in DOMAIN t.peers, NEW r \in t.peers[q].rooms
  PROVE  r \in Room /\ r \in DOMAIN t.rooms
<1>1. r \in Room
  BY DEF TrackerTyped
<1>2. q \in MembersOf(t, r)
  BY <1>1 DEF IndexMatches
<1> QED
  BY <1>1, <1>2 DEF MembersOf

\* A runtime starts sound.
LEMMA NewRuntimeSound ==
  ASSUME NEW n \in Peer
  PROVE  RuntimeSound(NewRuntime(n)) /\ NewRuntime(n).self = n /\ NewRuntime(n).known = {}
<1> DEFINE m == NewRuntime(n)
<1>1. /\ DOMAIN m = {"self", "known", "revision", "rooms", "remote"}
      /\ m.self = n /\ m.known = {} /\ m.revision = 0 /\ m.rooms = {}
      /\ m.remote = EmptyTracker
  BY DEF NewRuntime
<1>2. DOMAIN EmptyTracker.peers = {} /\ DOMAIN EmptyTracker.rooms = {}
  BY DEF EmptyTracker
<1> HIDE DEF m
<1>3. RuntimeTyped(m) /\ TrackerSound(m.remote)
  BY <1>1, EmptyTrackerSound DEF RuntimeTyped, TrackerSound
<1>4. MembersOfKnownRooms(m)
  BY <1>1, <1>2 DEF MembersOfKnownRooms
<1> QED
  BY <1>1, <1>3, <1>4 DEF RuntimeSound, m

\* The counts a runtime reports are natural numbers.
LEMMA TotalCountNat ==
  ASSUME NEW m, RuntimeTyped(m), NEW r
  PROVE  TotalCount(m, r) \in Nat
<1>1. MembersOf(m.remote, r) \subseteq Peer
  BY DEF MembersOf, RuntimeTyped, TrackerTyped
<1>2. IsFiniteSet(MembersOf(m.remote, r))
  BY <1>1, FiniteIdentities, FS_Subset
<1>3. MemberCount(m.remote, r) \in Nat
  BY <1>2, FS_CardinalityType DEF MemberCount
<1> QED
  BY <1>3 DEF TotalCount

\* Registering a room only adds it to the registry.
LEMMA RegisteredSound ==
  ASSUME NEW m, RuntimeSound(m), NEW r \in Room
  PROVE  LET n == Registered(m, r)
         IN  /\ RuntimeSound(n)
             /\ n.self = m.self /\ n.known = m.known \cup {r} /\ n.remote = m.remote
             /\ n.rooms = m.rooms /\ n.revision = m.revision
<1> DEFINE n == Registered(m, r)
<1>1. /\ DOMAIN n = DOMAIN m
      /\ n.self = m.self /\ n.known = m.known \cup {r} /\ n.remote = m.remote
      /\ n.rooms = m.rooms /\ n.revision = m.revision
  BY DEF Registered, RuntimeSound, RuntimeTyped
<1> HIDE DEF n
<1>2. RuntimeSound(n)
  BY <1>1 DEF RuntimeSound, RuntimeTyped, MembersOfKnownRooms
<1> QED
  BY <1>1, <1>2 DEF n

\* Switching the local peer to known rooms leaves the registry and the others alone.
LEMMA LocalReplacedSound ==
  ASSUME NEW m, RuntimeSound(m), NEW next \in SUBSET m.known
  PROVE  LET n == LocalReplaced(m, next)
         IN  /\ RuntimeSound(n)
             /\ n.self = m.self /\ n.known = m.known /\ n.remote = m.remote
             /\ n.rooms = next
<1> DEFINE n == LocalReplaced(m, next)
<1>1. /\ DOMAIN n = DOMAIN m
      /\ n.self = m.self /\ n.known = m.known /\ n.remote = m.remote
      /\ n.rooms = next /\ n.revision \in Nat
  BY DEF LocalReplaced, RuntimeSound, RuntimeTyped
<1> HIDE DEF n
<1>2. RuntimeSound(n)
  BY <1>1 DEF RuntimeSound, RuntimeTyped, MembersOfKnownRooms
<1> QED
  BY <1>1, <1>2 DEF n

\* Putting another sound tracker in place keeps the runtime sound when it neither indexes
\* an unknown room nor tracks the local peer.
LEMMA RemoteReplacedSound ==
  ASSUME NEW m, RuntimeSound(m), NEW u, TrackerSound(u),
         DOMAIN u.rooms \subseteq m.known, m.self \notin DOMAIN u.peers
  PROVE  RuntimeSound([m EXCEPT !.remote = u])
<1> DEFINE n == [m EXCEPT !.remote = u]
<1>1. /\ DOMAIN n = DOMAIN m
      /\ n.self = m.self /\ n.known = m.known /\ n.remote = u
      /\ n.rooms = m.rooms /\ n.revision = m.revision
  BY DEF RuntimeSound, RuntimeTyped
<1> HIDE DEF n
<1>2. RuntimeSound(n)
  BY <1>1 DEF RuntimeSound, RuntimeTyped, MembersOfKnownRooms, TrackerSound
<1> QED
  BY <1>2 DEF n

\* A received snapshot changes only the tracker, and tracks nobody but its sender anew.
LEMMA RemoteAppliedSound ==
  ASSUME NEW m, RuntimeSound(m), NEW s \in Snapshot
  PROVE  LET n == RemoteApplied(m, s)
         IN  /\ RuntimeSound(n)
             /\ n.self = m.self /\ n.known = m.known /\ n.rooms = m.rooms
             /\ DOMAIN n.remote.peers \subseteq DOMAIN m.remote.peers \cup {s.peer}
<1> DEFINE u == ApplySnapshot(m.remote, s.peer, s.revision, s.rooms)
<1>1. /\ TrackerSound(m.remote) /\ TrackerSound(u)
      /\ s.peer \in Peer /\ s.revision \in Nat \ {0} /\ s.rooms \in SUBSET Room
  BY ApplySnapshotSound DEF RuntimeSound, Snapshot
<1>2. CASE ~Accepted(RemoteVerdict(m, s))
  BY <1>2 DEF RemoteApplied
<1>3. CASE Accepted(RemoteVerdict(m, s))
  <2>1. s.peer # m.self /\ s.rooms \subseteq m.known
    BY <1>3 DEF RemoteVerdict, Accepted
  <2>2. \/ u = m.remote
        \/ /\ DOMAIN u.peers = DOMAIN m.remote.peers \cup {s.peer}
           /\ u.peers[s.peer].rooms = s.rooms
           /\ \A q \in DOMAIN m.remote.peers \ {s.peer} : u.peers[q] = m.remote.peers[q]
    BY DEF ApplySnapshot, Replaced
  <2> HIDE DEF u
  <2>3. DOMAIN u.peers \subseteq DOMAIN m.remote.peers \cup {s.peer}
        /\ m.self \notin DOMAIN u.peers
    BY <2>1, <2>2 DEF RuntimeSound, MembersOfKnownRooms
  <2>4. ASSUME NEW r \in DOMAIN u.rooms PROVE r \in m.known
    <3>1. r \in Room /\ \E q \in DOMAIN u.peers : r \in u.peers[q].rooms
      BY <1>1, IndexedRoomHasMember DEF TrackerSound
    <3>2. PICK q \in DOMAIN u.peers : r \in u.peers[q].rooms
      BY <3>1
    <3>3. CASE r \in s.rooms
      BY <3>3, <2>1
    <3>4. CASE r \notin s.rooms
      <4>1. q \in DOMAIN m.remote.peers /\ r \in m.remote.peers[q].rooms
        BY <2>2, <3>2, <3>4
      <4>2. r \in DOMAIN m.remote.rooms
        BY <4>1, <1>1, NamedRoomIsIndexed DEF TrackerSound
      <4> QED
        BY <4>2 DEF RuntimeSound, MembersOfKnownRooms
    <3> QED
      BY <3>3, <3>4
  <2>5. RuntimeSound([m EXCEPT !.remote = u])
    BY <1>1, <2>3, <2>4, RemoteReplacedSound
  <2>6. RemoteApplied(m, s) = [m EXCEPT !.remote = u]
    BY <1>3 DEF RemoteApplied, u
  <2>7. LET n == [m EXCEPT !.remote = u]
        IN  n.self = m.self /\ n.known = m.known /\ n.rooms = m.rooms /\ n.remote = u
    BY DEF RuntimeSound, RuntimeTyped
  <2> QED
    BY <2>3, <2>5, <2>6, <2>7
<1> QED
  BY <1>2, <1>3

\* The departure of a peer takes it out of the tracker and changes nothing else.
LEMMA PeerDepartedSound ==
  ASSUME NEW m, RuntimeSound(m), NEW p \in Peer
  PROVE  LET n == PeerDeparted(m, p)
         IN  /\ RuntimeSound(n)
             /\ n.self = m.self /\ n.known = m.known /\ n.rooms = m.rooms
             /\ DOMAIN n.remote.peers = DOMAIN m.remote.peers \ {p}
<1> DEFINE u == RemovePeer(m.remote, p)
<1>1. TrackerSound(m.remote) /\ TrackerSound(u)
  BY RemovePeerSound DEF RuntimeSound
<1>2. CASE p = m.self
  BY <1>2 DEF PeerDeparted, RuntimeSound, MembersOfKnownRooms
<1>3. CASE p # m.self
  <2>1. DOMAIN u.peers = DOMAIN m.remote.peers \ {p}
        /\ \A q \in DOMAIN u.peers : u.peers[q] = m.remote.peers[q]
    BY DEF RemovePeer
  <2> HIDE DEF u
  <2>2. ASSUME NEW r \in DOMAIN u.rooms PROVE r \in m.known
    <3>1. PICK q \in DOMAIN u.peers : r \in u.peers[q].rooms
      BY <1>1, IndexedRoomHasMember DEF TrackerSound
    <3>2. r \in DOMAIN m.remote.rooms
      BY <1>1, <2>1, <3>1, NamedRoomIsIndexed DEF TrackerSound
    <3> QED
      BY <3>2 DEF RuntimeSound, MembersOfKnownRooms
  <2>3. m.self \notin DOMAIN u.peers
    BY <2>1 DEF RuntimeSound, MembersOfKnownRooms
  <2>4. RuntimeSound([m EXCEPT !.remote = u])
    BY <1>1, <2>2, <2>3, RemoteReplacedSound
  <2>5. PeerDeparted(m, p) = [m EXCEPT !.remote = u]
    BY <1>3 DEF PeerDeparted, u
  <2>6. LET n == [m EXCEPT !.remote = u]
        IN  n.self = m.self /\ n.known = m.known /\ n.rooms = m.rooms /\ n.remote = u
    BY DEF RuntimeSound, RuntimeTyped
  <2> QED
    BY <2>1, <2>4, <2>5, <2>6
<1> QED
  BY <1>2, <1>3

\* Closing rooms takes them out of the registry, the index and the local membership
\* together; everybody tracked stays tracked.
LEMMA RoomsClosedSound ==
  ASSUME NEW m, RuntimeSound(m), NEW R
  PROVE  LET n == RoomsClosed(m, R)
         IN  /\ RuntimeSound(n)
             /\ n.self = m.self /\ n.known = m.known \ R
             /\ DOMAIN n.remote.peers = DOMAIN m.remote.peers
<1> DEFINE closing == R \cap m.known
           left    == LocalReplaced(m, m.rooms \ closing)
           u       == RemoveRooms(m.remote, closing)
           n       == RoomsClosed(m, R)
<1>1. closing \in SUBSET Room /\ m.rooms \ closing \in SUBSET m.known
  BY DEF RuntimeSound, RuntimeTyped, MembersOfKnownRooms
<1>2. /\ TrackerSound(u)
      /\ DOMAIN u.rooms = DOMAIN m.remote.rooms \ closing
      /\ DOMAIN u.peers = DOMAIN m.remote.peers
  BY <1>1, RemoveRoomsSound DEF RuntimeSound
<1>3. /\ RuntimeSound(left)
      /\ left.self = m.self /\ left.known = m.known /\ left.remote = m.remote
      /\ left.rooms = m.rooms \ closing
  BY <1>1, LocalReplacedSound
<1>4. n = [left EXCEPT !.remote = RemoveRooms(@, closing), !.known = @ \ closing]
  BY DEF RoomsClosed
<1> HIDE DEF left, n
<1>5. /\ DOMAIN n = DOMAIN left
      /\ n.self = m.self /\ n.known = m.known \ closing /\ n.remote = u
      /\ n.rooms = m.rooms \ closing /\ n.revision = left.revision
  BY <1>3, <1>4 DEF RuntimeSound, RuntimeTyped
<1> HIDE DEF u
<1>6. RuntimeTyped(n)
  BY <1>2, <1>3, <1>5 DEF RuntimeSound, RuntimeTyped, TrackerSound
<1>7. MembersOfKnownRooms(n)
  BY <1>2, <1>5 DEF RuntimeSound, MembersOfKnownRooms
<1>8. m.known \ closing = m.known \ R
  OBVIOUS
<1> QED
  BY <1>2, <1>5, <1>6, <1>7, <1>8 DEF RuntimeSound, n
=============================================================================
