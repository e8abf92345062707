------------------------ MODULE RoomDirectory_proofs ------------------------
(***************************************************************************)
(* Theorems about RoomDirectory: type correctness, the agreement of the    *)
(* membership bridge with itself and with the table of rooms, the leases,  *)
(* the ownership of rooms, their counts and their locks.  One invariant,   *)
(* Inv, is inductive: each part needs the others, since a closed room is   *)
(* found in the table, removed from the registry and taken out of the      *)
(* tracker.  With it the bridge reports every room whose count changes, and*)
(* the node's copy of a room agrees with the room's lock (OwnLocks).       *)
(***************************************************************************)
EXTENDS RoomDirectory, RoomMembership_proofs

\* The copies the heartbeat announces again name the node as their owner.
OwnCopies == \A r \in DOMAIN owned : owned[r].owner = Self

Inv ==
  /\ TypeOK
  /\ MembershipConsistent
  /\ RegistryIsTable
  /\ LeaseCoversMembers
  /\ OwnerKeepsRoom
  /\ OwnCopies

\* What OwnerOnlyChangesByClosing says of one step.
OwnersKept ==
  \A r \in DOMAIN rooms \cap DOMAIN rooms' : rooms'[r].owner = rooms[r].owner

\* A table of rooms, and a table of locks, as the maps of the task hold them.
IsTable(f) == DOMAIN f \subseteq Room /\ f \in [DOMAIN f -> RoomInfo]

AreLocks(f) == f \in [DOMAIN f -> Owner!RoomState]

\* The parts of Inv on the tables, apart from the membership bridge.
TablesSound ==
  /\ IsTable(rooms)
  /\ IsTable(owned)
  /\ DOMAIN locks = DOMAIN owned /\ AreLocks(locks)
  /\ joins \subseteq JoinId
  /\ present \subseteq Remote
  /\ seen \subseteq Remote /\ aged \subseteq seen
  /\ OwnerKeepsRoom
  /\ OwnCopies

BridgeSound ==
  /\ RuntimeSound(membership)
  /\ membership.self = Self
  /\ membership.known = DOMAIN rooms
  /\ DOMAIN membership.remote.peers \subseteq seen

\* Inv, regrouped for the proofs.
LEMMA InvParts == Inv <=> TablesSound /\ BridgeSound
BY DEF Inv, TablesSound, BridgeSound, TypeOK, MembershipConsistent, RegistryIsTable,
       LeaseCoversMembers, RuntimeSound, RuntimeTyped, TrackerSound, IsTable, AreLocks

-----------------------------------------------------------------------------
\* Writing the reported counts keeps a table, its rooms and their owners.
LEMMA CountedTable ==
  ASSUME NEW f, IsTable(f), NEW m, RuntimeTyped(m), NEW changed
  PROVE  LET g == Counted(f, m, changed)
         IN  /\ IsTable(g) /\ DOMAIN g = DOMAIN f
             /\ \A r \in DOMAIN f : g[r].owner = f[r].owner
<1> DEFINE g == Counted(f, m, changed)
<1>1. DOMAIN g = DOMAIN f /\ g = [r \in DOMAIN g |-> g[r]]
  BY DEF Counted
<1>2. ASSUME NEW r \in DOMAIN f
      PROVE  g[r] \in RoomInfo /\ g[r].owner = f[r].owner
  <2>1. f[r] \in RoomInfo /\ TotalCount(m, r) \in Nat
    BY TotalCountNat DEF IsTable
  <2>2. g[r] = IF r \in changed THEN [f[r] EXCEPT !.users = TotalCount(m, r)] ELSE f[r]
    BY DEF Counted
  <2> HIDE DEF g
  <2> QED
    BY <2>1, <2>2 DEF RoomInfo
<1> HIDE DEF g
<1>3. IsTable(g)
  BY <1>1, <1>2 DEF IsTable
<1> QED
  BY <1>1, <1>2, <1>3 DEF g

\* The owner's operations keep a lock a lock.
LEMMA LockOperations ==
  ASSUME NEW s \in Owner!RoomState, NEW p \in Peer, NEW pw, NEW owner
  PROVE  /\ pw \in Password \cup {NoPassword} => Owner!PasswordUpdated(s, pw) \in Owner!RoomState
         /\ Owner!JoinAuthorized(s, owner, p, pw) \in Owner!RoomState
         /\ Owner!GrantExpired(s, p) \in Owner!RoomState
         /\ Owner!WindowPassed(s, p) \in Owner!RoomState
<1>1. s = [revision |-> s.revision, password |-> s.password, grants |-> s.grants,
           attempts |-> s.attempts]
      /\ s.revision \in Nat \ {0} /\ s.password \in Password \cup {NoPassword}
      /\ s.grants \subseteq Peer /\ s.attempts \in [Peer -> 0..MaxAttempts]
      /\ MaxAttempts \in Nat
  BY DirectoryAssumption DEF Owner!RoomState
<1>2. pw \in Password \cup {NoPassword} => Owner!PasswordUpdated(s, pw) \in Owner!RoomState
  <2> SUFFICES ASSUME pw \in Password \cup {NoPassword}
               PROVE  Owner!PasswordUpdated(s, pw) \in Owner!RoomState
    OBVIOUS
  <2> DEFINE next == s.revision + 1
             u    == [s EXCEPT !.revision = next, !.password = pw, !.grants = {}]
  <2>1. next \in Nat \ {0}
    BY <1>1
  <2>2. Owner!PasswordUpdated(s, pw) \in {s, u}
    BY DEF Owner!PasswordUpdated
  <2> HIDE DEF next
  <2>3. u \in Owner!RoomState
    BY <2>1 DEF Owner!RoomState
  <2> QED
    BY <2>2, <2>3
<1>3. Owner!GrantExpired(s, p) \in Owner!RoomState
  BY <1>1 DEF Owner!GrantExpired, Owner!RoomState
<1>4. Owner!WindowPassed(s, p) \in Owner!RoomState
  <2>1. [s.attempts EXCEPT ![p] = 0] \in [Peer -> 0..MaxAttempts]
    BY <1>1
  <2> QED
    BY <1>1, <2>1 DEF Owner!WindowPassed, Owner!RoomState
<1>5. Owner!JoinAuthorized(s, owner, p, pw) \in Owner!RoomState
  <2> DEFINE verdict == Owner!JoinVerdict(s, owner, p, pw)
             counted == verdict \in {"InvalidPassword", "Granted"}
             after   == [s.attempts EXCEPT ![p] = IF counted THEN @ + 1 ELSE @]
             grants  == IF verdict = "Granted" THEN s.grants \cup {p} ELSE s.grants
  <2>1. counted => s.attempts[p] < MaxAttempts
    <3>1. counted => ~(s.attempts[p] >= MaxAttempts)
      BY DEF Owner!JoinVerdict
    <3>2. s.attempts[p] \in 0..MaxAttempts
      BY <1>1
    <3> QED
      BY <1>1, <3>1, <3>2
  <2> HIDE DEF counted
  <2>2. after \in [Peer -> 0..MaxAttempts]
    BY <1>1, <2>1
  <2>3. grants \subseteq Peer
    BY <1>1
  <2>4. Owner!JoinAuthorized(s, owner, p, pw)
          = [revision |-> s.revision, password |-> s.password, grants |-> grants,
             attempts |-> after]
    <3>1. Owner!JoinAuthorized(s, owner, p, pw)
            = [s EXCEPT !.attempts = after, !.grants = grants]
      BY <1>1 DEF Owner!JoinAuthorized, counted
    <3> HIDE DEF after, grants
    <3> QED
      BY <1>1, <3>1
  <2> HIDE DEF after, grants
  <2> QED
    BY <1>1, <2>2, <2>3, <2>4 DEF Owner!RoomState
<1> QED
  BY <1>2, <1>3, <1>4, <1>5
-----------------------------------------------------------------------------
(***************************************************************************)
(* One lemma for each group of actions.                                    *)
(***************************************************************************)
\* The empty directory.
LEMMA InitInv == Init => Inv
<1> SUFFICES ASSUME Init PROVE Inv
  OBVIOUS
<1>1. Self \in Peer
  BY DirectoryAssumption
<1>2. BridgeSound
  <2>1. RuntimeSound(membership) /\ membership.self = Self /\ membership.known = {}
    BY <1>1, NewRuntimeSound DEF Init
  <2>2. membership.remote = EmptyTracker
    BY DEF Init, NewRuntime
  <2>3. DOMAIN EmptyTracker.peers = {}
    BY DEF EmptyTracker
  <2> QED
    BY <2>1, <2>2, <2>3 DEF BridgeSound, Init
<1>3. TablesSound
  BY DEF Init, TablesSound, IsTable, AreLocks, OwnerKeepsRoom, OwnCopies, OwnedBy
<1> QED
  BY <1>2, <1>3, InvParts

\* The handlers that touch neither the bridge nor the tables of rooms.
LEMMA ControlStep ==
  ASSUME Inv, UNCHANGED <<membership, rooms, owned, seen>>, aged' \subseteq seen,
         DOMAIN locks' = DOMAIN locks, AreLocks(locks'),
         joins' \subseteq JoinId, present' \subseteq Remote
  PROVE  Inv' /\ OwnersKept
<1>1. TablesSound /\ BridgeSound
  BY InvParts
<1>2. TablesSound'
  BY <1>1 DEF TablesSound, IsTable, AreLocks, OwnerKeepsRoom, OwnCopies, OwnedBy
<1>3. BridgeSound'
  BY <1>1 DEF BridgeSound
<1>4. Inv'
  BY <1>2, <1>3, InvParts, PTL
<1> QED
  BY <1>4 DEF OwnersKept

\* Changing one lock of the node's own rooms.
LEMMA LockStep ==
  ASSUME Inv, NEW r \in DOMAIN locks, NEW s \in Owner!RoomState,
         locks' = [locks EXCEPT ![r] = s],
         UNCHANGED <<membership, rooms, owned, client, joins, present, seen, aged>>
  PROVE  Inv' /\ OwnersKept
<1>1. TablesSound
  BY InvParts
<1>2. DOMAIN locks' = DOMAIN locks /\ AreLocks(locks')
  BY <1>1 DEF TablesSound, AreLocks
<1> QED
  BY <1>1, <1>2, ControlStep DEF TablesSound

\* The user switches rooms.
LEMMA EnterRoomStep ==
  ASSUME Inv, NEW target \in SUBSET Room, EnterRoom(target)
  PROVE  Inv' /\ OwnersKept
<1>1. TablesSound /\ BridgeSound
  BY InvParts
<1>2. /\ membership' = LocalReplaced(membership, target)
      /\ rooms' = Counted(rooms, membership', LocalChanges(membership, membership'))
      /\ UNCHANGED <<owned, locks, client, joins, present, seen, aged>>
      /\ target \in SUBSET membership.known
  BY DEF EnterRoom, CanEnter
<1>3. /\ RuntimeSound(membership')
      /\ membership'.self = membership.self /\ membership'.known = membership.known
      /\ membership'.remote = membership.remote
  BY <1>1, <1>2, LocalReplacedSound DEF BridgeSound
<1>4. /\ IsTable(rooms') /\ DOMAIN rooms' = DOMAIN rooms
      /\ \A r \in DOMAIN rooms : rooms'[r].owner = rooms[r].owner
  BY <1>1, <1>2, <1>3, CountedTable DEF TablesSound, RuntimeSound
<1>5. BridgeSound'
  BY <1>1, <1>2, <1>3, <1>4 DEF BridgeSound
<1>6. TablesSound'
  BY <1>1, <1>2, <1>4 DEF TablesSound, IsTable, AreLocks, OwnerKeepsRoom, OwnCopies, OwnedBy
<1>7. Inv'
  BY <1>5, <1>6, InvParts, PTL
<1> QED
  BY <1>4, <1>7 DEF OwnersKept

\* The user opens a room.
LEMMA CreateRoomStep ==
  ASSUME Inv, NEW r \in Room, NEW pw \in Password \cup {NoPassword}, CreateRoom(r, pw)
  PROVE  Inv' /\ OwnersKept
<1> DEFINE lock  == Owner!NewRoom(pw)
           added == Registered(membership, r)
           after == LocalReplaced(added, {r})
           info  == [owner |-> Self, protected |-> Owner!IsProtected(lock),
                     revision |-> lock.revision, users |-> TotalCount(after, r)]
           put   == Put(rooms, r, info)
<1>1. TablesSound /\ BridgeSound
  BY InvParts
<1>2. /\ membership' = after
      /\ locks' = Put(locks, r, lock)
      /\ owned' = Put(owned, r, info)
      /\ rooms' = Counted(put, after, LocalChanges(membership, after))
      /\ UNCHANGED <<joins, present, seen, aged>>
      /\ r \in DOMAIN rooms => rooms[r].owner = Self
  BY DEF CreateRoom, Admitted
<1>3. /\ RuntimeSound(added)
      /\ added.self = membership.self /\ added.known = membership.known \cup {r}
      /\ added.remote = membership.remote
  BY <1>1, RegisteredSound DEF BridgeSound
<1>4. /\ RuntimeSound(after)
      /\ after.self = membership.self /\ after.known = membership.known \cup {r}
      /\ after.remote = membership.remote
  <2>1. {r} \in SUBSET added.known
    BY <1>3
  <2> HIDE DEF added
  <2> QED
    BY <1>3, <2>1, LocalReplacedSound
<1>5. lock \in Owner!RoomState /\ lock.revision = 1
  <2>1. MaxAttempts \in Nat
    BY DirectoryAssumption
  <2> QED
    BY <2>1 DEF Owner!NewRoom, Owner!RoomState
<1>6. info \in RoomInfo /\ info.owner = Self
  <2>1. TotalCount(after, r) \in Nat /\ Self \in Peer
    BY <1>4, TotalCountNat, DirectoryAssumption DEF RuntimeSound
  <2>2. Owner!IsProtected(lock) \in BOOLEAN
    BY DEF Owner!IsProtected
  <2> HIDE DEF after, lock
  <2> QED
    BY <1>5, <2>1, <2>2 DEF RoomInfo
<1> HIDE DEF after, lock, info
<1>7. /\ IsTable(put) /\ DOMAIN put = DOMAIN rooms \cup {r} /\ put[r] = info
      /\ \A x \in DOMAIN rooms \ {r} : put[x] = rooms[x]
  BY <1>1, <1>6 DEF TablesSound, put, Put, Client!With, IsTable
<1> HIDE DEF put
<1>8. /\ IsTable(rooms') /\ DOMAIN rooms' = DOMAIN rooms \cup {r}
      /\ rooms'[r].owner = Self
      /\ \A x \in DOMAIN rooms : rooms'[x].owner = rooms[x].owner
  <2>1. /\ IsTable(rooms') /\ DOMAIN rooms' = DOMAIN put
        /\ \A x \in DOMAIN put : rooms'[x].owner = put[x].owner
    BY <1>2, <1>4, <1>7, CountedTable DEF RuntimeSound
  <2> QED
    BY <2>1, <1>2, <1>6, <1>7
<1>9. /\ IsTable(owned') /\ DOMAIN owned' = DOMAIN owned \cup {r}
      /\ owned'[r] = info /\ \A x \in DOMAIN owned \ {r} : owned'[x] = owned[x]
  <2>1. owned' = Put(owned, r, info) /\ IsTable(owned)
    BY <1>1, <1>2 DEF TablesSound
  <2> QED
    BY <1>6, <2>1 DEF Put, Client!With, IsTable
<1>10. DOMAIN locks' = DOMAIN locks \cup {r} /\ AreLocks(locks')
  BY <1>1, <1>2, <1>5 DEF TablesSound, AreLocks, Put, Client!With
<1>11. BridgeSound'
  BY <1>1, <1>2, <1>4, <1>8 DEF BridgeSound
<1>12. OwnerKeepsRoom' /\ OwnCopies'
  <2>0. OwnCopies'
    BY <1>1, <1>6, <1>9 DEF TablesSound, OwnCopies
  <2>1. \A x \in DOMAIN owned' : x \in DOMAIN rooms' /\ rooms'[x].owner = Self
    BY <1>1, <1>8, <1>9 DEF TablesSound, OwnerKeepsRoom
  <2> QED
    BY <2>0, <2>1 DEF OwnerKeepsRoom, OwnedBy, Remote
<1>13. TablesSound'
  BY <1>1, <1>2, <1>8, <1>9, <1>10, <1>12 DEF TablesSound
<1>14. Inv'
  BY <1>11, <1>13, InvParts, PTL
<1> QED
  BY <1>8, <1>14 DEF OwnersKept

\* The user changes a password: the table's entry is overwritten by the owner's copy,
\* which is an entry of the same owner.
LEMMA UpdateRoomPasswordStep ==
  ASSUME Inv, NEW r \in Room, NEW pw \in Password \cup {NoPassword},
         UpdateRoomPassword(r, pw)
  PROVE  Inv' /\ OwnersKept
<1> DEFINE lock == Owner!PasswordUpdated(locks[r], pw)
           info == [owned[r] EXCEPT !.protected = Owner!IsProtected(lock),
                                    !.revision  = lock.revision]
<1>1. TablesSound /\ BridgeSound
  BY InvParts
<1>2. /\ locks' = [locks EXCEPT ![r] = lock]
      /\ owned' = [owned EXCEPT ![r] = info]
      /\ rooms' = Put(rooms, r, info)
      /\ UNCHANGED <<membership, joins, present, seen, aged>>
      /\ r \in DOMAIN owned
  BY DEF UpdateRoomPassword
<1>3. /\ DOMAIN locks = DOMAIN owned /\ AreLocks(locks) /\ IsTable(owned) /\ IsTable(rooms)
      /\ r \in DOMAIN rooms /\ rooms[r].owner = Self /\ owned[r].owner = Self
  BY <1>1, <1>2 DEF TablesSound, OwnerKeepsRoom, OwnCopies
<1>4. lock \in Owner!RoomState
  <2>1. locks[r] \in Owner!RoomState /\ Self \in Peer
    BY <1>2, <1>3, DirectoryAssumption DEF AreLocks
  <2> QED
    BY <2>1, LockOperations
<1>5. owned[r] \in RoomInfo
  BY <1>2, <1>3 DEF IsTable
<1>6. lock.revision \in Nat \ {0} /\ Owner!IsProtected(lock) \in BOOLEAN
  BY <1>4 DEF Owner!RoomState, Owner!IsProtected
<1> HIDE DEF lock
<1>7. info \in RoomInfo /\ info.owner = Self
  BY <1>3, <1>5, <1>6 DEF RoomInfo
<1> HIDE DEF info
<1>8. /\ IsTable(rooms') /\ DOMAIN rooms' = DOMAIN rooms /\ rooms'[r] = info
      /\ \A x \in DOMAIN rooms \ {r} : rooms'[x] = rooms[x]
  <2>1. rooms' = Put(rooms, r, info)
    BY <1>2
  <2>2. /\ IsTable(rooms') /\ DOMAIN rooms' = DOMAIN rooms \cup {r} /\ rooms'[r] = info
        /\ \A x \in DOMAIN rooms \ {r} : rooms'[x] = rooms[x]
    BY <1>3, <1>7, <2>1 DEF Put, Client!With, IsTable
  <2> QED
    BY <1>3, <2>2
<1>9. /\ IsTable(owned') /\ DOMAIN owned' = DOMAIN owned /\ owned'[r] = info
      /\ \A x \in DOMAIN owned \ {r} : owned'[x] = owned[x]
  BY <1>2, <1>3, <1>7 DEF IsTable
<1>10. DOMAIN locks' = DOMAIN locks /\ AreLocks(locks')
  BY <1>2, <1>3, <1>4 DEF AreLocks
<1>11. \A x \in DOMAIN rooms : rooms'[x].owner = rooms[x].owner
  BY <1>3, <1>7, <1>8
<1>12. OwnCopies' /\ OwnerKeepsRoom'
  <2>1. \A x \in DOMAIN owned' : owned'[x].owner = Self
    BY <1>1, <1>7, <1>9 DEF TablesSound, OwnCopies
  <2>2. \A x \in DOMAIN owned' : x \in DOMAIN rooms' /\ rooms'[x].owner = Self
    BY <1>1, <1>8, <1>9, <1>11 DEF TablesSound, OwnerKeepsRoom
  <2> QED
    BY <2>1, <2>2 DEF OwnCopies, OwnerKeepsRoom, OwnedBy, Remote
<1>13. TablesSound'
  BY <1>1, <1>2, <1>8, <1>9, <1>10, <1>12 DEF TablesSound
<1>14. BridgeSound'
  BY <1>1, <1>2, <1>8 DEF BridgeSound
<1>15. Inv'
  BY <1>13, <1>14, InvParts, PTL
<1> QED
  BY <1>8, <1>11, <1>15 DEF OwnersKept
\* A remote room is announced: an admitted announcement is of a new room or by the owner
\* the table has for it.
LEMMA OnRoomCreateStep ==
  ASSUME Inv, NEW a \in Announcement, OnRoomCreate(a)
  PROVE  Inv' /\ OwnersKept
<1> DEFINE info == [owner |-> a.owner, protected |-> a.protected, revision |-> a.revision,
                    users |-> TotalCount(membership, a.room)]
<1>1. TablesSound /\ BridgeSound
  BY InvParts
<1>2. /\ membership' = Registered(membership, a.room)
      /\ rooms' = Put(rooms, a.room, info)
      /\ UNCHANGED <<owned, locks, joins, present, seen, aged>>
      /\ a.room \in DOMAIN rooms => rooms[a.room].owner = a.owner
  BY DEF OnRoomCreate, Admitted
<1>3. a.room \in Room /\ a.owner \in Remote /\ a.owner \in Peer /\ a.owner # Self
      /\ a.protected \in BOOLEAN /\ a.revision \in Nat \ {0}
  BY DirectoryAssumption DEF Remote
<1>4. info \in RoomInfo /\ info.owner = a.owner
  <2>1. TotalCount(membership, a.room) \in Nat
    BY <1>1, TotalCountNat DEF BridgeSound, RuntimeSound
  <2> QED
    BY <1>3, <2>1 DEF RoomInfo
<1> HIDE DEF info
<1>5. /\ IsTable(rooms') /\ DOMAIN rooms' = DOMAIN rooms \cup {a.room}
      /\ rooms'[a.room] = info
      /\ \A x \in DOMAIN rooms \ {a.room} : rooms'[x] = rooms[x]
  <2>1. rooms' = Put(rooms, a.room, info) /\ IsTable(rooms)
    BY <1>1, <1>2 DEF TablesSound
  <2> QED
    BY <1>3, <1>4, <2>1 DEF Put, Client!With, IsTable
<1>6. \A x \in DOMAIN rooms : rooms'[x].owner = rooms[x].owner
  BY <1>2, <1>4, <1>5
<1>7. /\ RuntimeSound(membership')
      /\ membership'.self = membership.self
      /\ membership'.known = membership.known \cup {a.room}
      /\ membership'.remote = membership.remote
  BY <1>1, <1>2, <1>3, RegisteredSound DEF BridgeSound
<1>8. BridgeSound'
  BY <1>1, <1>2, <1>5, <1>7 DEF BridgeSound
<1>9. OwnerKeepsRoom' /\ OwnCopies'
  <2>1. \A x \in DOMAIN owned' : x \in DOMAIN rooms' /\ rooms'[x].owner = Self
    BY <1>1, <1>2, <1>5, <1>6 DEF TablesSound, OwnerKeepsRoom
  <2>2. OwnCopies'
    BY <1>1, <1>2 DEF TablesSound, OwnCopies
  <2> QED
    BY <2>1, <2>2 DEF OwnerKeepsRoom, OwnedBy, Remote
<1>10. TablesSound'
  BY <1>1, <1>2, <1>5, <1>9 DEF TablesSound, IsTable, AreLocks
<1>11. Inv'
  BY <1>8, <1>10, InvParts, PTL
<1> QED
  BY <1>6, <1>11 DEF OwnersKept

\* A snapshot is received: its sender, and nobody else, may be tracked anew, and has a
\* lease.
LEMMA OnSnapshotStep ==
  ASSUME Inv, NEW s \in RemoteSnapshot, OnSnapshot(s)
  PROVE  Inv' /\ OwnersKept
<1>1. TablesSound /\ BridgeSound
  BY InvParts
<1>2. /\ membership' = RemoteApplied(membership, s)
      /\ rooms' = Counted(rooms, membership', RemoteChanges(membership, s))
      /\ seen' = seen \cup {s.peer} /\ aged' = aged \ {s.peer}
      /\ UNCHANGED <<owned, locks, client, joins, present>>
  BY DEF OnSnapshot
<1>3. s \in Snapshot /\ s.peer \in Remote
  BY DirectoryAssumption DEF Snapshot, Remote
<1>4. /\ RuntimeSound(membership')
      /\ membership'.self = membership.self /\ membership'.known = membership.known
      /\ DOMAIN membership'.remote.peers \subseteq DOMAIN membership.remote.peers \cup {s.peer}
  BY <1>1, <1>2, <1>3, RemoteAppliedSound DEF BridgeSound
<1>5. /\ IsTable(rooms') /\ DOMAIN rooms' = DOMAIN rooms
      /\ \A r \in DOMAIN rooms : rooms'[r].owner = rooms[r].owner
  BY <1>1, <1>2, <1>4, CountedTable DEF TablesSound, RuntimeSound
<1>6. BridgeSound'
  BY <1>1, <1>2, <1>4, <1>5 DEF BridgeSound
<1>7. TablesSound'
  BY <1>1, <1>2, <1>3, <1>5 DEF TablesSound, IsTable, AreLocks, OwnerKeepsRoom, OwnCopies, OwnedBy
<1>8. Inv'
  BY <1>6, <1>7, InvParts, PTL
<1> QED
  BY <1>5, <1>8 DEF OwnersKept

\* The last connection to a peer closes, or its membership lease runs out.
LEMMA OnConnectionClosedStep ==
  ASSUME Inv, NEW p \in Remote, OnConnectionClosed(p)
  PROVE  Inv' /\ OwnersKept
<1>1. TablesSound /\ BridgeSound
  BY InvParts
<1>2. /\ membership' = PeerDeparted(membership, p)
      /\ rooms' = Counted(rooms, membership', DepartureChanges(membership, p))
      /\ seen' = seen \ {p} /\ aged' = aged \ {p}
      /\ UNCHANGED <<owned, locks, client, joins, present>>
  BY DEF OnConnectionClosed, LeaseDropped
<1>3. /\ RuntimeSound(membership')
      /\ membership'.self = membership.self /\ membership'.known = membership.known
      /\ DOMAIN membership'.remote.peers = DOMAIN membership.remote.peers \ {p}
  BY <1>1, <1>2, PeerDepartedSound DEF BridgeSound, Remote
<1>4. /\ IsTable(rooms') /\ DOMAIN rooms' = DOMAIN rooms
      /\ \A r \in DOMAIN rooms : rooms'[r].owner = rooms[r].owner
  BY <1>1, <1>2, <1>3, CountedTable DEF TablesSound, RuntimeSound
<1>5. BridgeSound'
  BY <1>1, <1>2, <1>3, <1>4 DEF BridgeSound
<1>6. TablesSound'
  BY <1>1, <1>2, <1>4 DEF TablesSound, IsTable, AreLocks, OwnerKeepsRoom, OwnCopies, OwnedBy
<1>7. Inv'
  BY <1>5, <1>6, InvParts, PTL
<1> QED
  BY <1>4, <1>7 DEF OwnersKept

\* Rooms of one remote owner are closed in the table and in a bridge that has just been
\* brought to a sound value over the same rooms.
LEMMA ClosingStep ==
  ASSUME Inv, NEW p \in Remote, NEW R \in SUBSET OwnedBy(p),
         NEW m, RuntimeSound(m), m.self = Self, m.known = DOMAIN rooms,
         NEW f, IsTable(f), DOMAIN f = DOMAIN rooms,
         \A r \in DOMAIN rooms : f[r].owner = rooms[r].owner,
         membership' = RoomsClosed(m, R), rooms' = Drop(f, R),
         DOMAIN m.remote.peers \subseteq seen', seen' \subseteq Remote, aged' \subseteq seen',
         present' \subseteq Remote,
         UNCHANGED <<owned, locks, joins>>
  PROVE  Inv' /\ OwnersKept
<1>1. TablesSound /\ BridgeSound
  BY InvParts
<1>2. /\ RuntimeSound(membership')
      /\ membership'.self = Self /\ membership'.known = DOMAIN rooms \ R
      /\ DOMAIN membership'.remote.peers = DOMAIN m.remote.peers
  BY RoomsClosedSound
<1>3. /\ IsTable(rooms') /\ DOMAIN rooms' = DOMAIN rooms \ R
      /\ \A x \in DOMAIN rooms' : rooms'[x] = f[x]
  BY DEF Drop, Client!WithoutAll, IsTable
<1>4. \A x \in DOMAIN rooms' : x \in DOMAIN rooms /\ rooms'[x].owner = rooms[x].owner
  BY <1>3
<1>5. \A x \in R : rooms[x].owner # Self
  BY DEF OwnedBy, Remote
<1>6. BridgeSound'
  BY <1>2, <1>3 DEF BridgeSound
<1>7. OwnerKeepsRoom' /\ OwnCopies'
  <2>1. \A x \in DOMAIN owned' : x \in DOMAIN rooms' /\ rooms'[x].owner = Self
    BY <1>1, <1>3, <1>4, <1>5 DEF TablesSound, OwnerKeepsRoom
  <2>2. OwnCopies'
    BY <1>1 DEF TablesSound, OwnCopies
  <2> QED
    BY <2>1, <2>2 DEF OwnerKeepsRoom, OwnedBy, Remote
<1>8. TablesSound'
  BY <1>1, <1>3, <1>7 DEF TablesSound, IsTable, AreLocks
<1>9. Inv'
  BY <1>6, <1>8, InvParts, PTL
<1> QED
  BY <1>4, <1>9 DEF OwnersKept

\* A peer says Goodbye or its presence lease runs out.
LEMMA DepartedStep ==
  ASSUME Inv, NEW p \in Remote, Departed(p),
         present' = present \ {p}, LeaseDropped(p) \/ UNCHANGED <<seen, aged>>,
         UNCHANGED <<owned, locks, joins>>
  PROVE  Inv' /\ OwnersKept
<1> DEFINE gone == PeerDeparted(membership, p)
           left == Counted(rooms, gone, DepartureChanges(membership, p))
<1>1. TablesSound /\ BridgeSound
  BY InvParts
<1>2. membership' = RoomsClosed(gone, OwnedBy(p)) /\ rooms' = Drop(left, OwnedBy(p))
  BY DEF Departed
<1>3. /\ RuntimeSound(gone) /\ gone.self = Self /\ gone.known = DOMAIN rooms
      /\ DOMAIN gone.remote.peers = DOMAIN membership.remote.peers \ {p}
  BY <1>1, PeerDepartedSound DEF BridgeSound, Remote
<1> HIDE DEF gone
<1>4. /\ IsTable(left) /\ DOMAIN left = DOMAIN rooms
      /\ \A r \in DOMAIN rooms : left[r].owner = rooms[r].owner
  BY <1>1, <1>3, CountedTable DEF TablesSound, RuntimeSound
<1> HIDE DEF left
<1>5. /\ DOMAIN gone.remote.peers \subseteq seen'
      /\ seen' \subseteq Remote /\ aged' \subseteq seen' /\ present' \subseteq Remote
  BY <1>1, <1>3 DEF TablesSound, BridgeSound, LeaseDropped
<1> QED
  BY <1>2, <1>3, <1>4, <1>5, ClosingStep

\* An owner closes its room.
LEMMA OnRoomCloseStep ==
  ASSUME Inv, NEW p \in Remote, NEW r \in Room, OnRoomClose(r, p)
  PROVE  Inv' /\ OwnersKept
<1>1. TablesSound /\ BridgeSound
  BY InvParts
<1>2. /\ membership' = RoomsClosed(membership, {r}) /\ rooms' = Drop(rooms, {r})
      /\ {r} \in SUBSET OwnedBy(p)
      /\ UNCHANGED <<owned, locks, joins, present, seen, aged>>
  BY DEF OnRoomClose
<1>3. /\ RuntimeSound(membership) /\ membership.self = Self /\ membership.known = DOMAIN rooms
      /\ DOMAIN membership.remote.peers \subseteq seen' /\ seen' \subseteq Remote
      /\ aged' \subseteq seen' /\ present' \subseteq Remote /\ IsTable(rooms)
  BY <1>1, <1>2 DEF BridgeSound, TablesSound
<1> QED
  BY <1>2, <1>3, ClosingStep
-----------------------------------------------------------------------------
(***************************************************************************)
(* The invariant and the theorems.                                         *)
(***************************************************************************)
\* Every step of the task keeps the invariant, and no step changes the owner of a room
\* that stays in the table.
LEMMA NextKeepsInv == Inv /\ [Next]_vars => Inv' /\ OwnersKept
<1> SUFFICES ASSUME Inv, [Next]_vars PROVE Inv' /\ OwnersKept
  OBVIOUS
<1>0. TablesSound /\ BridgeSound
  BY InvParts
<1>1. CASE UNCHANGED vars
  <2>1. UNCHANGED <<membership, rooms, owned, seen, aged, locks, joins, present>>
    BY <1>1 DEF vars
  <2> QED
    BY <1>0, <2>1, ControlStep DEF TablesSound, AreLocks
<1>2. ASSUME NEW target \in {{}} \cup {{r} : r \in Room}, EnterRoom(target)
      PROVE  Inv' /\ OwnersKept
  <2>1. target \in SUBSET Room
    OBVIOUS
  <2> QED
    BY <1>2, <2>1, EnterRoomStep
<1>3. ASSUME NEW r \in Room, NEW pw \in Password \cup {NoPassword},
             CreateRoom(r, pw) \/ UpdateRoomPassword(r, pw)
      PROVE  Inv' /\ OwnersKept
  BY <1>3, CreateRoomStep, UpdateRoomPasswordStep
<1>4. ASSUME NEW r \in Room, NEW id \in JoinId, AuthorizeRoomEntry(r, id)
      PROVE  Inv' /\ OwnersKept
  <2>1. /\ UNCHANGED <<membership, rooms, owned, seen, aged>> /\ locks' = locks
        /\ joins' \subseteq JoinId /\ present' \subseteq Remote
    BY <1>0, <1>4 DEF AuthorizeRoomEntry, TablesSound
  <2> QED
    BY <1>0, <2>1, ControlStep DEF TablesSound, AreLocks
<1>5. ASSUME NEW id \in JoinId,
             OnJoinResponse(id, TRUE) \/ OnJoinResponse(id, FALSE) \/ OnJoinFailure(id)
      PROVE  Inv' /\ OwnersKept
  <2>1. /\ UNCHANGED <<membership, rooms, owned, seen, aged>> /\ locks' = locks
        /\ joins' \subseteq JoinId /\ present' \subseteq Remote
    BY <1>0, <1>5 DEF OnJoinResponse, OnJoinFailure, TablesSound
  <2> QED
    BY <1>0, <2>1, ControlStep DEF TablesSound, AreLocks
<1>6. ASSUME NEW p \in Remote, NEW r \in Room, NEW pw \in Password, OnJoinRequest(p, r, pw)
      PROVE  Inv' /\ OwnersKept
  <2> DEFINE s == Owner!JoinAuthorized(locks[r], Self, p, pw)
  <2>1. /\ r \in DOMAIN locks /\ locks' = [locks EXCEPT ![r] = s]
        /\ UNCHANGED <<membership, rooms, owned, client, joins, present, seen, aged>>
    BY <1>6 DEF OnJoinRequest
  <2>2. s \in Owner!RoomState
    <3>1. locks[r] \in Owner!RoomState /\ p \in Peer
      BY <1>0, <2>1 DEF TablesSound, AreLocks, Remote
    <3> QED
      BY <3>1, LockOperations
  <2> HIDE DEF s
  <2> QED
    BY <2>1, <2>2, LockStep
<1>7. ASSUME NEW p \in Remote, NEW r \in Room, GrantExpires(p, r)
      PROVE  Inv' /\ OwnersKept
  <2> DEFINE s == Owner!GrantExpired(locks[r], p)
  <2>1. /\ r \in DOMAIN locks /\ locks' = [locks EXCEPT ![r] = s]
        /\ UNCHANGED <<membership, rooms, owned, client, joins, present, seen, aged>>
    BY <1>7 DEF GrantExpires
  <2>2. s \in Owner!RoomState
    <3>1. locks[r] \in Owner!RoomState /\ p \in Peer
      BY <1>0, <2>1 DEF TablesSound, AreLocks, Remote
    <3> QED
      BY <3>1, LockOperations
  <2> HIDE DEF s
  <2> QED
    BY <2>1, <2>2, LockStep
<1>8. ASSUME NEW p \in Remote, NEW r \in Room, WindowPasses(p, r)
      PROVE  Inv' /\ OwnersKept
  <2> DEFINE s == Owner!WindowPassed(locks[r], p)
  <2>1. /\ r \in DOMAIN locks /\ locks' = [locks EXCEPT ![r] = s]
        /\ UNCHANGED <<membership, rooms, owned, client, joins, present, seen, aged>>
    BY <1>8 DEF WindowPasses
  <2>2. s \in Owner!RoomState
    <3>1. locks[r] \in Owner!RoomState /\ p \in Peer
      BY <1>0, <2>1 DEF TablesSound, AreLocks, Remote
    <3> QED
      BY <3>1, LockOperations
  <2> HIDE DEF s
  <2> QED
    BY <2>1, <2>2, LockStep
<1>9. ASSUME NEW p \in Remote, OnPresence(p)
      PROVE  Inv' /\ OwnersKept
  <2>1. /\ UNCHANGED <<membership, rooms, owned, seen, aged>> /\ locks' = locks
        /\ joins' \subseteq JoinId /\ present' \subseteq Remote
    BY <1>0, <1>9 DEF OnPresence, TablesSound
  <2> QED
    BY <1>0, <2>1, ControlStep DEF TablesSound, AreLocks
<1>10. ASSUME NEW p \in Remote, OnGoodbye(p) \/ PresenceLeaseExpires(p)
       PROVE  Inv' /\ OwnersKept
  BY <1>10, DepartedStep DEF OnGoodbye, PresenceLeaseExpires
<1>11. ASSUME NEW p \in Remote, OnConnectionClosed(p) \/ MembershipLeaseExpires(p)
       PROVE  Inv' /\ OwnersKept
  BY <1>11, OnConnectionClosedStep DEF MembershipLeaseExpires
<1>12. ASSUME LocalStep PROVE Inv' /\ OwnersKept
  BY <1>12, <1>2, <1>3, <1>4, <1>5 DEF LocalStep
<1>13. ASSUME NEW p \in Remote, FromPeer(p) PROVE Inv' /\ OwnersKept
  BY <1>13, <1>6, <1>9, <1>10, OnSnapshotStep, OnRoomCreateStep, OnRoomCloseStep DEF FromPeer
<1>14. ASSUME NEW p \in Remote, TimerStep(p) PROVE Inv' /\ OwnersKept
  <2>1. CASE LeaseAges(p)
    <3>1. /\ UNCHANGED <<membership, rooms, owned, seen>> /\ locks' = locks
          /\ aged' \subseteq seen /\ joins' \subseteq JoinId /\ present' \subseteq Remote
      BY <1>0, <2>1 DEF LeaseAges, TablesSound
    <3> QED
      BY <1>0, <3>1, ControlStep DEF TablesSound, AreLocks
  <2> QED
    BY <1>14, <2>1, <1>7, <1>8, <1>10, <1>11 DEF TimerStep
<1>15. CASE Next
  BY <1>15, <1>11, <1>12, <1>13, <1>14 DEF Next
<1> QED
  BY <1>1, <1>15

\* Inv is an invariant of the task.
THEOREM InvHolds == Spec => []Inv
<1>1. Init => Inv
  BY InitInv
<1>2. Inv /\ [Next]_vars => Inv'
  BY NextKeepsInv
<1> QED
  BY <1>1, <1>2, PTL DEF Spec

\* Every variable keeps its type, whatever the network delivers and in whatever order.
THEOREM TypeCorrect == Spec => []TypeOK
<1>1. Inv => TypeOK
  BY DEF Inv
<1> QED
  BY <1>1, InvHolds, PTL

\* The tracker's maps and its counter agree and respect the limits, for every number of
\* peers and rooms and every limit.
THEOREM MembershipStaysConsistent == Spec => []MembershipConsistent
<1>1. Inv => MembershipConsistent
  BY DEF Inv
<1> QED
  BY <1>1, InvHolds, PTL

\* The bridge's registry is the table of rooms, and covers everybody's rooms.
THEOREM RegistryStaysTable == Spec => []RegistryIsTable
<1>1. Inv => RegistryIsTable
  BY DEF Inv
<1> QED
  BY <1>1, InvHolds, PTL

\* Nobody is counted without a lease that can run out.
THEOREM LeasesCoverMembers == Spec => []LeaseCoversMembers
<1>1. Inv => LeaseCoversMembers
  BY DEF Inv
<1> QED
  BY <1>1, InvHolds, PTL

\* The node's own rooms stay its own.
THEOREM OwnRoomsStayOwn == Spec => []OwnerKeepsRoom
<1>1. Inv => OwnerKeepsRoom
  BY DEF Inv
<1> QED
  BY <1>1, InvHolds, PTL

\* The first accepted owner of a room keeps it until the room is closed.
THEOREM FirstOwnerKeepsRoom == Spec => OwnerOnlyChangesByClosing
<1>1. Inv /\ [Next]_vars
        => [\A r \in DOMAIN rooms \cap DOMAIN rooms' : rooms'[r].owner = rooms[r].owner]_vars
  BY NextKeepsInv DEF OwnersKept
<1> QED
  BY <1>1, InvHolds, PTL DEF Spec, OwnerOnlyChangesByClosing
-----------------------------------------------------------------------------
(***************************************************************************)
(* Who is in a room after an operation.                                    *)
(***************************************************************************)
\* The members of a room are those whose own set names it.
LEMMA MembersNameIt ==
  ASSUME NEW m, RuntimeSound(m), NEW r \in Room
  PROVE  MembersOf(m.remote, r) = {p \in DOMAIN m.remote.peers : r \in m.remote.peers[p].rooms}
BY DEF RuntimeSound, TrackerSound, IndexMatches

\* A snapshot brings its sender into the rooms it names, and changes no room it does not
\* report.
LEMMA AppliedMembers ==
  ASSUME NEW m, RuntimeSound(m), NEW s \in Snapshot, NEW r \in Room
  PROVE  LET n == RemoteApplied(m, s)
         IN  /\ \A p \in MembersOf(n.remote, r) \ MembersOf(m.remote, r) :
                  p = s.peer /\ r \in s.rooms
             /\ r \notin RemoteChanges(m, s) => MembersOf(n.remote, r) = MembersOf(m.remote, r)
<1> DEFINE n == RemoteApplied(m, s)
           u == Replaced(m.remote, s.peer, s.revision, s.rooms)
<1>1. RuntimeSound(n)
  BY RemoteAppliedSound
<1>2. CASE n.remote = m.remote
  BY <1>2
<1>3. CASE n.remote # m.remote
  <2>1. /\ Accepted(RemoteVerdict(m, s))
        /\ SnapshotVerdict(m.remote, s.peer, s.revision, s.rooms) = "Applied"
        /\ n.remote = u
    BY <1>3 DEF RemoteApplied, ApplySnapshot, RuntimeSound, RuntimeTyped
  <2>2. /\ DOMAIN u.peers = DOMAIN m.remote.peers \cup {s.peer}
        /\ u.peers[s.peer].rooms = s.rooms
        /\ \A q \in DOMAIN m.remote.peers \ {s.peer} : u.peers[q] = m.remote.peers[q]
    BY DEF Replaced
  <2>3. RemoteChanges(m, s)
          = (RoomsOf(m.remote, s.peer) \ s.rooms) \cup (s.rooms \ RoomsOf(m.remote, s.peer))
    BY <2>1 DEF RemoteChanges, ChangedRooms
  <2> HIDE DEF n, u
  <2>4. /\ MembersOf(n.remote, r) = {p \in DOMAIN u.peers : r \in u.peers[p].rooms}
        /\ MembersOf(m.remote, r) = {p \in DOMAIN m.remote.peers : r \in m.remote.peers[p].rooms}
    BY <1>1, <2>1, MembersNameIt
  <2>5. r \in RoomsOf(m.remote, s.peer) <=> s.peer \in MembersOf(m.remote, r)
    BY <2>4 DEF RoomsOf
  <2>6. ASSUME NEW p, p # s.peer PROVE p \in MembersOf(n.remote, r) <=> p \in MembersOf(m.remote, r)
    BY <2>2, <2>4, <2>6
  <2>7. s.peer \in MembersOf(n.remote, r) <=> r \in s.rooms
    BY <2>2, <2>4
  <2>8. ASSUME r \notin RemoteChanges(m, s)
        PROVE  MembersOf(n.remote, r) = MembersOf(m.remote, r)
    <3>1. r \in s.rooms <=> s.peer \in MembersOf(m.remote, r)
      BY <2>3, <2>5, <2>8
    <3> QED
      BY <2>6, <2>7, <3>1
  <2> QED
    BY <2>6, <2>7, <2>8 DEF n
<1> QED
  BY <1>2, <1>3

\* A departure takes the peer out of the rooms reported, and of no other.
LEMMA DepartedMembers ==
  ASSUME NEW m, RuntimeSound(m), NEW p \in Peer, NEW r \in Room
  PROVE  LET n == PeerDeparted(m, p)
         IN  /\ MembersOf(n.remote, r) \subseteq MembersOf(m.remote, r)
             /\ r \notin DepartureChanges(m, p) =>
                  MembersOf(n.remote, r) = MembersOf(m.remote, r)
<1>1. CASE p = m.self
  BY <1>1 DEF PeerDeparted
<1>2. CASE p # m.self
  <2>1. PeerDeparted(m, p).remote = RemovePeer(m.remote, p)
    BY <1>2 DEF PeerDeparted, RuntimeSound, RuntimeTyped
  <2>2. MembersOf(RemovePeer(m.remote, p), r) = MembersOf(m.remote, r) \ {p}
    BY RemovePeerSound DEF RuntimeSound
  <2>3. p \in MembersOf(m.remote, r) => r \in DepartureChanges(m, p)
    BY <1>2, MembersNameIt DEF DepartureChanges, RoomsOf
  <2> QED
    BY <2>1, <2>2, <2>3
<1> QED
  BY <1>1, <1>2

\* Closing rooms empties those and leaves the others as they were.
LEMMA ClosedMembers ==
  ASSUME NEW m, RuntimeSound(m), NEW R, NEW r \in Room
  PROVE  LET n == RoomsClosed(m, R)
         IN  /\ MembersOf(n.remote, r) \subseteq MembersOf(m.remote, r)
             /\ r \notin R => /\ MembersOf(n.remote, r) = MembersOf(m.remote, r)
                              /\ r \in n.rooms <=> r \in m.rooms
<1> DEFINE closing == R \cap m.known
           left    == LocalReplaced(m, m.rooms \ closing)
           n       == RoomsClosed(m, R)
<1>1. m.rooms \ closing \in SUBSET m.known
  BY DEF RuntimeSound, MembersOfKnownRooms
<1>2. RuntimeSound(left) /\ left.remote = m.remote /\ left.rooms = m.rooms \ closing
  BY <1>1, LocalReplacedSound
<1>3. n = [left EXCEPT !.remote = RemoveRooms(@, closing), !.known = @ \ closing]
  BY DEF RoomsClosed
<1> HIDE DEF left, n
<1>4. n.remote = RemoveRooms(m.remote, closing) /\ n.rooms = m.rooms \ closing
  BY <1>2, <1>3 DEF RuntimeSound, RuntimeTyped
<1>5. RemoveRooms(m.remote, closing).rooms
        = [x \in DOMAIN m.remote.rooms \ closing |-> m.remote.rooms[x]]
  BY DEF RemoveRooms
<1>6. MembersOf(n.remote, r) = IF r \in closing THEN {} ELSE MembersOf(m.remote, r)
  BY <1>4, <1>5 DEF MembersOf
<1> QED
  BY <1>4, <1>6 DEF n
-----------------------------------------------------------------------------
(***************************************************************************)
(* The counts.                                                             *)
(***************************************************************************)
\* What CountsKept says of one step.
CountsFollow ==
  \A r \in DOMAIN rooms' : r \notin DOMAIN rooms \/ CountIsRight(r) =>
    CountIsRight(r)' \/ \E pw \in Password \cup {NoPassword} : UpdateRoomPassword(r, pw)

\* The same members, the local peer among them or not, are the same count.
LEMMA SameCount ==
  ASSUME NEW m, NEW n, NEW r,
         MembersOf(n.remote, r) = MembersOf(m.remote, r), r \in n.rooms <=> r \in m.rooms
  PROVE  TotalCount(n, r) = TotalCount(m, r)
BY DEF TotalCount, MemberCount

\* A table that is told of every room whose count changes has right counts again.
LEMMA CountedRight ==
  ASSUME NEW f, IsTable(f), NEW m, NEW n, RuntimeTyped(n), NEW changed, NEW r \in DOMAIN f,
         f[r].users = TotalCount(m, r),
         r \notin changed => TotalCount(n, r) = TotalCount(m, r)
  PROVE  Counted(f, n, changed)[r].users = TotalCount(n, r)
<1>1. f[r] \in RoomInfo /\ TotalCount(n, r) \in Nat
  BY TotalCountNat DEF IsTable
<1>2. Counted(f, n, changed)[r]
        = IF r \in changed THEN [f[r] EXCEPT !.users = TotalCount(n, r)] ELSE f[r]
  BY DEF Counted
<1> QED
  BY <1>1, <1>2 DEF RoomInfo

\* A step that adds no room and writes the counts the bridge reports, if the bridge reports
\* every room whose count changes.
LEMMA CountedFollow ==
  ASSUME Inv, NEW changed, RuntimeSound(membership'),
         rooms' = Counted(rooms, membership', changed),
         \A r \in DOMAIN rooms :
           r \notin changed => TotalCount(membership', r) = TotalCount(membership, r)
  PROVE  CountsFollow
<1>1. IsTable(rooms) /\ RuntimeTyped(membership')
  BY InvParts DEF TablesSound, RuntimeSound
<1>2. DOMAIN rooms' = DOMAIN rooms
  BY DEF Counted
<1>3. ASSUME NEW r \in DOMAIN rooms, rooms[r].users = TotalCount(membership, r)
      PROVE  rooms'[r].users = TotalCount(membership', r)
  BY <1>1, <1>3, CountedRight
<1> QED
  BY <1>2, <1>3 DEF CountsFollow, CountIsRight

\* A step that changes neither the members nor what the table says of them.
LEMMA UncountedFollow ==
  ASSUME DOMAIN rooms' = DOMAIN rooms, \A r \in DOMAIN rooms : rooms'[r] = rooms[r],
         membership' = membership
  PROVE  CountsFollow
BY DEF CountsFollow, CountIsRight

\* The user switches rooms: those left and entered are reported.
LEMMA EnterRoomFollow ==
  ASSUME Inv, NEW target \in SUBSET Room, EnterRoom(target)
  PROVE  CountsFollow
<1>1. BridgeSound
  BY InvParts
<1>2. /\ membership' = LocalReplaced(membership, target)
      /\ rooms' = Counted(rooms, membership', LocalChanges(membership, membership'))
      /\ target \in SUBSET membership.known
  BY DEF EnterRoom, CanEnter
<1>3. RuntimeSound(membership') /\ membership'.remote = membership.remote
  BY <1>1, <1>2, LocalReplacedSound DEF BridgeSound
<1>4. ASSUME NEW r \in DOMAIN rooms, r \notin LocalChanges(membership, membership')
      PROVE  TotalCount(membership', r) = TotalCount(membership, r)
  <2>1. r \in membership'.rooms <=> r \in membership.rooms
    BY <1>4 DEF LocalChanges
  <2> QED
    BY <1>3, <2>1, SameCount
<1> QED
  BY <1>2, <1>3, <1>4, CountedFollow

\* The user opens a room: its count is that of the moment after it was entered.
LEMMA CreateRoomFollow ==
  ASSUME Inv, NEW r \in Room, NEW pw \in Password \cup {NoPassword}, CreateRoom(r, pw)
  PROVE  CountsFollow
<1> DEFINE lock  == Owner!NewRoom(pw)
           added == Registered(membership, r)
           after == LocalReplaced(added, {r})
           info  == [owner |-> Self, protected |-> Owner!IsProtected(lock),
                     revision |-> lock.revision, users |-> TotalCount(after, r)]
           put   == Put(rooms, r, info)
           changed == LocalChanges(membership, after)
<1>1. TablesSound /\ BridgeSound
  BY InvParts
<1>2. membership' = after /\ rooms' = Counted(put, after, changed)
  BY DEF CreateRoom
<1>3. /\ RuntimeSound(added) /\ added.remote = membership.remote
      /\ added.known = membership.known \cup {r}
  BY <1>1, RegisteredSound DEF BridgeSound
<1>4. RuntimeSound(after) /\ after.remote = membership.remote /\ after.rooms = {r}
  <2>1. {r} \in SUBSET added.known
    BY <1>3
  <2> HIDE DEF added
  <2> QED
    BY <1>3, <2>1, LocalReplacedSound
<1>5. info.users = TotalCount(after, r)
  OBVIOUS
<1> HIDE DEF added, after, lock, info
<1>6. /\ DOMAIN put = DOMAIN rooms \cup {r} /\ put[r] = info
      /\ \A x \in DOMAIN rooms \ {r} : put[x] = rooms[x]
  BY DEF put, Put, Client!With
<1> HIDE DEF put
<1>7. DOMAIN rooms' = DOMAIN rooms \cup {r}
      /\ \A x \in DOMAIN rooms' : rooms'[x]
           = IF x \in changed THEN [put[x] EXCEPT !.users = TotalCount(after, x)] ELSE put[x]
  BY <1>2, <1>6 DEF Counted
<1>8. rooms'[r].users = TotalCount(after, r)
  <2>1. "users" \in DOMAIN info
    BY DEF info
  <2> QED
    BY <1>5, <1>6, <1>7, <2>1
<1>9. ASSUME NEW x \in DOMAIN rooms, x # r, rooms[x].users = TotalCount(membership, x)
      PROVE  rooms'[x].users = TotalCount(after, x)
  <2>1. put[x] = rooms[x] /\ rooms[x] \in RoomInfo
    BY <1>1, <1>6, <1>9 DEF TablesSound, IsTable
  <2>2. CASE x \in changed
    BY <1>7, <1>9, <2>1, <2>2 DEF RoomInfo
  <2>3. CASE x \notin changed
    <3>1. x \in after.rooms <=> x \in membership.rooms
      BY <2>3 DEF LocalChanges
    <3>2. TotalCount(after, x) = TotalCount(membership, x)
      BY <1>4, <3>1, SameCount
    <3> QED
      BY <1>7, <1>9, <2>1, <2>3, <3>2
  <2> QED
    BY <2>2, <2>3
<1> QED
  BY <1>2, <1>7, <1>8, <1>9 DEF CountsFollow, CountIsRight

\* A password update writes one room's count: the one CountsKept leaves out.
LEMMA UpdateRoomPasswordFollow ==
  ASSUME NEW r \in Room, NEW pw \in Password \cup {NoPassword}, UpdateRoomPassword(r, pw)
  PROVE  CountsFollow
<1>1. \E info : rooms' = Put(rooms, r, info)
  BY DEF UpdateRoomPassword
<1>2. /\ \A x \in DOMAIN rooms' \ {r} : x \in DOMAIN rooms /\ rooms'[x] = rooms[x]
      /\ membership' = membership
  BY <1>1 DEF UpdateRoomPassword, Put, Client!With
<1> QED
  BY <1>2 DEF CountsFollow, CountIsRight

\* A room is announced: it is counted when it enters the table, and whenever it is renewed.
LEMMA OnRoomCreateFollow ==
  ASSUME Inv, NEW a \in Announcement, OnRoomCreate(a)
  PROVE  CountsFollow
<1> DEFINE info == [owner |-> a.owner, protected |-> a.protected, revision |-> a.revision,
                    users |-> TotalCount(membership, a.room)]
<1>1. BridgeSound /\ a.room \in Room
  BY InvParts, DirectoryAssumption
<1>2. membership' = Registered(membership, a.room) /\ rooms' = Put(rooms, a.room, info)
  BY DEF OnRoomCreate
<1>3. membership'.remote = membership.remote /\ membership'.rooms = membership.rooms
  BY <1>1, <1>2, RegisteredSound DEF BridgeSound
<1>4. \A r : TotalCount(membership', r) = TotalCount(membership, r)
  BY <1>3, SameCount
<1>5. info.users = TotalCount(membership, a.room)
  OBVIOUS
<1> HIDE DEF info
<1>6. /\ DOMAIN rooms' = DOMAIN rooms \cup {a.room} /\ rooms'[a.room] = info
      /\ \A x \in DOMAIN rooms \ {a.room} : rooms'[x] = rooms[x]
  BY <1>2 DEF Put, Client!With
<1> QED
  BY <1>4, <1>5, <1>6 DEF CountsFollow, CountIsRight

\* A snapshot is received: the rooms its sender left and entered are reported.
LEMMA OnSnapshotFollow ==
  ASSUME Inv, NEW s \in RemoteSnapshot, OnSnapshot(s)
  PROVE  CountsFollow
<1>1. TablesSound /\ BridgeSound
  BY InvParts
<1>2. /\ membership' = RemoteApplied(membership, s)
      /\ rooms' = Counted(rooms, membership', RemoteChanges(membership, s))
  BY DEF OnSnapshot
<1>3. s \in Snapshot
  BY DirectoryAssumption DEF Snapshot, Remote
<1>4. RuntimeSound(membership') /\ membership'.rooms = membership.rooms
  BY <1>1, <1>2, <1>3, RemoteAppliedSound DEF BridgeSound
<1>5. ASSUME NEW r \in DOMAIN rooms, r \notin RemoteChanges(membership, s)
      PROVE  TotalCount(membership', r) = TotalCount(membership, r)
  <2>1. r \in Room /\ RuntimeSound(membership)
    BY <1>1 DEF TablesSound, IsTable, BridgeSound
  <2>2. MembersOf(membership'.remote, r) = MembersOf(membership.remote, r)
    BY <1>2, <1>3, <1>5, <2>1, AppliedMembers
  <2> QED
    BY <1>4, <2>2, SameCount
<1> QED
  BY <1>2, <1>4, <1>5, CountedFollow

\* A departure reports the rooms the peer was in.
LEMMA DepartureCounts ==
  ASSUME Inv, NEW p \in Remote, NEW r \in DOMAIN rooms, r \notin DepartureChanges(membership, p)
  PROVE  TotalCount(PeerDeparted(membership, p), r) = TotalCount(membership, r)
<1>1. RuntimeSound(membership) /\ r \in Room /\ p \in Peer
  BY InvParts DEF TablesSound, IsTable, BridgeSound, Remote
<1> QED
  BY <1>1, DepartedMembers, PeerDepartedSound, SameCount

\* The last connection to a peer closes, or its membership lease runs out.
LEMMA OnConnectionClosedFollow ==
  ASSUME Inv, NEW p \in Remote, OnConnectionClosed(p)
  PROVE  CountsFollow
<1>1. /\ membership' = PeerDeparted(membership, p)
      /\ rooms' = Counted(rooms, membership', DepartureChanges(membership, p))
  BY DEF OnConnectionClosed
<1>2. RuntimeSound(membership')
  BY <1>1, PeerDepartedSound, InvParts DEF BridgeSound, Remote
<1> QED
  BY <1>1, <1>2, DepartureCounts, CountedFollow

\* Closing rooms in a bridge and a table that agree keeps the counts of the others.
LEMMA ClosingFollow ==
  ASSUME NEW m, RuntimeSound(m), NEW R, NEW f, DOMAIN f = DOMAIN rooms,
         DOMAIN rooms \subseteq Room,
         membership' = RoomsClosed(m, R), rooms' = Drop(f, R),
         \A r \in DOMAIN rooms : CountIsRight(r) => f[r].users = TotalCount(m, r)
  PROVE  CountsFollow
<1>1. DOMAIN rooms' = DOMAIN rooms \ R /\ \A r \in DOMAIN rooms' : rooms'[r] = f[r]
  BY DEF Drop, Client!WithoutAll
<1>2. ASSUME NEW r \in DOMAIN rooms'
      PROVE  TotalCount(membership', r) = TotalCount(m, r)
  <2>1. r \in Room /\ r \notin R
    BY <1>1
  <2>2. MembersOf(membership'.remote, r) = MembersOf(m.remote, r)
        /\ (r \in membership'.rooms <=> r \in m.rooms)
    BY <2>1, ClosedMembers
  <2> QED
    BY <2>2, SameCount
<1> QED
  BY <1>1, <1>2 DEF CountsFollow, CountIsRight

\* A peer says Goodbye or its presence lease runs out.
LEMMA DepartedFollow ==
  ASSUME Inv, NEW p \in Remote, Departed(p)
  PROVE  CountsFollow
<1> DEFINE gone == PeerDeparted(membership, p)
           left == Counted(rooms, gone, DepartureChanges(membership, p))
<1>1. IsTable(rooms) /\ RuntimeSound(membership) /\ p \in Peer
  BY InvParts DEF TablesSound, BridgeSound, Remote
<1>2. membership' = RoomsClosed(gone, OwnedBy(p)) /\ rooms' = Drop(left, OwnedBy(p))
  BY DEF Departed
<1>3. RuntimeSound(gone)
  BY <1>1, PeerDepartedSound
<1>4. \A r \in DOMAIN rooms : CountIsRight(r) => left[r].users = TotalCount(gone, r)
  <2>1. RuntimeTyped(gone)
    BY <1>3 DEF RuntimeSound
  <2>2. \A r \in DOMAIN rooms : r \notin DepartureChanges(membership, p) =>
          TotalCount(gone, r) = TotalCount(membership, r)
    BY DepartureCounts
  <2> HIDE DEF gone
  <2> QED
    BY <1>1, <2>1, <2>2, CountedRight DEF CountIsRight
<1>5. DOMAIN left = DOMAIN rooms /\ DOMAIN rooms \subseteq Room
  BY <1>1 DEF Counted, IsTable
<1> HIDE DEF gone, left
<1> QED
  BY <1>2, <1>3, <1>4, <1>5, ClosingFollow

\* An owner closes its room.
LEMMA OnRoomCloseFollow ==
  ASSUME Inv, NEW p \in Remote, NEW r \in Room, OnRoomClose(r, p)
  PROVE  CountsFollow
<1>1. DOMAIN rooms \subseteq Room /\ RuntimeSound(membership)
  BY InvParts DEF TablesSound, IsTable, BridgeSound
<1>2. membership' = RoomsClosed(membership, {r}) /\ rooms' = Drop(rooms, {r})
  BY DEF OnRoomClose
<1> QED
  BY <1>1, <1>2, ClosingFollow DEF CountIsRight

\* Every step of the task.
LEMMA NextCounts == ASSUME Inv, Next PROVE CountsFollow
<1>1. ASSUME NEW target \in {{}} \cup {{r} : r \in Room}, EnterRoom(target) PROVE CountsFollow
  <2>1. target \in SUBSET Room
    OBVIOUS
  <2> QED
    BY <1>1, <2>1, EnterRoomFollow
<1>2. ASSUME NEW r \in Room, NEW pw \in Password \cup {NoPassword},
             CreateRoom(r, pw) \/ UpdateRoomPassword(r, pw)
      PROVE  CountsFollow
  BY <1>2, CreateRoomFollow, UpdateRoomPasswordFollow
<1>3. ASSUME membership' = membership /\ rooms' = rooms PROVE CountsFollow
  BY <1>3, UncountedFollow
<1>4. CASE LocalStep
  BY <1>1, <1>2, <1>3, <1>4 DEF LocalStep, AuthorizeRoomEntry, OnJoinResponse, OnJoinFailure
<1>5. ASSUME NEW p \in Remote, FromPeer(p) PROVE CountsFollow
  BY <1>3, <1>5, DepartedFollow, OnSnapshotFollow, OnRoomCreateFollow, OnRoomCloseFollow
  DEF FromPeer, OnPresence, OnGoodbye, OnJoinRequest
<1>6. ASSUME NEW p \in Remote, TimerStep(p) PROVE CountsFollow
  BY <1>3, <1>6, OnConnectionClosedFollow, DepartedFollow
  DEF TimerStep, LeaseAges, MembershipLeaseExpires, PresenceLeaseExpires, GrantExpires, WindowPasses
<1> QED
  BY <1>4, <1>5, <1>6, OnConnectionClosedFollow DEF Next

\* Only the owner's password update leaves the table with a wrong count, and only for its own
\* room: the rooms the bridge reports are all whose count changes (lib.rs,
\* apply_membership_effects).
THEOREM CountsAreKept == Spec => CountsKept
<1>1. Inv /\ [Next]_vars => [CountsFollow]_vars
  BY NextCounts
<1>2. Spec => [][CountsFollow]_vars
  BY <1>1, InvHolds, PTL DEF Spec
<1> QED
  BY <1>2, PTL DEF CountsKept, CountsFollow
-----------------------------------------------------------------------------
(***************************************************************************)
(* The locks.  A snapshot is tested against owned_rooms, the locks are in  *)
(* secure_runtime.                                                         *)
(***************************************************************************)
\* The copy in owned_rooms and the lock agree on whether the room is locked.
OwnLocks == \A r \in DOMAIN owned : owned[r].protected <=> Owner!IsProtected(locks[r])

\* Everybody a step brings into a locked room holds its grant.
AdmitsGranted ==
  \A r \in DOMAIN locks : Owner!IsProtected(locks[r]) =>
    MembersOf(membership'.remote, r) \ MembersOf(membership.remote, r) \subseteq locks[r].grants

\* What peers ask of a lock, and its timers, leave the password alone.
LEMMA PasswordKept ==
  ASSUME NEW s \in Owner!RoomState, NEW p, NEW pw, NEW owner
  PROVE  /\ Owner!IsProtected(Owner!JoinAuthorized(s, owner, p, pw)) = Owner!IsProtected(s)
         /\ Owner!IsProtected(Owner!GrantExpired(s, p)) = Owner!IsProtected(s)
         /\ Owner!IsProtected(Owner!WindowPassed(s, p)) = Owner!IsProtected(s)
BY DEF Owner!RoomState, Owner!IsProtected, Owner!JoinAuthorized, Owner!GrantExpired,
       Owner!WindowPassed

\* A step on one lock that leaves its password alone.
LEMMA SamePasswordKeepsOwnLocks ==
  ASSUME Inv, OwnLocks, NEW r \in DOMAIN locks, NEW s,
         locks' = [locks EXCEPT ![r] = s], owned' = owned,
         Owner!IsProtected(s) = Owner!IsProtected(locks[r])
  PROVE  OwnLocks'
<1>1. DOMAIN locks = DOMAIN owned
  BY InvParts DEF TablesSound
<1> QED
  BY <1>1 DEF OwnLocks

\* The user opens a room: copy and lock are made together.
LEMMA CreateRoomKeepsOwnLocks ==
  ASSUME Inv, OwnLocks, NEW r \in Room, NEW pw, CreateRoom(r, pw)
  PROVE  OwnLocks'
<1> DEFINE lock == Owner!NewRoom(pw)
           kept(info) == locks' = Put(locks, r, lock) /\ owned' = Put(owned, r, info)
<1>1. PICK info : kept(info) /\ info.protected = Owner!IsProtected(lock)
  BY DEF CreateRoom
<1>2. DOMAIN locks = DOMAIN owned
  BY InvParts DEF TablesSound
<1> HIDE DEF lock
<1>3. /\ DOMAIN owned' = DOMAIN owned \cup {r} /\ owned'[r] = info /\ locks'[r] = lock
      /\ \A x \in DOMAIN owned \ {r} : owned'[x] = owned[x] /\ locks'[x] = locks[x]
  BY <1>1, <1>2 DEF Put, Client!With
<1> QED
  BY <1>1, <1>3 DEF OwnLocks

\* The user changes a password: so does the copy.
LEMMA UpdateRoomPasswordKeepsOwnLocks ==
  ASSUME Inv, OwnLocks, NEW r \in Room, NEW pw, UpdateRoomPassword(r, pw)
  PROVE  OwnLocks'
<1> DEFINE lock == Owner!PasswordUpdated(locks[r], pw)
           info == [owned[r] EXCEPT !.protected = Owner!IsProtected(lock),
                                    !.revision  = lock.revision]
<1>1. /\ locks' = [locks EXCEPT ![r] = lock] /\ owned' = [owned EXCEPT ![r] = info]
      /\ r \in DOMAIN owned
  BY DEF UpdateRoomPassword
<1>2. DOMAIN locks = DOMAIN owned /\ owned[r] \in RoomInfo
  BY <1>1, InvParts DEF TablesSound, IsTable
<1> HIDE DEF lock
<1>3. info.protected = Owner!IsProtected(lock)
  BY <1>2 DEF RoomInfo
<1> HIDE DEF info
<1> QED
  BY <1>1, <1>2, <1>3 DEF OwnLocks

\* Every step of the task keeps copy and lock together.
LEMMA NextKeepsOwnLocks == ASSUME Inv, OwnLocks, [Next]_vars PROVE OwnLocks'
<1>1. ASSUME owned' = owned /\ locks' = locks PROVE OwnLocks'
  BY <1>1 DEF OwnLocks
<1>2. ASSUME NEW r \in Room, NEW pw \in Password \cup {NoPassword},
             CreateRoom(r, pw) \/ UpdateRoomPassword(r, pw)
      PROVE  OwnLocks'
  BY <1>2, CreateRoomKeepsOwnLocks, UpdateRoomPasswordKeepsOwnLocks
<1>3. ASSUME NEW p, NEW r,
             GrantExpires(p, r) \/ WindowPasses(p, r) \/ \E pw : OnJoinRequest(p, r, pw)
      PROVE  OwnLocks'
  <2>1. PICK s :
          /\ r \in DOMAIN locks /\ locks' = [locks EXCEPT ![r] = s] /\ owned' = owned
          /\ \/ \E pw : s = Owner!JoinAuthorized(locks[r], Self, p, pw)
             \/ s = Owner!GrantExpired(locks[r], p)
             \/ s = Owner!WindowPassed(locks[r], p)
    BY <1>3 DEF GrantExpires, WindowPasses, OnJoinRequest
  <2>2. locks[r] \in Owner!RoomState
    BY <2>1, InvParts DEF TablesSound, AreLocks
  <2>3. \A pw : Owner!IsProtected(Owner!JoinAuthorized(locks[r], Self, p, pw))
                 = Owner!IsProtected(locks[r])
    BY <2>2, PasswordKept
  <2>4. /\ Owner!IsProtected(Owner!GrantExpired(locks[r], p)) = Owner!IsProtected(locks[r])
        /\ Owner!IsProtected(Owner!WindowPassed(locks[r], p)) = Owner!IsProtected(locks[r])
    BY <2>2, PasswordKept
  <2>5. Owner!IsProtected(s) = Owner!IsProtected(locks[r])
    BY <2>1, <2>3, <2>4, Zenon
  <2> QED
    BY <2>1, <2>5, SamePasswordKeepsOwnLocks
<1>4. CASE UNCHANGED vars
  BY <1>1, <1>4 DEF vars
<1>5. CASE LocalStep
  BY <1>1, <1>2, <1>5
  DEF LocalStep, EnterRoom, AuthorizeRoomEntry, OnJoinResponse, OnJoinFailure
<1>6. ASSUME NEW p \in Remote, FromPeer(p) PROVE OwnLocks'
  BY <1>1, <1>3, <1>6
  DEF FromPeer, OnPresence, OnGoodbye, OnSnapshot, OnRoomCreate, OnRoomClose
<1>7. ASSUME NEW p \in Remote, OnConnectionClosed(p) \/ TimerStep(p) PROVE OwnLocks'
  BY <1>1, <1>3, <1>7
  DEF OnConnectionClosed, TimerStep, LeaseAges, MembershipLeaseExpires, PresenceLeaseExpires
<1> QED
  BY <1>4, <1>5, <1>6, <1>7 DEF Next

\* A room none of whose members is new admits nobody.
LEMMA ShrinkingAdmits ==
  ASSUME Inv,
         \A r \in Room :
           MembersOf(membership'.remote, r) \subseteq MembersOf(membership.remote, r)
  PROVE  AdmitsGranted
<1>1. DOMAIN locks \subseteq Room
  BY InvParts DEF TablesSound, IsTable
<1> QED
  BY <1>1 DEF AdmitsGranted

\* A snapshot brings its sender into the locked rooms whose grant it holds, or is dropped.
LEMMA OnSnapshotAdmits ==
  ASSUME Inv, OwnLocks, NEW s \in RemoteSnapshot, OnSnapshot(s)
  PROVE  AdmitsGranted
<1>1. /\ DOMAIN locks = DOMAIN owned /\ DOMAIN owned \subseteq Room
      /\ RuntimeSound(membership) /\ s \in Snapshot /\ s.peer # Self
  BY InvParts, DirectoryAssumption DEF TablesSound, IsTable, BridgeSound, Snapshot, Remote
<1> SUFFICES ASSUME NEW r \in DOMAIN locks, Owner!IsProtected(locks[r]),
                    NEW p \in MembersOf(membership'.remote, r) \ MembersOf(membership.remote, r)
             PROVE  p \in locks[r].grants
  BY DEF AdmitsGranted
<1>2. membership' = RemoteApplied(membership, s)
  BY DEF OnSnapshot
<1>3. p = s.peer /\ r \in s.rooms
  BY <1>1, <1>2, AppliedMembers
<1>4. owned[r].protected
  BY <1>1 DEF OwnLocks
<1>5. Owner!IsAuthorized(locks[r], Self, s.peer)
  BY <1>1, <1>3, <1>4 DEF OnSnapshot
<1> QED
  BY <1>1, <1>3, <1>5 DEF Owner!IsAuthorized

\* A peer says Goodbye or its presence lease runs out: nobody enters.
LEMMA DepartedAdmits ==
  ASSUME Inv, NEW p \in Remote, Departed(p)
  PROVE  AdmitsGranted
<1> DEFINE gone == PeerDeparted(membership, p)
<1>1. RuntimeSound(membership) /\ p \in Peer
  BY InvParts DEF BridgeSound, Remote
<1>2. RuntimeSound(gone)
  BY <1>1, PeerDepartedSound
<1>3. membership' = RoomsClosed(gone, OwnedBy(p))
  BY DEF Departed
<1>4. \A r \in Room : MembersOf(gone.remote, r) \subseteq MembersOf(membership.remote, r)
  BY <1>1, DepartedMembers
<1> HIDE DEF gone
<1>5. \A r \in Room : MembersOf(membership'.remote, r) \subseteq MembersOf(gone.remote, r)
  BY <1>2, <1>3, ClosedMembers
<1> QED
  BY <1>4, <1>5, ShrinkingAdmits

\* A room closes, or a peer goes: nobody enters.
LEMMA ClosingAdmits ==
  ASSUME Inv, NEW p \in Remote, OnConnectionClosed(p) \/ \E r \in Room : OnRoomClose(r, p)
  PROVE  AdmitsGranted
<1>1. RuntimeSound(membership) /\ p \in Peer
  BY InvParts DEF BridgeSound, Remote
<1>2. membership' = PeerDeparted(membership, p) \/ \E R : membership' = RoomsClosed(membership, R)
  BY DEF OnConnectionClosed, OnRoomClose
<1> QED
  BY <1>1, <1>2, DepartedMembers, ClosedMembers, ShrinkingAdmits

\* Every step of the task.
LEMMA NextAdmits == ASSUME Inv, OwnLocks, Next PROVE AdmitsGranted
<1>1. ASSUME membership'.remote = membership.remote PROVE AdmitsGranted
  BY <1>1 DEF AdmitsGranted
<1>2. RuntimeSound(membership)
  BY InvParts DEF BridgeSound
<1>3. ASSUME NEW target \in {{}} \cup {{r} : r \in Room}, EnterRoom(target) PROVE AdmitsGranted
  BY <1>1, <1>2, <1>3, LocalReplacedSound DEF EnterRoom, CanEnter
<1>4. ASSUME NEW r \in Room, NEW pw \in Password \cup {NoPassword}, CreateRoom(r, pw)
      PROVE  AdmitsGranted
  <2> DEFINE added == Registered(membership, r)
  <2>1. membership' = LocalReplaced(added, {r})
    BY <1>4 DEF CreateRoom
  <2>2. RuntimeSound(added) /\ added.remote = membership.remote /\ {r} \in SUBSET added.known
    BY <1>2, RegisteredSound
  <2> HIDE DEF added
  <2> QED
    BY <1>1, <2>1, <2>2, LocalReplacedSound
<1>5. ASSUME membership' = membership PROVE AdmitsGranted
  BY <1>1, <1>5
<1>6. ASSUME NEW a \in Announcement, OnRoomCreate(a) PROVE AdmitsGranted
  <2>1. a.room \in Room
    BY DirectoryAssumption
  <2> QED
    BY <1>1, <1>2, <1>6, <2>1, RegisteredSound DEF OnRoomCreate
<1>7. CASE LocalStep
  BY <1>3, <1>4, <1>5, <1>7
  DEF LocalStep, UpdateRoomPassword, AuthorizeRoomEntry, OnJoinResponse, OnJoinFailure
<1>8. ASSUME NEW p \in Remote, FromPeer(p) PROVE AdmitsGranted
  BY <1>5, <1>6, <1>8, DepartedAdmits, OnSnapshotAdmits, ClosingAdmits
  DEF FromPeer, OnPresence, OnGoodbye, OnJoinRequest
<1>9. ASSUME NEW p \in Remote, TimerStep(p) PROVE AdmitsGranted
  BY <1>5, <1>9, DepartedAdmits, ClosingAdmits
  DEF TimerStep, LeaseAges, MembershipLeaseExpires, PresenceLeaseExpires, GrantExpires, WindowPasses
<1> QED
  BY <1>7, <1>8, <1>9, ClosingAdmits DEF Next

\* Nobody enters a locked room of the node without its grant, though the snapshot is tested
\* against the copy in owned_rooms: the copy and the lock agree in every reachable state.
THEOREM LockedRoomsAdmitGranted == Spec => LockedRoomAdmitsGranted
<1>1. Init => OwnLocks
  BY DEF Init, OwnLocks
<1>2. Inv /\ OwnLocks /\ [Next]_vars => OwnLocks'
  BY NextKeepsOwnLocks
<1>3. Inv /\ OwnLocks /\ [Next]_vars => [AdmitsGranted]_vars
  BY NextAdmits
<1>4. Spec => [](Inv /\ OwnLocks)
  BY <1>1, <1>2, InvHolds, PTL DEF Spec
<1>5. Spec => [][AdmitsGranted]_vars
  BY <1>3, <1>4, PTL DEF Spec
<1> QED
  BY <1>5, PTL DEF LockedRoomAdmitsGranted, AdmitsGranted
=============================================================================
