----------------------- MODULE RoomAuthorization_proofs -----------------------
(***************************************************************************)
(* What a node believes of a locked room is what the owner granted, and a  *)
(* node that sees the present lock can ask to enter, for any number of     *)
(* nodes, identities, passwords and messages on their way.                 *)
(*                                                                         *)
(* Nothing that travels says all that is needed: a response carries no     *)
(* revision, an announcement comes in any order.  The argument is that the *)
(* announcements of one owner are ordered by their revision                *)
(* (AnnouncedIsSound), that a client only goes forward in that order and   *)
(* remembers which announcement each request was made under (ClientIsSound)*)
(* and that a response is true of that one (ResponsesAreTrue).             *)
(***************************************************************************)
EXTENDS RoomAuthorization, TLAPS

\* A partial function on rooms, of which this specification has one
Partial(S) == [{} -> S] \cup [{TheRoom} -> S]

JoinSent == [id : JoinId, room : {TheRoom}, owner : Incarnation, revision : Nat \ {0}]

ClientType ==
  [observed : Partial(LockData), authorized : Partial(Nat \ {0}), pending : SUBSET JoinSent]

Observed(c) == client[c].observed[TheRoom]

\* The announcements of one owner grow in revision, and say one thing of each
AnnouncedIsSound ==
  /\ Announced(owner, lock) \in announced
  /\ \A a \in announced :
       /\ a.owner \in former \cup {owner}
       /\ a.owner = owner => a.revision <= lock.revision
       /\ a.owner = owner /\ a.revision = lock.revision => a = Announced(owner, lock)

\* A client has what was announced, is authorized at what it observed last, and has observed
\* nothing older than what the table shows
ClientIsSound(c) ==
  /\ TheRoom \in DOMAIN client[c].observed => Observed(c) \in announced
  /\ TheRoom \in DOMAIN client[c].authorized =>
       /\ TheRoom \in DOMAIN client[c].observed
       /\ client[c].authorized[TheRoom] = Observed(c).revision
  /\ \A j \in client[c].pending :
       [owner |-> j.owner, protected |-> TRUE, revision |-> j.revision] \in announced
  /\ table[c] # NoRoom =>
       /\ TheRoom \in DOMAIN client[c].observed
       /\ Observed(c).owner = table[c].owner => Observed(c).revision >= table[c].revision

\* A response that will be taken was a grant, if the revision is still the one of the request
ResponsesAreTrue ==
  \A c \in Joiner, x \in answered : \A j \in client[c].pending :
    x.peer = c /\ x.granted /\ x.id = j.id /\ j.owner = owner /\ j.revision = lock.revision
      => c \in lock.grants \cup lapsed

RequestsWereSent == \A q \in asked : <<q.peer, q.owner, q.password>> \in tried

Inv ==
  /\ GrantsAreEarned /\ AuthorizedMeansGranted
  /\ AnnouncedIsSound /\ ResponsesAreTrue /\ RequestsWereSent
  /\ client \in [Joiner -> ClientType] /\ \A c \in Joiner : ClientIsSound(c)

-----------------------------------------------------------------------------
(* What the operations of a client do to it.                               *)

\* A partial function with the room: an entry that is inserted.
LEMMA WithRoom ==
  ASSUME NEW S, NEW f \in Partial(S), NEW v \in S
  PROVE  /\ Client!With(f, TheRoom, v) \in Partial(S)
         /\ TheRoom \in DOMAIN Client!With(f, TheRoom, v)
         /\ Client!With(f, TheRoom, v)[TheRoom] = v
<1>1. DOMAIN f \subseteq {TheRoom} /\ \A x \in DOMAIN f : f[x] \in S
  BY DEF Partial
<1>2. Client!With(f, TheRoom, v) \in [{TheRoom} -> S]
  BY <1>1 DEF Client!With
<1> QED
  BY <1>1, <1>2 DEF Client!With, Partial

\* A partial function without the room: an entry that is removed.
LEMMA WithoutRoom ==
  ASSUME NEW S, NEW f \in Partial(S)
  PROVE  /\ Client!WithoutAll(f, {TheRoom}) \in Partial(S)
         /\ DOMAIN Client!WithoutAll(f, {TheRoom}) = {}
<1>1. DOMAIN f \ {TheRoom} = {}
  BY DEF Partial
<1> QED
  BY <1>1 DEF Client!WithoutAll, Partial

\* The maps of a client, and its pending joins.
LEMMA ClientFields ==
  ASSUME NEW k \in ClientType
  PROVE  /\ k.observed \in Partial(LockData) /\ k.authorized \in Partial(Nat \ {0})
         /\ k.pending \subseteq JoinSent
BY DEF ClientType

\* What is written when a join was granted.
LEMMA AuthorizedFields ==
  ASSUME NEW k \in ClientType, NEW j \in JoinSent, NEW n,
         n = [k EXCEPT !.authorized = Client!With(@, j.room, j.revision)]
  PROVE  /\ n \in ClientType /\ n.observed = k.observed /\ n.pending = k.pending
         /\ TheRoom \in DOMAIN n.authorized /\ n.authorized[TheRoom] = j.revision
<1>1. j.room = TheRoom /\ j.revision \in Nat \ {0}
  BY DEF JoinSent
<1>2. k.authorized \in Partial(Nat \ {0})
  BY ClientFields
<1>3. PICK w \in Partial(Nat \ {0}) :
        /\ TheRoom \in DOMAIN w /\ w[TheRoom] = j.revision
        /\ n = [k EXCEPT !.authorized = w]
  BY <1>1, <1>2, WithRoom
<1> QED
  BY <1>3 DEF ClientType

\* A join that failed or was answered is no longer awaited; nothing else is forgotten.
LEMMA CancelPendingFields ==
  ASSUME NEW k \in ClientType, NEW id
  PROVE  /\ Client!CancelPending(k, id) \in ClientType
         /\ Client!CancelPending(k, id).observed = k.observed
         /\ Client!CancelPending(k, id).authorized = k.authorized
         /\ Client!CancelPending(k, id).pending = {j \in k.pending : j.id # id}
BY DEF Client!CancelPending, ClientType

\* A join that is sent is awaited.
LEMMA TrackJoinFields ==
  ASSUME NEW k \in ClientType, NEW j \in JoinSent
  PROVE  /\ Client!TrackJoin(k, j) \in ClientType
         /\ Client!TrackJoin(k, j).observed = k.observed
         /\ Client!TrackJoin(k, j).authorized = k.authorized
         /\ Client!TrackJoin(k, j).pending = k.pending \cup {j}
BY DEF Client!TrackJoin, ClientType

\* A room that is forgotten is neither observed nor authorized, and no join for it is awaited.
LEMMA ForgetRoomsFields ==
  ASSUME NEW k \in ClientType
  PROVE  /\ Client!ForgetRooms(k, {TheRoom}) \in ClientType
         /\ DOMAIN Client!ForgetRooms(k, {TheRoom}).observed = {}
         /\ DOMAIN Client!ForgetRooms(k, {TheRoom}).authorized = {}
         /\ Client!ForgetRooms(k, {TheRoom}).pending = {}
<1> DEFINE n == Client!ForgetRooms(k, {TheRoom})
<1>1. /\ n.observed = Client!WithoutAll(k.observed, {TheRoom})
      /\ n.authorized = Client!WithoutAll(k.authorized, {TheRoom})
      /\ n.pending = {j \in k.pending : j.room \notin {TheRoom}}
      /\ n = [observed |-> n.observed, authorized |-> n.authorized, pending |-> n.pending]
  BY DEF Client!ForgetRooms
<1>2. /\ Client!WithoutAll(k.observed, {TheRoom}) \in [{} -> LockData]
      /\ Client!WithoutAll(k.authorized, {TheRoom}) \in [{} -> Nat \ {0}]
  <2>1. DOMAIN k.observed \ {TheRoom} = {} /\ DOMAIN k.authorized \ {TheRoom} = {}
    BY ClientFields DEF Partial
  <2> QED
    BY <2>1 DEF Client!WithoutAll
<1>3. n.pending = {}
  BY <1>1, ClientFields DEF JoinSent
<1> HIDE DEF n
<1>4. n \in ClientType /\ DOMAIN n.observed = {} /\ DOMAIN n.authorized = {}
  BY <1>1, <1>2, <1>3 DEF ClientType, Partial
<1> QED
  BY <1>3, <1>4 DEF n

\* What is observed is never older than before, and what was authorized stays so only at the
\* same revision.
LEMMA ObserveRoomFields ==
  ASSUME NEW k \in ClientType, NEW a \in LockData, NEW n, n = Client!ObserveRoom(k, TheRoom, a)
  PROVE  /\ n \in ClientType /\ n.pending = k.pending
         /\ TheRoom \in DOMAIN n.observed
         /\ \/ /\ n = k
               /\ k.observed[TheRoom].owner = a.owner => k.observed[TheRoom].revision >= a.revision
            \/ /\ n.observed[TheRoom] = a
               /\ TheRoom \in DOMAIN k.observed => k.observed[TheRoom].owner = a.owner
               /\ TheRoom \in DOMAIN n.authorized =>
                    /\ TheRoom \in DOMAIN k.authorized
                    /\ n.authorized[TheRoom] = k.authorized[TheRoom]
                    /\ TheRoom \in DOMAIN k.observed => k.observed[TheRoom].revision = a.revision
<1>1. CASE ~Client!CanObserve(k, TheRoom, a)
  <2>1. n = k
    BY <1>1 DEF Client!ObserveRoom
  <2>2. TheRoom \in DOMAIN k.observed /\ k.observed[TheRoom] \in LockData
    BY <1>1, ClientFields DEF Client!CanObserve, Partial
  <2>3. k.observed[TheRoom].owner = a.owner => k.observed[TheRoom].revision >= a.revision
    BY <1>1, <2>2 DEF Client!CanObserve, LockData
  <2> QED
    BY <2>1, <2>2, <2>3
<1>2. CASE Client!CanObserve(k, TheRoom, a)
  <2> SUFFICES ASSUME NEW au, NEW renewed \in BOOLEAN,
                      renewed <=> TheRoom \in DOMAIN k.observed
                                    /\ k.observed[TheRoom].revision # a.revision,
                      au = IF renewed \/ ~a.protected
                           THEN Client!WithoutAll(k.authorized, {TheRoom}) ELSE k.authorized,
                      n = [observed |-> Client!With(k.observed, TheRoom, a),
                           authorized |-> au, pending |-> k.pending]
               PROVE  /\ n \in ClientType /\ n.pending = k.pending
                      /\ TheRoom \in DOMAIN n.observed
                      /\ n.observed[TheRoom] = a
                      /\ TheRoom \in DOMAIN k.observed => k.observed[TheRoom].owner = a.owner
                      /\ TheRoom \in DOMAIN n.authorized =>
                           /\ TheRoom \in DOMAIN k.authorized
                           /\ n.authorized[TheRoom] = k.authorized[TheRoom]
                           /\ TheRoom \in DOMAIN k.observed =>
                                k.observed[TheRoom].revision = a.revision
    <3>1. PICK renewed \in BOOLEAN :
            renewed <=> TheRoom \in DOMAIN k.observed
                          /\ k.observed[TheRoom].revision # a.revision
      OBVIOUS
    <3>2. n = [observed |-> Client!With(k.observed, TheRoom, a),
               authorized |-> IF renewed \/ ~a.protected
                              THEN Client!WithoutAll(k.authorized, {TheRoom})
                              ELSE k.authorized,
               pending |-> k.pending]
      BY <1>2, <3>1 DEF Client!ObserveRoom, ClientType
    <3> QED
      BY <3>1, <3>2
  <2>1. /\ Client!With(k.observed, TheRoom, a) \in Partial(LockData)
        /\ TheRoom \in DOMAIN Client!With(k.observed, TheRoom, a)
        /\ Client!With(k.observed, TheRoom, a)[TheRoom] = a
    <3>1. k.observed \in Partial(LockData)
      BY ClientFields
    <3> QED
      BY <3>1, WithRoom
  <2>2. /\ au \in Partial(Nat \ {0})
        /\ TheRoom \in DOMAIN au => ~renewed /\ au = k.authorized
    <3>1. k.authorized \in Partial(Nat \ {0})
      BY ClientFields
    <3>2. /\ Client!WithoutAll(k.authorized, {TheRoom}) \in Partial(Nat \ {0})
          /\ TheRoom \notin DOMAIN Client!WithoutAll(k.authorized, {TheRoom})
      BY <3>1, WithoutRoom
    <3> QED
      BY <3>1, <3>2
  <2>3. /\ n.observed = Client!With(k.observed, TheRoom, a) /\ n.authorized = au
        /\ n.pending = k.pending /\ n \in ClientType
    BY <2>1, <2>2 DEF ClientType
  <2>4. TheRoom \in DOMAIN k.observed => k.observed[TheRoom].owner = a.owner
    BY <1>2 DEF Client!CanObserve
  <2> QED
    BY <2>1, <2>2, <2>3, <2>4
<1> QED
  BY <1>1, <1>2

\* A join is answered once, and the client is authorized at the revision the join was made under,
\* if that is still what it observes.
LEMMA JoinAnsweredFields ==
  ASSUME NEW k \in ClientType, NEW id, NEW granted \in BOOLEAN,
         NEW n, n = Client!JoinAnswered(k, id, granted)
  PROVE  /\ n \in ClientType /\ n.observed = k.observed
         /\ n.pending = {j \in k.pending : j.id # id}
         /\ \/ n.authorized = k.authorized
            \/ /\ granted /\ TheRoom \in DOMAIN n.authorized
               /\ \E j \in k.pending :
                    /\ j.id = id /\ Client!StillCurrent(k, j)
                    /\ n.authorized[TheRoom] = j.revision
<1> SUFFICES ASSUME NEW rest, rest = Client!CancelPending(k, id),
                    NEW taken, taken = {j \in k.pending : j.id = id /\ Client!StillCurrent(k, j)},
                    granted, taken # {}
             PROVE  /\ n \in ClientType /\ n.observed = k.observed
                    /\ n.pending = {j \in k.pending : j.id # id}
                    /\ TheRoom \in DOMAIN n.authorized
                    /\ \E j \in k.pending :
                         /\ j.id = id /\ Client!StillCurrent(k, j)
                         /\ n.authorized[TheRoom] = j.revision
  BY CancelPendingFields DEF Client!JoinAnswered
<1>1. PICK j \in taken : n = [rest EXCEPT !.authorized = Client!With(@, j.room, j.revision)]
  BY DEF Client!JoinAnswered
<1>2. j \in JoinSent
  BY ClientFields
<1>3. /\ rest \in ClientType /\ rest.observed = k.observed
      /\ rest.pending = {i \in k.pending : i.id # id}
  BY CancelPendingFields
<1>4. /\ n \in ClientType /\ n.observed = rest.observed /\ n.pending = rest.pending
      /\ TheRoom \in DOMAIN n.authorized /\ n.authorized[TheRoom] = j.revision
  BY <1>1, <1>2, <1>3, AuthorizedFields
<1> QED
  BY <1>3, <1>4

-----------------------------------------------------------------------------
(* What the operations of the owner do to the lock.                        *)

\* An update takes the next revision and every grant, unless it opens a room that is open.
LEMMA PasswordUpdatedFields ==
  ASSUME NEW s \in RoomState, NEW pw \in Password \cup {NoPassword},
         NEW n, n = PasswordUpdated(s, pw)
  PROVE  /\ n \in RoomState
         /\ \/ n = s /\ ~IsProtected(s)
            \/ n.revision = s.revision + 1 /\ n.grants = {} /\ n.password = pw
<1> SUFFICES ASSUME n = [revision |-> s.revision + 1, password |-> pw, grants |-> {},
                         attempts |-> s.attempts]
             PROVE  /\ n \in RoomState
                    /\ n.revision = s.revision + 1 /\ n.grants = {} /\ n.password = pw
  <2>1. CASE pw = NoPassword /\ ~IsProtected(s)
    BY <2>1 DEF PasswordUpdated
  <2>2. CASE ~(pw = NoPassword /\ ~IsProtected(s))
    <3>1. n = [s EXCEPT !.revision = @ + 1, !.password = pw, !.grants = {}]
      BY <2>2 DEF PasswordUpdated
    <3> QED
      BY <3>1 DEF RoomState
  <2> QED
    BY <2>1, <2>2
<1> QED
  BY DEF RoomState

\* A new room is at revision 1 and nobody was admitted.
LEMMA NewRoomFields ==
  ASSUME NEW pw \in Password \cup {NoPassword}
  PROVE  NewRoom(pw) \in RoomState /\ NewRoom(pw).grants = {} /\ NewRoom(pw).revision = 1
BY PasswordAssumption DEF NewRoom, RoomState

\* Only a Granted join changes the grants.
LEMMA JoinAuthorizedFields ==
  ASSUME NEW s \in RoomState, NEW o, NEW p \in Peer, NEW pw,
         NEW n, n = JoinAuthorized(s, o, p, pw)
  PROVE  /\ n \in RoomState /\ n.revision = s.revision /\ n.password = s.password
         /\ JoinVerdict(s, o, p, pw) = "Granted" => n.grants = s.grants \cup {p}
         /\ JoinVerdict(s, o, p, pw) # "Granted" => n.grants = s.grants
<1> SUFFICES ASSUME NEW v, v = JoinVerdict(s, o, p, pw)
             PROVE  /\ n \in RoomState /\ n.revision = s.revision /\ n.password = s.password
                    /\ n.grants = IF v = "Granted" THEN s.grants \cup {p} ELSE s.grants
  OBVIOUS
<1>1. v \in {"InvalidPassword", "Granted"} => s.attempts[p] + 1 \in 0 .. MaxAttempts
  <2>1. s.attempts[p] \in 0 .. MaxAttempts
    BY DEF RoomState
  <2>2. v \in {"InvalidPassword", "Granted"} => ~(s.attempts[p] >= MaxAttempts)
    BY DEF JoinVerdict
  <2> QED
    BY <2>1, <2>2, PasswordAssumption
<1> SUFFICES ASSUME NEW at, NEW g,
                    at = [s.attempts EXCEPT ![p] = IF v \in {"InvalidPassword", "Granted"}
                                                   THEN @ + 1 ELSE @],
                    g = IF v = "Granted" THEN s.grants \cup {p} ELSE s.grants,
                    n = [revision |-> s.revision, password |-> s.password,
                         grants |-> g, attempts |-> at]
             PROVE  /\ n \in RoomState /\ n.revision = s.revision /\ n.password = s.password
                    /\ n.grants = g
  BY DEF JoinAuthorized, RoomState
<1>2. at \in [Peer -> 0 .. MaxAttempts]
  BY <1>1 DEF RoomState
<1>3. g \subseteq Peer
  BY DEF RoomState
<1>4. n \in RoomState
  BY <1>2, <1>3 DEF RoomState
<1> QED
  BY <1>4

\* One grant expires.
LEMMA GrantExpiredFields ==
  ASSUME NEW s \in RoomState, NEW p, NEW n, n = GrantExpired(s, p)
  PROVE  /\ n \in RoomState /\ n.revision = s.revision /\ n.password = s.password
         /\ n.grants = s.grants \ {p}
BY DEF GrantExpired, RoomState

\* A new window of attempts admits and removes nobody.
LEMMA WindowPassedFields ==
  ASSUME NEW s \in RoomState, NEW p \in Peer, NEW n, n = WindowPassed(s, p)
  PROVE  /\ n \in RoomState /\ n.revision = s.revision /\ n.password = s.password
         /\ n.grants = s.grants
BY PasswordAssumption DEF WindowPassed, RoomState

-----------------------------------------------------------------------------
(* The steps.                                                              *)

\* The announcement of the present lock is all that the owner says at its revision.
LEMMA PresentAnnouncement ==
  ASSUME Inv, NEW a \in announced, a.owner = owner
  PROVE  /\ a.revision \in Nat /\ lock.revision \in Nat /\ a.revision <= lock.revision
         /\ a.revision = lock.revision => a.protected = IsProtected(lock)
BY DEF Inv, GrantsAreEarned, TypeOK, AnnouncedIsSound, Announced, LockData, RoomState

\* A client that takes itself for authorized has observed the room at that revision.
LEMMA AuthorizedIsObserved ==
  ASSUME Inv, NEW c \in Joiner, UpToDate(c), NEW rev, Client!JoinedAt(client[c], TheRoom, rev)
  PROVE  Observed(c) \in announced /\ Observed(c).owner = owner /\ Observed(c).revision = rev
BY DEF Inv, ClientIsSound, UpToDate, Client!JoinedAt, Observed

\* A step of the owner touches no client; what was announced stays announced.
LEMMA OwnerStepKeepsClients ==
  ASSUME Inv, UNCHANGED joinerVars, announced \subseteq announced'
  PROVE  client' \in [Joiner -> ClientType] /\ \A c \in Joiner : ClientIsSound(c)'
BY DEF Inv, ClientIsSound, Observed, joinerVars

\* As long as the lock keeps its revision and its password, who is admitted or was stays so.
LEMMA AdmittedStayAuthorized ==
  ASSUME Inv, UNCHANGED <<owner, joinerVars>>,
         lock'.revision = lock.revision, lock'.password = lock.password,
         lock.grants \cup lapsed \subseteq (lock.grants \cup lapsed)'
  PROVE  AuthorizedMeansGranted'
BY DEF Inv, AuthorizedMeansGranted, UpToDate, IsProtected, Client!JoinedAt, joinerVars

\* The announcement of a join that is awaited.
LEMMA PendingIsAnnounced ==
  ASSUME Inv, NEW c \in Joiner, NEW j \in client[c].pending, j.owner = owner
  PROVE  /\ j.revision \in Nat /\ lock.revision \in Nat /\ j.revision <= lock.revision
         /\ j.revision = lock.revision => IsProtected(lock)
<1> DEFINE a == [owner |-> j.owner, protected |-> TRUE, revision |-> j.revision]
<1>1. a \in announced /\ a.owner = owner
  BY DEF Inv, ClientIsSound
<1>2. /\ a.revision \in Nat /\ lock.revision \in Nat /\ a.revision <= lock.revision
      /\ a.revision = lock.revision => a.protected = IsProtected(lock)
  BY <1>1, PresentAnnouncement
<1> QED
  BY <1>2

\* Everything announced, observed or awaited of the owner is older than the new revision.
LEMMA UpdatePasswordStep ==
  ASSUME Inv, NEW pw \in Password \cup {NoPassword}, UpdatePassword(pw)
  PROVE  Inv'
<1> USE DEF UpdatePassword
<1>1. lock \in RoomState /\ lock.revision \in Nat
  BY DEF Inv, GrantsAreEarned, TypeOK, RoomState
<1>2. /\ lock' \in RoomState
      /\ \/ lock' = lock /\ ~IsProtected(lock)
         \/ lock'.revision = lock.revision + 1 /\ lock'.grants = {}
  BY <1>1, PasswordUpdatedFields
<1>3. Announced(owner, lock') \in LockData
  BY <1>2 DEF Inv, GrantsAreEarned, TypeOK, Announced, LockData, RoomState, IsProtected
<1>4. TypeOK'
  BY <1>2, <1>3 DEF Inv, GrantsAreEarned, TypeOK, joinerVars
<1>5. GrantedKnewPassword'
  BY <1>2 DEF Inv, GrantsAreEarned, GrantedKnewPassword, joinerVars
<1>6. AuthorizedMeansGranted'
  <2> SUFFICES ASSUME NEW c \in Joiner, UpToDate(c)', IsProtected(lock)',
                      Client!JoinedAt(client[c], TheRoom, lock.revision)'
               PROVE  FALSE
    BY DEF AuthorizedMeansGranted
  <2>1. UpToDate(c) /\ Client!JoinedAt(client[c], TheRoom, lock'.revision)
    BY DEF UpToDate, Client!JoinedAt, joinerVars
  <2>2. /\ Observed(c) \in announced /\ Observed(c).owner = owner
        /\ Observed(c).revision = lock'.revision
    BY <2>1, AuthorizedIsObserved
  <2>3. lock'.revision <= lock.revision
    BY <2>2, PresentAnnouncement
  <2> QED
    BY <1>1, <1>2, <2>3 DEF IsProtected
<1>7. AnnouncedIsSound'
  <2>1. Announced(owner, lock') \in announced'
    OBVIOUS
  <2>2. ASSUME NEW a \in announced'
        PROVE  /\ a.owner \in former \cup {owner}
               /\ a.owner = owner => a.revision <= lock'.revision
               /\ a.owner = owner /\ a.revision = lock'.revision => a = Announced(owner, lock')
    <3>1. CASE a = Announced(owner, lock')
      BY <1>2, <3>1 DEF Announced, RoomState
    <3>2. CASE a \in announced /\ a.owner = owner
      <4>1. a.revision \in Nat /\ a.revision <= lock.revision
        BY <3>2, PresentAnnouncement
      <4> QED
        BY <1>1, <1>2, <3>2, <4>1 DEF Inv, AnnouncedIsSound
    <3>3. CASE a \in announced /\ a.owner # owner
      BY <3>3 DEF Inv, AnnouncedIsSound
    <3> QED
      BY <3>1, <3>2, <3>3
  <2> QED
    BY <2>1, <2>2 DEF AnnouncedIsSound
<1>8. ResponsesAreTrue'
  <2> SUFFICES ASSUME NEW c \in Joiner, NEW j \in client[c].pending,
                      j.owner = owner, j.revision = lock'.revision
               PROVE  FALSE
    BY DEF ResponsesAreTrue, joinerVars
  <2> QED
    BY <1>1, <1>2, PendingIsAnnounced
<1>9. RequestsWereSent'
  BY DEF Inv, RequestsWereSent, joinerVars
<1>10. client' \in [Joiner -> ClientType] /\ \A c \in Joiner : ClientIsSound(c)'
  BY OwnerStepKeepsClients
<1> QED
  BY <1>4, <1>5, <1>6, <1>7, <1>8, <1>9, <1>10 DEF Inv, GrantsAreEarned

\* Nothing of a new identity is announced, observed or awaited yet.
LEMMA RestartStep ==
  ASSUME Inv, NEW o \in Incarnation, NEW pw \in Password \cup {NoPassword}, Restart(o, pw)
  PROVE  Inv'
<1> USE DEF Restart
<1>1. lock' \in RoomState /\ lock'.grants = {}
  BY NewRoomFields
<1>2. \A a \in announced : a.owner \in former \cup {owner}
  BY DEF Inv, AnnouncedIsSound
<1>3. Announced(o, lock') \in LockData
  BY <1>1 DEF Announced, LockData, RoomState, IsProtected
<1>4. TypeOK'
  BY <1>1, <1>3 DEF Inv, GrantsAreEarned, TypeOK, joinerVars
<1>5. GrantedKnewPassword'
  BY <1>1 DEF GrantedKnewPassword
<1>6. AuthorizedMeansGranted'
  <2> SUFFICES ASSUME NEW c \in Joiner, UpToDate(c)',
                      Client!JoinedAt(client[c], TheRoom, lock.revision)'
               PROVE  FALSE
    BY DEF AuthorizedMeansGranted
  <2>1. TheRoom \in DOMAIN client[c].observed
    BY DEF Inv, ClientIsSound, Client!JoinedAt, joinerVars
  <2>2. Observed(c) \in announced /\ Observed(c).owner = o
    BY <2>1 DEF Inv, ClientIsSound, UpToDate, Observed, joinerVars
  <2> QED
    BY <1>2, <2>2
<1>7. AnnouncedIsSound'
  <2>1. \A a \in announced' : a = Announced(o, lock') \/ a.owner \in former \cup {owner}
    BY <1>2
  <2>2. Announced(o, lock').revision \in Nat
    BY <1>1 DEF Announced, RoomState
  <2>3. Announced(o, lock').owner = o /\ Announced(o, lock').revision = lock'.revision
    BY DEF Announced
  <2> QED
    BY <2>1, <2>2, <2>3 DEF AnnouncedIsSound
<1>8. ResponsesAreTrue'
  <2> SUFFICES ASSUME NEW c \in Joiner, NEW j \in client[c].pending, j.owner = o
               PROVE  FALSE
    BY DEF ResponsesAreTrue, joinerVars
  <2>1. [owner |-> j.owner, protected |-> TRUE, revision |-> j.revision] \in announced
    BY DEF Inv, ClientIsSound
  <2> QED
    BY <1>2, <2>1
<1>9. RequestsWereSent'
  BY DEF Inv, RequestsWereSent, joinerVars
<1>10. client' \in [Joiner -> ClientType] /\ \A c \in Joiner : ClientIsSound(c)'
  BY OwnerStepKeepsClients
<1> QED
  BY <1>4, <1>5, <1>6, <1>7, <1>8, <1>9, <1>10 DEF Inv, GrantsAreEarned

\* A request that was made under the present lock finds the room locked: it is granted only
\* with the password.
LEMMA OnJoinRequestStep ==
  ASSUME Inv, NEW q \in asked, OnJoinRequest(q)
  PROVE  Inv'
<1> SUFFICES ASSUME NEW v, v = JoinVerdict(lock, owner, q.peer, q.password),
                    q.owner = owner,
                    asked' = asked \ {q},
                    lock' = JoinAuthorized(lock, owner, q.peer, q.password),
                    NEW x, x = [peer |-> q.peer, id |-> q.id, granted |-> Grants(v)],
                    answered' = answered \cup {x},
                    lapsed' = IF v = "Granted" THEN lapsed \ {q.peer} ELSE lapsed,
                    UNCHANGED <<owner, former, announced, joinerVars>>
             PROVE  Inv'
  BY DEF OnJoinRequest
<1>1. /\ q.peer \in Joiner /\ q.peer \in Peer /\ q.peer # owner /\ q.id \in JoinId
      /\ lock \in RoomState
  BY DEF Inv, GrantsAreEarned, TypeOK, Joiner
<1>2. /\ lock' \in RoomState /\ lock'.revision = lock.revision /\ lock'.password = lock.password
      /\ lock'.grants = IF v = "Granted" THEN lock.grants \cup {q.peer} ELSE lock.grants
      /\ v = "Granted" => q.password = lock.password
      /\ Grants(v) /\ IsProtected(lock) => v = "Granted"
  <2>1. PICK p \in Peer : p = q.peer
    BY <1>1
  <2>2. PICK n : n = JoinAuthorized(lock, owner, p, q.password)
    OBVIOUS
  <2>3. /\ n \in RoomState /\ n.revision = lock.revision /\ n.password = lock.password
        /\ v = "Granted" => n.grants = lock.grants \cup {p}
        /\ v # "Granted" => n.grants = lock.grants
    BY <1>1, <2>1, <2>2, JoinAuthorizedFields
  <2>4. /\ v = "Granted" => q.password = lock.password
        /\ Grants(v) /\ IsProtected(lock) => v = "Granted"
    BY <1>1 DEF JoinVerdict, Grants
  <2> QED
    BY <2>1, <2>2, <2>3, <2>4
<1>3. lock.grants \cup lapsed \subseteq (lock.grants \cup lapsed)'
  BY <1>2
<1>4. TypeOK'
  <2>1. x \in [peer : Joiner, id : JoinId, granted : BOOLEAN]
    BY <1>1 DEF Grants
  <2> QED
    BY <1>2, <2>1 DEF Inv, GrantsAreEarned, TypeOK, joinerVars
<1>5. GrantedKnewPassword'
  <2>1. v = "Granted" => <<q.peer, owner, lock.password>> \in tried
    BY <1>2 DEF Inv, RequestsWereSent
  <2> QED
    BY <1>2, <2>1 DEF Inv, GrantsAreEarned, GrantedKnewPassword, joinerVars
<1>6. AuthorizedMeansGranted'
  BY <1>2, <1>3, AdmittedStayAuthorized
<1>7. AnnouncedIsSound'
  BY <1>2 DEF Inv, AnnouncedIsSound, Announced, IsProtected
<1>8. ResponsesAreTrue'
  <2> SUFFICES ASSUME NEW c \in Joiner, NEW y \in answered \cup {x},
                      NEW j \in client[c].pending,
                      y.peer = c, y.granted, y.id = j.id, j.owner = owner,
                      j.revision = lock.revision
               PROVE  c \in (lock.grants \cup lapsed)'
    BY <1>2 DEF ResponsesAreTrue, joinerVars
  <2>1. CASE y = x
    BY <1>2, <2>1, PendingIsAnnounced
  <2>2. CASE y \in answered
    BY <1>3, <2>2 DEF Inv, ResponsesAreTrue
  <2> QED
    BY <2>1, <2>2
<1>9. RequestsWereSent'
  BY DEF Inv, RequestsWereSent, joinerVars
<1>10. client' \in [Joiner -> ClientType] /\ \A c \in Joiner : ClientIsSound(c)'
  BY OwnerStepKeepsClients
<1> QED
  BY <1>4, <1>5, <1>6, <1>7, <1>8, <1>9, <1>10 DEF Inv, GrantsAreEarned

\* What both the expiry of a grant and the end of an attempt window leave of the lock.
LEMMA AgingStep ==
  ASSUME Inv, lock' \in RoomState, lapsed' \subseteq Joiner,
         lock'.revision = lock.revision, lock'.password = lock.password,
         lock'.grants \subseteq lock.grants,
         lock.grants \cup lapsed \subseteq (lock.grants \cup lapsed)',
         UNCHANGED <<owner, former, announced, asked, answered, joinerVars>>
  PROVE  Inv'
<1>1. TypeOK'
  BY DEF Inv, GrantsAreEarned, TypeOK, joinerVars
<1>2. GrantedKnewPassword'
  BY DEF Inv, GrantsAreEarned, GrantedKnewPassword, joinerVars
<1>3. AuthorizedMeansGranted'
  BY AdmittedStayAuthorized
<1>4. AnnouncedIsSound'
  BY DEF Inv, AnnouncedIsSound, Announced, IsProtected
<1>5. ResponsesAreTrue'
  BY DEF Inv, ResponsesAreTrue, joinerVars
<1>6. RequestsWereSent'
  BY DEF Inv, RequestsWereSent, joinerVars
<1>7. client' \in [Joiner -> ClientType] /\ \A c \in Joiner : ClientIsSound(c)'
  BY OwnerStepKeepsClients
<1> QED
  BY <1>1, <1>2, <1>3, <1>4, <1>5, <1>6, <1>7 DEF Inv, GrantsAreEarned

\* A grant that expires is remembered as lapsed.
LEMMA GrantExpiresStep ==
  ASSUME Inv, NEW c \in Joiner, GrantExpires(c)
  PROVE  Inv'
<1>1. lock \in RoomState /\ lapsed \subseteq Joiner
  BY DEF Inv, GrantsAreEarned, TypeOK
<1>2. /\ lock' \in RoomState /\ lock'.revision = lock.revision
      /\ lock'.password = lock.password /\ lock'.grants = lock.grants \ {c}
  BY <1>1, GrantExpiredFields DEF GrantExpires
<1> QED
  BY <1>1, <1>2, AgingStep DEF GrantExpires

\* The end of a window of attempts changes no grant.
LEMMA WindowPassesStep ==
  ASSUME Inv, NEW c \in Joiner, WindowPasses(c)
  PROVE  Inv'
<1>1. lock \in RoomState /\ lapsed \subseteq Joiner /\ c \in Peer
  BY DEF Inv, GrantsAreEarned, TypeOK, Joiner
<1>2. /\ lock' \in RoomState /\ lock'.revision = lock.revision
      /\ lock'.password = lock.password /\ lock'.grants = lock.grants
  BY <1>1, WindowPassedFields DEF WindowPasses
<1> QED
  BY <1>1, <1>2, AgingStep DEF WindowPasses

\* A step of one joining node leaves the owner, and the others, as they were.
LEMMA JoinerStepFrame ==
  ASSUME Inv, NEW c \in Joiner, NEW k \in ClientType, UNCHANGED ownerVars,
         client' = [client EXCEPT ![c] = k],
         \A d \in Joiner \ {c} : table'[d] = table[d],
         tried \subseteq tried',
         ClientIsSound(c)',
         UpToDate(c)' /\ IsProtected(lock)
           /\ Client!JoinedAt(client'[c], TheRoom, lock.revision) => c \in lock.grants \cup lapsed
  PROVE  /\ client' \in [Joiner -> ClientType] /\ client'[c] = k
         /\ \A d \in Joiner : ClientIsSound(d)'
         /\ AuthorizedMeansGranted' /\ AnnouncedIsSound' /\ GrantedKnewPassword'
<1>1. /\ client' \in [Joiner -> ClientType] /\ client'[c] = k
      /\ \A d \in Joiner \ {c} : client'[d] = client[d]
  BY DEF Inv
<1>2. \A d \in Joiner \ {c} : ClientIsSound(d)'
  BY <1>1 DEF Inv, ClientIsSound, Observed, ownerVars
<1>3. AuthorizedMeansGranted'
  <2> SUFFICES ASSUME NEW d \in Joiner, UpToDate(d)', IsProtected(lock),
                      Client!JoinedAt(client'[d], TheRoom, lock.revision)
               PROVE  d \in lock.grants \cup lapsed
    BY DEF AuthorizedMeansGranted, IsProtected, Client!JoinedAt, ownerVars
  <2>1. CASE d # c
    <3>1. UpToDate(d) /\ Client!JoinedAt(client[d], TheRoom, lock.revision)
      BY <1>1, <2>1 DEF UpToDate, Client!JoinedAt, ownerVars
    <3> QED
      BY <3>1 DEF Inv, AuthorizedMeansGranted
  <2> QED
    BY <2>1
<1>4. AnnouncedIsSound' /\ GrantedKnewPassword'
  BY DEF Inv, GrantsAreEarned, AnnouncedIsSound, GrantedKnewPassword, ownerVars, Announced,
         IsProtected
<1> QED
  BY <1>1, <1>2, <1>3, <1>4

\* The client takes what is newer of the owner it knows; the authorization survives only at the
\* same revision.
LEMMA OnRoomCreateStep ==
  ASSUME Inv, NEW c \in Joiner, NEW a \in announced, OnRoomCreate(c, a)
  PROVE  Inv'
<1> SUFFICES ASSUME NEW k, k = client[c], NEW n, n = Client!ObserveRoom(k, TheRoom, a),
                    client' = [client EXCEPT ![c] = n],
                    table' = [table EXCEPT ![c] = a],
                    UNCHANGED <<asked, answered, tried, ownerVars>>
             PROVE  Inv'
  BY DEF OnRoomCreate
<1>1. k \in ClientType /\ a \in LockData /\ ClientIsSound(c) /\ client \in [Joiner -> ClientType]
  BY DEF Inv, GrantsAreEarned, TypeOK
<1>2. /\ n \in ClientType /\ n.pending = k.pending
      /\ TheRoom \in DOMAIN n.observed
      /\ \/ /\ n = k
            /\ k.observed[TheRoom].owner = a.owner => k.observed[TheRoom].revision >= a.revision
         \/ /\ n.observed[TheRoom] = a
            /\ TheRoom \in DOMAIN k.observed => k.observed[TheRoom].owner = a.owner
            /\ TheRoom \in DOMAIN n.authorized =>
                 /\ TheRoom \in DOMAIN k.authorized
                 /\ n.authorized[TheRoom] = k.authorized[TheRoom]
                 /\ TheRoom \in DOMAIN k.observed => k.observed[TheRoom].revision = a.revision
  BY <1>1, ObserveRoomFields
<1>3. client'[c] = n /\ table'[c] = a /\ announced' = announced
  BY <1>1 DEF Inv, GrantsAreEarned, TypeOK, ownerVars
<1>4. ClientIsSound(c)'
  <2>1. n.observed[TheRoom] \in announced
    BY <1>1, <1>2 DEF ClientIsSound, Observed
  <2>2. TheRoom \in DOMAIN n.authorized => n.authorized[TheRoom] = n.observed[TheRoom].revision
    BY <1>1, <1>2 DEF ClientIsSound, Observed
  <2>3. n.observed[TheRoom].owner = a.owner => n.observed[TheRoom].revision >= a.revision
    BY <1>1, <1>2 DEF LockData
  <2>4. \A j \in n.pending :
          [owner |-> j.owner, protected |-> TRUE, revision |-> j.revision] \in announced
    BY <1>1, <1>2 DEF ClientIsSound
  <2> QED
    BY <1>2, <1>3, <2>1, <2>2, <2>3, <2>4 DEF ClientIsSound, Observed
<1>5. ASSUME UpToDate(c)', IsProtected(lock),
             Client!JoinedAt(client'[c], TheRoom, lock.revision)
      PROVE  c \in lock.grants \cup lapsed
  <2>1. UpToDate(c) /\ Client!JoinedAt(k, TheRoom, lock.revision)
    BY <1>1, <1>2, <1>3, <1>5 DEF ClientIsSound, UpToDate, Client!JoinedAt, ownerVars
  <2> QED
    BY <1>5, <2>1 DEF Inv, AuthorizedMeansGranted
<1>6. \A d \in Joiner \ {c} : table'[d] = table[d]
  BY DEF Inv, GrantsAreEarned, TypeOK
<1>7. /\ client' \in [Joiner -> ClientType]
      /\ \A d \in Joiner : ClientIsSound(d)'
      /\ AuthorizedMeansGranted' /\ AnnouncedIsSound' /\ GrantedKnewPassword'
  BY <1>2, <1>4, <1>5, <1>6, JoinerStepFrame
<1>8. TypeOK'
  BY <1>1 DEF Inv, GrantsAreEarned, TypeOK, ownerVars
<1>9. \A d \in Joiner : client'[d].pending = client[d].pending
  BY <1>1, <1>2
<1>10. ResponsesAreTrue'
  BY <1>9 DEF Inv, ResponsesAreTrue, ownerVars
<1>11. RequestsWereSent'
  BY DEF Inv, RequestsWereSent
<1> QED
  BY <1>7, <1>8, <1>10, <1>11 DEF Inv, GrantsAreEarned

\* A request is made under what the client observed, with an id that nothing answers yet.
LEMMA AuthorizeRoomEntryStep ==
  ASSUME Inv, NEW c \in Joiner, NEW id \in JoinId, NEW pw \in Password,
         AuthorizeRoomEntry(c, id, pw)
  PROVE  Inv'
<1> SUFFICES ASSUME NEW k, k = client[c], NEW j, j = Join(c, id),
                    table[c] # NoRoom, Client!StillCurrent(k, j),
                    \A x \in answered : x.id # id,
                    NEW n, n = Client!TrackJoin(k, j),
                    client' = [client EXCEPT ![c] = n],
                    NEW q, q = [peer |-> c, id |-> id, owner |-> table[c].owner, password |-> pw],
                    asked' = asked \cup {q},
                    tried' = tried \cup {<<c, table[c].owner, pw>>},
                    UNCHANGED <<table, answered, ownerVars>>
             PROVE  Inv'
  BY DEF AuthorizeRoomEntry
<1>1. k \in ClientType /\ ClientIsSound(c) /\ client \in [Joiner -> ClientType]
  BY DEF Inv
<1>2. /\ j \in JoinSent /\ table[c].owner \in Incarnation
      /\ j.owner = table[c].owner /\ j.id = id /\ j.room = TheRoom
  BY DEF Inv, GrantsAreEarned, TypeOK, LockData, Join, JoinSent
<1>3. /\ n \in ClientType /\ n.observed = k.observed /\ n.authorized = k.authorized
      /\ n.pending = k.pending \cup {j}
  BY <1>1, <1>2, TrackJoinFields
<1>4. client'[c] = n /\ announced' = announced
  BY <1>1 DEF ownerVars
<1>5. ClientIsSound(c)'
  <2>1. [owner |-> j.owner, protected |-> TRUE, revision |-> j.revision] \in announced
    BY <1>1, <1>2 DEF ClientIsSound, Observed, Client!StillCurrent
  <2> QED
    BY <1>1, <1>3, <1>4, <2>1 DEF ClientIsSound, Observed
<1>6. ASSUME UpToDate(c)', IsProtected(lock),
             Client!JoinedAt(client'[c], TheRoom, lock.revision)
      PROVE  c \in lock.grants \cup lapsed
  <2>1. UpToDate(c) /\ Client!JoinedAt(k, TheRoom, lock.revision)
    BY <1>3, <1>4, <1>6 DEF UpToDate, Client!JoinedAt, ownerVars
  <2> QED
    BY <1>6, <2>1 DEF Inv, AuthorizedMeansGranted
<1>7. /\ client' \in [Joiner -> ClientType]
      /\ \A d \in Joiner : ClientIsSound(d)'
      /\ AuthorizedMeansGranted' /\ AnnouncedIsSound' /\ GrantedKnewPassword'
  BY <1>3, <1>5, <1>6, JoinerStepFrame
<1>8. TypeOK'
  BY <1>2 DEF Inv, GrantsAreEarned, TypeOK, ownerVars
<1>9. ResponsesAreTrue'
  <2>1. \A d \in Joiner : client'[d].pending \subseteq client[d].pending \cup {j}
    BY <1>1, <1>3
  <2> QED
    BY <1>2, <2>1 DEF Inv, ResponsesAreTrue, ownerVars
<1>10. RequestsWereSent'
  <2>1. <<q.peer, q.owner, q.password>> = <<c, table[c].owner, pw>>
    OBVIOUS
  <2>2. \A r \in asked : <<r.peer, r.owner, r.password>> \in tried
    BY DEF Inv, RequestsWereSent
  <2> QED
    BY <2>1, <2>2 DEF RequestsWereSent
<1> QED
  BY <1>7, <1>8, <1>9, <1>10 DEF Inv, GrantsAreEarned

\* Less is awaited, asked and answered than before.
LEMMA FewerMessages ==
  ASSUME Inv, UNCHANGED <<tried, ownerVars>>, table' \in [Joiner -> LockData \cup {NoRoom}],
         asked' \subseteq asked, answered' \subseteq answered,
         \A d \in Joiner : client'[d].pending \subseteq client[d].pending
  PROVE  TypeOK' /\ ResponsesAreTrue' /\ RequestsWereSent'
<1>1. TypeOK'
  BY DEF Inv, GrantsAreEarned, TypeOK, ownerVars
<1>2. ResponsesAreTrue'
  BY DEF Inv, ResponsesAreTrue, ownerVars
<1>3. RequestsWereSent'
  BY DEF Inv, RequestsWereSent
<1> QED
  BY <1>1, <1>2, <1>3

\* A client whose observation stays, and that awaits no more, stays sound if its table does.
LEMMA SameObservation ==
  ASSUME Inv, NEW c \in Joiner, NEW n \in ClientType, client'[c] = n,
         n.observed = client[c].observed, n.pending \subseteq client[c].pending,
         TheRoom \in DOMAIN n.authorized =>
           /\ TheRoom \in DOMAIN n.observed
           /\ n.authorized[TheRoom] = n.observed[TheRoom].revision,
         table'[c] \in {table[c], NoRoom}, announced' = announced
  PROVE  ClientIsSound(c)'
BY DEF Inv, ClientIsSound, Observed

\* A response counts for the announcement its request was made under, if that is observed still.
LEMMA OnJoinResponseStep ==
  ASSUME Inv, NEW c \in Joiner, NEW x \in answered, OnJoinResponse(c, x)
  PROVE  Inv'
<1> SUFFICES ASSUME NEW k, k = client[c],
                    NEW n, n = Client!JoinAnswered(k, x.id, x.granted),
                    x.peer = c,
                    client' = [client EXCEPT ![c] = n],
                    answered' = answered \ {x},
                    UNCHANGED <<table, asked, tried, ownerVars>>
             PROVE  Inv'
  BY DEF OnJoinResponse
<1>1. /\ k \in ClientType /\ ClientIsSound(c) /\ client \in [Joiner -> ClientType]
      /\ x.granted \in BOOLEAN
  BY DEF Inv, GrantsAreEarned, TypeOK
<1>2. /\ n \in ClientType /\ n.observed = k.observed
      /\ n.pending = {j \in k.pending : j.id # x.id}
      /\ \/ n.authorized = k.authorized
         \/ /\ x.granted /\ TheRoom \in DOMAIN n.authorized
            /\ \E j \in k.pending :
                 /\ j.id = x.id /\ Client!StillCurrent(k, j)
                 /\ n.authorized[TheRoom] = j.revision
  BY <1>1, JoinAnsweredFields
<1>3. client'[c] = n /\ announced' = announced
  BY <1>1 DEF ownerVars
<1>4. ASSUME n.authorized = k.authorized
      PROVE  /\ ClientIsSound(c)'
             /\ UpToDate(c)' /\ IsProtected(lock)
                  /\ Client!JoinedAt(client'[c], TheRoom, lock.revision)
                  => c \in lock.grants \cup lapsed
  <2>1. ClientIsSound(c)'
    BY <1>1, <1>2, <1>3, <1>4, SameObservation DEF ClientIsSound, Observed
  <2>2. ASSUME UpToDate(c)', IsProtected(lock),
               Client!JoinedAt(client'[c], TheRoom, lock.revision)
        PROVE  c \in lock.grants \cup lapsed
    <3>1. UpToDate(c) /\ Client!JoinedAt(k, TheRoom, lock.revision)
      BY <1>2, <1>3, <1>4, <2>2 DEF UpToDate, Client!JoinedAt, ownerVars
    <3> QED
      BY <2>2, <3>1 DEF Inv, AuthorizedMeansGranted
  <2> QED
    BY <2>1, <2>2
<1>5. ASSUME n.authorized # k.authorized
      PROVE  /\ ClientIsSound(c)'
             /\ UpToDate(c)' /\ IsProtected(lock)
                  /\ Client!JoinedAt(client'[c], TheRoom, lock.revision)
                  => c \in lock.grants \cup lapsed
  <2>1. PICK j \in k.pending :
          /\ x.granted /\ TheRoom \in DOMAIN n.authorized
          /\ j.id = x.id /\ Client!StillCurrent(k, j) /\ n.authorized[TheRoom] = j.revision
    BY <1>2, <1>5
  <2>2. /\ TheRoom \in DOMAIN k.observed
        /\ k.observed[TheRoom] = [owner |-> j.owner, protected |-> TRUE, revision |-> j.revision]
    BY <1>1, <2>1 DEF ClientType, JoinSent, Client!StillCurrent
  <2>3. ClientIsSound(c)'
    <3>1. n.authorized[TheRoom] = n.observed[TheRoom].revision
      <4>1. n.observed[TheRoom].revision = j.revision
        BY <1>2, <2>2
      <4> QED
        BY <2>1, <4>1
    <3>2. table'[c] \in {table[c], NoRoom} /\ n.pending \subseteq client[c].pending
      BY <1>2
    <3> QED
      BY <1>2, <1>3, <2>2, <3>1, <3>2, SameObservation
  <2>4. ASSUME UpToDate(c)', IsProtected(lock),
               Client!JoinedAt(client'[c], TheRoom, lock.revision)
        PROVE  c \in lock.grants \cup lapsed
    <3>1. client'[c].observed = k.observed /\ owner' = owner
      BY <1>2, <1>3 DEF ownerVars
    <3>2. k.observed[TheRoom].owner = owner /\ n.authorized[TheRoom] = lock.revision
      BY <1>3, <2>2, <2>4, <3>1 DEF UpToDate, Client!JoinedAt
    <3>3. j.owner = owner /\ j.revision = lock.revision
      BY <2>1, <2>2, <3>2
    <3> QED
      BY <2>1, <3>3 DEF Inv, ResponsesAreTrue
  <2> QED
    BY <2>3, <2>4
<1>6. ClientIsSound(c)'
  BY <1>4, <1>5
<1>7. UpToDate(c)' /\ IsProtected(lock)
        /\ Client!JoinedAt(client'[c], TheRoom, lock.revision) => c \in lock.grants \cup lapsed
  BY <1>4, <1>5
<1>8. /\ client' \in [Joiner -> ClientType]
      /\ \A d \in Joiner : ClientIsSound(d)'
      /\ AuthorizedMeansGranted' /\ AnnouncedIsSound' /\ GrantedKnewPassword'
  BY <1>2, <1>6, <1>7, JoinerStepFrame
<1>9. TypeOK' /\ ResponsesAreTrue' /\ RequestsWereSent'
  <2>1. table' \in [Joiner -> LockData \cup {NoRoom}]
    BY DEF Inv, GrantsAreEarned, TypeOK
  <2>2. \A d \in Joiner : client'[d].pending \subseteq client[d].pending
    BY <1>1, <1>2
  <2> QED
    BY <2>1, <2>2, FewerMessages
<1> QED
  BY <1>8, <1>9 DEF Inv, GrantsAreEarned

\* A failed request is forgotten.
LEMMA OnJoinFailureStep ==
  ASSUME Inv, NEW c \in Joiner, NEW id \in JoinId, OnJoinFailure(c, id)
  PROVE  Inv'
<1> SUFFICES ASSUME NEW k, k = client[c], NEW n, n = Client!CancelPending(k, id),
                    client' = [client EXCEPT ![c] = n],
                    answered' \subseteq answered, asked' \subseteq asked,
                    UNCHANGED <<table, tried, ownerVars>>
             PROVE  Inv'
  BY DEF OnJoinFailure
<1>1. k \in ClientType /\ ClientIsSound(c) /\ client \in [Joiner -> ClientType]
  BY DEF Inv
<1>2. /\ n \in ClientType /\ n.observed = k.observed /\ n.authorized = k.authorized
      /\ n.pending \subseteq k.pending
  BY <1>1, CancelPendingFields
<1>3. client'[c] = n /\ announced' = announced
  BY <1>1 DEF ownerVars
<1>4. ClientIsSound(c)'
  BY <1>1, <1>2, <1>3, SameObservation DEF ClientIsSound, Observed
<1>5. ASSUME UpToDate(c)', IsProtected(lock),
             Client!JoinedAt(client'[c], TheRoom, lock.revision)
      PROVE  c \in lock.grants \cup lapsed
  <2>1. UpToDate(c) /\ Client!JoinedAt(k, TheRoom, lock.revision)
    BY <1>2, <1>3, <1>5 DEF UpToDate, Client!JoinedAt, ownerVars
  <2> QED
    BY <1>5, <2>1 DEF Inv, AuthorizedMeansGranted
<1>6. /\ client' \in [Joiner -> ClientType]
      /\ \A d \in Joiner : ClientIsSound(d)'
      /\ AuthorizedMeansGranted' /\ AnnouncedIsSound' /\ GrantedKnewPassword'
  BY <1>2, <1>4, <1>5, JoinerStepFrame
<1>7. TypeOK' /\ ResponsesAreTrue' /\ RequestsWereSent'
  <2>1. table' \in [Joiner -> LockData \cup {NoRoom}]
    BY DEF Inv, GrantsAreEarned, TypeOK
  <2>2. \A d \in Joiner : client'[d].pending \subseteq client[d].pending
    BY <1>1, <1>2
  <2> QED
    BY <2>1, <2>2, FewerMessages
<1> QED
  BY <1>6, <1>7 DEF Inv, GrantsAreEarned

\* A forgotten room is neither observed nor authorized.
LEMMA OnRoomClosedStep ==
  ASSUME Inv, NEW c \in Joiner, OnRoomClosed(c)
  PROVE  Inv'
<1> SUFFICES ASSUME NEW k, k = client[c], NEW n, n = Client!ForgetRooms(k, {TheRoom}),
                    client' = [client EXCEPT ![c] = n],
                    table' = [table EXCEPT ![c] = NoRoom],
                    UNCHANGED <<asked, answered, tried, ownerVars>>
             PROVE  Inv'
  BY DEF OnRoomClosed
<1>1. k \in ClientType /\ client \in [Joiner -> ClientType]
  BY DEF Inv
<1>2. /\ n \in ClientType /\ DOMAIN n.observed = {} /\ DOMAIN n.authorized = {}
      /\ n.pending = {}
  BY <1>1, ForgetRoomsFields
<1>3. /\ client'[c] = n /\ table' \in [Joiner -> LockData \cup {NoRoom}] /\ table'[c] = NoRoom
      /\ \A d \in Joiner \ {c} : table'[d] = table[d]
  BY <1>1 DEF Inv, GrantsAreEarned, TypeOK
<1>4. ClientIsSound(c)'
  BY <1>2, <1>3 DEF ClientIsSound
<1>5. ~Client!JoinedAt(client'[c], TheRoom, lock.revision)
  BY <1>2, <1>3 DEF Client!JoinedAt
<1>6. /\ client' \in [Joiner -> ClientType]
      /\ \A d \in Joiner : ClientIsSound(d)'
      /\ AuthorizedMeansGranted' /\ AnnouncedIsSound' /\ GrantedKnewPassword'
  BY <1>2, <1>3, <1>4, <1>5, JoinerStepFrame
<1>7. TypeOK' /\ ResponsesAreTrue' /\ RequestsWereSent'
  <2>1. \A d \in Joiner : client'[d].pending \subseteq client[d].pending
    BY <1>1, <1>2
  <2> QED
    BY <1>3, <2>1, FewerMessages
<1> QED
  BY <1>6, <1>7 DEF Inv, GrantsAreEarned

\* The table loses its entry and the client keeps what it knows.
LEMMA PresenceLeaseExpiresStep ==
  ASSUME Inv, NEW c \in Joiner, PresenceLeaseExpires(c)
  PROVE  Inv'
<1> USE DEF PresenceLeaseExpires
<1>1. /\ table' \in [Joiner -> LockData \cup {NoRoom}]
      /\ \A d \in Joiner : table'[d] \in {table[d], NoRoom}
  BY DEF Inv, GrantsAreEarned, TypeOK
<1>2. TypeOK' /\ ResponsesAreTrue' /\ RequestsWereSent'
  BY <1>1, FewerMessages
<1>3. client' \in [Joiner -> ClientType] /\ \A d \in Joiner : ClientIsSound(d)'
  BY <1>1 DEF Inv, ClientIsSound, Observed, ownerVars
<1>4. AuthorizedMeansGranted' /\ AnnouncedIsSound' /\ GrantedKnewPassword'
  BY DEF Inv, GrantsAreEarned, AuthorizedMeansGranted, AnnouncedIsSound, GrantedKnewPassword,
         UpToDate, Client!JoinedAt, Announced, IsProtected, ownerVars
<1> QED
  BY <1>2, <1>3, <1>4 DEF Inv, GrantsAreEarned

-----------------------------------------------------------------------------
\* The first announcement is of the new room, and no client knows it.
LEMMA InitInv == Init => Inv
<1> SUFFICES ASSUME Init PROVE Inv
  OBVIOUS
<1> USE DEF Init
<1>1. lock \in RoomState /\ lock.grants = {}
  BY NewRoomFields
<1>2. Announced(owner, lock) \in LockData
  BY <1>1 DEF Announced, LockData, RoomState, IsProtected
<1>3. TypeOK
  BY <1>1, <1>2 DEF TypeOK
<1>4. GrantedKnewPassword /\ ResponsesAreTrue /\ RequestsWereSent
  BY <1>1 DEF GrantedKnewPassword, ResponsesAreTrue, RequestsWereSent
<1>5. AnnouncedIsSound
  BY <1>1 DEF AnnouncedIsSound, Announced, RoomState
<1>6. /\ Client!NewClient \in ClientType
      /\ DOMAIN Client!NewClient.observed = {} /\ DOMAIN Client!NewClient.authorized = {}
      /\ Client!NewClient.pending = {}
  BY DEF Client!NewClient, ClientType, Partial
<1>7. \A c \in Joiner : ClientIsSound(c) /\ client[c] = Client!NewClient
  BY <1>6 DEF ClientIsSound
<1>8. AuthorizedMeansGranted
  BY <1>6, <1>7 DEF AuthorizedMeansGranted, Client!JoinedAt
<1>9. client \in [Joiner -> ClientType]
  BY <1>6
<1> QED
  BY <1>3, <1>4, <1>5, <1>7, <1>8, <1>9 DEF Inv, GrantsAreEarned

\* Every step of the owner and of a joining node preserves the invariant.
LEMMA NextInv == Inv /\ [Next]_vars => Inv'
<1> SUFFICES ASSUME Inv, [Next]_vars PROVE Inv'
  OBVIOUS
<1>1. CASE OwnerStep
  BY <1>1, UpdatePasswordStep, RestartStep, OnJoinRequestStep, GrantExpiresStep,
     WindowPassesStep DEF OwnerStep
<1>2. ASSUME NEW c \in Joiner, JoinerStep(c) PROVE Inv'
  BY <1>2, OnRoomCreateStep, AuthorizeRoomEntryStep, OnJoinResponseStep, OnJoinFailureStep,
     OnRoomClosedStep, PresenceLeaseExpiresStep DEF JoinerStep
<1>3. CASE UNCHANGED vars
  <2>1. client' \in [Joiner -> ClientType] /\ \A d \in Joiner : ClientIsSound(d)'
    BY <1>3 DEF vars, Inv, ClientIsSound, Observed
  <2>2. GrantsAreEarned' /\ AuthorizedMeansGranted'
    BY <1>3 DEF vars, Inv, GrantsAreEarned, TypeOK, GrantedKnewPassword,
                AuthorizedMeansGranted, UpToDate, Client!JoinedAt, IsProtected
  <2>3. AnnouncedIsSound' /\ ResponsesAreTrue' /\ RequestsWereSent'
    BY <1>3 DEF vars, Inv, AnnouncedIsSound, ResponsesAreTrue, RequestsWereSent, Announced,
                IsProtected
  <2> QED
    BY <2>1, <2>2, <2>3 DEF Inv
<1> QED
  BY <1>1, <1>2, <1>3 DEF Next

\* The invariant holds in every reachable state.
THEOREM RoomAuthorizationInvariant == Spec => []Inv
<1>1. Init => Inv
  BY InitInv
<1>2. Inv /\ [Next]_vars => Inv'
  BY NextInv
<1> QED
  BY <1>1, <1>2, PTL DEF Spec

\* A client that takes itself for authorized at the present revision was granted entry at it:
\* join_authorized answers nothing that a password change between the request and its answer,
\* or a late RoomCreate, could turn into an entry.
THEOREM AuthorizedWereGranted == Spec => []AuthorizedMeansGranted
<1>1. Inv => AuthorizedMeansGranted
  BY DEF Inv
<1> QED
  BY <1>1, RoomAuthorizationInvariant, PTL

\* The owner's lock holds its limits, and each grant is of a peer that sent the present password.
THEOREM GrantsWereEarned == Spec => []GrantsAreEarned
<1>1. Inv => GrantsAreEarned
  BY DEF Inv
<1> QED
  BY <1>1, RoomAuthorizationInvariant, PTL

\* Whoever has the present entry of the room can enter it or ask to, unless its client still
\* remembers the room of a former owner.
LEMMA PresentEntryIsObserved ==
  ASSUME Inv, NEW c \in Joiner, UpToDate(c), table[c] = Announced(owner, lock)
  PROVE  TheRoom \in DOMAIN client[c].observed /\ Observed(c) = Announced(owner, lock)
<1>1. table[c] # NoRoom
  BY AuthorizationAssumption DEF Inv, GrantsAreEarned, TypeOK, AnnouncedIsSound
<1>2. /\ TheRoom \in DOMAIN client[c].observed /\ Observed(c) \in announced
      /\ Observed(c).owner = owner
  BY <1>1 DEF Inv, ClientIsSound, UpToDate, Observed
<1>3. Observed(c).revision >= lock.revision
  BY <1>1, <1>2 DEF Inv, ClientIsSound, Announced
<1>4. /\ Observed(c).revision \in Nat /\ lock.revision \in Nat
      /\ Observed(c).revision <= lock.revision
  BY <1>2, PresentAnnouncement
<1>5. Observed(c).revision = lock.revision
  BY <1>3, <1>4
<1> QED
  BY <1>2, <1>5 DEF Inv, AnnouncedIsSound

\* An announcement that arrives late may overwrite the table, and the observation only if it is
\* not older; so a table that shows the present lock is never at odds with what was observed.
THEOREM CurrentRoomIsOpen == Spec => []CurrentRoomCanBeJoined
<1>1. Inv => CurrentRoomCanBeJoined
  <2> SUFFICES ASSUME Inv, NEW c \in Joiner, UpToDate(c), table[c] = Announced(owner, lock)
               PROVE  IF IsProtected(lock)
                      THEN \A id \in JoinId : Client!StillCurrent(client[c], Join(c, id))
                      ELSE Client!RoomAuthorized(client[c], TheRoom, c)
    BY DEF CurrentRoomCanBeJoined
  <2>1. TheRoom \in DOMAIN client[c].observed /\ Observed(c) = Announced(owner, lock)
    BY PresentEntryIsObserved
  <2>2. CASE IsProtected(lock)
    BY <2>1, <2>2 DEF Announced, Observed, Join, Client!StillCurrent
  <2>3. CASE ~IsProtected(lock)
    BY <2>1, <2>3 DEF Announced, Observed, Client!RoomAuthorized
  <2> QED
    BY <2>2, <2>3
<1> QED
  BY <1>1, RoomAuthorizationInvariant, PTL
=============================================================================
