------------------------ MODULE SecureControlClient ------------------------
(***************************************************************************)
(* The joining side (SecureControlClient, secure_control_client.rs).  A    *)
(* client is a record                                                      *)
(*   observed    a partial function: room -> what its announcements said   *)
(*   authorized  a partial function: room -> the revision it was joined at *)
(*   pending     the room joins sent and not answered                      *)
(***************************************************************************)
LOCAL INSTANCE Naturals

NewClient ==
  [observed |-> [r \in {} |-> 0], authorized |-> [r \in {} |-> 0], pending |-> {}]

\* f without the keys K, and f with k mapped to v: the two writes of a HashMap.
WithoutAll(f, K) == [x \in DOMAIN f \ K |-> f[x]]
With(f, k, v) == [x \in DOMAIN f \cup {k} |-> IF x = k THEN v ELSE f[x]]

\* Mutant of CanObserve: the lock flag is fixed by the first announcement.
CanObserveSameLock(c, r, o) ==
  r \in DOMAIN c.observed =>
    LET previous == c.observed[r]
    IN  /\ previous.owner = o.owner
        /\ o.revision >= previous.revision
        /\ o.protected = previous.protected

\* observe_room refuses another owner, an older revision and the same revision with
\* another lock flag.
CanObserve(c, r, o) ==
  r \in DOMAIN c.observed =>
    LET previous == c.observed[r]
    IN  /\ previous.owner = o.owner
        /\ o.revision >= previous.revision
        /\ o.revision = previous.revision => o.protected = previous.protected

ObserveRoom(c, r, o) ==
  IF ~CanObserve(c, r, o) THEN c
  ELSE LET renewed == r \in DOMAIN c.observed /\ c.observed[r].revision # o.revision
       IN  [c EXCEPT !.observed   = With(@, r, o),
                     !.authorized = IF renewed \/ ~o.protected THEN WithoutAll(@, {r}) ELSE @]

\* remove_room for each room of R.
ForgetRooms(c, R) ==
  [observed   |-> WithoutAll(c.observed, R),
   authorized |-> WithoutAll(c.authorized, R),
   pending    |-> {j \in c.pending : j.room \notin R}]

JoinedAt(c, r, rev) == r \in DOMAIN c.authorized /\ c.authorized[r] = rev

\* room_authorized: an unknown room, an open one, the local peer's own, or one joined
\* at the revision last observed.
RoomAuthorized(c, r, self) ==
  r \in DOMAIN c.observed =>
    LET o == c.observed[r]
    IN  ~o.protected \/ o.owner = self \/ JoinedAt(c, r, o.revision)

\* The observation a join was (and must still be) made under.
StillCurrent(c, j) ==
  /\ j.room \in DOMAIN c.observed
  /\ c.observed[j.room] = [owner |-> j.owner, protected |-> TRUE, revision |-> j.revision]

TrackJoin(c, j) == [c EXCEPT !.pending = @ \cup {j}]

CancelPending(c, id) == [c EXCEPT !.pending = {j \in @ : j.id # id}]

\* Mutant of JoinAnswered: the answer counts for the revision observed by now.
JoinAnsweredNow(c, id, granted) ==
  LET rest == CancelPending(c, id)
      taken == {j \in c.pending : j.id = id /\ j.room \in DOMAIN c.observed}
  IN  IF granted /\ taken # {}
      THEN LET j == CHOOSE x \in taken : TRUE
           IN  [rest EXCEPT !.authorized = With(@, j.room, c.observed[j.room].revision)]
      ELSE rest

(***************************************************************************)
(* handle_response to the join `id`, from the peer it was sent to, followed*)
(* by what network_task does with the outcome: an ignored one cancels what *)
(* is pending, so the join is gone in every case.                          *)
(***************************************************************************)
JoinAnswered(c, id, granted) ==
  LET rest == CancelPending(c, id)
      taken == {j \in c.pending : j.id = id /\ StillCurrent(c, j)}
  IN  IF granted /\ taken # {}
      THEN LET j == CHOOSE x \in taken : TRUE
           IN  [rest EXCEPT !.authorized = With(@, j.room, j.revision)]
      ELSE rest
=============================================================================
