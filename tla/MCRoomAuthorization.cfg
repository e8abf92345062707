SPECIFICATION Spec
CONSTANTS
  Peer = {o1, o2, p1}
  Incarnation = {o1, o2}
  TheRoom = r1
  NoRoom = NoRoom
  Password = {pw1, pw2}
  NoPassword = NoPassword
  MaxAttempts = 1
  JoinId = {j1, j2}
  MaxLockRevision = 2
SYMMETRY Interchangeable
INVARIANTS
  AuthorizedMeansGranted
  GrantsAreEarned
  CurrentRoomCanBeJoined
