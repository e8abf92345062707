SPECIFICATION FairSpec
CONSTANTS
  Peer = {self, p1, p2}
  Self = self
  Room = {r1}
  MaxRoomsPerPeer = 1
  MaxMemberships = 2
  MaxPeers = 2
  MaxRuntimeRooms = 1
  NoSnapshot = NoSnapshot
  Password = {pw1, pw2}
  NoPassword = NoPassword
  MaxAttempts = 1
  Announcement <- Locked
  RemoteSnapshot <- Settled
  MaxRoomsPerOwner = 2
  MaxRoomsTotal = 1
  JoinId = {j1}
  MaxLocalRevision = 2
  MaxLockRevision = 2
INVARIANTS
  OwnerKeepsRoom
PROPERTIES
  LockedRoomAdmitsGranted
  CountsDrain
