SPECIFICATION Spec
CONSTANTS
  Peer = {self, p1}
  Self = self
  Room = {r1}
  MaxRoomsPerPeer = 1
  MaxMemberships = 2
  MaxPeers = 2
  MaxRuntimeRooms = 2
  NoSnapshot = NoSnapshot
  Password = {pw1}
  NoPassword = NoPassword
  MaxAttempts = 1
  Announcement <- Locked
  RemoteSnapshot <- TwoRevisions
  MaxRoomsPerOwner = 1
  MaxRoomsTotal = 2
  JoinId = {}
  MaxLocalRevision = 3
  MaxLockRevision = 1
INVARIANT
  OwnerIsAuthorized
