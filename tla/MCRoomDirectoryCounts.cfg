SPECIFICATION Spec
CONSTANTS
  Peer = {self, p1, p2}
  Self = self
  Room = {r1, r2}
  MaxRoomsPerPeer = 1
  MaxMemberships = 2
  MaxPeers = 2
  MaxRuntimeRooms = 2
  NoSnapshot = NoSnapshot
  Password = {}
  NoPassword = NoPassword
  MaxAttempts = 1
  Announcement <- Open
  RemoteSnapshot <- TwoRevisions
  MaxRoomsPerOwner = 1
  MaxRoomsTotal = 2
  JoinId = {}
  MaxLocalRevision = 3
  MaxLockRevision = 2
INVARIANTS
  TypeOK
  MembershipConsistent
  RegistryIsTable
  LeaseCoversMembers
PROPERTIES
  CountsKept
  OwnerOnlyChangesByClosing
