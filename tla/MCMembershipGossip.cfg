SPECIFICATION FairSpec
CONSTANTS
  Peer = {host, guest, other}
  Host = host
  Room = {r1}
  RoomOwner <- HostedByOne
  MaxRoomsPerPeer = 1
  MaxMemberships = 2
  MaxPeers = 2
  MaxRuntimeRooms = 1
  NoSnapshot = NoSnapshot
  MaxRevision = 3
INVARIANTS
  ViewsAreSound
PROPERTIES
  KeepsView
  Converges
