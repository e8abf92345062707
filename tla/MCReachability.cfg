SPECIFICATION FairSpec
CONSTANTS
  s1 = s1
  a1 = a1
  a2 = a2
  c1 = c1
  Server = {s1}
  Address = {a1, a2}
  Port = {"tcp", "quic"}
  PortOf <- MCPortOf
  NativeAddress = {a1}
  Client = {c1}
  MaxEndpoints = 1
  MatchTtl = 1
  ConfirmTtl = 2
  None = None
INVARIANTS
  OfferedIsWitnessed
  PublishedIsAdvertised
PROPERTY
  RelayClientsLeave
