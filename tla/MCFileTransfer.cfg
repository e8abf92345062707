SPECIFICATION FairSpec
CONSTANTS
  Node = {a, b}
  Transfer = {t1, t2}
  Share = {s1}
  Host = a
  OneSize = 0
  Sharer <- HostShares
  ShareSize <- SharesOfOneSize
  NoShare = NoShare
  Offering = {a}
  MaxTransfers = 1
  FileSize = {1}
  MaxClaims = 1
INVARIANTS
  TransfersAreSound
PROPERTIES
  Delivers
  SlotsReturn
CHECK_DEADLOCK FALSE
