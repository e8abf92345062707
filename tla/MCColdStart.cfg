CONSTANTS
  Peer = {p}
  Listener = {l1, l2}
  MaxRelays = 1
  MaxAttempted = 1
  MaxPending = 1
  MaxContacts = 1
  Advertised <- Offers
  Nothing = Nothing
  p = p
  l1 = l1
  l2 = l2
SYMMETRY Listeners
CONSTRAINT Few
SPECIFICATION ColdStartSpec
INVARIANTS NetworkIsHeld ContactsAreSound
PROPERTIES DialsAreLive
CHECK_DEADLOCK FALSE
