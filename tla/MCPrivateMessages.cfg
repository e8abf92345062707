SPECIFICATION FairSpec
CONSTANTS
  Peer = {1, 2}
  Alice = alice
  Bob = bob
  Nick = {alice, bob}
  Choice <- FirstIsAlice
  Window = 0
  MinDelay = 0
  MaxAge = 1
  None = None
  Message = {m1, m2}
  Sender = {1}
  MaxRate = 1
  MaxReplay = 1
  MaxShown = 3
INVARIANTS
  RivalsAgree
  MessageStateIsSound
  DeliveredWasShown
  ShownOnce
PROPERTIES
  RivalsPart
  CallersAnswered
CHECK_DEADLOCK FALSE
