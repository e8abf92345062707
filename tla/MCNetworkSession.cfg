SPECIFICATION SessionFairSpec
CONSTANTS
  Session = {s1, s2}
  Chat = {c1, c2}
  Profile = {p1}
  Nil = Nil
INVARIANTS
  ActorsAreReachable
PROPERTIES
  ShutdownFreesProfile
  SessionsEnd
  GateIsReleased
CHECK_DEADLOCK FALSE
