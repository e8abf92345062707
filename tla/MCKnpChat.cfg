CONSTANTS
  Node = {a, b}
  Msg = {m1}
  UserCalls <- SenderAndReceiver
  EventCapacity = 1
  MaxContacts = 1
  MaxPending = 1
  MaxSeen = 1
  MaxHistory = 1
  Nothing = Nothing
  a = a
  b = b
  m1 = m1
SPECIFICATION KnpSpec
INVARIANTS HistoryIsTrue QueuedIsAwaited
PROPERTIES CommandsAnswered
CHECK_DEADLOCK FALSE
