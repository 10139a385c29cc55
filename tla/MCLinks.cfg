\* Two connections, a send on one of them, and a shutdown.
CONSTANTS
  Links = {l1, l2}
  l1 = l1
  l2 = l2
  NoLink = NoLink
  MaxSends <- OneSender
SPECIFICATION FairSpec
INVARIANTS
  LinkAliveInUse
  ClientNeverLast
  QueuedBeforeFin
  SelfInCallback
  OneDeadlock
PROPERTIES
  KeepsClientList
  LinkFreed
  ShutdownReturns
CHECK_DEADLOCK FALSE
