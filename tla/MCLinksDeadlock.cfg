\* The tick thread sends with m_CSClients held; the event thread asks for
\* m_CSClients with the bufferevent's lock held.
CONSTANTS
  Links = {l1, l2}
  l1 = l1
  l2 = l2
  NoLink = NoLink
  MaxSends <- OneSender
SPECIFICATION Spec
INVARIANT NoDeadlock
CHECK_DEADLOCK FALSE
