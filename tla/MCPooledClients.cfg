CONSTANTS
  Threads = {t1, t2}
  Clients = {c1, c2}
  MaxServerId = 1
  PoolSizes = {1, 2}
  WaitQueueTimeout = TRUE
  Sessions = {s1, s2}
  MaxTime = 1
  Timeouts = {1}
  EndLimit = 1
  None = None
  NoSession = NoSession
SPECIFICATION FairSpec
INVARIANTS OneOwner NoLostWakeup IdleConnectionsKnown OneHolder
INVARIANTS SizeExact
PROPERTY DestroyReturns
