SPECIFICATION SessionsSpec
CONSTANTS
  Sources = {a}
  MaxConns = 2
  MaxPackets = 4
  QueueCap = 2
  BatchSize = 2
  NatSources = {1}
  Senders = {s1, s2}
  NatMaxAge = 1
  QueueSize = 1
  MaxSends = 2
  MaxNatConns = 3
  MaxFaults = 1
  Listeners = {l1, l2}
  Buffer = 2
  MaxItems = 3
  Closers = {c1, c2}
  FirstTimeout = 3
  ShorterTimeout = 2
  MaxNow = 8
INVARIANTS NatInv PacketsOnce NatTableInv ObserverInv IdleEnds
PROPERTIES ConnsEndTogether SendsEnd SubscriptionsEnd
CHECK_DEADLOCK FALSE
