\* Static groups: the forwarder's local and relayed delivery.
CONSTANTS
  t1 = t1  t2 = t2  g1 = g1  g2 = g2  PB = PB  Peer = Peer
  Threads <- MCThreads
  Groups <- MCGroups
  Schemes <- MCSchemes
  Patterns <- MCPatterns
  Remote = Peer
  PubBudget <- MCBudget
  MaxSubs = 2
  TransientGroups = FALSE

SPECIFICATION Spec

INVARIANT TypeOK
INVARIANT LocalNoLossNoDuplicate
PROPERTY ImplementsPubSub
PROPERTY EventuallyDrained
PROPERTY RemoteDelivered

\* Once the bounded calls are spent every loop polls an empty store.
CHECK_DEADLOCK FALSE
