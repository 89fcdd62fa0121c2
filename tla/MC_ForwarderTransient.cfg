CONSTANTS
  t1 = t1  t2 = t2  g1 = g1  g2 = g2  PB = PB  Peer = Peer
  Threads <- MCThreads
  Groups <- MCGroups
  Schemes <- MCSchemes
  Patterns <- MCPatterns
  Remote = Peer
  PubBudget <- MCPeerOnce
  MaxSubs = 2
  TransientGroups = TRUE

SPECIFICATION Spec

INVARIANT NoCrossTalk

CHECK_DEADLOCK FALSE
