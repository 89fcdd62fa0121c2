\* Three nodes, polls and pings, over a lossy uField toolbox.
CONSTANTS
  Nodes = {1, 2, 3}
  BROADCAST_ID = 0
  NoDest = Unset
  Unset = Unset
  Queue <- MCQueue
  MaxInitiate = 1
  MaxPing = 2

SPECIFICATION Spec

INVARIANT TypeOK
INVARIANT DataFromInitiated
INVARIANT RepliesAtMostPings

\* Every driver stops once shut down and every budget is spent.
CHECK_DEADLOCK FALSE
