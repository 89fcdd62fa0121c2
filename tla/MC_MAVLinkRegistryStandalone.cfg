CONSTANTS
  Threads = {t1, t2}
  Dialects <- MCDialects
  DefaultOrder <- MCDefaultOrder
  UserDialects = {"standalone"}
  LookupIds = {1, 2}
  MaxCalls = 2
  None = None

SPECIFICATION Spec

INVARIANT DefaultDialectsKnown

\* Each thread makes MaxCalls calls and then makes no more.
CHECK_DEADLOCK FALSE
