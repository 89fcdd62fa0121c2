----------------------------- MODULE MC_UFldDriver -----------------------------
EXTENDS UFldDriver, TLC
CONSTANTS Unset

\* Node 1 has one frame queued from frame 0, node 2 one from frame 1 and
\* node 3 two from frame 0.
MCQueue == (1 :> [frames |-> 1, start |-> 0]) @@ (2 :> [frames |-> 1, start |-> 1])
           @@ (3 :> [frames |-> 2, start |-> 0])
=============================================================================
