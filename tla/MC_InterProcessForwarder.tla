---------------------- MODULE MC_InterProcessForwarder ----------------------
(* Instantiation of InterProcessForwarder for TLC: two threads, two groups, *)
(* one scheme (PROTOBUF-like), one regex subscription form (".*" on the     *)
(* scheme, every group).                                                   *)
EXTENDS InterProcessForwarder, TLC

CONSTANTS t1, t2, g1, g2, PB, Peer

MCThreads == {t1, t2}
MCGroups == {g1, g2}
MCSchemes == {PB}
MCPatterns == {[schemes |-> {PB}, groups |-> {g1, g2}]}
\* the pass run: t1 publishes twice (order), the peer once, t2 subscribes
MCBudget == (t1 :> 2 @@ t2 :> 0 @@ Peer :> 1)
\* the violation runs: only the peer publishes, once
MCPeerOnce == (t1 :> 0 @@ t2 :> 0 @@ Peer :> 1)
=============================================================================
