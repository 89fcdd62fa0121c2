----------------------- MODULE MC_BenthosATM900Driver -----------------------
EXTENDS BenthosATM900Driver, TLC
CONSTANTS m1, m2
MCPeers == {m2}
=============================================================================
