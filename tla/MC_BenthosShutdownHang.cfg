\* A modem that may stop answering while shutdown polls.
CONSTANTS
  m1 = m1  m2 = m2
  ModemId = m1
  Peers <- MCPeers
  FrameStarts = {0, 1}
  MaxFrames = 2
  StartTimeout = 1
  TicksPerSecond = 2
  MaxRx = 1
  MaxTx = 1
  ModemResponsive = FALSE

SPECIFICATION Spec

PROPERTY ShutdownReturns

\* The driver stops for good once shutdown has closed the modem or startup
\* has thrown.
CHECK_DEADLOCK FALSE
