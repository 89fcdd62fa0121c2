\* A modem whose READY is read by the last do_work before startup's timeout.
CONSTANTS
  m1 = m1  m2 = m2
  ModemId = m1
  Peers <- MCPeers
  FrameStarts = {0, 1}
  MaxFrames = 2
  StartTimeout = 1
  TicksPerSecond = 2
  MaxRx = 2
  MaxTx = 1
  ModemResponsive = FALSE

SPECIFICATION Spec

INVARIANT StartupFailsOnlyUnready

\* The driver stops for good once shutdown has closed the modem or startup
\* has thrown, and a hung modem leaves it waiting.
CHECK_DEADLOCK FALSE
