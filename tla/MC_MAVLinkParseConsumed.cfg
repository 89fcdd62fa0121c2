CONSTANTS
  Bytes <- MCBytes
  STX = 3
  CrcExtra <- MCCrcExtra
  Known <- MCKnown
  SysIds = {1, 2}
  MaxPayload = 2
  MaxNoise = 1

SPECIFICATION Spec

INVARIANT RoundTripConsumed

\* parse returns: the loop ends at a frame, an error or bytes_end.
CHECK_DEADLOCK FALSE
