SPECIFICATION Spec
CONSTANTS
  Room = 3
  Chunk = 2
  Lens = {1, 2, 3}
  MaxTaken = 6
  MaxCoded = 6
  MaxSent = 3
  MaxAsks = 3
INVARIANT Intact
INVARIANT ReadAsSent
PROPERTY HandshakeEnds
CHECK_DEADLOCK FALSE
