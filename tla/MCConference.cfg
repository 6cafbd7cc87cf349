SPECIFICATION ConferenceSpec
CONSTANTS
  Conn = {c1, c2}
  None = None
  Limit = 3
  MaxFd = 2
  MaxClients = 2
  OpenAt = 1
  ReadAt = 1
  Pool = 2
  FrameBlocks = 1
  MaxFrames = 2
 
PROPERTY Forgotten
CHECK_DEADLOCK FALSE
