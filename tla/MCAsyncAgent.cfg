CONSTANTS
  Agent = {a1, a2}
  NumFds = 3
  limit = 2
  None = None
  DNS = DNS
  Places <- MCPlaces
  KnownSwitch = {"s"}
  PeerAt <- MCPeerAt
  NoPeer = NoPeer
  Reports <- MCReports
  MaxQueue = 1
  MaxReports = 2
  MaxQueryFaults = 1
SPECIFICATION ClientsSpec
INVARIANT AgentSound
INVARIANT EventsSound
INVARIANT ToldWhenLost
PROPERTY KeepsTrying
PROPERTY EndsLogged
CHECK_DEADLOCK FALSE
