CONSTANTS
  Timer = {t1, t2, t3}
  Rearming = {t3}
  MaxDelay = 2
  MaxLate = 2
  FrameMax = 2
  AvioSize = 2
  ProbeMax = 3
  StartAt = 2
  DrawAt = 3
  Room = 6
  MaxPictures = 6
  Gaps = {10, 15, 20, 50}
  Horizon = 250
  Server = {s1, s2}
  Sockets = {3, 4}
  NoServer = NoServer
  Files <- MCFiles
  ClassFilters <- MCClassFilters
  Datagrams <- MCDatagrams
  Classes = {"in", "out", "loc"}
  MaxRecords = 2
SPECIFICATION ServicesSpec
INVARIANT CountExact
INVARIANT FeedSound
INVARIANT CollectorSound
PROPERTY LateOnlyBehindLater
PROPERTY AllFire
CHECK_DEADLOCK FALSE
