CONSTANTS
  Block = {b1, b2, b3}
  BlockSize = 2
  MaxPools = 1
  Stream = {f1, f2}
  a = a
  b = b
  Byte = {a, b}
  Packet <- Packets
  Quota = {3}
  Null = Null
  Junk = Junk
  MaxAccepted = 4
  SharedThread = {t1, t2}
  Descriptors = {1}
  Streams = {1, 2}
  BlockBytes = 2
  BufferSize = 2
  PutSizes = {1, 3}
  QuotaBytes = 3
  MaxTaken = 4
SPECIFICATION BothSpec
SYMMETRY Symmetry
INVARIANT BuffersSound
INVARIANT SharedSound
CHECK_DEADLOCK FALSE
