CONSTANTS
  Block = {b1, b2, b3}
  BlockSize = 2
  MaxPools = 1
  Stream = {s1, s2}
  a = a
  b = b
  Byte = {a, b}
  Packet <- Packets
  Quota = {4}
  Null = Null
  Junk = Junk
SPECIFICATION Spec
SYMMETRY Symmetry
INVARIANT StreamSound
PROPERTY PoolSpec
PROPERTY QueueSpec
