SPECIFICATION LibrarySpec
CONSTANTS
  Block = {b1, b2, b3, b4}
  BlockSize = 2
  MaxPools = 3
  PoolBytes = 4
  StackLen = 2
  Sizes = {1, 2}
  P = 5
  Vars = {"x", "y"}
  Operands <- MCOperands
  Handles = {h1, h2, h3}
  Nodes = {1, 2, 3}
  Names = {"n", "sin", "log"}
  Numbers = {2}
  Bound = {"x", "sin"}
  MaxText = 6
  MaxBinds = 1
  MaxWork = 3
SYMMETRY Symmetry
INVARIANT PoolInv
INVARIANT ObjectsLive
INVARIANT FormulasSound
CHECK_DEADLOCK FALSE
