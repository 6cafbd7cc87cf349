CONSTANTS
  Object = {o1, o2}
  NumFds = 3
  limit = 2
  MaxOut = 1
  None = None
SPECIFICATION LiveSpec
INVARIANT AnyInv
INVARIANT ViewsAgree
INVARIANT ObjectsServed
PROPERTY FullBufferDrains
