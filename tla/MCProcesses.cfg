CONSTANTS
  Process = {p1, p2, p3}
  NumPids = 3
  None = None
  Files <- MCFiles
  MaxChildren = 4
  MaxExits = 2
  MaxFaults = 1
SPECIFICATION MindersSpec
INVARIANT CalledOnceAfterEnd
INVARIANT SectionsSound
PROPERTY EndIsReported
PROPERTY AlwaysRestarted
CHECK_DEADLOCK FALSE
