CONSTANTS
  NumThreads = 2
  limit = 2
  AtStart = {0}
  Nobody = Nobody
SPECIFICATION Spec
INVARIANT ObjectsSound
INVARIANT SleepFirstUnlessTorn
PROPERTY EveryoneTold
CHECK_DEADLOCK FALSE
