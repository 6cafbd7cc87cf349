CONSTANTS
  Addr <- MCAddr
  ChipPage = 32
  MaxDeaf = 1
  RingSize = 16
  Files <- MCFiles
  Flashes <- MCFlashes
  Rounds = 2
  MayUnplug = TRUE
SPECIFICATION Spec
INVARIANT RoundSound
PROPERTY Answered
CHECK_DEADLOCK FALSE
