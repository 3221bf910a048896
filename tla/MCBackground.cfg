SPECIFICATION FairSpec
CONSTANTS
  MaxStarts = 4
PROPERTIES
  KeepsPlaying
  QuietAgain
CHECK_DEADLOCK FALSE
