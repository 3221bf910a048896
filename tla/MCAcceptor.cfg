SPECIFICATION FairSpec
CONSTANTS
  Clients = {c1, c2, c3}
  Fds = {f0, f1, f2, f3, f4}
  NoOne = NoOne
  NoFd = NoFd
INVARIANTS
  OwnDescriptors
  Accounted
PROPERTIES
  AllOrNothing
  EveryoneTaken
  ListensAtLast
CHECK_DEADLOCK FALSE
