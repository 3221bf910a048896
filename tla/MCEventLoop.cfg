SPECIFICATION FairSpec
CONSTANTS
  Fds = {l, s}
  Listener = l
  NoOne = NoOne
INVARIANTS
  PendingSound
  PollSetRight
PROPERTIES
  CallbackOfStarted
  Served
