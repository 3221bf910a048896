SPECIFICATION Spec
CONSTANTS
  Own = Own
  NotSaved = NotSaved
INVARIANTS
  MenuAgrees
  NothingLeftBehind
PROPERTIES
  HandsOff
