SPECIFICATION Spec
CONSTANTS
  N = 3
  Stamp <- Stamps
  MaxVisible = 2
  BucketRows = 1
  Statuses = {"Queued", "Working", "NeedsHelp"}
  Keys = {"j", "k", " ", "d", "t", "q", "focus"}
CHECK_DEADLOCK FALSE
INVARIANTS
  TypeOK
  SelectionInRange
  MarkedIsShown
  HelpSignalled
PROPERTIES
  ActsOnFrame
