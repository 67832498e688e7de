SPECIFICATION FairLoopSpec
CONSTANTS
  MaxEvents = 2
  MaxAhead = 1
CHECK_DEADLOCK FALSE
INVARIANTS LoopTypeOK NoResultSleeps
PROPERTIES ChangeIsShown ClosedAppEnds SettledAppDrawsNothing
