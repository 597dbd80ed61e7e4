SPECIFICATION ViewSpec
CONSTANTS
  Nothing = Nothing
  MaxMade = 2
  MaxEvents = 1
  MaxJobs = 1
  Shot = {1}
  Navigates = {1}
INVARIANTS ViewInv SavedIsTrue FinalizedIsEdited
PROPERTY StopEnds
CHECK_DEADLOCK FALSE
CONSTRAINT Followed
