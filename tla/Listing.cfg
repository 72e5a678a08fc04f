SPECIFICATION FairSpec
CONSTANTS
  MaxId = 3
  MaxLimit = 3
  Ids <- SomeIds
  Limits <- SomeLimits
  Statuses = {"Open", "Resolved"}
  Priorities = {"Low", "High"}
  Any = Any
  NaN = NaN
  Cap = 2
  Null = Null
INVARIANTS TypeOK ShownOnce NoneLeftOut FailsOnlyOnOddLimit StatsBracketed
PROPERTY WalkEnds
CHECK_DEADLOCK FALSE
CONSTRAINT OneReader
