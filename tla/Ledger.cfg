SPECIFICATION Spec
CONSTANTS
  Unknown = Unknown
  None = None
  Tolerance = 0
  DuplicateWindow = 1
  HoursSlack = 0
  DueSoonPercent = 10
  DayLength = 1
  Showcase = {}
  Today = 3
  PartRules <- MCPartRules
  InspectionRules <- MCInspectionRules
  MonthOf <- MCMonthOf
  Topics <- MCTopics
INVARIANT TypeOK
INVARIANT OnlyOneOfEach
INVARIANT EntriesHold
INVARIANT IntervalHoldsFlightSince
INVARIANT BoardAgrees
PROPERTY NeverFittedAtItsLimit
PROPERTY StatedHoursStayCredible
PROPERTY UndoRestores
CHECK_DEADLOCK FALSE
