SPECIFICATION Spec
CONSTANTS
  Unknown = Unknown
  None = None
  Tolerance = 0
  DuplicateWindow = 1
  HoursSlack = 0
  DueSoonPercent = 10
  DayLength = 1
  Showcase = {}
  Today = 3
  PartRules <- MCPartRules
  InspectionRules <- MCInspectionRules
  MonthOf <- MCMonthOf
  Topics <- MCTwinTopics
INVARIANT OnOneAircraft
CHECK_DEADLOCK FALSE
