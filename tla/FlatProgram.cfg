SPECIFICATION Spec
CHECK_DEADLOCK FALSE
CONSTANTS
  Traffic <- KindsAndFlows
  MaxReports = 2
INVARIANTS
  TypeOK
  HeaderSurvives
  TimestampSurvives
  HashTellsFlowsApart
PROPERTIES
  ReportsExactly
