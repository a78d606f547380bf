SPECIFICATION Spec
CHECK_DEADLOCK FALSE
CONSTANTS
  Traffic <- Kinds
  MaxReports = 1
PROPERTY
  ReportsEveryReportable
