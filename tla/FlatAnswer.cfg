SPECIFICATION Spec
CHECK_DEADLOCK FALSE
CONSTANTS
  Traffic <- Flows
  MaxReports = 2
INVARIANT
  AnswerHasTheSameHash
