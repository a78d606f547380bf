SPECIFICATION Spec
CHECK_DEADLOCK FALSE
CONSTANT
  MaxRuns = 1
PROPERTY
  RemovesQdiscWhenInterrupted
