CONSTANTS
  GivenNames = {"x"}
  Disciplined = TRUE
  MaxFunctions = 3
  MaxCalls = 5
SPECIFICATION XlaSpec
INVARIANTS UniqueNames OperandsVisible SignaturesAgree
CHECK_DEADLOCK FALSE
