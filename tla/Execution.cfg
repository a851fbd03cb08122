SPECIFICATION FairSpec
CONSTANTS
  MaxDevices = 2
  MaxInputs = 3
  MaxOutputs = 2
INVARIANTS OutputsComplete NoDanglingInput DestroysOnlyDonated
PROPERTY DoneReturns
CHECK_DEADLOCK FALSE
