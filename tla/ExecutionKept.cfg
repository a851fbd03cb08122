SPECIFICATION Spec
CONSTANTS
  MaxDevices = 2
  MaxInputs = 2
  MaxOutputs = 1
INVARIANT NonDonatedKept
CHECK_DEADLOCK FALSE
