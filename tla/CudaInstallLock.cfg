SPECIFICATION Spec
CONSTANTS
  Processes = {p1, p2}
  Commands = {}
INVARIANT OneInstaller
CHECK_DEADLOCK FALSE
