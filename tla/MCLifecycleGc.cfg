SPECIFICATION FairSpec
CONSTANTS
  Clients = {k1}
  Buffers = {b1, b2}
  Execs = {e1}
  NoClient = NoClient
  Calls = {"UnsafePointer"}
  Underflow = 0
INVARIANTS BufferKeepsClient ExecutableKeepsClient BuffersAliveExact CollectedStaysUnreachable
PROPERTIES BufferReclaimed ClientReclaimed
CHECK_DEADLOCK FALSE
