SPECIFICATION Spec
CONSTANTS
  Clients = {k1}
  Buffers = {b1}
  Execs = {}
  NoClient = NoClient
  Calls = {}
  Underflow = 0
INVARIANT NoBufferDestroyAfterClient
CHECK_DEADLOCK FALSE
