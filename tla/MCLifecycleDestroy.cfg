SPECIFICATION Spec
CONSTANTS
  Clients = {k1}
  Buffers = {b1, b2, b3}
  Execs = {e1}
  NoClient = NoClient
  Calls = {"ClientDestroy", "PluginFree", "UnsafePointer"}
  Underflow = 1
SYMMETRY Symmetry
INVARIANTS DestroyOnce CallKeepsObject StorageOutlivesBuffer LoadedExecutablesExact
CHECK_DEADLOCK FALSE
