SPECIFICATION ArenaSpec
SYMMETRY Symmetry
CONSTANTS
  Goroutines = {g1, g2}
  Heads = {p1, p2}
  Procs = {p1, p2, p3}
  Nodes = {n1, n2, n3}
  Nil = Nil
  NoProc = NoProc
  MaxGets = 3
  Large = {l1}
  PoolSize = 64
  Margin = 16
  Structs = 16
  CallNeeds = {32}
  Executions <- MCExecutions
  AllocSizes = {28}
INVARIANTS NotShared NoNodeLost FreeArenasReady AllocationsFit
PROPERTY ImplementsObjectPool
CHECK_DEADLOCK FALSE
