CONSTANTS
  NumDevices = 4
  Nil = Nil
  MeshLists <- MCMeshLists
  ShardingSpecs <- MCShardingSpecs
  Assignments <- MCAssignments
  MaxCalls = 6
SPECIFICATION Spec
INVARIANTS CheckedInputsFit OptionsConsistent ModuleAgrees ShardingsResolve GroupsPartition
CHECK_DEADLOCK FALSE
