CONSTANTS
  Inputs <- MCInputs
  Scalars <- MCScalars
  Targets <- MCTargets
  Indices <- MCIndices
  ShapeTensors <- MCShapeTensors
  Gathers <- MCGathers
  Scatters <- MCScatters
  Windows <- MCWindows
  Convolutions <- MCConvolutions
  Dots <- MCDots
  AnyBranches = FALSE
  MaxOps = 2
  MaxRank = 3
  MaxDim = 5
  XlaInputs <- MCXlaInputs
  XlaConstants <- MCXlaConstants
  AttentionValues <- MCAttentionValues
  AttentionOptions <- MCAttentionOptions
  Paddings <- MCPaddings
  Starts <- MCStarts
  MaxFeatures = 8
SPECIFICATION XlaSpec
INVARIANTS ShapesCover NoSpuriousReject ElementsKept OperandOrderIrrelevant
CHECK_DEADLOCK FALSE
