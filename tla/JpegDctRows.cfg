SPECIFICATION Spec
CHECK_DEADLOCK FALSE
CONSTANTS
  Sizes <- AllSizes
  DctMethods = {"islow"}
  Blocks <- TestBlocks
  Quants = {3, 18}
INVARIANT RecompressionIsStable
