SPECIFICATION Spec
CHECK_DEADLOCK FALSE
CONSTANTS
  Sizes <- AllSizes
  DctMethods = {"islow", "ifast"}
  Blocks <- TestBlocks
  Quants = {3, 18}
INVARIANTS
  SamplesAreTheDct
  SavedAgainUnchanged
