SPECIFICATION Spec
CHECK_DEADLOCK FALSE
CONSTANTS
  BlockSize = 2
  Sources <- SomeSources
  Requests <- SomeRequests
  Again <- PlainRequests
INVARIANTS
  TablesFitBlocks
  SamplesInPlace
  EdgesAsSequence
  CropOfTheWhole
  Reversible
  MarkersInOrder
