\* A ring of three pages over a tape of two cells
CONSTANTS
  CellCount = 2
  Colors = {0, 1}
  PageCapacity = 3
SPECIFICATION Spec
INVARIANT FinalPageIsFinal
PROPERTY WindowSpec
